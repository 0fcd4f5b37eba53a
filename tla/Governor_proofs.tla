-------------------------- MODULE Governor_proofs --------------------------
(***************************************************************************)
(* Proofs about the two users of the SQLite budget ledger, for any number  *)
(* of keys, resources, clients, threads, processes and faults and any      *)
(* amounts and capacities.                                                 *)
(*                                                                         *)
(* SqliteClients, the bare clients: every step is first reduced to one of  *)
(* seven table steps (LEMMA NextTables); the invariants are then proved    *)
(* about those.                                                            *)
(*                                                                         *)
(* Governor, with and without revalidation: registry, ledger and provider  *)
(* tell one story, an operation reaches the provider at most once, and the *)
(* governor implements BudgetedOperation.  The provider is assumed not to  *)
(* report FAILED for a key it never saw (~AbsenceIsFailure): with that     *)
(* answer the claims are false.  Every action changes at most one key, in  *)
(* one of the ways KeyStep lists.  A KeyStep keeps the records right       *)
(* (KeyOK) and the other threads undisturbed (Evolves); what is left for   *)
(* each action is its own thread.                                          *)
(***************************************************************************)
EXTENDS SqliteClients, Governor, TLAPS

\* The table steps, with the conditions the transactions check.
RegistersResource(r, c) == r \notin registered /\ RegisterResource(r, c)

InsertsRow(k, a, r) ==
    /\ ~HasRow(k) /\ r \in registered
    /\ reserved[r] + committed[r] + a <= capacity[r]
    /\ reserved' = [reserved EXCEPT ![r] = @ + a]
    /\ rows' = [rows EXCEPT ![k] = [state |-> "RESERVED", resource |-> r, amount |-> a]]
    /\ UNCHANGED <<registered, capacity, committed, compensations>>

ChargesRow(k) == HasRow(k) /\ Held(k) /\ Covered(reserved, k) /\ MoveToCommitted(k)
ReleasesRow(k) == HasRow(k) /\ Held(k) /\ Covered(reserved, k) /\ GiveBackReserved(k)
RefundsRow(k) ==
    /\ HasRow(k) /\ RowState(k) = "COMMITTED" /\ Covered(committed, k)
    /\ GiveBackCommitted(k)
ParksRow(k) ==
    /\ HasRow(k) /\ RowState(k) = "RESERVED"
    /\ rows' = [rows EXCEPT ![k].state = "UNKNOWN"]
    /\ UNCHANGED <<registered, capacity, reserved, committed, compensations>>
OwesRow(k) ==
    /\ RowState(k) = "RELEASED" /\ effect[k] = "happened"
    /\ compensations' = compensations \cup {k}
    /\ UNCHANGED <<registered, capacity, reserved, committed, rows>>

TableStep ==
    \/ UNCHANGED tables
    \/ \E r \in Resources, c \in Capacities : RegistersResource(r, c)
    \/ \E k \in Keys, a \in Amounts, r \in Resources : InsertsRow(k, a, r)
    \/ \E k \in Keys : \/ ChargesRow(k) \/ ReleasesRow(k) \/ RefundsRow(k) \/ ParksRow(k) \/ OwesRow(k)

\* A provider that answered "effect seen" had seen it.
AnswersTrue ==
    \A c \in Clients : call[c].pc = "apply" /\ call[c].ans = "YES"
        => effect[call[c].key] = "happened"

-----------------------------------------------------------------------------
\* The fields of a row, and the states a row without one cannot be in.
LEMMA HasRowFacts ==
    ASSUME TablesOK, NEW k \in Keys
    PROVE  /\ HasRow(k) => rows[k] \in Row
           /\ ~HasRow(k) => RowState(k) = "NONE"
           /\ RowState(k) \in RowStates => HasRow(k)
  BY DEF TablesOK, HasRow, RowState, NoRow, Row, RowStates

\* The single-transaction mutators are table steps.
LEMMA MutatorSteps ==
    ASSUME TablesOK, NEW k \in Keys
    PROVE  /\ Commit(k) => UNCHANGED tables \/ ChargesRow(k)
           /\ Release(k) => UNCHANGED tables \/ ReleasesRow(k)
           /\ Refund(k) => UNCHANGED tables \/ RefundsRow(k)
           /\ MarkUnknownTransaction(k) => UNCHANGED tables \/ ParksRow(k)
  <1>1. Commit(k) => UNCHANGED tables \/ ChargesRow(k)
    BY HasRowFacts DEF Commit, CommitResult, ChargesRow, Held, RowStates
  <1>2. Release(k) => UNCHANGED tables \/ ReleasesRow(k)
    BY HasRowFacts DEF Release, ReleaseResult, ReleasesRow, Held, RowStates
  <1>3. Refund(k) => UNCHANGED tables \/ RefundsRow(k)
    BY HasRowFacts DEF Refund, RefundResult, RefundsRow, RowStates
  <1>4. MarkUnknownTransaction(k) => UNCHANGED tables \/ ParksRow(k)
    BY HasRowFacts DEF MarkUnknownTransaction, ParksRow, RowStates
  <1> QED BY <1>1, <1>2, <1>3, <1>4

\* So is reserve, and so is the transaction that applies a provider's answer.
LEMMA ReserveSteps ==
    ASSUME TablesOK, NEW k \in Keys, NEW a \in Amounts, NEW r \in Resources,
           Reserve(k, a, r)
    PROVE  UNCHANGED tables \/ InsertsRow(k, a, r)
  <1>1. CASE HasRow(k)
    BY <1>1 DEF Reserve
  <1>2. CASE ~HasRow(k) /\ ReserveResult(k, a, r) = "RESERVED"
    <2>1. r \in registered /\ ~(reserved[r] + committed[r] + a > capacity[r])
      BY <1>2 DEF ReserveResult
    <2>2. reserved[r] + committed[r] + a <= capacity[r]
      BY <2>1, AmountsAssumption DEF TablesOK
    <2> QED BY <1>2, <2>1, <2>2 DEF Reserve, InsertsRow
  <1>3. CASE ~HasRow(k) /\ ReserveResult(k, a, r) # "RESERVED"
    BY <1>3 DEF Reserve
  <1> QED BY <1>1, <1>2, <1>3

LEMMA ReconcileSteps ==
    ASSUME TablesOK, NEW k \in Keys, NEW ans \in {"YES", "NO", "NONE"},
           ans = "YES" => effect[k] = "happened",
           ReconcileTransaction(k, ans)
    PROVE  UNCHANGED tables \/ ChargesRow(k) \/ ReleasesRow(k) \/ RefundsRow(k) \/ OwesRow(k)
  <1>1. CASE LateEffect(k, ans)
    BY <1>1 DEF ReconcileTransaction, LateEffect, Held, OwesRow
  <1>2. CASE ans = "YES" /\ Held(k) /\ Covered(reserved, k)
    BY <1>2, HasRowFacts DEF ReconcileTransaction, LateEffect, Held, ChargesRow, RowStates
  <1>3. CASE ans = "NO" /\ Held(k) /\ Covered(reserved, k)
    BY <1>3, HasRowFacts DEF ReconcileTransaction, LateEffect, Held, ReleasesRow, RowStates
  <1>4. CASE ans = "NO" /\ RowState(k) = "COMMITTED" /\ Covered(committed, k)
    BY <1>4, HasRowFacts DEF ReconcileTransaction, LateEffect, Held, RefundsRow, RowStates
  <1> QED BY <1>1, <1>2, <1>3, <1>4 DEF ReconcileTransaction

-----------------------------------------------------------------------------
\* The key of a call under way is a key.
LEMMA CallFacts ==
    ASSUME ClientsTypeOK, NEW c \in Clients
    PROVE  /\ call[c] \in Calls
           /\ call[c].pc # "idle" => call[c].key \in Keys
           /\ call[c].pc = "apply" => call[c].ans \in {"YES", "NO", "NONE"}
  BY DEF ClientsTypeOK, Calls, Idle

\* Whatever step is taken, the tables take one of the table steps.
LEMMA NextTables ==
    ASSUME ClientsTypeOK, AnswersTrue, [ClientsNext]_clientVars
    PROVE  TableStep
  <1> TablesOK BY DEF ClientsTypeOK
  <1>1. ASSUME NEW r \in Resources, NEW cap \in Capacities, ClientRegisters(r, cap)
        PROVE  TableStep
    BY <1>1 DEF ClientRegisters, RegisterResource, TableStep, RegistersResource, tables
  <1>2. ASSUME NEW k \in Keys, NEW a \in Amounts, NEW r \in Resources,
               ClientReserves(k, a, r)
        PROVE  TableStep
    BY <1>2, ReserveSteps DEF ClientReserves, TableStep
  <1>3. ASSUME NEW k \in Keys, ClientCommits(k) \/ ClientReleases(k) \/ ClientRefunds(k)
        PROVE  TableStep
    BY <1>3, MutatorSteps DEF ClientCommits, ClientReleases, ClientRefunds, TableStep
  <1>4. ASSUME NEW c \in Clients, ClientReconcilePark(c) PROVE TableStep
    <2>1. call[c].key \in Keys BY <1>4, CallFacts DEF ClientReconcilePark
    <2> QED BY <1>4, <2>1, MutatorSteps DEF ClientReconcilePark, TableStep
  <1>5. ASSUME NEW c \in Clients, ClientReconcileApply(c) PROVE TableStep
    <2> DEFINE k == call[c].key
               ans == call[c].ans
    <2>1. k \in Keys /\ ans \in {"YES", "NO", "NONE"}
      BY <1>5, CallFacts DEF ClientReconcileApply
    <2>2. ans = "YES" => effect[k] = "happened"
      BY <1>5 DEF ClientReconcileApply, AnswersTrue
    <2>3. ReconcileTransaction(k, ans)
      BY <1>5 DEF ClientReconcileApply
    <2> HIDE DEF k, ans
    <2> QED BY <2>1, <2>2, <2>3, ReconcileSteps DEF TableStep
  <1>6. ASSUME NEW c \in Clients,
               \/ \E k \in Keys : ClientReconcileRead(c, k)
               \/ ClientReconcileAsk(c) \/ ClientReconcileAskFails(c) \/ ClientDies(c)
        PROVE  TableStep
    BY <1>6 DEF ClientReconcileRead, ClientReconcileAsk, ClientReconcileAskFails, ClientDies, TableStep
  <1>7. CASE UNCHANGED clientVars \/ \E k \in Keys : EffectSettles(k)
    BY <1>7 DEF clientVars, EffectSettles, TableStep
  <1> QED
    BY <1>1, <1>2, <1>3, <1>4, <1>5, <1>6, <1>7 DEF ClientsNext

-----------------------------------------------------------------------------
(* The budget part of the inductive invariant: a resource that was never   *)
(* registered holds nothing, which is what makes its first registration    *)
(* respect I8 whatever the capacity.                                       *)
Unregistered == \A r \in Resources \ registered : reserved[r] = 0 /\ committed[r] = 0

\* A table step keeps the types, I8 and Unregistered.
LEMMA TableStepBudget ==
    ASSUME TablesOK, I8, Unregistered, TableStep
    PROVE  TablesOK' /\ I8' /\ Unregistered'
  <1> USE AmountsAssumption, CapacitiesAssumption
  <1>1. CASE UNCHANGED tables
    BY <1>1 DEF tables, TablesOK, I8, Unregistered
  <1>2. ASSUME NEW r \in Resources, NEW c \in Capacities, RegistersResource(r, c)
        PROVE  TablesOK' /\ I8' /\ Unregistered'
    BY <1>2 DEF RegistersResource, RegisterResource, TablesOK, I8, Unregistered
  <1>3. ASSUME NEW k \in Keys, NEW a \in Amounts, NEW r \in Resources, InsertsRow(k, a, r)
        PROVE  TablesOK' /\ I8' /\ Unregistered'
    <2>1. [state |-> "RESERVED", resource |-> r, amount |-> a] \in Row
      BY DEF Row, RowStates
    <2>2. TablesOK'
      BY <1>3, <2>1 DEF InsertsRow, TablesOK
    <2>3. I8' /\ Unregistered'
      BY <1>3 DEF InsertsRow, TablesOK, I8, Unregistered
    <2> QED BY <2>2, <2>3
  <1>4. ASSUME NEW k \in Keys, ChargesRow(k) \/ ReleasesRow(k) \/ RefundsRow(k)
        PROVE  TablesOK' /\ I8' /\ Unregistered'
    <2>1. rows[k] \in Row
      BY <1>4, HasRowFacts DEF ChargesRow, ReleasesRow, RefundsRow
    <2> DEFINE q == rows[k].resource
               n == rows[k].amount
    <2>2. q \in Resources /\ n \in Nat /\ n > 0
      <3>1. q \in Resources /\ n \in Amounts BY <2>1 DEF Row
      <3> HIDE DEF n
      <3> QED BY <3>1
    <2>3. \A s \in RowStates : [rows EXCEPT ![k].state = s] \in [Keys -> Row \cup {NoRow}]
      BY <2>1 DEF TablesOK, Row
    <2>4. CASE ChargesRow(k)
      <3>1. reserved[q] >= n BY <2>4 DEF ChargesRow, Covered
      <3>2. /\ reserved' = [reserved EXCEPT ![q] = @ - n]
            /\ committed' = [committed EXCEPT ![q] = @ + n]
            /\ rows' = [rows EXCEPT ![k].state = "COMMITTED"]
            /\ UNCHANGED <<registered, capacity, compensations>>
        BY <2>4 DEF ChargesRow, MoveToCommitted
      <3> HIDE DEF q, n
      <3>3. TablesOK'
        BY <3>1, <3>2, <2>2, <2>3 DEF TablesOK, RowStates
      <3>4. I8' /\ Unregistered'
        BY <3>1, <3>2, <2>2 DEF TablesOK, I8, Unregistered
      <3> QED BY <3>3, <3>4
    <2>5. CASE ReleasesRow(k)
      <3>1. reserved[q] >= n BY <2>5 DEF ReleasesRow, Covered
      <3>2. /\ reserved' = [reserved EXCEPT ![q] = @ - n]
            /\ rows' = [rows EXCEPT ![k].state = "RELEASED"]
            /\ UNCHANGED <<registered, capacity, committed, compensations>>
        BY <2>5 DEF ReleasesRow, GiveBackReserved
      <3> HIDE DEF q, n
      <3>3. TablesOK'
        BY <3>1, <3>2, <2>2, <2>3 DEF TablesOK, RowStates
      <3>4. I8' /\ Unregistered'
        BY <3>1, <3>2, <2>2 DEF TablesOK, I8, Unregistered
      <3> QED BY <3>3, <3>4
    <2>6. CASE RefundsRow(k)
      <3>1. committed[q] >= n BY <2>6 DEF RefundsRow, Covered
      <3>2. /\ committed' = [committed EXCEPT ![q] = @ - n]
            /\ rows' = [rows EXCEPT ![k].state = "REFUNDED"]
            /\ UNCHANGED <<registered, capacity, reserved, compensations>>
        BY <2>6 DEF RefundsRow, GiveBackCommitted
      <3> HIDE DEF q, n
      <3>3. TablesOK'
        BY <3>1, <3>2, <2>2, <2>3 DEF TablesOK, RowStates
      <3>4. I8' /\ Unregistered'
        BY <3>1, <3>2, <2>2 DEF TablesOK, I8, Unregistered
      <3> QED BY <3>3, <3>4
    <2> QED BY <1>4, <2>4, <2>5, <2>6
  <1>5. ASSUME NEW k \in Keys, ParksRow(k) \/ OwesRow(k)
        PROVE  TablesOK' /\ I8' /\ Unregistered'
    <2>1. CASE ParksRow(k)
      <3>1. rows[k] \in Row BY <2>1, HasRowFacts DEF ParksRow
      <3>2. [rows EXCEPT ![k].state = "UNKNOWN"] \in [Keys -> Row \cup {NoRow}]
        BY <3>1 DEF TablesOK, Row, RowStates
      <3> QED BY <2>1, <3>2 DEF ParksRow, TablesOK, I8, Unregistered
    <2>2. CASE OwesRow(k)
      BY <2>2 DEF OwesRow, TablesOK, I8, Unregistered
    <2> QED BY <1>5, <2>1, <2>2
  <1> QED BY <1>1, <1>2, <1>3, <1>4, <1>5 DEF TableStep

-----------------------------------------------------------------------------
\* What a table step does to one row: nothing, or one of RowMoveStates.
LEMMA TableStepRows ==
    ASSUME TablesOK, TableStep, NEW j \in Keys, rows'[j] # rows[j]
    PROVE  /\ <<RowState(j), rows'[j].state>> \in RowMoveStates
           /\ HasRow(j) => /\ rows'[j].amount = rows[j].amount
                           /\ rows'[j].resource = rows[j].resource
  <1> DEFINE Moved == /\ <<RowState(j), rows'[j].state>> \in RowMoveStates
                      /\ HasRow(j) => /\ rows'[j].amount = rows[j].amount
                                      /\ rows'[j].resource = rows[j].resource
  <1>0. \A k \in Keys : \A x : rows' = [rows EXCEPT ![k] = x] => j = k /\ rows'[j] = x
    BY DEF TablesOK
  <1>1. ASSUME NEW k \in Keys, NEW a \in Amounts, NEW r \in Resources, InsertsRow(k, a, r)
        PROVE  Moved
    <2>1. j = k /\ rows'[j] = [state |-> "RESERVED", resource |-> r, amount |-> a]
      BY <1>0, <1>1 DEF InsertsRow
    <2>2. ~HasRow(j) /\ RowState(j) = "NONE"
      BY <1>1, <2>1, HasRowFacts DEF InsertsRow
    <2> QED BY <2>1, <2>2 DEF RowMoveStates
  <1>2. ASSUME NEW k \in Keys,
               ChargesRow(k) \/ ReleasesRow(k) \/ RefundsRow(k) \/ ParksRow(k)
        PROVE  Moved
    <2>1. rows[k] \in Row
      BY <1>2, HasRowFacts DEF ChargesRow, ReleasesRow, RefundsRow, ParksRow
    <2>2. \A s \in RowStates : rows' = [rows EXCEPT ![k].state = s]
            => /\ j = k /\ rows'[j].state = s
               /\ rows'[j].amount = rows[j].amount
               /\ rows'[j].resource = rows[j].resource
      BY <2>1 DEF TablesOK, Row
    <2>3. CASE ChargesRow(k)
      BY <2>2, <2>3 DEF ChargesRow, Held, MoveToCommitted, RowStates, RowMoveStates, RowState
    <2>4. CASE ReleasesRow(k)
      BY <2>2, <2>4 DEF ReleasesRow, Held, GiveBackReserved, RowStates, RowMoveStates, RowState
    <2>5. CASE RefundsRow(k)
      BY <2>2, <2>5 DEF RefundsRow, GiveBackCommitted, RowStates, RowMoveStates, RowState
    <2>6. CASE ParksRow(k)
      BY <2>2, <2>6 DEF ParksRow, RowStates, RowMoveStates, RowState
    <2> QED BY <1>2, <2>3, <2>4, <2>5, <2>6
  <1>3. UNCHANGED rows => FALSE
    OBVIOUS
  <1> QED
    BY <1>1, <1>2, <1>3
    DEF TableStep, tables, RegistersResource, RegisterResource, OwesRow

\* The states that no later step leaves, and the debts that none cancels.
LEMMA Settled ==
    ASSUME TablesOK, TableStep, NEW j \in Keys
    PROVE  /\ RowState(j) = "RELEASED" => rows'[j].state = "RELEASED"
           /\ RowState(j) = "REFUNDED" => rows'[j].state = "REFUNDED"
           /\ RowState(j) = "COMMITTED" => rows'[j].state \in {"COMMITTED", "REFUNDED"}
           /\ compensations \subseteq compensations'
  <1>1. compensations \subseteq compensations'
    BY DEF TableStep, tables, RegistersResource, RegisterResource, InsertsRow, ChargesRow, MoveToCommitted,
           ReleasesRow, GiveBackReserved, RefundsRow, GiveBackCommitted, ParksRow, OwesRow
  <1>2. CASE rows'[j] = rows[j]
    BY <1>1, <1>2 DEF RowState
  <1>3. CASE rows'[j] # rows[j]
    BY <1>1, <1>3, TableStepRows DEF RowState, RowMoveStates
  <1> QED BY <1>2, <1>3

-----------------------------------------------------------------------------
(* The inductive invariant.  I8 needs Unregistered; a compensation is      *)
(* justified only if the answer still travelling to its transaction is     *)
(* true, hence AnswersTrue.                                                *)
ClientsInv ==
    /\ ClientsTypeOK
    /\ I8
    /\ Unregistered
    /\ AnswersTrue
    /\ ReconcileVerdictBacked
    /\ CompensationJustified

LEMMA ClientsInitInv == ClientsInit => ClientsInv
  <1> SUFFICES ASSUME ClientsInit PROVE ClientsInv OBVIOUS
  <1>1. ClientsTypeOK BY DEF ClientsInit, TablesInit, ClientsTypeOK, TablesOK, Effects, Calls
  <1>2. I8 /\ Unregistered BY DEF ClientsInit, TablesInit, I8, Unregistered
  <1>3. AnswersTrue /\ ReconcileVerdictBacked
    BY DEF ClientsInit, Idle, AnswersTrue, ReconcileVerdictBacked
  <1>4. CompensationJustified BY DEF ClientsInit, TablesInit, CompensationJustified
  <1> QED BY <1>1, <1>2, <1>3, <1>4 DEF ClientsInv

\* What one step does to the effects and to the calls.
LEMMA EffectStep ==
    ASSUME ClientsTypeOK, [ClientsNext]_clientVars
    PROVE  /\ effect' \in [Keys -> Effects]
           /\ \A k \in Keys : effect[k] = "happened" => effect'[k] = "happened"
  <1>1. CASE UNCHANGED effect
    BY <1>1 DEF ClientsTypeOK
  <1>2. ASSUME NEW k \in Keys, EffectSettles(k)
        PROVE  /\ effect' \in [Keys -> Effects]
               /\ \A j \in Keys : effect[j] = "happened" => effect'[j] = "happened"
    BY <1>2 DEF EffectSettles, ClientsTypeOK, Effects
  <1> QED
    BY <1>1, <1>2
    DEF ClientsNext, clientVars, ClientRegisters, ClientReserves, ClientCommits, ClientReleases,
        ClientRefunds, ClientReconcileRead, ClientReconcilePark, ClientReconcileAsk, ClientReconcileAskFails,
        ClientReconcileApply, ClientDies

LEMMA ClientsNextInv == ClientsInv /\ [ClientsNext]_clientVars => ClientsInv'
  <1> SUFFICES ASSUME ClientsInv, [ClientsNext]_clientVars PROVE ClientsInv' OBVIOUS
  <1> USE DEF ClientsInv
  <1>1. TableStep BY NextTables
  <1>2. TablesOK BY DEF ClientsTypeOK
  <1>3. TablesOK' /\ I8' /\ Unregistered' BY <1>1, <1>2, TableStepBudget
  <1>4. CompensationJustified'
    <2> SUFFICES ASSUME NEW k \in compensations'
                 PROVE  RowState(k)' = "RELEASED" /\ effect'[k] = "happened"
      BY DEF CompensationJustified
    <2>1. k \in Keys BY <1>3 DEF TablesOK
    <2>2. CASE k \in compensations
      BY <2>1, <2>2, <1>1, <1>2, Settled, EffectStep DEF CompensationJustified, RowState
    <2>3. CASE k \notin compensations
      <3>1. OwesRow(k)
        BY <1>1, <2>1, <2>3
        DEF TableStep, tables, RegistersResource, RegisterResource, InsertsRow, ChargesRow, MoveToCommitted,
            ReleasesRow, GiveBackReserved, RefundsRow, GiveBackCommitted, ParksRow, OwesRow
      <3> QED BY <3>1, <2>1, <1>1, <1>2, Settled, EffectStep DEF OwesRow, RowState
    <2> QED BY <2>2, <2>3
  <1> DEFINE Answer(d) == d.pc = "apply" /\ d.ans = "YES" => effect'[d.key] = "happened"
             Verdict(d) == d.pc = "done" =>
               /\ d.status = "CONFIRMED" => rows'[d.key].state \in {"COMMITTED", "REFUNDED"}
               /\ d.status = "FAILED" => rows'[d.key].state \in {"RELEASED", "REFUNDED"}
               /\ d.status = "RECONCILE_CONFLICT" /\ d.observed
                    => d.key \in compensations' \/ rows'[d.key].state = "REFUNDED"
             CallOK(d) == d \in Calls /\ Answer(d) /\ Verdict(d)
  <1>5. \A c \in Clients : CallOK(call[c])
    <2> SUFFICES ASSUME NEW c \in Clients PROVE CallOK(call[c]) OBVIOUS
    <2>1. call[c] \in Calls BY CallFacts
    <2>2. CASE call[c].pc = "idle" BY <2>1, <2>2
    <2>3. CASE call[c].pc # "idle"
      <3>1. call[c].key \in Keys BY <2>3, CallFacts
      <3>2. Answer(call[c]) BY <3>1, EffectStep DEF AnswersTrue
      <3>3. Verdict(call[c])
        <4> SUFFICES ASSUME call[c].pc = "done" PROVE Verdict(call[c]) OBVIOUS
        <4> DEFINE k == call[c].key
        <4>1. /\ call[c].status = "CONFIRMED" => RowState(k) \in {"COMMITTED", "REFUNDED"}
              /\ call[c].status = "FAILED" => RowState(k) \in {"RELEASED", "REFUNDED"}
              /\ call[c].status = "RECONCILE_CONFLICT" /\ call[c].observed
                   => k \in compensations \/ RowState(k) = "REFUNDED"
          BY DEF ReconcileVerdictBacked
        <4>2. /\ RowState(k) = "RELEASED" => rows'[k].state = "RELEASED"
              /\ RowState(k) = "REFUNDED" => rows'[k].state = "REFUNDED"
              /\ RowState(k) = "COMMITTED" => rows'[k].state \in {"COMMITTED", "REFUNDED"}
              /\ compensations \subseteq compensations'
          BY <3>1, <1>1, <1>2, Settled
        <4> QED BY <4>1, <4>2
      <3> QED BY <2>1, <3>2, <3>3
    <2> QED BY <2>2, <2>3
  <1> DEFINE Goal == call' \in [Clients -> Calls] /\ \A c \in Clients : CallOK(call'[c])
  <1>6. ASSUME UNCHANGED call PROVE Goal
    BY <1>5, <1>6 DEF ClientsTypeOK
  <1>7. ASSUME NEW c \in Clients, NEW d, CallOK(d), call' = [call EXCEPT ![c] = d]
        PROVE  Goal
    <2>1. call' \in [Clients -> Calls] BY <1>7 DEF ClientsTypeOK
    <2>2. \A e \in Clients : call'[e] = d \/ call'[e] = call[e] BY <1>7 DEF ClientsTypeOK
    <2> HIDE DEF CallOK
    <2> QED BY <2>1, <2>2, <1>5, <1>7
  <1>8. ASSUME NEW c \in Clients, NEW k \in Keys, NEW st, NEW o \in BOOLEAN,
               \/ st \in {"NOT_FOUND", "UNRESOLVED", "ERROR"}
               \/ st = "CONFIRMED" /\ rows'[k].state \in {"COMMITTED", "REFUNDED"}
               \/ st = "FAILED" /\ rows'[k].state \in {"RELEASED", "REFUNDED"}
               \/ st = "RECONCILE_CONFLICT"
                    /\ (o => k \in compensations' \/ rows'[k].state = "REFUNDED"),
               Answered(c, k, st, o)
        PROVE  Goal
    <2> DEFINE d == [pc |-> "done", key |-> k, status |-> st, observed |-> o]
    <2>1. d \in Calls BY <1>8 DEF Calls
    <2>2. Answer(d) /\ Verdict(d) BY <1>8
    <2>3. call' = [call EXCEPT ![c] = d] BY <1>8 DEF Answered
    <2>4. CallOK(d) BY <2>1, <2>2
    <2> HIDE DEF d, CallOK, Goal
    <2> QED BY <2>3, <2>4, <1>7
  <1>9. ASSUME NEW c \in Clients, NEW k \in Keys, ClientReconcileRead(c, k) PROVE Goal
    <2>1. rows' = rows BY <1>9 DEF ClientReconcileRead, tables
    <2>2. \/ Answered(c, k, "NOT_FOUND", FALSE)
          \/ Answered(c, k, "UNRESOLVED", FALSE)
          \/ RowState(k) = "COMMITTED" /\ Answered(c, k, "CONFIRMED", TRUE)
          \/ RowState(k) = "RELEASED" /\ Answered(c, k, "FAILED", FALSE)
          \/ \E w \in {"ask", "park"} : call' = [call EXCEPT ![c] = [pc |-> w, key |-> k]]
      BY <1>9 DEF ClientReconcileRead
    <2>3. ASSUME NEW w \in {"ask", "park"}, call' = [call EXCEPT ![c] = [pc |-> w, key |-> k]]
          PROVE  Goal
      <3>1. CallOK([pc |-> w, key |-> k]) BY DEF Calls
      <3> HIDE DEF CallOK, Goal
      <3> QED BY <2>3, <3>1, <1>7
    <2> HIDE DEF Goal
    <2> QED BY <2>1, <2>2, <2>3, <1>8 DEF RowState
  <1>10. ASSUME NEW c \in Clients, ClientReconcilePark(c) \/ ClientReconcileAskFails(c) PROVE Goal
    <2>1. call[c].key \in Keys BY <1>10, CallFacts DEF ClientReconcilePark, ClientReconcileAskFails
    <2> HIDE DEF Goal
    <2> QED BY <1>10, <2>1, <1>8 DEF ClientReconcilePark, ClientReconcileAskFails
  <1>11. ASSUME NEW c \in Clients, ClientDies(c) PROVE Goal
    <2>1. CallOK(Idle) BY DEF Calls, Idle
    <2> HIDE DEF CallOK, Goal
    <2> QED BY <1>11, <2>1, <1>7 DEF ClientDies
  <1>12. ASSUME NEW c \in Clients, ClientReconcileAsk(c) PROVE Goal
    <2>1. call[c].key \in Keys BY <1>12, CallFacts DEF ClientReconcileAsk
    <2>2. PICK a \in {"YES", "NO", "NONE"} :
            /\ a = "YES" => effect[call[c].key] = "happened"
            /\ call' = [call EXCEPT ![c] = [pc |-> "apply", key |-> call[c].key, ans |-> a]]
      BY <1>12 DEF ClientReconcileAsk
    <2>3. effect' = effect BY <1>12 DEF ClientReconcileAsk
    <2>4. CallOK([pc |-> "apply", key |-> call[c].key, ans |-> a])
      BY <2>1, <2>2, <2>3 DEF Calls
    <2> HIDE DEF CallOK, Goal
    <2> QED BY <2>2, <2>4, <1>7
  <1>13. ASSUME NEW c \in Clients, ClientReconcileApply(c) PROVE Goal
    <2> DEFINE k == call[c].key
               ans == call[c].ans
               st == ReconcileResult(k, ans)
    <2>1. k \in Keys /\ ans \in {"YES", "NO", "NONE"}
      BY <1>13, CallFacts DEF ClientReconcileApply
    <2>2. ReconcileTransaction(k, ans) /\ Answered(c, k, st, ans = "YES")
      BY <1>13 DEF ClientReconcileApply
    <2>3. rows' \in [Keys -> Row \cup {NoRow}] BY <1>3 DEF TablesOK
    <2> HIDE DEF k, ans
    <2>4. CASE LateEffect(k, ans)
      <3>1. k \in compensations'
        BY <2>2, <2>4 DEF ReconcileTransaction, LateEffect, Held
      <3>2. st = "RECONCILE_CONFLICT"
        BY <2>4 DEF ReconcileResult, LateEffect, Held
      <3> HIDE DEF Goal, st
      <3> QED BY <2>1, <2>2, <3>1, <3>2, <1>8
    <2>5. CASE Held(k) /\ Covered(reserved, k) /\ ans # "NONE"
      <3>1. rows[k] \in Row BY <1>2, <2>1, <2>5, HasRowFacts DEF Held, RowStates
      <3>2. \A x : rows' = [rows EXCEPT ![k].state = x] => rows'[k].state = x
        BY <3>1, <2>1, <1>2 DEF TablesOK, Row
      <3>3. CASE ans = "YES"
        <4>1. st = "CONFIRMED" BY <2>5, <3>3 DEF ReconcileResult, Held
        <4>2. MoveToCommitted(k) BY <2>2, <2>5, <3>3 DEF ReconcileTransaction, LateEffect, Held
        <4>3. rows'[k].state = "COMMITTED" BY <3>2, <4>2 DEF MoveToCommitted
        <4> HIDE DEF Goal, st
        <4> QED BY <2>1, <2>2, <4>1, <4>3, <1>8
      <3>4. CASE ans = "NO"
        <4>1. st = "FAILED" BY <2>5, <3>4 DEF ReconcileResult, Held
        <4>2. GiveBackReserved(k) BY <2>2, <2>5, <3>4 DEF ReconcileTransaction, LateEffect, Held
        <4>3. rows'[k].state = "RELEASED" BY <3>2, <4>2 DEF GiveBackReserved
        <4> HIDE DEF Goal, st
        <4> QED BY <2>1, <2>2, <4>1, <4>3, <1>8
      <3> QED BY <2>1, <2>5, <3>3, <3>4
    <2>6. CASE ans = "NO" /\ RowState(k) = "COMMITTED" /\ Covered(committed, k)
      <3>1. st = "FAILED" BY <2>6 DEF ReconcileResult, Held
      <3>2. GiveBackCommitted(k) BY <2>2, <2>6 DEF ReconcileTransaction, LateEffect, Held
      <3>3. rows[k] \in Row BY <1>2, <2>1, <2>6, HasRowFacts DEF RowStates
      <3>4. rows'[k].state = "REFUNDED"
        BY <3>2, <3>3, <2>1, <1>2 DEF GiveBackCommitted, TablesOK, Row
      <3> HIDE DEF Goal, st
      <3> QED BY <2>1, <2>2, <3>1, <3>4, <1>8
    <2>7. CASE /\ ~LateEffect(k, ans)
               /\ ~(Held(k) /\ Covered(reserved, k) /\ ans # "NONE")
               /\ ~(ans = "NO" /\ RowState(k) = "COMMITTED" /\ Covered(committed, k))
      <3>1. rows' = rows
        BY <2>2, <2>7 DEF ReconcileTransaction, tables
      <3>2. \/ st \in {"UNRESOLVED", "ERROR"}
            \/ st = "CONFIRMED" /\ RowState(k) = "COMMITTED"
            \/ st = "FAILED" /\ RowState(k) = "RELEASED"
            \/ st = "RECONCILE_CONFLICT" /\ RowState(k) = "REFUNDED"
        BY <2>1, <2>7 DEF ReconcileResult, LateEffect
      <3> HIDE DEF Goal, st
      <3> QED BY <2>1, <2>2, <3>1, <3>2, <1>8 DEF RowState
    <2> QED BY <2>4, <2>5, <2>6, <2>7
  <1>14. Goal
    <2> HIDE DEF Goal
    <2> QED
    BY <1>6, <1>9, <1>10, <1>11, <1>12, <1>13
    DEF ClientsNext, clientVars, ClientRegisters, ClientReserves, ClientCommits, ClientReleases,
        ClientRefunds, EffectSettles
  <1>15. ClientsTypeOK' BY <1>3, <1>14, EffectStep DEF ClientsTypeOK
  <1>16. AnswersTrue' BY <1>14 DEF AnswersTrue
  <1>17. ReconcileVerdictBacked' BY <1>14 DEF ReconcileVerdictBacked, RowState
  <1> QED BY <1>3, <1>4, <1>15, <1>16, <1>17

-----------------------------------------------------------------------------
(* ClientsInv is an invariant of the specification.                              *)
THEOREM ClientsInvariant == ClientsSpec => []ClientsInv
  BY ClientsInitInv, ClientsNextInv, PTL DEF ClientsSpec

(* Type correctness: in particular no transaction takes a stored total     *)
(* below zero.                                                             *)
THEOREM ClientsTypeCorrect == ClientsSpec => []ClientsTypeOK
  BY ClientsInvariant, PTL DEF ClientsInv

(* I8: however many processes share the file, the totals of a resource     *)
(* never exceed its capacity.                                              *)
THEOREM BudgetNeverExceeded == ClientsSpec => []I8
  BY ClientsInvariant, PTL DEF ClientsInv

(* Every answer reconcile() ever returned stays backed by the tables.      *)
THEOREM VerdictsStayBacked == ClientsSpec => []ReconcileVerdictBacked
  BY ClientsInvariant, PTL DEF ClientsInv

(* A compensation record always stands for an effect that happened on a    *)
(* reservation that had been given back.                                   *)
THEOREM CompensationsJustified == ClientsSpec => []CompensationJustified
  BY ClientsInvariant, PTL DEF ClientsInv

(* Rows only move forward, although reconcile acts on an old read.         *)
THEOREM RowsOnlyMoveForward == ClientsSpec => RowsMoveForward
  <1> DEFINE Forward == \A k \in Keys : rows'[k] # rows[k] =>
               /\ <<RowState(k), rows'[k].state>> \in RowMoveStates
               /\ HasRow(k) => /\ rows'[k].amount = rows[k].amount
                               /\ rows'[k].resource = rows[k].resource
  <1>1. ClientsInv /\ [ClientsNext]_clientVars => [Forward]_clientVars
    <2> SUFFICES ASSUME ClientsInv, [ClientsNext]_clientVars PROVE Forward OBVIOUS
    <2>1. TableStep BY NextTables DEF ClientsInv
    <2>2. TablesOK BY DEF ClientsInv, ClientsTypeOK
    <2> QED BY <2>1, <2>2, TableStepRows
  <1> QED BY <1>1, ClientsInvariant, PTL DEF ClientsSpec, RowsMoveForward

-----------------------------------------------------------------------------
\* A table step is a step of the protocol; a recorded debt is invisible to it.
LEMMA TableStepProtocol ==
    ASSUME TableStep
    PROVE  [Protocol!Next]_(Protocol!vars)
  <1>1. CASE UNCHANGED tables
    BY <1>1 DEF tables, Protocol!vars
  <1>2. ASSUME NEW r \in Resources, NEW c \in Capacities, RegistersResource(r, c)
        PROVE  Protocol!Next
    BY <1>2 DEF RegistersResource, RegisterResource, Protocol!Next, Protocol!Register
  <1>3. ASSUME NEW k \in Keys, NEW a \in Amounts, NEW r \in Resources, InsertsRow(k, a, r)
        PROVE  Protocol!Next
    <2>1. Protocol!Reserve(k, a, r)
      BY <1>3 DEF InsertsRow, HasRow, Protocol!Reserve
    <2> QED BY <2>1 DEF Protocol!Next
  <1>4. ASSUME NEW k \in Keys, ChargesRow(k) \/ ReleasesRow(k) \/ RefundsRow(k) \/ ParksRow(k)
        PROVE  Protocol!Next
    <2>1. ChargesRow(k) => Protocol!Commit(k)
      BY DEF ChargesRow, Held, RowState, MoveToCommitted, Protocol!Commit, Protocol!Held,
             Protocol!Move
    <2>2. ReleasesRow(k) => Protocol!Release(k)
      BY DEF ReleasesRow, Held, RowState, GiveBackReserved, Protocol!Release, Protocol!Held,
             Protocol!Move
    <2>3. RefundsRow(k) => Protocol!Refund(k)
      BY DEF RefundsRow, RowState, GiveBackCommitted, Protocol!Refund, Protocol!Move
    <2>4. ParksRow(k) => Protocol!Park(k)
      BY DEF ParksRow, RowState, Protocol!Park, Protocol!Move
    <2> QED BY <1>4, <2>1, <2>2, <2>3, <2>4 DEF Protocol!Next
  <1>5. ASSUME NEW k \in Keys, OwesRow(k) PROVE UNCHANGED Protocol!vars
    BY <1>5 DEF OwesRow, Protocol!vars
  <1> QED BY <1>1, <1>2, <1>3, <1>4, <1>5 DEF TableStep

(* The SQLite adapter implements the ConsensusBackend protocol: every step *)
(* of every client, the unlocked reconcile included, is one atomic step of *)
(* the protocol or changes nothing it can see.                             *)
THEOREM ImplementsTheProtocol == ClientsSpec => ImplementsProtocol
  <1>1. ClientsInit => Protocol!Init
    BY DEF ClientsInit, TablesInit, Protocol!Init
  <1>2. ClientsInv /\ [ClientsNext]_clientVars => [Protocol!Next]_(Protocol!vars)
    BY NextTables, TableStepProtocol DEF ClientsInv
  <1> QED
    BY <1>1, <1>2, ClientsInvariant, PTL DEF ClientsSpec, ImplementsProtocol, Protocol!Spec

-----------------------------------------------------------------------------
Sums == INSTANCE ConsensusBackend_proofs

(* "The budget counters and reservation lifecycle change in the same       *)
(* transaction": for any number of clients and keys, and although a        *)
(* reconcile decides on a stale read, the stored totals are at every       *)
(* moment the sums over the rows.                                          *)
THEOREM TotalsAreSums == ClientsSpec => []LedgerAgrees
  <1>1. ClientsSpec => Protocol!Spec
    BY ImplementsTheProtocol DEF ImplementsProtocol
  <1>2. Protocol!Spec => Sums!Spec
    <2>1. Protocol!Init => Sums!Init
      BY DEF Protocol!Init, Sums!Init
    <2>2. [Protocol!Next]_(Protocol!vars) => [Sums!Next]_(Sums!vars)
      BY DEF Protocol!Next, Protocol!vars, Protocol!Register, Protocol!Reserve, Protocol!Park,
             Protocol!Commit, Protocol!Release, Protocol!Refund, Protocol!Held, Protocol!Move,
             Sums!Next, Sums!vars, Sums!Register, Sums!Reserve, Sums!Park,
             Sums!Commit, Sums!Release, Sums!Refund, Sums!Held, Sums!Move
    <2> QED BY <2>1, <2>2, PTL DEF Protocol!Spec, Sums!Spec
  <1>3. Sums!ProtocolAssumption
    BY AmountsAssumption DEF Sums!ProtocolAssumption, NoRow
  <1>4. Sums!Spec => []Sums!LedgerAgrees
    BY <1>3, Sums!CountersAreSums
  <1>5. Sums!LedgerAgrees => LedgerAgrees
    BY DEF LedgerAgrees, Sums!LedgerAgrees, Sums!Spent, Sums!SumFunction, Sums!SumFunctionOnSet,
           Sums!FoldFunctionOnSet, Sums!MapThenFoldSet, Protocol!LedgerAgrees, Protocol!Spent,
           Protocol!SumFunction, Protocol!SumFunctionOnSet, Protocol!FoldFunctionOnSet,
           Protocol!MapThenFoldSet
  <1> QED BY <1>1, <1>2, <1>4, <1>5, PTL

-----------------------------------------------------------------------------
(* The governor.                                                           *)
\* Threads inside adjudicate, inside dispatch before the provider call, and
\* under the settlement lock of their key.
AdmitPCs == {"compose", "reserve", "rflags", "claim"}
DispatchPCs == {"mark", "commit", "cflags", "exec"}
LockPCs == {"rflags", "settle", "unflag", "failed", "cflags", "kflags", "confirmed",
            "compensate", "resolve", "hrelease", "hflags", "hfinal"}

\* The states from which an operation does not become RESERVED again.
Claimed == {"DISPATCHING", "UNKNOWN", "CONFIRMED", "FAILED"}
Returned(k) == RowState(k) \in {"RELEASED", "REFUNDED"}
HoldsNothing(k) == ~HasRow(k) \/ Returned(k)

\* Record, ledger row, provider and call count of one operation.
FlagsOK(k) ==
    /\ IF rec[k].bound THEN HasRow(k) ELSE ~rec[k].reserved /\ ~rec[k].committed
    /\ RowState(k) = "RESERVED" /\ rec[k].bound => rec[k].reserved
    /\ RowState(k) = "COMMITTED" => rec[k].bound /\ (rec[k].reserved \/ rec[k].committed)
    /\ rec[k].committed => RowState(k) \in {"COMMITTED", "REFUNDED"}
    /\ State(k) \notin {"NONE", "CREATED", "FAILED"} => rec[k].bound

KeyOK(k) ==
    /\ FlagsOK(k)
    /\ RowState(k) # "UNKNOWN"
    /\ State(k) = "NONE" => ~HasRow(k)
    /\ State(k) = "FAILED" => HoldsNothing(k)
    /\ State(k) = "CONFIRMED" => prov[k] = "effect"
    /\ RowState(k) = "COMMITTED" \/ calls[k] # 0 => State(k) \in Claimed
    /\ IF prov[k] = "none" THEN calls[k] = 0 ELSE calls[k] = 1
    /\ prov[k] \in {"pending", "effect"} => RowState(k) = "COMMITTED"
    /\ prov[k] = "failed" => RowState(k) \in {"COMMITTED", "REFUNDED"}

\* What a thread may rely on at each of its program counters.
ThreadOK(t) ==
    LET l == th[t]
        k == th[t].key
    IN  IF l.pc = "idle" THEN l = IdleThread ELSE
        /\ k \in Keys /\ State(k) # "NONE"
        /\ l.pc \in LockPCs => lock[k] = t
        /\ l.auth => prov[k] = "failed"
        /\ l.pc \in AdmitPCs => State(k) \in {"CREATED", "FAILED"}
        /\ l.pc \in {"compose", "reserve"} => ~HasRow(k)
        /\ l.pc \in {"reserve", "rflags"} => l.ext /\ l.arg \in {"PASS", "HOLD"}
        /\ l.pc = "rflags" => RowState(k) = "RESERVED"
        /\ l.pc = "claim" => l.arg \in {"PASS", "HOLD", "VETO"}
        /\ l.pc = "claim" /\ ~l.ext => ~HasRow(k) /\ l.arg = "VETO"
        /\ l.pc = "claim" /\ l.arg # "VETO" => rec[k].bound
        /\ l.pc = "settle" /\ ~l.owns => HoldsNothing(k)
        /\ l.pc \in {"unflag", "failed", "hflags", "hfinal"} => Returned(k)
        /\ l.pc \in DispatchPCs => State(k) \in Claimed /\ calls[k] = 0
        /\ l.pc \in {"cflags", "exec"} => RowState(k) = "COMMITTED"
        /\ l.pc \in {"confirm", "kflags", "confirmed"} => prov[k] = "effect"
        /\ l.pc \in {"apply", "compensate"} => /\ l.arg = "CONFIRMED" => prov[k] = "effect"
                                               /\ l.arg = "FAILED" => prov[k] = "failed"
        /\ l.pc = "apply" => l.arg \in {"CONFIRMED", "FAILED", "UNRESOLVED"}
        /\ l.pc = "compensate" => l.arg \in {"CONFIRMED", "FAILED"}
        /\ l.pc = "resolve" => /\ rec[k].bound /\ RowState(k) # "COMMITTED"
                               /\ State(k) # "CREATED"

\* One thread admits a key, and one dispatches it.
Within(t, k, pcs) == t \in Threads /\ th[t].pc \in pcs /\ th[t].key = k
Exclusive ==
    \A k \in Keys, t, u \in Threads :
        \/ Within(t, k, AdmitPCs) /\ Within(u, k, AdmitPCs)
        \/ Within(t, k, DispatchPCs) /\ Within(u, k, DispatchPCs)
        => t = u

GovernorInv ==
    /\ TypeOK
    /\ \A k \in Keys : KeyOK(k)
    /\ \A t \in Threads : ThreadOK(t)
    /\ Exclusive

-----------------------------------------------------------------------------
(* The ways an action of thread a (NoThread for a caller without one) can  *)
(* change what is durable about key k.                                     *)
SameFlags(k) == /\ rec'[k].reserved = rec[k].reserved /\ rec'[k].committed = rec[k].committed
                /\ rec'[k].bound = rec[k].bound
SameRow(k) == rows'[k] = rows[k]
SameOutside(k) == prov'[k] = prov[k] /\ calls'[k] = calls[k]
SameState(k) == rec'[k].state = rec[k].state
RowMoves(a, k, from, to) ==
    /\ lock[k] \in {NoThread, a} /\ RowState(k) = from /\ rows'[k].state = to
    /\ SameState(k) /\ SameFlags(k) /\ SameOutside(k)

Stays(k) == SameState(k) /\ SameFlags(k) /\ SameRow(k) /\ SameOutside(k)
Registers(k) ==
    /\ State(k) = "NONE" /\ rec'[k].state = "CREATED"
    /\ SameFlags(k) /\ SameRow(k) /\ SameOutside(k)
Presets(k) ==
    /\ State(k) = "NONE" /\ rec'[k].state = "HOLD"
    /\ rec'[k].reserved = TRUE /\ rec'[k].committed = rec[k].committed /\ rec'[k].bound = TRUE
    /\ rows'[k].state = "RESERVED" /\ SameOutside(k)
Moves(a, k, s) ==
    /\ s \in Legal[State(k)] /\ rec'[k].state = s
    /\ State(k) = "CREATED" => s = "FAILED" \/ (rec[k].bound /\ Within(a, k, AdmitPCs))
    /\ s = "FAILED" => HoldsNothing(k)
    /\ s = "CONFIRMED" => prov[k] = "effect"
    /\ SameFlags(k) /\ SameRow(k) /\ SameOutside(k)
Flags(k, res, com) ==
    /\ RowState(k) \in (IF res THEN {"RESERVED"} ELSE IF com THEN {"COMMITTED"}
                                                 ELSE {"RELEASED", "REFUNDED"})
    /\ rec'[k].reserved = res /\ rec'[k].committed = com /\ rec'[k].bound = TRUE
    /\ SameState(k) /\ SameRow(k) /\ SameOutside(k)
Inserts(a, k) ==
    Within(a, k, AdmitPCs) /\ State(k) = "CREATED" /\ RowMoves(a, k, "NONE", "RESERVED")
Charges(a, k) == State(k) = "DISPATCHING" /\ RowMoves(a, k, "RESERVED", "COMMITTED")
Releases(a, k) == RowMoves(a, k, "RESERVED", "RELEASED")
Refunds(a, k) == prov[k] = "failed" /\ RowMoves(a, k, "COMMITTED", "REFUNDED")
Executes(a, k) ==
    /\ Within(a, k, DispatchPCs) /\ RowState(k) = "COMMITTED" /\ prov[k] = "none"
    /\ prov'[k] \in {"pending", "effect", "failed"} /\ calls'[k] = calls[k] + 1
    /\ SameState(k) /\ SameFlags(k) /\ SameRow(k)
Settles(k) ==
    /\ prov[k] = "pending" /\ prov'[k] \in {"effect", "failed"} /\ calls'[k] = calls[k]
    /\ SameState(k) /\ SameFlags(k) /\ SameRow(k)

KeyStep(a, k) ==
    \/ Stays(k) \/ Registers(k) \/ Presets(k)
    \/ \E s \in OpStates : Moves(a, k, s)
    \/ Flags(k, TRUE, FALSE) \/ Flags(k, FALSE, TRUE) \/ Flags(k, FALSE, FALSE)
    \/ Inserts(a, k) \/ Charges(a, k) \/ Releases(a, k) \/ Refunds(a, k)
    \/ Executes(a, k) \/ Settles(k)

\* Nothing else changes, except thread a, the locks it may take or drop, and
\* what a process keeps in memory.
Frame(a, k) ==
    /\ \A j \in Keys \ {k} : /\ rec'[j] = rec[j] /\ rows'[j] = rows[j]
                             /\ prov'[j] = prov[j] /\ calls'[j] = calls[j]
    /\ \A u \in Threads \ {a} : th'[u] = th[u]
    /\ \A j \in Keys : lock[j] \notin {NoThread, a} => lock'[j] = lock[j]

Visible ==
    \/ UNCHANGED <<rec, rows, prov>>
    \/ \E a \in Threads \cup {NoThread}, k \in Keys : Frame(a, k) /\ KeyStep(a, k)

-----------------------------------------------------------------------------
\* A key has a row exactly when its row has a state.
LEMMA RowFacts ==
    ASSUME TablesOK, NEW k \in Keys
    PROVE  /\ HasRow(k) <=> RowState(k) # "NONE"
           /\ HasRow(k) => rows[k] \in Row
           /\ RowState(k) \in RowStates \cup {"NONE"}
  BY DEF TablesOK, HasRow, RowState, NoRow, Row, RowStates

LEMMA RowFactsNext ==
    ASSUME TablesOK', NEW k \in Keys
    PROVE  HasRow(k)' <=> RowState(k)' # "NONE"
  BY DEF TablesOK, HasRow, RowState, NoRow, Row, RowStates

\* The legal transitions, as the proofs use them.
LEMMA LegalFacts ==
    ASSUME NEW s \in OpStates, NEW r \in Legal[s]
    PROVE  /\ s \notin {"NONE", "CONFIRMED", "FAILED"} /\ r \notin {"NONE", "CREATED"}
           /\ s \in Claimed => r \in Claimed
           /\ r \in {"RESERVED", "HOLD"} => s \in {"CREATED", "HOLD", "ESCALATED"}
           /\ r = "DISPATCHING" => s = "RESERVED"
           /\ s = "CREATED" => r \in {"RESERVED", "HOLD", "FAILED"}
           /\ r = "CONFIRMED" => s \in {"DISPATCHING", "UNKNOWN"}
  BY DEF Legal, OpStates, Claimed

\* A key step keeps record, row and provider in agreement.
LEMMA KeyStepOK ==
    ASSUME TypeOK, TypeOK', NEW k \in Keys, NEW a, KeyOK(k), KeyStep(a, k)
    PROVE  KeyOK(k)'
  <1>0. /\ HasRow(k) <=> RowState(k) # "NONE"
        /\ HasRow(k)' <=> RowState(k)' # "NONE"
    BY RowFacts, RowFactsNext DEF TypeOK
  <1>t. /\ rec[k].state \in OpStates /\ rec[k].reserved \in BOOLEAN
        /\ rec[k].committed \in BOOLEAN /\ rec[k].bound \in BOOLEAN
        /\ calls[k] \in Nat /\ prov[k] \in {"none", "pending", "effect", "failed"}
    BY DEF TypeOK, Records
  <1> USE DEF KeyOK, FlagsOK, HoldsNothing, Returned, State, RowState,
              SameFlags, SameRow, SameOutside, SameState
  <1>1. CASE Stays(k)
    BY <1>0, <1>1 DEF Stays, HasRow
  <1>2. CASE Registers(k)
    BY <1>0, <1>t, <1>2 DEF Registers, HasRow, Claimed
  <1>3. CASE Presets(k)
    BY <1>0, <1>t, <1>3 DEF Presets, Claimed
  <1>4. ASSUME NEW s \in OpStates, Moves(a, k, s) PROVE KeyOK(k)'
    BY <1>0, <1>t, <1>4, LegalFacts DEF Moves, HasRow, Claimed, OpStates
  <1>5. CASE Flags(k, TRUE, FALSE) \/ Flags(k, FALSE, TRUE) \/ Flags(k, FALSE, FALSE)
    BY <1>0, <1>t, <1>5 DEF Flags, HasRow
  <1>6. CASE Inserts(a, k) \/ Charges(a, k) \/ Releases(a, k) \/ Refunds(a, k)
    BY <1>0, <1>t, <1>6 DEF Inserts, Charges, Releases, Refunds, RowMoves, Claimed
  <1>7. CASE Executes(a, k) \/ Settles(k)
    BY <1>0, <1>t, <1>7 DEF Executes, Settles, HasRow
  <1> QED BY <1>1, <1>2, <1>3, <1>4, <1>5, <1>6, <1>7 DEF KeyStep

-----------------------------------------------------------------------------
\* What a step of thread a on key k leaves to a thread u that works on k too.
Evolves(a, u, k) ==
    /\ State(k)' # "NONE" /\ (State(k) # "CREATED" => State(k)' # "CREATED")
    /\ rec[k].bound => rec'[k].bound
    /\ Within(u, k, AdmitPCs) => /\ State(k) \in {"CREATED", "FAILED"} => State(k)' \in {"CREATED", "FAILED"}
                                 /\ ~HasRow(k) => ~HasRow(k)'
    /\ State(k) \in Claimed => State(k)' \in Claimed
    /\ prov[k] \in {"effect", "failed"} => prov'[k] = prov[k]
    /\ lock[k] = u => lock'[k] = u /\ RowState(k)' = RowState(k) /\ (HasRow(k)' <=> HasRow(k))
    /\ RowState(k) = "COMMITTED" /\ calls[k] = 0 => RowState(k)' = "COMMITTED"
    /\ Within(u, k, DispatchPCs) => calls'[k] = calls[k]

LEMMA KeyStepEvolves ==
    ASSUME TypeOK, TypeOK', Exclusive, NEW a \in Threads \cup {NoThread}, NEW k \in Keys,
           KeyOK(k), KeyStep(a, k), Frame(a, k),
           NEW u \in Threads \ {a}, State(k) # "NONE"
    PROVE  Evolves(a, u, k)
  <1>0. /\ HasRow(k) <=> RowState(k) # "NONE"
        /\ HasRow(k)' <=> RowState(k)' # "NONE"
    BY RowFacts, RowFactsNext DEF TypeOK
  <1>t. /\ rec[k].state \in OpStates
        /\ calls[k] \in Nat /\ prov[k] \in {"none", "pending", "effect", "failed"}
        /\ u # NoThread
    BY GovernorAssumption DEF TypeOK, Records
  <1>l. lock[k] = u => lock'[k] = u
    BY <1>t DEF Frame
  <1>x. /\ Within(u, k, AdmitPCs) => ~Within(a, k, AdmitPCs)
        /\ Within(u, k, DispatchPCs) => ~Within(a, k, DispatchPCs)
    BY DEF Exclusive, Within
  <1>s. CASE Stays(k) \/ Registers(k) \/ Presets(k)
    BY <1>0, <1>t, <1>l, <1>s DEF Evolves, Stays, Registers, Presets, State, RowState, HasRow,
          SameFlags, SameRow, SameOutside, SameState
  <1>m. ASSUME NEW s \in OpStates, Moves(a, k, s) PROVE Evolves(a, u, k)
    BY <1>0, <1>t, <1>l, <1>x, <1>m, LegalFacts DEF Evolves, Moves, State, RowState, HasRow,
          SameFlags, SameRow, SameOutside, Claimed
  <1>f. CASE Flags(k, TRUE, FALSE) \/ Flags(k, FALSE, TRUE) \/ Flags(k, FALSE, FALSE)
    BY <1>0, <1>t, <1>l, <1>f DEF Evolves, Flags, State, RowState, HasRow,
          SameRow, SameOutside, SameState
  <1>r. CASE Inserts(a, k) \/ Charges(a, k) \/ Releases(a, k) \/ Refunds(a, k)
    BY <1>0, <1>t, <1>l, <1>x, <1>r DEF Evolves, Inserts, Charges, Releases, Refunds, RowMoves,
          State, RowState, SameFlags, SameOutside, SameState, KeyOK
  <1>e. CASE Executes(a, k) \/ Settles(k)
    BY <1>0, <1>t, <1>l, <1>x, <1>e DEF Evolves, Executes, Settles, State, RowState, HasRow,
          SameFlags, SameRow, SameState
  <1> QED BY <1>s, <1>m, <1>f, <1>r, <1>e DEF KeyStep

\* A thread that does not move keeps what it relies on.
LEMMA Undisturbed ==
    ASSUME GovernorInv, TypeOK', NEW a \in Threads \cup {NoThread}, NEW k \in Keys,
           KeyStep(a, k), Frame(a, k), NEW u \in Threads \ {a}
    PROVE  ThreadOK(u)'
  <1>0. th'[u] = th[u] /\ ThreadOK(u) /\ u # NoThread
    BY GovernorAssumption DEF GovernorInv, Frame
  <1>1. CASE th[u].pc = "idle"
    BY <1>0, <1>1 DEF ThreadOK
  <1>2. CASE th[u].pc # "idle" /\ th[u].key # k
    <2> DEFINE j == th[u].key
    <2>1. j \in Keys \ {k}
      BY <1>0, <1>2 DEF ThreadOK
    <2>2. rec'[j] = rec[j] /\ rows'[j] = rows[j] /\ prov'[j] = prov[j] /\ calls'[j] = calls[j]
      BY <2>1 DEF Frame
    <2>3. lock[j] = u => lock'[j] = u
      BY <1>0, <2>1 DEF Frame
    <2> QED BY <1>0, <1>2, <2>1, <2>2, <2>3
          DEF ThreadOK, State, RowState, HasRow, HoldsNothing, Returned
  <1>3. CASE th[u].pc # "idle" /\ th[u].key = k
    <2>1. State(k) # "NONE"
      BY <1>0, <1>3 DEF ThreadOK
    <2>2. Evolves(a, u, k)
      BY <2>1, KeyStepEvolves DEF GovernorInv
    <2>3. /\ Within(u, k, AdmitPCs) <=> th[u].pc \in AdmitPCs
          /\ Within(u, k, DispatchPCs) <=> th[u].pc \in DispatchPCs
      BY <1>3 DEF Within
    <2>4. th[u].pc = "exec" => th[u].pc \in DispatchPCs
      BY DEF DispatchPCs
    <2>5. th[u].pc \in {"rflags", "settle", "unflag", "failed", "hflags", "hfinal", "resolve", "cflags"}
             => th[u].pc \in LockPCs
      BY DEF LockPCs
    <2>6. th[u].pc \in {"compose", "reserve", "rflags", "claim"} => th[u].pc \in AdmitPCs
      BY DEF AdmitPCs
    <2> QED BY <1>0, <1>3, <2>2, <2>3, <2>4, <2>5, <2>6
          DEF ThreadOK, Evolves, State, RowState, HoldsNothing, Returned
  <1> QED BY <1>1, <1>2, <1>3

\* A thread begins to admit only a new key, and to dispatch only one that is
\* not claimed.
Enters(a) ==
    \A j \in Keys : /\ Within(a, j, AdmitPCs)' => Within(a, j, AdmitPCs) \/ State(j) = "NONE"
                    /\ Within(a, j, DispatchPCs)' => Within(a, j, DispatchPCs) \/ State(j) \notin Claimed

(* The whole argument: an action has to keep the types, be a key step, and *)
(* leave its own thread with what its next step relies on.                 *)
LEMMA ActionOK ==
    ASSUME GovernorInv, TypeOK', NEW a \in Threads \cup {NoThread}, NEW k \in Keys,
           KeyStep(a, k), Frame(a, k), a \in Threads => ThreadOK(a)' /\ Enters(a)
    PROVE  GovernorInv' /\ Visible
  <1>1. \A u \in Threads : ThreadOK(u)'
    BY Undisturbed
  <1>2. \A j \in Keys : KeyOK(j)'
    <2> SUFFICES ASSUME NEW j \in Keys PROVE KeyOK(j)'
      OBVIOUS
    <2>1. CASE j = k
      BY <2>1, KeyStepOK DEF GovernorInv
    <2>2. CASE j # k
      <3>1. KeyOK(j) /\ rec'[j] = rec[j] /\ rows'[j] = rows[j] /\ prov'[j] = prov[j] /\ calls'[j] = calls[j]
        BY <2>2 DEF Frame, GovernorInv
      <3> QED BY <3>1 DEF KeyOK, FlagsOK, State, RowState, HasRow, HoldsNothing, Returned
    <2> QED BY <2>1, <2>2
  <1>3. Exclusive'
    <2>1. \A u \in Threads \ {a}, j \in Keys :
            /\ Within(u, j, AdmitPCs)' <=> Within(u, j, AdmitPCs)
            /\ Within(u, j, DispatchPCs)' <=> Within(u, j, DispatchPCs)
            /\ Within(u, j, AdmitPCs) => State(j) # "NONE"
            /\ Within(u, j, DispatchPCs) => State(j) \in Claimed
      BY DEF GovernorInv, Frame, Within, ThreadOK, AdmitPCs, DispatchPCs
    <2>2. Exclusive
      BY DEF GovernorInv
    <2>3. a \in Threads => Enters(a)
      OBVIOUS
    <2> SUFFICES ASSUME NEW j \in Keys, NEW t \in Threads, NEW u \in Threads, t # u
                 PROVE  /\ ~(Within(t, j, AdmitPCs)' /\ Within(u, j, AdmitPCs)')
                        /\ ~(Within(t, j, DispatchPCs)' /\ Within(u, j, DispatchPCs)')
      BY DEF Exclusive
    <2>4. /\ ~(Within(t, j, AdmitPCs) /\ Within(u, j, AdmitPCs))
          /\ ~(Within(t, j, DispatchPCs) /\ Within(u, j, DispatchPCs))
      BY <2>2 DEF Exclusive
    <2>5. CASE t # a /\ u # a
      BY <2>1, <2>4, <2>5
    <2>6. CASE t = a
      BY <2>1, <2>3, <2>4, <2>6 DEF Enters
    <2>7. CASE u = a
      BY <2>1, <2>3, <2>4, <2>7 DEF Enters
    <2> QED BY <2>5, <2>6, <2>7
  <1> QED BY <1>1, <1>2, <1>3 DEF GovernorInv, Visible

-----------------------------------------------------------------------------
\* The budget transactions, as the governor sees them.
OnlyRow(k) == TablesOK' /\ \A j \in Keys \ {k} : rows'[j] = rows[j]

LEMMA MovedRow ==
    ASSUME TablesOK, NEW k \in Keys, HasRow(k), NEW s \in RowStates,
           rows' = [rows EXCEPT ![k].state = s],
           reserved' \in [Resources -> Nat], committed' \in [Resources -> Nat],
           UNCHANGED <<registered, capacity, compensations>>
    PROVE  OnlyRow(k) /\ rows'[k].state = s
  <1>1. rows[k] \in Row
    BY RowFacts
  <1>2. [rows[k] EXCEPT !.state = s] \in Row
    BY <1>1 DEF Row
  <1>3. rows' = [rows EXCEPT ![k] = [rows[k] EXCEPT !.state = s]]
    OBVIOUS
  <1> QED BY <1>1, <1>2, <1>3 DEF TablesOK, OnlyRow, Row

LEMMA CommitOK ==
    ASSUME TablesOK, NEW k \in Keys, Commit(k)
    PROVE  /\ OnlyRow(k)
           /\ \/ rows'[k] = rows[k]
              \/ RowState(k) = "RESERVED" /\ rows'[k].state = "COMMITTED"
           /\ Charged(k) => rows'[k].state = "COMMITTED"
  <1>1. CASE CommitResult(k) = "COMMITTED"
    <2>1. HasRow(k) /\ RowState(k) = "RESERVED" /\ Covered(reserved, k) /\ MoveToCommitted(k)
      BY <1>1, RowFacts DEF Commit, CommitResult
    <2>2. rows[k] \in Row
      BY <2>1, RowFacts
    <2>3. reserved' \in [Resources -> Nat] /\ committed' \in [Resources -> Nat]
      BY <2>1, <2>2, AmountsAssumption DEF MoveToCommitted, Covered, TablesOK, Row
    <2>4. OnlyRow(k) /\ rows'[k].state = "COMMITTED"
      BY <2>1, <2>3, MovedRow DEF MoveToCommitted, RowStates
    <2> QED BY <2>1, <2>4
  <1>2. CASE CommitResult(k) # "COMMITTED"
    <2>1. UNCHANGED tables
      BY <1>2 DEF Commit
    <2>2. Charged(k) => RowState(k) = "COMMITTED"
      BY <1>2 DEF Charged, CommitResult
    <2> QED BY <2>1, <2>2 DEF tables, TablesOK, OnlyRow, RowState
  <1> QED BY <1>1, <1>2

LEMMA ReleaseOK ==
    ASSUME TablesOK, NEW k \in Keys, Release(k)
    PROVE  /\ OnlyRow(k)
           /\ \/ rows'[k] = rows[k]
              \/ RowState(k) = "RESERVED" /\ rows'[k].state = "RELEASED"
           /\ ReleaseResult(k) \in {"RELEASED", "ALREADY_RELEASED"} => rows'[k].state = "RELEASED"
  <1>1. CASE ReleaseResult(k) = "RELEASED"
    <2>1. HasRow(k) /\ RowState(k) = "RESERVED" /\ Covered(reserved, k) /\ GiveBackReserved(k)
      BY <1>1, RowFacts DEF Release, ReleaseResult
    <2>2. rows[k] \in Row
      BY <2>1, RowFacts
    <2>3. reserved' \in [Resources -> Nat] /\ committed' \in [Resources -> Nat]
      BY <2>1, <2>2, AmountsAssumption DEF GiveBackReserved, Covered, TablesOK, Row
    <2>4. OnlyRow(k) /\ rows'[k].state = "RELEASED"
      BY <2>1, <2>3, MovedRow DEF GiveBackReserved, RowStates
    <2> QED BY <2>1, <2>4
  <1>2. CASE ReleaseResult(k) # "RELEASED"
    <2>1. UNCHANGED tables
      BY <1>2 DEF Release
    <2>2. ReleaseResult(k) = "ALREADY_RELEASED" => RowState(k) = "RELEASED"
      BY <1>2 DEF ReleaseResult
    <2> QED BY <1>2, <2>1, <2>2 DEF tables, TablesOK, OnlyRow, RowState
  <1> QED BY <1>1, <1>2

LEMMA RefundOK ==
    ASSUME TablesOK, NEW k \in Keys, Refund(k)
    PROVE  /\ OnlyRow(k)
           /\ \/ rows'[k] = rows[k]
              \/ RowState(k) = "COMMITTED" /\ rows'[k].state = "REFUNDED"
           /\ RefundResult(k) \in {"REFUNDED", "ALREADY_REFUNDED"} => rows'[k].state = "REFUNDED"
  <1>1. CASE RefundResult(k) = "REFUNDED"
    <2>1. HasRow(k) /\ RowState(k) = "COMMITTED" /\ Covered(committed, k) /\ GiveBackCommitted(k)
      BY <1>1, RowFacts DEF Refund, RefundResult
    <2>2. rows[k] \in Row
      BY <2>1, RowFacts
    <2>3. reserved' \in [Resources -> Nat] /\ committed' \in [Resources -> Nat]
      BY <2>1, <2>2, AmountsAssumption DEF GiveBackCommitted, Covered, TablesOK, Row
    <2>4. OnlyRow(k) /\ rows'[k].state = "REFUNDED"
      BY <2>1, <2>3, MovedRow DEF GiveBackCommitted, RowStates
    <2> QED BY <2>1, <2>4
  <1>2. CASE RefundResult(k) # "REFUNDED"
    <2>1. UNCHANGED tables
      BY <1>2 DEF Refund
    <2>2. RefundResult(k) = "ALREADY_REFUNDED" => RowState(k) = "REFUNDED"
      BY <1>2 DEF RefundResult
    <2> QED BY <1>2, <2>1, <2>2 DEF tables, TablesOK, OnlyRow, RowState
  <1> QED BY <1>1, <1>2

LEMMA ReserveOK ==
    ASSUME TablesOK, NEW k \in Keys, ~HasRow(k), Reserve(k, AmountOf[k], ResourceOf[k])
    PROVE  /\ OnlyRow(k)
           /\ IF ReserveResult(k, AmountOf[k], ResourceOf[k]) = "RESERVED"
              THEN rows'[k].state = "RESERVED" ELSE rows'[k] = rows[k]
  <1> DEFINE a == AmountOf[k]
             r == ResourceOf[k]
  <1>1. CASE ReserveResult(k, a, r) = "RESERVED"
    <2>1. /\ reserved' = [reserved EXCEPT ![r] = @ + a]
          /\ rows' = [rows EXCEPT ![k] = [state |-> "RESERVED", resource |-> r, amount |-> a]]
          /\ UNCHANGED <<registered, capacity, committed, compensations>>
      BY <1>1 DEF Reserve
    <2>2. a \in Amounts /\ a \in Nat /\ r \in Resources
      BY GovernorAssumption, AmountsAssumption
    <2>3. reserved' \in [Resources -> Nat]
      BY <2>1, <2>2 DEF TablesOK
    <2>4. [state |-> "RESERVED", resource |-> r, amount |-> a] \in Row
      BY <2>2 DEF Row, RowStates
    <2> HIDE DEF a, r
    <2>5. OnlyRow(k)
      BY <2>1, <2>3, <2>4 DEF OnlyRow, TablesOK
    <2>6. rows'[k].state = "RESERVED"
      BY <2>1 DEF TablesOK
    <2> QED BY <1>1, <2>5, <2>6 DEF a, r
  <1>2. CASE ReserveResult(k, a, r) # "RESERVED"
    BY <1>2 DEF Reserve, tables, TablesOK, OnlyRow
  <1> QED BY <1>1, <1>2

-----------------------------------------------------------------------------
(* The two halves of an action: what it does to its thread, the locks and  *)
(* the memory of its process, and what it does to the durable state of k.  *)
Locally(a) ==
    /\ th' \in [Threads -> ThreadStates]
    /\ lock' \in [Keys -> Threads \cup {NoThread}]
    /\ active' \subseteq Procs \X Keys
    /\ \A u \in Threads \ {a} : th'[u] = th[u]
    /\ \A j \in Keys : lock[j] \notin {NoThread, a} => lock'[j] = lock[j]

RecordsKept(k) ==
    /\ rec' \in [Keys -> Records(Procs \cup {NoProc})]
    /\ \A j \in Keys \ {k} : rec'[j] = rec[j]

OutsideKept(k) ==
    /\ prov' \in [Keys -> {"none", "pending", "effect", "failed"}]
    /\ calls' \in [Keys -> Nat]
    /\ \A j \in Keys \ {k} : prov'[j] = prov[j] /\ calls'[j] = calls[j]

LEMMA StepOK ==
    ASSUME GovernorInv, NEW a \in Threads \cup {NoThread}, NEW k \in Keys,
           Locally(a), OnlyRow(k), RecordsKept(k), OutsideKept(k),
           quarantine' \in BOOLEAN, faults' \in 0 .. MaxFaults,
           KeyStep(a, k), a \in Threads => ThreadOK(a)' /\ Enters(a)
    PROVE  GovernorInv' /\ Visible
  <1>1. TypeOK'
    BY DEF TypeOK, Locally, OnlyRow, RecordsKept, OutsideKept
  <1>2. Frame(a, k)
    BY DEF Frame, Locally, OnlyRow, RecordsKept, OutsideKept
  <1> QED BY <1>1, <1>2, ActionOK

\* Parts of the state an action leaves alone.
LEMMA Kept ==
    ASSUME TypeOK, NEW k \in Keys
    PROVE  /\ UNCHANGED tables => OnlyRow(k) /\ SameRow(k)
           /\ UNCHANGED rec => RecordsKept(k) /\ SameState(k) /\ SameFlags(k)
           /\ UNCHANGED <<prov, calls>> => OutsideKept(k) /\ SameOutside(k)
           /\ UNCHANGED quarantine => quarantine' \in BOOLEAN
           /\ UNCHANGED faults => faults' \in 0 .. MaxFaults
           /\ faults < MaxFaults /\ faults' = faults + 1 => faults' \in 0 .. MaxFaults
  <1>1. UNCHANGED tables => OnlyRow(k) /\ SameRow(k)
    BY DEF TypeOK, tables, TablesOK, OnlyRow, SameRow
  <1>2. UNCHANGED rec => RecordsKept(k) /\ SameState(k) /\ SameFlags(k)
    BY DEF TypeOK, RecordsKept, SameState, SameFlags
  <1>3. UNCHANGED <<prov, calls>> => OutsideKept(k) /\ SameOutside(k)
    BY DEF TypeOK, OutsideKept, SameOutside
  <1>4. UNCHANGED quarantine => quarantine' \in BOOLEAN
    BY DEF TypeOK
  <1>5. /\ UNCHANGED faults => faults' \in 0 .. MaxFaults
        /\ faults < MaxFaults /\ faults' = faults + 1 => faults' \in 0 .. MaxFaults
    BY GovernorAssumption DEF TypeOK
  <1> QED BY <1>1, <1>2, <1>3, <1>4, <1>5

LEMMA Alone ==
    ASSUME TypeOK, UNCHANGED <<th, lock, active>>
    PROVE  \A a : Locally(a)
  BY DEF TypeOK, Locally

\* Thread t gets new locals, and takes, drops or keeps the lock of k.
LEMMA MovesThread ==
    ASSUME TypeOK, NEW t \in Threads, NEW k \in Keys, NEW l \in ThreadStates,
           th' = [th EXCEPT ![t] = l],
           UNCHANGED lock \/ Acquire(t, k) \/ Unlock(t, k),
           active' \subseteq Procs \X Keys
    PROVE  Locally(t) /\ th'[t] = l
  BY DEF TypeOK, Locally, Acquire, Unlock

LEMMA ThreadFacts ==
    ASSUME TypeOK, NEW t \in Threads
    PROVE  /\ th[t] \in ThreadStates /\ IdleThread \in ThreadStates
           /\ \A pc \in PCs : [th[t] EXCEPT !.pc = pc] \in ThreadStates
           /\ DOMAIN th = Threads /\ ProcOf[t] \in Procs
  <1>1. th[t] \in ThreadStates /\ DOMAIN th = Threads /\ ProcOf[t] \in Procs
    BY GovernorAssumption DEF TypeOK
  <1>2. IdleThread \in ThreadStates
    BY DEF IdleThread, ThreadStates, PCs, OpStates
  <1> QED BY <1>1, <1>2 DEF ThreadStates

LEMMA GotoOK ==
    ASSUME TypeOK, NEW t \in Threads, NEW k \in Keys, NEW pc \in PCs, Goto(t, pc),
           UNCHANGED lock \/ Acquire(t, k) \/ Unlock(t, k), UNCHANGED active
    PROVE  Locally(t) /\ th'[t] = [th[t] EXCEPT !.pc = pc]
  <1>1. th' = [th EXCEPT ![t] = [th[t] EXCEPT !.pc = pc]]
    BY DEF Goto
  <1>2. [th[t] EXCEPT !.pc = pc] \in ThreadStates
    BY ThreadFacts
  <1>3. active' \subseteq Procs \X Keys
    BY DEF TypeOK
  <1> QED BY <1>1, <1>2, <1>3, MovesThread

LEMMA IdleOK ==
    ASSUME NEW t \in Threads, th'[t] = IdleThread
    PROVE  ThreadOK(t)' /\ Enters(t)
  BY DEF ThreadOK, Enters, Within, IdleThread, AdmitPCs, DispatchPCs

LEMMA ReturnOK ==
    ASSUME TypeOK, NEW t \in Threads, th[t].key \in Keys, Return(t)
    PROVE  Locally(t) /\ ThreadOK(t)' /\ Enters(t)
  <1>1. active' \subseteq Procs \X Keys
    BY DEF Return, Discard, TypeOK
  <1>2. Locally(t) /\ th'[t] = IdleThread
    BY <1>1, MovesThread, ThreadFacts DEF Return
  <1> QED BY <1>2, IdleOK

\* The registry mutators.
LEMMA TransitionOK ==
    ASSUME TypeOK, NEW k \in Keys, NEW s \in OpStates, TransitionTo(k, s)
    PROVE  /\ RecordsKept(k) /\ SameFlags(k)
           /\ SameState(k) \/ (CanMove(k, s) /\ rec'[k].state = s)
  <1>1. rec[k] \in Records(Procs \cup {NoProc}) /\ DOMAIN rec = Keys
    BY DEF TypeOK
  <1>2. [rec[k] EXCEPT !.state = s] \in Records(Procs \cup {NoProc})
    BY <1>1 DEF Records
  <1>3. CASE CanMove(k, s)
    <2>1. rec' = [rec EXCEPT ![k] = [rec[k] EXCEPT !.state = s]]
      BY <1>3 DEF TransitionTo
    <2>2. RecordsKept(k)
      BY <1>2, <2>1 DEF TypeOK, RecordsKept
    <2>3. rec'[k] = [rec[k] EXCEPT !.state = s]
      BY <1>1, <2>1
    <2>4. rec'[k].state = s /\ SameFlags(k)
      BY <1>1, <2>3 DEF SameFlags, Records
    <2> QED BY <1>3, <2>2, <2>4
  <1>4. CASE ~CanMove(k, s)
    BY <1>4 DEF TransitionTo, TypeOK, RecordsKept, SameFlags, SameState
  <1> QED BY <1>3, <1>4

LEMMA SetFlagsOK ==
    ASSUME TypeOK, NEW k \in Keys, NEW res \in BOOLEAN, NEW com \in BOOLEAN,
           SetBudgetFlags(k, res, com)
    PROVE  /\ RecordsKept(k) /\ SameState(k)
           /\ rec'[k].reserved = res /\ rec'[k].committed = com /\ rec'[k].bound = TRUE
  <1> DEFINE r == [rec[k] EXCEPT !.reserved = res, !.committed = com, !.bound = TRUE]
  <1>1. rec[k] \in Records(Procs \cup {NoProc}) /\ DOMAIN rec = Keys
    BY DEF TypeOK
  <1>2. r \in Records(Procs \cup {NoProc})
    BY <1>1 DEF Records
  <1>3. rec' = [rec EXCEPT ![k] = r]
    BY <1>1 DEF SetBudgetFlags
  <1>4. r.state = rec[k].state /\ r.reserved = res /\ r.committed = com /\ r.bound = TRUE
    BY <1>1 DEF Records
  <1> HIDE DEF r
  <1>5. RecordsKept(k) /\ rec'[k] = r
    BY <1>1, <1>2, <1>3 DEF TypeOK, RecordsKept
  <1> QED BY <1>4, <1>5 DEF SameState

-----------------------------------------------------------------------------
\* What holds of a thread that is in the middle of a method, and of its key.
LEMMA Own ==
    ASSUME GovernorInv, NEW t \in Threads, th[t].pc # "idle"
    PROVE  /\ TypeOK /\ TablesOK /\ th[t].key \in Keys /\ KeyOK(th[t].key) /\ ThreadOK(t)
           /\ State(th[t].key) \in OpStates /\ State(th[t].key) # "NONE"
  BY DEF GovernorInv, ThreadOK, TypeOK, Records, State

LEMMA OfKey ==
    ASSUME GovernorInv, NEW k \in Keys
    PROVE  TypeOK /\ TablesOK /\ KeyOK(k) /\ State(k) \in OpStates
  BY DEF GovernorInv, TypeOK, Records, State

\* The locals a step does not name stay as they are.
SameLocals(t) == /\ th'[t].key = th[t].key /\ th'[t].arg = th[t].arg /\ th'[t].auth = th[t].auth
                 /\ th'[t].live = th[t].live /\ th'[t].ext = th[t].ext /\ th'[t].owns = th[t].owns

LEMMA GoesTo ==
    ASSUME TypeOK, NEW t \in Threads, NEW k \in Keys, NEW pc \in PCs, Goto(t, pc),
           UNCHANGED lock \/ Acquire(t, k) \/ Unlock(t, k), UNCHANGED active
    PROVE  Locally(t) /\ th'[t].pc = pc /\ SameLocals(t)
  <1>1. Locally(t) /\ th'[t] = [th[t] EXCEPT !.pc = pc]
    BY GotoOK
  <1>2. th[t] \in ThreadStates
    BY ThreadFacts
  <1> QED BY <1>1, <1>2 DEF SameLocals, ThreadStates

\* An idle thread starts a method on k.
LEMMA StartsAt ==
    ASSUME GovernorInv, NEW t \in Threads, NEW k \in Keys, NEW pc \in PCs, Start(t, k, pc),
           UNCHANGED lock \/ Acquire(t, k), UNCHANGED active
    PROVE  Locally(t) /\ th'[t] = [IdleThread EXCEPT !.pc = pc, !.key = k]
  <1>1. TypeOK /\ th[t] = IdleThread
    BY DEF GovernorInv, ThreadOK, Start, At
  <1> DEFINE l == [IdleThread EXCEPT !.pc = pc, !.key = k]
  <1>2. l \in ThreadStates
    BY DEF IdleThread, ThreadStates, OpStates
  <1>3. th' = [th EXCEPT ![t] = l]
    BY <1>1, ThreadFacts DEF Start
  <1>4. active' \subseteq Procs \X Keys
    BY <1>1 DEF TypeOK
  <1> HIDE DEF l
  <1> QED BY <1>1, <1>2, <1>3, <1>4, MovesThread DEF l

\* The program counters that begin neither an admission nor a dispatch.
LEMMA EntersNothing ==
    ASSUME NEW t \in Threads, th'[t].pc \notin AdmitPCs \cup DispatchPCs
    PROVE  Enters(t)
  BY DEF Enters, Within

LEMMA EntersNext ==
    ASSUME NEW t \in Threads, th'[t].key = th[t].key,
           \/ th[t].pc \in AdmitPCs /\ th'[t].pc \in AdmitPCs
           \/ th[t].pc \in DispatchPCs /\ th'[t].pc \in DispatchPCs
    PROVE  Enters(t)
  BY DEF Enters, Within, AdmitPCs, DispatchPCs

-----------------------------------------------------------------------------
\* adjudicate
LEMMA RegisterStep ==
    ASSUME GovernorInv, NEW t \in Threads, NEW k \in Keys, AdjudicateRegister(t, k)
    PROVE  GovernorInv' /\ Visible
  <1>0. /\ TypeOK /\ TablesOK /\ KeyOK(k) /\ State(k) = "NONE"
        /\ UNCHANGED tables /\ UNCHANGED quarantine /\ UNCHANGED <<prov, calls>>
        /\ UNCHANGED faults /\ UNCHANGED lock /\ UNCHANGED active
    BY OfKey DEF AdjudicateRegister, world
  <1>1. Locally(t) /\ th'[t] = [IdleThread EXCEPT !.pc = "compose", !.key = k]
    BY <1>0, StartsAt DEF AdjudicateRegister, PCs
  <1>2. OnlyRow(k) /\ SameRow(k) /\ OutsideKept(k) /\ SameOutside(k)
        /\ quarantine' \in BOOLEAN /\ faults' \in 0 .. MaxFaults
    BY <1>0, Kept
  <1>3. /\ RecordsKept(k) /\ rec'[k].state = "CREATED" /\ SameFlags(k)
    <2>1. rec[k] \in Records(Procs \cup {NoProc}) /\ DOMAIN rec = Keys
      BY <1>0 DEF TypeOK
    <2>2. rec' = [rec EXCEPT ![k] = [rec[k] EXCEPT !.state = "CREATED"]]
      BY DEF AdjudicateRegister
    <2>3. [rec[k] EXCEPT !.state = "CREATED"] \in Records(Procs \cup {NoProc})
      BY <2>1 DEF Records, OpStates
    <2> QED BY <1>0, <2>1, <2>2, <2>3 DEF TypeOK, RecordsKept, SameFlags, Records
  <1>4. KeyStep(t, k)
    BY <1>0, <1>2, <1>3 DEF KeyStep, Registers
  <1>5. ThreadOK(t)'
    BY <1>0, <1>1, <1>2, <1>3 DEF ThreadOK, IdleThread, State, HasRow, SameRow, KeyOK, LockPCs,
          AdmitPCs, DispatchPCs
  <1>6. Enters(t)
    BY <1>0, <1>1 DEF Enters, Within, IdleThread, AdmitPCs, DispatchPCs
  <1> QED BY <1>1, <1>2, <1>3, <1>4, <1>5, <1>6, StepOK

LEMMA ComposeStep ==
    ASSUME GovernorInv, NEW t \in Threads, AdjudicateCompose(t)
    PROVE  GovernorInv' /\ Visible
  <1> DEFINE k == th[t].key
  <1>0. /\ At(t, "compose") /\ TypeOK /\ TablesOK /\ k \in Keys /\ KeyOK(k) /\ ThreadOK(t)
        /\ UNCHANGED tables /\ UNCHANGED rec /\ UNCHANGED quarantine /\ UNCHANGED <<prov, calls>>
        /\ UNCHANGED faults /\ UNCHANGED lock /\ UNCHANGED active
    BY Own DEF AdjudicateCompose, At, world
  <1>1. PICK d \in {"PASS", "HOLD", "VETO"} :
          th' = [th EXCEPT ![t].arg = IF quarantine THEN "VETO" ELSE d,
                           ![t].ext = ~quarantine /\ d # "VETO",
                           ![t].pc = IF quarantine \/ d = "VETO" THEN "claim" ELSE "reserve"]
    BY DEF AdjudicateCompose
  <1> DEFINE l == [th[t] EXCEPT !.arg = IF quarantine THEN "VETO" ELSE d,
                                !.ext = ~quarantine /\ d # "VETO",
                                !.pc = IF quarantine \/ d = "VETO" THEN "claim" ELSE "reserve"]
  <1>2. th[t] \in ThreadStates /\ DOMAIN th = Threads /\ active' \subseteq Procs \X Keys
    BY <1>0, ThreadFacts DEF TypeOK
  <1>3. l \in ThreadStates
    BY <1>2 DEF ThreadStates, PCs
  <1>4. th' = [th EXCEPT ![t] = l]
    BY <1>1, <1>2
  <1>5. /\ l.key = k /\ l.auth = th[t].auth
        /\ \/ l.pc = "claim" /\ l.arg = "VETO" /\ l.ext = FALSE
           \/ l.pc = "reserve" /\ l.arg \in {"PASS", "HOLD"} /\ l.ext = TRUE
    BY <1>2 DEF ThreadStates
  <1> HIDE DEF l
  <1>6. Locally(t) /\ th'[t] = l
    BY <1>0, <1>2, <1>3, <1>4, MovesThread
  <1>7. /\ OnlyRow(k) /\ SameRow(k) /\ RecordsKept(k) /\ SameState(k) /\ SameFlags(k)
        /\ OutsideKept(k) /\ SameOutside(k)
        /\ quarantine' \in BOOLEAN /\ faults' \in 0 .. MaxFaults
    BY <1>0, Kept
  <1>8. KeyStep(t, k)
    BY <1>7 DEF KeyStep, Stays
  <1>9. ThreadOK(t)' /\ Enters(t)
    <2>1. ThreadOK(t)'
      BY <1>0, <1>5, <1>6 DEF ThreadOK, At, State, HasRow, tables, LockPCs, AdmitPCs, DispatchPCs
    <2>2. Enters(t)
      BY <1>0, <1>5, <1>6, EntersNext DEF At, AdmitPCs
    <2> QED BY <2>1, <2>2
  <1> QED BY <1>0, <1>6, <1>7, <1>8, <1>9, StepOK

\* A step that changes nothing durable.
Durable == <<tables, rec, quarantine, prov, calls>>

LEMMA QuietStep ==
    ASSUME GovernorInv, NEW t \in Threads, NEW k \in Keys, UNCHANGED Durable,
           faults' \in 0 .. MaxFaults, Locally(t), ThreadOK(t)' /\ Enters(t)
    PROVE  GovernorInv' /\ Visible
  <1>1. /\ UNCHANGED tables /\ UNCHANGED rec /\ UNCHANGED quarantine /\ UNCHANGED <<prov, calls>>
        /\ TypeOK
    BY DEF Durable, GovernorInv
  <1>2. /\ OnlyRow(k) /\ SameRow(k) /\ RecordsKept(k) /\ SameState(k) /\ SameFlags(k)
        /\ OutsideKept(k) /\ SameOutside(k) /\ quarantine' \in BOOLEAN
    BY <1>1, Kept
  <1>3. KeyStep(t, k)
    BY <1>2 DEF KeyStep, Stays
  <1> QED BY <1>2, <1>3, StepOK

\* A refused reservation, or one that raises, turns the decision into a veto.
LEMMA VetoLocals ==
    ASSUME GovernorInv, NEW t \in Threads, th[t].pc \in {"reserve", "rflags"},
           NEW d \in {th[t].arg, "VETO"},
           th' = [th EXCEPT ![t].pc = "claim", ![t].arg = d],
           UNCHANGED lock \/ Unlock(t, th[t].key), UNCHANGED active
    PROVE  /\ Locally(t) /\ Enters(t)
           /\ th'[t].pc = "claim" /\ th'[t].arg = d /\ th'[t].key = th[t].key
           /\ th'[t].ext = TRUE /\ th'[t].auth = th[t].auth
  <1> DEFINE l == [th[t] EXCEPT !.pc = "claim", !.arg = d]
  <1>1. TypeOK /\ ThreadOK(t) /\ th[t].key \in Keys
    BY Own
  <1>2. th[t] \in ThreadStates /\ DOMAIN th = Threads /\ active' \subseteq Procs \X Keys
    BY <1>1, ThreadFacts DEF TypeOK
  <1>3. l \in ThreadStates
    BY <1>2 DEF ThreadStates, PCs
  <1>4. th' = [th EXCEPT ![t] = l]
    BY <1>2
  <1>5. l.pc = "claim" /\ l.arg = d /\ l.key = th[t].key /\ l.auth = th[t].auth /\ l.ext = th[t].ext
    BY <1>2 DEF ThreadStates
  <1>6. th[t].ext = TRUE
    BY <1>1, <1>2 DEF ThreadOK, ThreadStates
  <1> HIDE DEF l
  <1>7. Locally(t) /\ th'[t] = l
    BY <1>1, <1>2, <1>3, <1>4, MovesThread
  <1>8. Enters(t)
    BY <1>5, <1>7, EntersNext DEF AdmitPCs
  <1> QED BY <1>5, <1>6, <1>7, <1>8

LEMMA ReserveStep ==
    ASSUME GovernorInv, NEW t \in Threads, AdjudicateReserve(t)
    PROVE  GovernorInv' /\ Visible
  <1> DEFINE k == th[t].key
             reserving == State(k) = "CREATED" /\ ~rec[k].reserved
             granted == ReserveResult(k, AmountOf[k], ResourceOf[k]) = "RESERVED"
             held == State(k) = "CREATED" /\ rec[k].reserved /\ rec[k].bound
  <1>0. /\ th[t].pc = "reserve" /\ TypeOK /\ TablesOK /\ k \in Keys /\ KeyOK(k) /\ ThreadOK(t)
        /\ UNCHANGED rec /\ UNCHANGED quarantine /\ UNCHANGED <<prov, calls>>
        /\ UNCHANGED faults /\ UNCHANGED active /\ lock[k] = NoThread
    BY Own DEF AdjudicateReserve, At
  <1>1. /\ IF reserving THEN Reserve(k, AmountOf[k], ResourceOf[k]) ELSE UNCHANGED tables
        /\ IF reserving /\ granted
             THEN Goto(t, "rflags") /\ lock' = [lock EXCEPT ![k] = t]
             ELSE /\ th' = [th EXCEPT ![t].pc = "claim", ![t].arg = IF held THEN @ ELSE "VETO"]
                  /\ UNCHANGED lock
    BY DEF AdjudicateReserve
  <1>2. ~HasRow(k) /\ State(k) \in {"CREATED", "FAILED"} /\ th[t].ext /\ th[t].arg \in {"PASS", "HOLD"}
        /\ (th[t].auth => prov[k] = "failed")
    BY <1>0 DEF ThreadOK, AdmitPCs
  <1>3. /\ RecordsKept(k) /\ SameState(k) /\ SameFlags(k) /\ OutsideKept(k) /\ SameOutside(k)
        /\ quarantine' \in BOOLEAN /\ faults' \in 0 .. MaxFaults
    BY <1>0, Kept
  <1>4. ~held
    BY <1>0, <1>2 DEF KeyOK, FlagsOK
  <1>5. CASE reserving /\ granted
    <2>1. OnlyRow(k) /\ rows'[k].state = "RESERVED"
      BY <1>0, <1>1, <1>2, <1>5, ReserveOK
    <2>2. Locally(t) /\ th'[t].pc = "rflags" /\ SameLocals(t)
      BY <1>0, <1>1, <1>5, GoesTo DEF PCs, Acquire
    <2>3. KeyStep(t, k)
      BY <1>0, <1>2, <1>3, <1>5, <2>1, RowFacts
         DEF KeyStep, Inserts, RowMoves, Within, AdmitPCs
    <2>4. lock'[k] = t
      BY <1>0, <1>1, <1>5 DEF TypeOK
    <2>5. ThreadOK(t)'
      BY <1>0, <1>2, <2>1, <2>2, <2>4 DEF ThreadOK, SameLocals, State, RowState, LockPCs, AdmitPCs, DispatchPCs
    <2>6. Enters(t)
      BY <1>0, <2>2, EntersNext DEF AdmitPCs, SameLocals
    <2> QED BY <1>0, <1>3, <2>1, <2>2, <2>3, <2>5, <2>6, StepOK
  <1>6. CASE ~(reserving /\ granted)
    <2>1. OnlyRow(k) /\ SameRow(k)
      <3>1. CASE reserving
        BY <1>0, <1>1, <1>2, <1>6, <3>1, ReserveOK DEF SameRow
      <3>2. CASE ~reserving
        BY <1>0, <1>1, <3>2, Kept
      <3> QED BY <3>1, <3>2
    <2>2. th' = [th EXCEPT ![t].pc = "claim", ![t].arg = "VETO"] /\ UNCHANGED lock
      BY <1>1, <1>4, <1>6
    <2>3. /\ Locally(t) /\ Enters(t)
          /\ th'[t].pc = "claim" /\ th'[t].arg = "VETO" /\ th'[t].key = k
          /\ th'[t].ext = TRUE /\ th'[t].auth = th[t].auth
      BY <1>0, <2>2, VetoLocals
    <2>4. ThreadOK(t)'
      BY <1>0, <1>2, <2>3 DEF ThreadOK, State, LockPCs, AdmitPCs, DispatchPCs
    <2>5. KeyStep(t, k)
      BY <1>3, <2>1 DEF KeyStep, Stays
    <2> QED BY <1>0, <1>3, <2>1, <2>3, <2>4, <2>5, StepOK
  <1> QED BY <1>5, <1>6

LEMMA FlagsStep ==
    ASSUME GovernorInv, NEW t \in Threads, AdjudicateFlags(t)
    PROVE  GovernorInv' /\ Visible
  <1> DEFINE k == th[t].key
  <1>0. /\ th[t].pc = "rflags" /\ TypeOK /\ TablesOK /\ k \in Keys /\ KeyOK(k) /\ ThreadOK(t)
        /\ UNCHANGED tables /\ UNCHANGED quarantine /\ UNCHANGED <<prov, calls>>
        /\ UNCHANGED faults /\ UNCHANGED active /\ Unlock(t, k) /\ Goto(t, "claim")
        /\ SetBudgetFlags(k, TRUE, FALSE)
    BY Own DEF AdjudicateFlags, At
  <1>1. RowState(k) = "RESERVED" /\ State(k) \in {"CREATED", "FAILED"} /\ th[t].ext
        /\ th[t].arg \in {"PASS", "HOLD"} /\ (th[t].auth => prov[k] = "failed")
    BY <1>0 DEF ThreadOK, AdmitPCs
  <1>2. /\ OnlyRow(k) /\ SameRow(k) /\ OutsideKept(k) /\ SameOutside(k)
        /\ quarantine' \in BOOLEAN /\ faults' \in 0 .. MaxFaults
    BY <1>0, Kept
  <1>3. /\ RecordsKept(k) /\ SameState(k)
        /\ rec'[k].reserved = TRUE /\ rec'[k].committed = FALSE /\ rec'[k].bound = TRUE
    BY <1>0, SetFlagsOK
  <1>4. KeyStep(t, k)
    BY <1>1, <1>2, <1>3 DEF KeyStep, Flags
  <1>5. Locally(t) /\ th'[t].pc = "claim" /\ SameLocals(t)
    BY <1>0, GoesTo DEF PCs
  <1>6. ThreadOK(t)'
    BY <1>0, <1>1, <1>3, <1>5 DEF ThreadOK, SameLocals, State, SameState, LockPCs, AdmitPCs, DispatchPCs
  <1>7. Enters(t)
    BY <1>0, <1>5, EntersNext DEF AdmitPCs, SameLocals
  <1> QED BY <1>0, <1>2, <1>3, <1>4, <1>5, <1>6, <1>7, StepOK

LEMMA FlagsFailStep ==
    ASSUME GovernorInv, NEW t \in Threads, AdjudicateFlagsFail(t)
    PROVE  GovernorInv' /\ Visible
  <1> DEFINE k == th[t].key
  <1>0. /\ th[t].pc = "rflags" /\ TypeOK /\ TablesOK /\ k \in Keys /\ KeyOK(k) /\ ThreadOK(t)
        /\ UNCHANGED rec /\ UNCHANGED quarantine /\ UNCHANGED <<prov, calls>>
        /\ faults < MaxFaults /\ faults' = faults + 1 /\ UNCHANGED active /\ Unlock(t, k)
        /\ th' = [th EXCEPT ![t].pc = "claim", ![t].arg = "VETO"]
        /\ Release(k) \/ UNCHANGED tables
    BY Own DEF AdjudicateFlagsFail, At
  <1>1. /\ lock[k] = t /\ State(k) \in {"CREATED", "FAILED"}
        /\ State(k) # "NONE" /\ (th[t].auth => prov[k] = "failed")
    BY <1>0 DEF ThreadOK, AdmitPCs, LockPCs
  <1>2. /\ RecordsKept(k) /\ SameState(k) /\ SameFlags(k) /\ OutsideKept(k) /\ SameOutside(k)
        /\ quarantine' \in BOOLEAN /\ faults' \in 0 .. MaxFaults
    BY <1>0, Kept
  <1>3. OnlyRow(k) /\ (SameRow(k) \/ (RowState(k) = "RESERVED" /\ rows'[k].state = "RELEASED"))
    <2>1. CASE Release(k)
      BY <1>0, <2>1, ReleaseOK DEF SameRow
    <2>2. CASE UNCHANGED tables
      BY <1>0, <2>2, Kept
    <2> QED BY <1>0, <2>1, <2>2
  <1>4. KeyStep(t, k)
    BY <1>1, <1>2, <1>3 DEF KeyStep, Stays, Releases, RowMoves
  <1>5. /\ Locally(t) /\ Enters(t)
        /\ th'[t].pc = "claim" /\ th'[t].arg = "VETO" /\ th'[t].key = k
        /\ th'[t].ext = TRUE /\ th'[t].auth = th[t].auth
    BY <1>0, VetoLocals
  <1>6. ThreadOK(t)'
    BY <1>0, <1>1, <1>5 DEF ThreadOK, State, LockPCs, AdmitPCs, DispatchPCs
  <1> QED BY <1>0, <1>2, <1>3, <1>4, <1>5, <1>6, StepOK

LEMMA EnterHoldOK ==
    ASSUME TypeOK, NEW k \in Keys, EnterHold(k, "unbounded")
    PROVE  /\ RecordsKept(k) /\ SameFlags(k)
           /\ SameState(k) \/ (State(k) = "CREATED" /\ rec'[k].state = "HOLD")
  <1> DEFINE r == [rec[k] EXCEPT !.state = "HOLD", !.tau = "unbounded"]
  <1>1. rec[k] \in Records(Procs \cup {NoProc}) /\ DOMAIN rec = Keys
    BY DEF TypeOK
  <1>2. r \in Records(Procs \cup {NoProc})
    BY <1>1 DEF Records, OpStates, Taus
  <1>3. CASE State(k) = "CREATED"
    <2>1. rec' = [rec EXCEPT ![k] = r]
      BY <1>1, <1>3 DEF EnterHold
    <2>2. r.state = "HOLD" /\ r.reserved = rec[k].reserved /\ r.committed = rec[k].committed
          /\ r.bound = rec[k].bound
      BY <1>1 DEF Records
    <2> HIDE DEF r
    <2>3. RecordsKept(k) /\ rec'[k] = r
      BY <1>1, <1>2, <2>1 DEF TypeOK, RecordsKept
    <2> QED BY <1>3, <2>2, <2>3 DEF SameFlags
  <1>4. CASE State(k) # "CREATED"
    BY <1>4 DEF EnterHold, TypeOK, RecordsKept, SameFlags, SameState
  <1> QED BY <1>3, <1>4

LEMMA ClaimStep ==
    ASSUME GovernorInv, NEW t \in Threads, AdjudicateClaim(t)
    PROVE  GovernorInv' /\ Visible
  <1> DEFINE k == th[t].key
             dec == IF quarantine THEN "VETO" ELSE th[t].arg
             vetoed == dec = "VETO" \/ (dec = "PASS" /\ ~CanMove(k, "RESERVED"))
  <1>0. /\ th[t].pc = "claim" /\ TypeOK /\ TablesOK /\ k \in Keys /\ KeyOK(k) /\ ThreadOK(t)
        /\ UNCHANGED tables /\ UNCHANGED quarantine /\ UNCHANGED <<prov, calls>>
        /\ UNCHANGED faults /\ UNCHANGED active /\ UNCHANGED lock
    BY Own DEF AdjudicateClaim, At, world
  <1>1. /\ CASE vetoed /\ ~th[t].ext -> TransitionTo(k, "FAILED")
             [] vetoed /\ th[t].ext  -> UNCHANGED rec
             [] ~vetoed /\ dec = "PASS" -> TransitionTo(k, "RESERVED")
             [] ~vetoed /\ dec = "HOLD" -> EnterHold(k, "unbounded")
        /\ IF vetoed /\ th[t].ext
             THEN th' = [th EXCEPT ![t] = [IdleThread EXCEPT !.pc = "fail", !.key = k]]
             ELSE th' = [th EXCEPT ![t] = IdleThread]
    BY DEF AdjudicateClaim
  <1>2. /\ State(k) \in {"CREATED", "FAILED"} /\ th[t].arg \in {"PASS", "HOLD", "VETO"}
        /\ ~th[t].ext => ~HasRow(k)
        /\ th[t].arg # "VETO" => rec[k].bound
    BY <1>0 DEF ThreadOK, AdmitPCs
  <1>3. /\ OnlyRow(k) /\ SameRow(k) /\ OutsideKept(k) /\ SameOutside(k)
        /\ quarantine' \in BOOLEAN /\ faults' \in 0 .. MaxFaults
    BY <1>0, Kept
  <1>4. Within(t, k, AdmitPCs) /\ State(k) \in OpStates
    BY <1>0, <1>2 DEF Within, AdmitPCs, OpStates
  <1>5. RecordsKept(k) /\ KeyStep(t, k)
    <2>1. CASE vetoed /\ ~th[t].ext
      <3>1. TransitionTo(k, "FAILED")
        BY <1>1, <2>1
      <3>2. /\ RecordsKept(k) /\ SameFlags(k)
            /\ SameState(k) \/ (CanMove(k, "FAILED") /\ rec'[k].state = "FAILED")
        BY <1>0, <3>1, TransitionOK DEF OpStates
      <3>3. Stays(k) \/ Moves(t, k, "FAILED")
        BY <1>2, <1>3, <2>1, <3>2 DEF Stays, Moves, CanMove, HoldsNothing
      <3> QED BY <3>2, <3>3 DEF KeyStep, OpStates
    <2>2. CASE vetoed /\ th[t].ext
      <3>1. UNCHANGED rec
        BY <1>1, <2>2
      <3>2. RecordsKept(k) /\ Stays(k)
        BY <1>0, <1>3, <3>1, Kept DEF Stays
      <3> QED BY <3>2 DEF KeyStep
    <2>3. CASE ~vetoed /\ dec = "PASS"
      <3>1. TransitionTo(k, "RESERVED") /\ th[t].arg = "PASS"
        BY <1>1, <2>3
      <3>2. /\ RecordsKept(k) /\ SameFlags(k)
            /\ SameState(k) \/ (CanMove(k, "RESERVED") /\ rec'[k].state = "RESERVED")
        BY <1>0, <3>1, TransitionOK DEF OpStates
      <3>3. Stays(k) \/ Moves(t, k, "RESERVED")
        BY <1>2, <1>3, <1>4, <3>1, <3>2 DEF Stays, Moves, CanMove
      <3> QED BY <3>2, <3>3 DEF KeyStep, OpStates
    <2>4. CASE ~vetoed /\ dec = "HOLD"
      <3>1. EnterHold(k, "unbounded") /\ th[t].arg = "HOLD"
        BY <1>1, <2>4
      <3>2. /\ RecordsKept(k) /\ SameFlags(k)
            /\ SameState(k) \/ (State(k) = "CREATED" /\ rec'[k].state = "HOLD")
        BY <1>0, <3>1, EnterHoldOK
      <3>3. Stays(k) \/ Moves(t, k, "HOLD")
        BY <1>2, <1>3, <1>4, <3>1, <3>2 DEF Stays, Moves, Legal, OpStates
      <3> QED BY <3>2, <3>3 DEF KeyStep, OpStates
    <2> QED BY <1>2, <2>1, <2>2, <2>3, <2>4
  <1>6. Locally(t) /\ ThreadOK(t)' /\ Enters(t)
    <2>0. active' \subseteq Procs \X Keys
      BY <1>0 DEF TypeOK
    <2>1. CASE vetoed /\ th[t].ext
      <3> DEFINE l == [IdleThread EXCEPT !.pc = "fail", !.key = k]
      <3>1. l \in ThreadStates
        BY <1>0 DEF IdleThread, ThreadStates, OpStates, PCs
      <3>2. th' = [th EXCEPT ![t] = l] /\ UNCHANGED rec
        BY <1>1, <2>1
      <3>3. l.pc = "fail" /\ l.key = k /\ l.auth = FALSE
        BY DEF IdleThread
      <3> HIDE DEF l
      <3>4. Locally(t) /\ th'[t] = l
        BY <1>0, <2>0, <3>1, <3>2, MovesThread
      <3>5. ThreadOK(t)'
        BY <1>0, <1>2, <3>2, <3>3, <3>4 DEF ThreadOK, State, LockPCs, AdmitPCs, DispatchPCs
      <3> QED BY <3>3, <3>4, <3>5, EntersNothing DEF AdmitPCs, DispatchPCs
    <2>2. CASE ~(vetoed /\ th[t].ext)
      <3>1. th' = [th EXCEPT ![t] = IdleThread]
        BY <1>1, <2>2
      <3>2. Locally(t) /\ th'[t] = IdleThread
        BY <1>0, <2>0, <3>1, MovesThread, ThreadFacts
      <3> QED BY <3>2, IdleOK
    <2> QED BY <2>1, <2>2
  <1> QED BY <1>0, <1>3, <1>5, <1>6, StepOK

-----------------------------------------------------------------------------
\* fail
LEMMA FailCallStep ==
    ASSUME GovernorInv, NEW t \in Threads, NEW k \in Keys, NEW auth \in BOOLEAN,
           FailCall(t, k, auth)
    PROVE  GovernorInv' /\ Visible
  <1> DEFINE l == [IdleThread EXCEPT !.pc = "fail", !.key = k, !.auth = auth]
  <1>0. /\ TypeOK /\ th[t] = IdleThread /\ State(k) # "NONE" /\ (auth => prov[k] = "failed")
        /\ UNCHANGED Durable /\ UNCHANGED lock /\ UNCHANGED active /\ UNCHANGED faults
    BY DEF FailCall, GovernorInv, ThreadOK, At, world, Durable
  <1>1. faults' \in 0 .. MaxFaults /\ active' \subseteq Procs \X Keys
    BY <1>0, Kept DEF TypeOK
  <1>2. l \in ThreadStates
    BY DEF IdleThread, ThreadStates, OpStates, PCs
  <1>3. th' = [th EXCEPT ![t] = l]
    BY <1>0, ThreadFacts DEF FailCall
  <1>4. l.pc = "fail" /\ l.key = k /\ l.auth = auth
    BY DEF IdleThread
  <1> HIDE DEF l
  <1>5. Locally(t) /\ th'[t] = l
    BY <1>0, <1>1, <1>2, <1>3, MovesThread
  <1>6. ThreadOK(t)'
    BY <1>0, <1>4, <1>5 DEF ThreadOK, State, Durable, LockPCs, AdmitPCs, DispatchPCs
  <1>7. Enters(t)
    BY <1>4, <1>5, EntersNothing DEF AdmitPCs, DispatchPCs
  <1> QED BY <1>0, <1>1, <1>5, <1>6, <1>7, QuietStep

\* Adoption brings the flags in line with the row, if there is one.
LEMMA AdoptedOK ==
    ASSUME GovernorInv, NEW k \in Keys, rec' = [rec EXCEPT ![k] = Adopted(k)],
           SameRow(k), SameOutside(k)
    PROVE  /\ RecordsKept(k) /\ rec'[k] = Adopted(k) /\ SameState(k)
           /\ Adopted(k).state \in OpStates
           /\ Adopted(k).reserved \in BOOLEAN /\ Adopted(k).committed \in BOOLEAN
           /\ \/ Stays(k) \/ Flags(k, TRUE, FALSE) \/ Flags(k, FALSE, FALSE)
           /\ ~(Adopted(k).reserved \/ Adopted(k).committed) => HoldsNothing(k)
  <1>0. TypeOK /\ TablesOK /\ KeyOK(k)
    BY OfKey
  <1>1. rec[k] \in Records(Procs \cup {NoProc}) /\ DOMAIN rec = Keys
    BY <1>0 DEF TypeOK
  <1>2. /\ HasRow(k) <=> RowState(k) # "NONE"
        /\ RowState(k) \in RowStates \cup {"NONE"}
    BY <1>0, RowFacts
  <1>3. CASE rec[k].bound \/ ~HasRow(k)
    <2>1. Adopted(k) = rec[k]
      BY <1>3 DEF Adopted
    <2>2. RecordsKept(k) /\ rec'[k] = rec[k]
      BY <1>0, <1>1, <2>1 DEF RecordsKept, TypeOK
    <2>3. ~(rec[k].reserved \/ rec[k].committed) => HoldsNothing(k)
      BY <1>0, <1>2, <1>3 DEF KeyOK, FlagsOK, HoldsNothing, Returned, RowStates
    <2> QED BY <1>1, <2>1, <2>2, <2>3 DEF Stays, SameState, SameFlags, Records
  <1>4. CASE ~rec[k].bound /\ HasRow(k)
    <2> DEFINE r == [rec[k] EXCEPT !.bound = TRUE, !.reserved = Held(k),
                                   !.committed = RowState(k) = "COMMITTED"]
    <2>1. Adopted(k) = r
      BY <1>4 DEF Adopted
    <2>2. RowState(k) \in {"RESERVED", "RELEASED", "REFUNDED"}
      BY <1>0, <1>2, <1>4 DEF KeyOK, FlagsOK, RowStates
    <2>3. (RowState(k) = "COMMITTED") = FALSE /\ Held(k) \in BOOLEAN
          /\ (Held(k) <=> RowState(k) = "RESERVED")
      BY <2>2 DEF Held
    <2>4. /\ r \in Records(Procs \cup {NoProc})
          /\ r.state = rec[k].state /\ r.bound = TRUE /\ r.committed = FALSE /\ r.reserved = Held(k)
      BY <1>1, <2>3 DEF Records
    <2> HIDE DEF r
    <2>5. RecordsKept(k) /\ rec'[k] = r
      BY <1>0, <1>1, <2>1, <2>4 DEF RecordsKept, TypeOK
    <2>6. CASE RowState(k) = "RESERVED"
      BY <1>1, <2>1, <2>3, <2>4, <2>5, <2>6 DEF Flags, SameState, Records
    <2>7. CASE RowState(k) # "RESERVED"
      BY <1>1, <2>1, <2>2, <2>3, <2>4, <2>5, <2>7 DEF Flags, SameState, Records, HoldsNothing, Returned
    <2> QED BY <2>6, <2>7
  <1> QED BY <1>3, <1>4

LEMMA FailStartStep ==
    ASSUME GovernorInv, NEW t \in Threads, FailStart(t)
    PROVE  GovernorInv' /\ Visible
  <1> DEFINE k == th[t].key
             record == Adopted(k)
             l == [th[t] EXCEPT !.pc = "settle", !.paid = record.committed,
                                !.owns = record.reserved \/ record.committed, !.from = record.state]
  <1>0. /\ th[t].pc = "fail" /\ TypeOK /\ TablesOK /\ k \in Keys /\ KeyOK(k) /\ ThreadOK(t)
        /\ UNCHANGED tables /\ UNCHANGED quarantine /\ UNCHANGED <<prov, calls>>
        /\ UNCHANGED faults /\ UNCHANGED active /\ Acquire(t, k) /\ State(k) # "NONE"
        /\ (th[t].auth => prov[k] = "failed")
    BY Own DEF FailStart, At, ThreadOK
  <1>1. /\ OnlyRow(k) /\ SameRow(k) /\ OutsideKept(k) /\ SameOutside(k)
        /\ quarantine' \in BOOLEAN /\ faults' \in 0 .. MaxFaults
    BY <1>0, Kept
  <1>2. /\ RecordsKept(k) /\ rec'[k] = record /\ SameState(k) /\ record.state \in OpStates
        /\ record.reserved \in BOOLEAN /\ record.committed \in BOOLEAN
        /\ \/ Stays(k) \/ Flags(k, TRUE, FALSE) \/ Flags(k, FALSE, FALSE)
        /\ ~(record.reserved \/ record.committed) => HoldsNothing(k)
    BY <1>0, <1>1, AdoptedOK DEF FailStart
  <1>3. KeyStep(t, k)
    BY <1>2 DEF KeyStep
  <1>4. th[t] \in ThreadStates /\ DOMAIN th = Threads /\ active' \subseteq Procs \X Keys
    BY <1>0, ThreadFacts DEF TypeOK
  <1>5. l \in ThreadStates
    <2> HIDE DEF record
    <2>1. (record.reserved \/ record.committed) \in BOOLEAN
      BY <1>2
    <2> QED BY <1>2, <1>4, <2>1 DEF ThreadStates, PCs
  <1>6. th' = [th EXCEPT ![t] = l]
    BY <1>4 DEF FailStart
  <1>7. l.pc = "settle" /\ l.key = k /\ l.auth = th[t].auth /\ l.owns = (record.reserved \/ record.committed)
    BY <1>4 DEF ThreadStates
  <1> HIDE DEF l
  <1>8. Locally(t) /\ th'[t] = l
    BY <1>0, <1>4, <1>5, <1>6, MovesThread
  <1>9. ThreadOK(t)' /\ Enters(t)
    <2>1. lock'[k] = t
      BY <1>0 DEF TypeOK, Acquire
    <2>2. l.owns \/ HoldsNothing(k)
      BY <1>2, <1>7
    <2>3. ThreadOK(t)'
      BY <1>0, <1>2, <1>7, <1>8, <2>1, <2>2 DEF ThreadOK, State, SameState, LockPCs, AdmitPCs, DispatchPCs,
            tables, HoldsNothing, Returned, HasRow, RowState
    <2> QED BY <1>7, <1>8, <2>3, EntersNothing DEF AdmitPCs, DispatchPCs
  <1> QED BY <1>0, <1>1, <1>2, <1>3, <1>8, <1>9, StepOK

-----------------------------------------------------------------------------
(* The steps of a settlement: a budget transaction, an update of the       *)
(* flags or a transition, then the next step or the end of the method.     *)
LEMMA RowStep ==
    ASSUME GovernorInv, NEW a \in Threads \cup {NoThread}, NEW k \in Keys,
           lock[k] \in {NoThread, a}, UNCHANGED rec, UNCHANGED <<prov, calls>>,
           \/ UNCHANGED tables
           \/ Release(k)
           \/ Refund(k) /\ (RowState(k) = "COMMITTED" => prov[k] = "failed")
           \/ Commit(k) /\ (RowState(k) = "RESERVED" => State(k) = "DISPATCHING")
    PROVE  OnlyRow(k) /\ RecordsKept(k) /\ OutsideKept(k) /\ KeyStep(a, k)
  <1>0. TypeOK /\ TablesOK
    BY OfKey
  <1>1. RecordsKept(k) /\ SameState(k) /\ SameFlags(k) /\ OutsideKept(k) /\ SameOutside(k)
    BY <1>0, Kept
  <1>2. CASE UNCHANGED tables
    BY <1>0, <1>1, <1>2, Kept DEF KeyStep, Stays
  <1>3. CASE Release(k)
    BY <1>0, <1>1, <1>3, ReleaseOK DEF KeyStep, Stays, SameRow, Releases, RowMoves
  <1>4. CASE Refund(k) /\ (RowState(k) = "COMMITTED" => prov[k] = "failed")
    BY <1>0, <1>1, <1>4, RefundOK DEF KeyStep, Stays, SameRow, Refunds, RowMoves
  <1>5. CASE Commit(k) /\ (RowState(k) = "RESERVED" => State(k) = "DISPATCHING")
    BY <1>0, <1>1, <1>5, CommitOK DEF KeyStep, Stays, SameRow, Charges, RowMoves
  <1> QED BY <1>2, <1>3, <1>4, <1>5

LEMMA NothingDurable ==
    ASSUME GovernorInv, NEW a \in Threads \cup {NoThread}, NEW k \in Keys,
           UNCHANGED tables, UNCHANGED rec, UNCHANGED <<prov, calls>>
    PROVE  OnlyRow(k) /\ RecordsKept(k) /\ OutsideKept(k) /\ KeyStep(a, k)
  BY Kept, OfKey DEF KeyStep, Stays

LEMMA MoveStep ==
    ASSUME GovernorInv, NEW a \in Threads \cup {NoThread}, NEW k \in Keys, NEW s \in OpStates,
           TransitionTo(k, s) \/ UNCHANGED rec, UNCHANGED tables, UNCHANGED <<prov, calls>>,
           State(k) = "CREATED" => s = "FAILED",
           s = "FAILED" => HoldsNothing(k), s = "CONFIRMED" => prov[k] = "effect"
    PROVE  OnlyRow(k) /\ RecordsKept(k) /\ OutsideKept(k) /\ KeyStep(a, k)
  <1>0. TypeOK
    BY OfKey
  <1>1. OnlyRow(k) /\ SameRow(k) /\ OutsideKept(k) /\ SameOutside(k)
    BY <1>0, Kept
  <1>2. CASE UNCHANGED rec
    BY <1>0, <1>1, <1>2, Kept DEF KeyStep, Stays
  <1>3. CASE TransitionTo(k, s)
    <2>1. /\ RecordsKept(k) /\ SameFlags(k)
          /\ SameState(k) \/ (CanMove(k, s) /\ rec'[k].state = s)
      BY <1>0, <1>3, TransitionOK
    <2>2. Stays(k) \/ Moves(a, k, s)
      BY <1>1, <2>1 DEF Stays, Moves, CanMove
    <2> QED BY <1>1, <2>1, <2>2 DEF KeyStep
  <1> QED BY <1>2, <1>3

\* Nothing that is CREATED becomes UNKNOWN.
LEMMA UnknownStep ==
    ASSUME GovernorInv, NEW a \in Threads \cup {NoThread}, NEW k \in Keys,
           TransitionTo(k, "UNKNOWN") \/ UNCHANGED rec, UNCHANGED tables, UNCHANGED <<prov, calls>>
    PROVE  OnlyRow(k) /\ RecordsKept(k) /\ OutsideKept(k) /\ KeyStep(a, k)
  <1>1. CASE CanMove(k, "UNKNOWN")
    <2>1. State(k) # "CREATED"
      BY <1>1 DEF CanMove, Legal, OpStates
    <2> QED BY <2>1, MoveStep DEF OpStates
  <1>2. CASE ~CanMove(k, "UNKNOWN")
    <2>1. UNCHANGED rec
      BY <1>2 DEF TransitionTo
    <2> QED BY <2>1, NothingDurable
  <1> QED BY <1>1, <1>2

LEMMA FlagStep ==
    ASSUME GovernorInv, NEW a \in Threads \cup {NoThread}, NEW k \in Keys, NEW com \in BOOLEAN,
           SetBudgetFlags(k, FALSE, com), UNCHANGED tables, UNCHANGED <<prov, calls>>,
           IF com THEN RowState(k) = "COMMITTED" ELSE Returned(k)
    PROVE  OnlyRow(k) /\ RecordsKept(k) /\ OutsideKept(k) /\ KeyStep(a, k)
  <1>0. TypeOK
    BY OfKey
  <1>1. OnlyRow(k) /\ SameRow(k) /\ OutsideKept(k) /\ SameOutside(k)
    BY <1>0, Kept
  <1>2. /\ RecordsKept(k) /\ SameState(k)
        /\ rec'[k].reserved = FALSE /\ rec'[k].committed = com /\ rec'[k].bound = TRUE
    BY <1>0, SetFlagsOK
  <1>3. CASE com = TRUE
    BY <1>1, <1>2, <1>3 DEF KeyStep, Flags
  <1>4. CASE com = FALSE
    BY <1>1, <1>2, <1>4 DEF KeyStep, Flags, Returned
  <1> QED BY <1>3, <1>4

\* The method ends with this step.
LEMMA ReturnStep ==
    ASSUME GovernorInv, NEW t \in Threads, th[t].pc # "idle", Return(t),
           OnlyRow(th[t].key), RecordsKept(th[t].key), OutsideKept(th[t].key), KeyStep(t, th[t].key),
           UNCHANGED quarantine, faults' \in 0 .. MaxFaults
    PROVE  GovernorInv' /\ Visible
  <1>1. TypeOK /\ th[t].key \in Keys
    BY Own
  <1>2. Locally(t) /\ ThreadOK(t)' /\ Enters(t)
    BY <1>1, ReturnOK
  <1>3. quarantine' \in BOOLEAN
    BY <1>1, Kept
  <1> QED BY <1>1, <1>2, <1>3, StepOK

\* The method goes on at pc, which begins no admission or dispatch.
LEMMA GotoStep ==
    ASSUME GovernorInv, NEW t \in Threads, th[t].pc # "idle", NEW pc \in PCs, Goto(t, pc),
           UNCHANGED lock \/ Acquire(t, th[t].key) \/ Unlock(t, th[t].key), UNCHANGED active,
           \/ pc \notin AdmitPCs \cup DispatchPCs
           \/ pc \in DispatchPCs /\ th[t].pc \in DispatchPCs,
           OnlyRow(th[t].key), RecordsKept(th[t].key), OutsideKept(th[t].key), KeyStep(t, th[t].key),
           UNCHANGED quarantine, UNCHANGED faults,
           th'[t].pc = pc /\ SameLocals(t) => ThreadOK(t)'
    PROVE  GovernorInv' /\ Visible
  <1>1. TypeOK /\ th[t].key \in Keys
    BY Own
  <1>2. Locally(t) /\ th'[t].pc = pc /\ SameLocals(t)
    BY <1>1, GoesTo
  <1>3. Enters(t)
    BY <1>2, EntersNothing, EntersNext DEF SameLocals
  <1>4. quarantine' \in BOOLEAN /\ faults' \in 0 .. MaxFaults
    BY <1>1, Kept
  <1> QED BY <1>1, <1>2, <1>3, <1>4, StepOK

-----------------------------------------------------------------------------
\* fail, continued
LEMMA FailSettleStep ==
    ASSUME GovernorInv, NEW t \in Threads, FailSettle(t)
    PROVE  GovernorInv' /\ Visible
  <1> DEFINE k == th[t].key
             refunds == th[t].owns /\ th[t].paid /\ MayRefund(t)
             releases == th[t].owns /\ ~th[t].paid /\ MayRelease(t)
             settled == \/ refunds /\ RefundResult(k) \in {"REFUNDED", "ALREADY_REFUNDED"}
                        \/ releases /\ ReleaseResult(k) \in {"RELEASED", "ALREADY_RELEASED"}
  <1>0. /\ th[t].pc = "settle" /\ TypeOK /\ TablesOK /\ k \in Keys /\ KeyOK(k) /\ ThreadOK(t)
        /\ UNCHANGED quarantine /\ UNCHANGED <<prov, calls>> /\ UNCHANGED faults
    BY Own DEF FailSettle, At
  <1>1. /\ CASE refunds  -> Refund(k)
             [] releases -> Release(k)
             [] OTHER    -> UNCHANGED tables
        /\ IF th[t].owns THEN UNCHANGED rec ELSE TransitionTo(k, "FAILED")
        /\ IF settled THEN Goto(t, "unflag") /\ UNCHANGED <<lock, active>> ELSE Return(t)
    BY DEF FailSettle
  <1>2. /\ lock[k] = t /\ (th[t].auth => prov[k] = "failed") /\ (~th[t].owns => HoldsNothing(k))
        /\ State(k) # "NONE"
    BY <1>0 DEF ThreadOK, LockPCs
  <1>3. faults' \in 0 .. MaxFaults
    BY <1>0, Kept
  <1>4. CASE ~th[t].owns
    <2>1. UNCHANGED tables /\ TransitionTo(k, "FAILED") /\ Return(t)
      BY <1>1, <1>4
    <2>2. OnlyRow(k) /\ RecordsKept(k) /\ OutsideKept(k) /\ KeyStep(t, k)
      BY <1>0, <1>2, <1>4, <2>1, MoveStep DEF OpStates
    <2> QED BY <1>0, <1>3, <2>1, <2>2, ReturnStep
  <1>5. CASE th[t].owns
    <2>1. /\ UNCHANGED rec
          /\ \/ UNCHANGED tables \/ Release(k)
             \/ Refund(k) /\ (RowState(k) = "COMMITTED" => prov[k] = "failed")
      BY <1>1, <1>2, <1>5 DEF MayRefund
    <2>2. OnlyRow(k) /\ RecordsKept(k) /\ OutsideKept(k) /\ KeyStep(t, k)
      BY <1>0, <1>2, <2>1, RowStep
    <2>3. CASE settled
      <3>1. rows'[k].state \in {"RELEASED", "REFUNDED"}
        BY <1>0, <1>1, <2>3, ReleaseOK, RefundOK
      <3>2. th'[t].pc = "unflag" /\ SameLocals(t) => ThreadOK(t)'
        BY <1>0, <1>1, <1>2, <2>1, <2>3, <3>1 DEF ThreadOK, SameLocals, State, RowState, Returned,
              LockPCs, AdmitPCs, DispatchPCs
      <3> QED BY <1>0, <1>1, <2>2, <2>3, <3>2, GotoStep DEF PCs, AdmitPCs, DispatchPCs
    <2>4. CASE ~settled
      BY <1>0, <1>1, <1>3, <2>2, <2>4, ReturnStep
    <2> QED BY <2>3, <2>4
  <1> QED BY <1>4, <1>5

LEMMA ClearFlagsStep ==
    ASSUME GovernorInv, NEW t \in Threads, ClearFlags(t)
    PROVE  GovernorInv' /\ Visible
  <1> DEFINE k == th[t].key
  <1>0. /\ th[t].pc = "unflag" /\ TypeOK /\ k \in Keys /\ ThreadOK(t) /\ SetBudgetFlags(k, FALSE, FALSE)
        /\ UNCHANGED tables /\ UNCHANGED quarantine /\ UNCHANGED <<prov, calls>>
        /\ UNCHANGED faults /\ UNCHANGED lock /\ UNCHANGED active /\ Goto(t, "failed")
    BY Own DEF ClearFlags, At, world
  <1>1. Returned(k)
    BY <1>0 DEF ThreadOK
  <1>2. OnlyRow(k) /\ RecordsKept(k) /\ OutsideKept(k) /\ KeyStep(t, k)
    BY <1>0, <1>1, FlagStep
  <1>3. SameState(k)
    BY <1>0, SetFlagsOK
  <1>4. th'[t].pc = "failed" /\ SameLocals(t) => ThreadOK(t)'
    BY <1>0, <1>3 DEF ThreadOK, SameLocals, State, SameState, RowState, Returned, tables,
          LockPCs, AdmitPCs, DispatchPCs
  <1> QED BY <1>0, <1>2, <1>4, GotoStep DEF PCs, AdmitPCs, DispatchPCs

LEMMA FailFinalStep ==
    ASSUME GovernorInv, NEW t \in Threads, FailFinal(t)
    PROVE  GovernorInv' /\ Visible
  <1> DEFINE k == th[t].key
  <1>0. /\ th[t].pc = "failed" /\ TypeOK /\ k \in Keys /\ ThreadOK(t) /\ TransitionTo(k, "FAILED")
        /\ UNCHANGED tables /\ UNCHANGED quarantine /\ UNCHANGED <<prov, calls>>
        /\ UNCHANGED faults /\ Return(t)
    BY Own DEF FailFinal, At
  <1>1. HoldsNothing(k)
    BY <1>0 DEF ThreadOK, HoldsNothing
  <1>2. OnlyRow(k) /\ RecordsKept(k) /\ OutsideKept(k) /\ KeyStep(t, k)
    BY <1>0, <1>1, MoveStep DEF OpStates
  <1>3. faults' \in 0 .. MaxFaults
    BY <1>0, Kept
  <1> QED BY <1>0, <1>2, <1>3, ReturnStep

-----------------------------------------------------------------------------
\* dispatch
LEMMA DispatchClaimStep ==
    ASSUME GovernorInv, NEW t \in Threads, NEW k \in Keys, NEW live \in BOOLEAN,
           DispatchClaim(t, k, live)
    PROVE  GovernorInv' /\ Visible
  <1> DEFINE pc == IF live THEN "mark" ELSE "commit"
             l == [IdleThread EXCEPT !.pc = pc, !.key = k, !.live = live]
             r == [rec[k] EXCEPT !.state = "DISPATCHING", !.by = ProcOf[t]]
  <1>0. /\ TypeOK /\ KeyOK(k) /\ th[t] = IdleThread /\ CanMove(k, "DISPATCHING")
        /\ State(k) \in OpStates
        /\ UNCHANGED tables /\ UNCHANGED quarantine /\ UNCHANGED <<prov, calls>>
        /\ UNCHANGED faults /\ UNCHANGED lock /\ UNCHANGED active
    BY OfKey DEF DispatchClaim, GovernorInv, ThreadOK, At, world
  <1>1. State(k) = "RESERVED" /\ calls[k] = 0
    BY <1>0, LegalFacts DEF CanMove, KeyOK, Claimed
  <1>2. /\ OnlyRow(k) /\ SameRow(k) /\ OutsideKept(k) /\ SameOutside(k)
        /\ quarantine' \in BOOLEAN /\ faults' \in 0 .. MaxFaults /\ active' \subseteq Procs \X Keys
    BY <1>0, Kept DEF TypeOK
  <1>3. rec[k] \in Records(Procs \cup {NoProc}) /\ DOMAIN rec = Keys /\ ProcOf[t] \in Procs
    BY <1>0, ThreadFacts DEF TypeOK
  <1>4. r \in Records(Procs \cup {NoProc}) /\ rec' = [rec EXCEPT ![k] = r]
    BY <1>3 DEF Records, OpStates, DispatchClaim
  <1>5. r.state = "DISPATCHING" /\ r.reserved = rec[k].reserved /\ r.committed = rec[k].committed
        /\ r.bound = rec[k].bound
    BY <1>3 DEF Records
  <1>6. pc \in {"mark", "commit"}
    OBVIOUS
  <1>7. l \in ThreadStates
    BY <1>6 DEF IdleThread, ThreadStates, OpStates, PCs
  <1>8. th' = [th EXCEPT ![t] = l]
    BY <1>0, ThreadFacts DEF DispatchClaim
  <1>9. l.pc \in {"mark", "commit"} /\ l.key = k /\ l.auth = FALSE
    BY <1>6 DEF IdleThread
  <1> HIDE DEF l, r, pc
  <1>10. RecordsKept(k) /\ rec'[k].state = "DISPATCHING" /\ SameFlags(k)
    BY <1>0, <1>3, <1>4, <1>5 DEF TypeOK, RecordsKept, SameFlags
  <1>11. KeyStep(t, k)
    BY <1>0, <1>1, <1>2, <1>10 DEF KeyStep, Moves, CanMove, OpStates
  <1>12. Locally(t) /\ th'[t] = l
    BY <1>0, <1>2, <1>7, <1>8, MovesThread
  <1>13. ThreadOK(t)'
    BY <1>0, <1>1, <1>9, <1>10, <1>12 DEF ThreadOK, State, LockPCs, AdmitPCs, DispatchPCs, Claimed
  <1>14. Enters(t)
    BY <1>1, <1>9, <1>12 DEF Enters, Within, AdmitPCs, DispatchPCs, Claimed
  <1> QED BY <1>2, <1>10, <1>11, <1>12, <1>13, <1>14, StepOK

LEMMA DispatchMarkStep ==
    ASSUME GovernorInv, NEW t \in Threads, DispatchMark(t)
    PROVE  GovernorInv' /\ Visible
  <1> DEFINE k == th[t].key
             l == [th[t] EXCEPT !.pc = "commit"]
  <1>0. /\ th[t].pc = "mark" /\ TypeOK /\ k \in Keys /\ ThreadOK(t) /\ UNCHANGED Durable
        /\ UNCHANGED faults /\ UNCHANGED lock /\ th' = [th EXCEPT ![t] = l]
        /\ active' = active \cup {<<ProcOf[t], k>>}
    BY Own DEF DispatchMark, At, Durable, Goto
  <1>1. l \in ThreadStates /\ th[t] \in ThreadStates /\ ProcOf[t] \in Procs
    BY <1>0, ThreadFacts DEF PCs
  <1>2. l.pc = "commit" /\ l.key = k /\ l.auth = th[t].auth
    BY <1>1 DEF ThreadStates
  <1>3. active' \subseteq Procs \X Keys
    BY <1>0, <1>1 DEF TypeOK
  <1> HIDE DEF l
  <1>4. Locally(t) /\ th'[t] = l
    BY <1>0, <1>1, <1>3, MovesThread
  <1>5. ThreadOK(t)'
    BY <1>0, <1>2, <1>4 DEF ThreadOK, Durable, State, LockPCs, AdmitPCs, DispatchPCs
  <1>6. Enters(t)
    BY <1>0, <1>2, <1>4, EntersNext DEF DispatchPCs
  <1>7. faults' \in 0 .. MaxFaults
    BY <1>0, Kept
  <1> QED BY <1>0, <1>4, <1>5, <1>6, <1>7, QuietStep

LEMMA DispatchCommitStep ==
    ASSUME GovernorInv, NEW t \in Threads, DispatchCommit(t)
    PROVE  GovernorInv' /\ Visible
  <1> DEFINE k == th[t].key
             mine == /\ State(k) = "DISPATCHING" /\ rec[k].by = ProcOf[t]
                     /\ rec[k].bound
                     /\ RevalidateBudget => RowState(k) = "RESERVED"
  <1>0. /\ th[t].pc = "commit" /\ TypeOK /\ TablesOK /\ k \in Keys /\ KeyOK(k) /\ ThreadOK(t)
        /\ UNCHANGED rec /\ UNCHANGED quarantine /\ UNCHANGED <<prov, calls>> /\ UNCHANGED faults
        /\ lock[k] = NoThread
    BY Own DEF DispatchCommit, At
  <1>1. /\ IF mine THEN Commit(k) ELSE UNCHANGED tables
        /\ IF mine /\ Charged(k)
             THEN Goto(t, "cflags") /\ Acquire(t, k) /\ UNCHANGED active
             ELSE Return(t)
    BY DEF DispatchCommit
  <1>2. OnlyRow(k) /\ RecordsKept(k) /\ OutsideKept(k) /\ KeyStep(t, k)
    <2>1. UNCHANGED tables \/ (Commit(k) /\ State(k) = "DISPATCHING")
      BY <1>1
    <2> QED BY <1>0, <2>1, RowStep
  <1>3. faults' \in 0 .. MaxFaults
    BY <1>0, Kept
  <1>4. CASE mine /\ Charged(k)
    <2>1. rows'[k].state = "COMMITTED" /\ lock'[k] = t
      BY <1>0, <1>1, <1>4, CommitOK DEF Acquire, TypeOK
    <2>2. th'[t].pc = "cflags" /\ SameLocals(t) => ThreadOK(t)'
      BY <1>0, <2>1 DEF ThreadOK, SameLocals, State, RowState, LockPCs, AdmitPCs, DispatchPCs
    <2> QED BY <1>0, <1>1, <1>2, <1>4, <2>2, GotoStep DEF PCs, DispatchPCs
  <1>5. CASE ~(mine /\ Charged(k))
    BY <1>0, <1>1, <1>2, <1>3, <1>5, ReturnStep
  <1> QED BY <1>4, <1>5

LEMMA DispatchFlagsStep ==
    ASSUME GovernorInv, NEW t \in Threads, DispatchFlags(t)
    PROVE  GovernorInv' /\ Visible
  <1> DEFINE k == th[t].key
  <1>0. /\ th[t].pc = "cflags" /\ TypeOK /\ k \in Keys /\ ThreadOK(t) /\ SetBudgetFlags(k, FALSE, TRUE)
        /\ UNCHANGED tables /\ UNCHANGED quarantine /\ UNCHANGED <<prov, calls>>
        /\ UNCHANGED faults /\ UNCHANGED active /\ Unlock(t, k) /\ Goto(t, "exec")
    BY Own DEF DispatchFlags, At
  <1>1. RowState(k) = "COMMITTED"
    BY <1>0 DEF ThreadOK
  <1>2. OnlyRow(k) /\ RecordsKept(k) /\ OutsideKept(k) /\ KeyStep(t, k)
    BY <1>0, <1>1, FlagStep
  <1>3. SameState(k)
    BY <1>0, SetFlagsOK
  <1>4. th'[t].pc = "exec" /\ SameLocals(t) => ThreadOK(t)'
    BY <1>0, <1>3 DEF ThreadOK, SameLocals, State, SameState, RowState, tables,
          LockPCs, AdmitPCs, DispatchPCs
  <1> QED BY <1>0, <1>2, <1>4, GotoStep DEF PCs, DispatchPCs

\* Where provider.execute leaves its thread, when the provider has done p.
LEMMA ExecuteLocals ==
    ASSUME TypeOK, NEW t \in Threads, th[t].key \in Keys, NEW p, UNCHANGED lock,
           \/ /\ th[t].live /\ Confirms(p)
              /\ Goto(t, "confirm") /\ UNCHANGED active
           \/ /\ th[t].live /\ p = "failed"
              /\ th' = [th EXCEPT ![t].pc = "fail", ![t].auth = TRUE] /\ UNCHANGED active
           \/ /\ th[t].live
              /\ Goto(t, "unknown") /\ UNCHANGED active
           \/ /\ th[t].live => p = "pending"
              /\ th' = [th EXCEPT ![t] = IdleThread] /\ Discard(t)
    PROVE  /\ Locally(t)
           /\ \/ th'[t] = IdleThread
              \/ /\ th'[t].key = th[t].key
                 /\ \/ th'[t].pc = "confirm" /\ p = "effect" /\ th'[t].auth = th[t].auth
                    \/ th'[t].pc = "fail" /\ p = "failed"
                    \/ th'[t].pc = "unknown" /\ th'[t].auth = th[t].auth
  <1>0. th[t] \in ThreadStates /\ DOMAIN th = Threads
    BY ThreadFacts
  <1>1. CASE th[t].live /\ Confirms(p) /\ Goto(t, "confirm") /\ UNCHANGED active
    BY <1>1, GoesTo DEF PCs, SameLocals, Confirms
  <1>2. CASE /\ th[t].live /\ p = "failed"
             /\ th' = [th EXCEPT ![t].pc = "fail", ![t].auth = TRUE] /\ UNCHANGED active
    <2> DEFINE l == [th[t] EXCEPT !.pc = "fail", !.auth = TRUE]
    <2>1. l \in ThreadStates /\ l.key = th[t].key /\ l.pc = "fail"
      BY <1>0 DEF ThreadStates, PCs
    <2>2. th' = [th EXCEPT ![t] = l]
      BY <1>0, <1>2
    <2>3. active' \subseteq Procs \X Keys
      BY <1>2 DEF TypeOK
    <2> HIDE DEF l
    <2>4. Locally(t) /\ th'[t] = l
      BY <2>1, <2>2, <2>3, MovesThread
    <2> QED BY <1>2, <2>1, <2>4
  <1>3. CASE th[t].live /\ Goto(t, "unknown") /\ UNCHANGED active
    BY <1>3, GoesTo DEF PCs, SameLocals
  <1>4. CASE /\ th[t].live => p = "pending"
             /\ th' = [th EXCEPT ![t] = IdleThread] /\ Discard(t)
    <2>1. active' \subseteq Procs \X Keys
      BY <1>4 DEF Discard, TypeOK
    <2> QED BY <1>4, <2>1, MovesThread, ThreadFacts
  <1> QED BY <1>1, <1>2, <1>3, <1>4

LEMMA DispatchExecuteStep ==
    ASSUME GovernorInv, NEW t \in Threads, DispatchExecute(t)
    PROVE  GovernorInv' /\ Visible
  <1> DEFINE k == th[t].key
  <1>0. /\ th[t].pc = "exec" /\ TypeOK /\ TablesOK /\ k \in Keys /\ KeyOK(k) /\ ThreadOK(t)
        /\ UNCHANGED tables /\ UNCHANGED rec /\ UNCHANGED quarantine /\ UNCHANGED faults
        /\ UNCHANGED lock /\ calls' = [calls EXCEPT ![k] = @ + 1]
    BY Own DEF DispatchExecute, At
  <1>1. /\ calls[k] = 0 /\ prov[k] = "none" /\ RowState(k) = "COMMITTED" /\ State(k) \in Claimed
        /\ State(k) # "NONE" /\ th[t].auth = FALSE
    <2>1. /\ calls[k] = 0 /\ RowState(k) = "COMMITTED" /\ State(k) \in Claimed /\ State(k) # "NONE"
          /\ (th[t].auth => prov[k] = "failed")
      BY <1>0 DEF ThreadOK, DispatchPCs
    <2>2. prov[k] = "none"
      BY <1>0, <2>1 DEF KeyOK
    <2>3. th[t].auth \in BOOLEAN
      BY <1>0, ThreadFacts DEF ThreadStates
    <2> QED BY <2>1, <2>2, <2>3
  <1>2. PICK p \in {"pending", "effect", "failed"} :
           /\ prov' = [prov EXCEPT ![k] = p]
           /\ \/ /\ th[t].live /\ Confirms(p)
                 /\ Goto(t, "confirm") /\ UNCHANGED active
              \/ /\ th[t].live /\ p = "failed"
                 /\ th' = [th EXCEPT ![t].pc = "fail", ![t].auth = TRUE] /\ UNCHANGED active
              \/ /\ th[t].live
                 /\ Goto(t, "unknown") /\ UNCHANGED active
              \/ /\ th[t].live => p = "pending"
                 /\ th' = [th EXCEPT ![t] = IdleThread] /\ Discard(t)
    BY <1>1 DEF DispatchExecute
  <1>3. /\ OnlyRow(k) /\ SameRow(k) /\ RecordsKept(k) /\ SameState(k) /\ SameFlags(k)
        /\ quarantine' \in BOOLEAN /\ faults' \in 0 .. MaxFaults
    BY <1>0, Kept
  <1>4. OutsideKept(k) /\ prov'[k] = p /\ calls'[k] = calls[k] + 1
    BY <1>0, <1>2 DEF TypeOK, OutsideKept
  <1>5. KeyStep(t, k)
    BY <1>0, <1>1, <1>3, <1>4 DEF KeyStep, Executes, Within, DispatchPCs
  <1>6. /\ Locally(t)
        /\ \/ th'[t] = IdleThread
           \/ /\ th'[t].key = k
              /\ \/ th'[t].pc = "confirm" /\ p = "effect" /\ th'[t].auth = th[t].auth
                 \/ th'[t].pc = "fail" /\ p = "failed"
                 \/ th'[t].pc = "unknown" /\ th'[t].auth = th[t].auth
    BY <1>0, <1>2, ExecuteLocals
  <1>7. ThreadOK(t)' /\ Enters(t)
    <2>1. CASE th'[t] = IdleThread
      BY <2>1, IdleOK
    <2>2. CASE th'[t] # IdleThread
      <3>1. ThreadOK(t)'
        BY <1>0, <1>1, <1>4, <1>6, <2>2 DEF ThreadOK, State, LockPCs, AdmitPCs, DispatchPCs
      <3>2. Enters(t)
        BY <1>6, <2>2, EntersNothing DEF AdmitPCs, DispatchPCs
      <3> QED BY <3>1, <3>2
    <2> QED BY <2>1, <2>2
  <1> QED BY <1>0, <1>3, <1>4, <1>5, <1>6, <1>7, StepOK

LEMMA DispatchUnknownStep ==
    ASSUME GovernorInv, NEW t \in Threads, DispatchUnknown(t)
    PROVE  GovernorInv' /\ Visible
  <1> DEFINE k == th[t].key
  <1>0. /\ th[t].pc = "unknown" /\ TypeOK /\ k \in Keys /\ TransitionTo(k, "UNKNOWN")
        /\ UNCHANGED tables /\ UNCHANGED quarantine /\ UNCHANGED <<prov, calls>>
        /\ UNCHANGED faults /\ Return(t)
    BY Own DEF DispatchUnknown, At
  <1>1. OnlyRow(k) /\ RecordsKept(k) /\ OutsideKept(k) /\ KeyStep(t, k)
    BY <1>0, UnknownStep
  <1>2. faults' \in 0 .. MaxFaults
    BY <1>0, Kept
  <1> QED BY <1>0, <1>1, <1>2, ReturnStep

-----------------------------------------------------------------------------
\* A call that only starts a method.
LEMMA StartStep ==
    ASSUME GovernorInv, NEW t \in Threads, NEW k \in Keys, NEW pc \in {"confirm", "ask", "resolve"},
           Start(t, k, pc), State(k) # "NONE", UNCHANGED Durable, UNCHANGED active, UNCHANGED faults,
           IF pc = "resolve" THEN Acquire(t, k) ELSE UNCHANGED lock,
           pc = "confirm" => prov[k] = "effect",
           pc = "resolve" => rec[k].bound /\ RowState(k) # "COMMITTED" /\ State(k) # "CREATED"
    PROVE  GovernorInv' /\ Visible
  <1> DEFINE l == [IdleThread EXCEPT !.pc = pc, !.key = k]
  <1>0. TypeOK
    BY OfKey
  <1>1. Locally(t) /\ th'[t] = l
    <2>1. pc \in PCs /\ (UNCHANGED lock \/ Acquire(t, k))
      BY DEF PCs
    <2> QED BY <2>1, StartsAt
  <1>2. l.pc = pc /\ l.key = k /\ l.auth = FALSE
    BY DEF IdleThread
  <1>3. pc = "resolve" => lock'[k] = t
    BY <1>0 DEF Acquire, TypeOK
  <1> HIDE DEF l
  <1>4. ThreadOK(t)'
    BY <1>1, <1>2, <1>3 DEF ThreadOK, State, RowState, Durable, tables, LockPCs, AdmitPCs, DispatchPCs
  <1>5. Enters(t)
    BY <1>1, <1>2, EntersNothing DEF AdmitPCs, DispatchPCs
  <1>6. faults' \in 0 .. MaxFaults
    BY <1>0, Kept
  <1> QED BY <1>1, <1>4, <1>5, <1>6, QuietStep

-----------------------------------------------------------------------------
\* confirm
LEMMA ConfirmCallStep ==
    ASSUME GovernorInv, NEW t \in Threads, NEW k \in Keys, ConfirmCall(t, k)
    PROVE  GovernorInv' /\ Visible
  <1>1. /\ prov[k] = "effect" /\ Start(t, k, "confirm") /\ UNCHANGED Durable
        /\ UNCHANGED lock /\ UNCHANGED active /\ UNCHANGED faults
    BY DEF ConfirmCall, Durable, world
  <1>2. State(k) # "NONE"
    BY <1>1, OfKey, RowFacts DEF KeyOK
  <1> QED BY <1>1, <1>2, StartStep

LEMMA ConfirmStartStep ==
    ASSUME GovernorInv, NEW t \in Threads, ConfirmStart(t)
    PROVE  GovernorInv' /\ Visible
  <1> DEFINE k == th[t].key
             eligible == State(k) \in {"DISPATCHING", "UNKNOWN"} /\ rec[k].bound
  <1>0. /\ th[t].pc = "confirm" /\ TypeOK /\ TablesOK /\ k \in Keys /\ KeyOK(k) /\ ThreadOK(t)
        /\ UNCHANGED rec /\ UNCHANGED quarantine /\ UNCHANGED <<prov, calls>> /\ UNCHANGED faults
        /\ lock[k] = NoThread
    BY Own DEF ConfirmStart, At
  <1>1. /\ IF eligible THEN Commit(k) ELSE UNCHANGED tables
        /\ IF eligible /\ Charged(k)
             THEN Goto(t, "kflags") /\ Acquire(t, k) /\ UNCHANGED active
             ELSE Return(t)
    BY DEF ConfirmStart
  <1>2. prov[k] = "effect" /\ RowState(k) = "COMMITTED"
    BY <1>0 DEF ThreadOK, KeyOK
  <1>3. OnlyRow(k) /\ RecordsKept(k) /\ OutsideKept(k) /\ KeyStep(t, k)
    <2>1. UNCHANGED tables \/ Commit(k)
      BY <1>1
    <2> QED BY <1>0, <1>2, <2>1, RowStep
  <1>4. faults' \in 0 .. MaxFaults
    BY <1>0, Kept
  <1>5. CASE eligible /\ Charged(k)
    <2>1. lock'[k] = t
      BY <1>0, <1>1, <1>5 DEF Acquire, TypeOK
    <2>2. th'[t].pc = "kflags" /\ SameLocals(t) => ThreadOK(t)'
      BY <1>0, <2>1 DEF ThreadOK, SameLocals, State, LockPCs, AdmitPCs, DispatchPCs
    <2> QED BY <1>0, <1>1, <1>3, <1>5, <2>2, GotoStep DEF PCs, AdmitPCs, DispatchPCs
  <1>6. CASE ~(eligible /\ Charged(k))
    BY <1>0, <1>1, <1>3, <1>4, <1>6, ReturnStep
  <1> QED BY <1>5, <1>6

LEMMA ConfirmFlagsStep ==
    ASSUME GovernorInv, NEW t \in Threads, ConfirmFlags(t)
    PROVE  GovernorInv' /\ Visible
  <1> DEFINE k == th[t].key
  <1>0. /\ th[t].pc = "kflags" /\ TypeOK /\ k \in Keys /\ ThreadOK(t) /\ SetBudgetFlags(k, FALSE, TRUE)
        /\ UNCHANGED tables /\ UNCHANGED quarantine /\ UNCHANGED <<prov, calls>> /\ KeyOK(k)
        /\ UNCHANGED faults /\ UNCHANGED lock /\ UNCHANGED active /\ Goto(t, "confirmed")
    BY Own DEF ConfirmFlags, At, world
  <1>1. RowState(k) = "COMMITTED"
    BY <1>0 DEF ThreadOK, KeyOK
  <1>2. OnlyRow(k) /\ RecordsKept(k) /\ OutsideKept(k) /\ KeyStep(t, k)
    BY <1>0, <1>1, FlagStep
  <1>3. SameState(k)
    BY <1>0, SetFlagsOK
  <1>4. th'[t].pc = "confirmed" /\ SameLocals(t) => ThreadOK(t)'
    BY <1>0, <1>3 DEF ThreadOK, SameLocals, State, SameState, LockPCs, AdmitPCs, DispatchPCs
  <1> QED BY <1>0, <1>2, <1>4, GotoStep DEF PCs, AdmitPCs, DispatchPCs

LEMMA ConfirmFinalStep ==
    ASSUME GovernorInv, NEW t \in Threads, ConfirmFinal(t)
    PROVE  GovernorInv' /\ Visible
  <1> DEFINE k == th[t].key
  <1>0. /\ th[t].pc = "confirmed" /\ TypeOK /\ k \in Keys /\ ThreadOK(t) /\ TransitionTo(k, "CONFIRMED")
        /\ UNCHANGED tables /\ UNCHANGED quarantine /\ UNCHANGED <<prov, calls>> /\ KeyOK(k)
        /\ UNCHANGED faults /\ Return(t)
    BY Own DEF ConfirmFinal, At
  <1>1. prov[k] = "effect" /\ State(k) # "CREATED"
    BY <1>0 DEF ThreadOK, KeyOK, Claimed
  <1>2. OnlyRow(k) /\ RecordsKept(k) /\ OutsideKept(k) /\ KeyStep(t, k)
    BY <1>0, <1>1, MoveStep DEF OpStates
  <1>3. faults' \in 0 .. MaxFaults
    BY <1>0, Kept
  <1> QED BY <1>0, <1>2, <1>3, ReturnStep

-----------------------------------------------------------------------------
\* reconcile_unknown
LEMMA ReconcileStartStep ==
    ASSUME GovernorInv, NEW t \in Threads, NEW k \in Keys, ReconcileStart(t, k)
    PROVE  GovernorInv' /\ Visible
  <1>1. /\ State(k) # "NONE" /\ Start(t, k, "ask") /\ UNCHANGED Durable
        /\ UNCHANGED lock /\ UNCHANGED active /\ UNCHANGED faults
    BY DEF ReconcileStart, Unresolved, Durable, world
  <1> QED BY <1>1, StartStep

\* The answer the thread takes along is true, and stays true.
LEMMA ReconcileAskStep ==
    ASSUME GovernorInv, ~AbsenceIsFailure, NEW t \in Threads, ReconcileAsk(t)
    PROVE  GovernorInv' /\ Visible
  <1> DEFINE k == th[t].key
  <1>0. /\ th[t].pc = "ask" /\ TypeOK /\ k \in Keys /\ ThreadOK(t) /\ UNCHANGED Durable
        /\ UNCHANGED lock /\ UNCHANGED active /\ UNCHANGED faults
    BY Own DEF ReconcileAsk, At, Durable, world
  <1>1. PICK a \in Answers(k) : th' = [th EXCEPT ![t].pc = "apply", ![t].arg = a]
    BY DEF ReconcileAsk
  <1>2. /\ a \in {"UNRESOLVED", "CONFIRMED", "FAILED"}
        /\ a = "CONFIRMED" => prov[k] = "effect"
        /\ a = "FAILED" => prov[k] = "failed"
    BY DEF Answers
  <1> DEFINE l == [th[t] EXCEPT !.pc = "apply", !.arg = a]
  <1>3. th[t] \in ThreadStates /\ DOMAIN th = Threads /\ active' \subseteq Procs \X Keys
    BY <1>0, ThreadFacts DEF TypeOK
  <1>4. l \in ThreadStates /\ l.pc = "apply" /\ l.arg = a /\ l.key = k /\ l.auth = th[t].auth
    BY <1>2, <1>3 DEF ThreadStates, PCs
  <1>5. th' = [th EXCEPT ![t] = l]
    BY <1>1, <1>3
  <1> HIDE DEF l
  <1>6. Locally(t) /\ th'[t] = l
    BY <1>0, <1>3, <1>4, <1>5, MovesThread
  <1>7. ThreadOK(t)'
    BY <1>0, <1>2, <1>4, <1>6 DEF ThreadOK, State, Durable, LockPCs, AdmitPCs, DispatchPCs
  <1>8. Enters(t)
    BY <1>4, <1>6, EntersNothing DEF AdmitPCs, DispatchPCs
  <1>9. faults' \in 0 .. MaxFaults
    BY <1>0, Kept
  <1> QED BY <1>0, <1>6, <1>7, <1>8, <1>9, QuietStep

LEMMA ReconcileRaisesStep ==
    ASSUME GovernorInv, NEW t \in Threads, ReconcileRaises(t)
    PROVE  GovernorInv' /\ Visible
  <1> DEFINE k == th[t].key
  <1>0. /\ th[t].pc = "ask" /\ TypeOK /\ k \in Keys /\ (TransitionTo(k, "UNKNOWN") \/ UNCHANGED rec)
        /\ UNCHANGED tables /\ UNCHANGED quarantine /\ UNCHANGED <<prov, calls>>
        /\ UNCHANGED faults /\ Return(t)
    BY Own DEF ReconcileRaises, At
  <1>1. OnlyRow(k) /\ RecordsKept(k) /\ OutsideKept(k) /\ KeyStep(t, k)
    BY <1>0, UnknownStep
  <1>2. faults' \in 0 .. MaxFaults
    BY <1>0, Kept
  <1> QED BY <1>0, <1>1, <1>2, ReturnStep

\* An unresolved operation already carries the identity of its reservation.
LEMMA ReconcileApplyStep ==
    ASSUME GovernorInv, NEW t \in Threads, ReconcileApply(t)
    PROVE  GovernorInv' /\ Visible
  <1> DEFINE k == th[t].key
             open == Unresolved(k)
             proceed == open /\ th[t].arg # "UNRESOLVED" /\ HasRow(k)
  <1>0. /\ th[t].pc = "apply" /\ TypeOK /\ k \in Keys /\ ThreadOK(t) /\ KeyOK(k)
        /\ UNCHANGED tables /\ UNCHANGED quarantine /\ UNCHANGED <<prov, calls>>
        /\ UNCHANGED faults /\ lock[k] = NoThread
    BY Own DEF ReconcileApply, At
  <1>1. /\ CASE proceed -> rec' = [rec EXCEPT ![k].bound = TRUE]
             [] open /\ th[t].arg = "UNRESOLVED" /\ State(k) = "DISPATCHING" ->
                  TransitionTo(k, "UNKNOWN")
             [] OTHER -> UNCHANGED rec
        /\ IF proceed
             THEN Goto(t, "compensate") /\ Acquire(t, k) /\ UNCHANGED active
             ELSE Return(t)
    BY DEF ReconcileApply
  <1>2. faults' \in 0 .. MaxFaults
    BY <1>0, Kept
  <1>3. CASE proceed
    <2>1. rec[k] \in Records(Procs \cup {NoProc}) /\ rec[k].bound /\ DOMAIN rec = Keys
      BY <1>0, <1>3 DEF TypeOK, KeyOK, FlagsOK, Unresolved
    <2>2. [rec[k] EXCEPT !.bound = TRUE] = rec[k]
      BY <2>1 DEF Records
    <2>3. UNCHANGED rec
      BY <1>0, <1>1, <1>3, <2>1, <2>2 DEF TypeOK
    <2>4. OnlyRow(k) /\ RecordsKept(k) /\ OutsideKept(k) /\ KeyStep(t, k)
      BY <1>0, <2>3, NothingDurable
    <2>5. lock'[k] = t
      BY <1>0, <1>1, <1>3 DEF Acquire, TypeOK
    <2>6. th[t].arg \in {"CONFIRMED", "FAILED"}
      BY <1>0, <1>3 DEF ThreadOK
    <2>7. th'[t].pc = "compensate" /\ SameLocals(t) => ThreadOK(t)'
      BY <1>0, <2>3, <2>5, <2>6 DEF ThreadOK, SameLocals, State, LockPCs, AdmitPCs, DispatchPCs
    <2> QED BY <1>0, <1>1, <1>3, <2>4, <2>7, GotoStep DEF PCs, AdmitPCs, DispatchPCs
  <1>4. CASE ~proceed
    <2>1. (TransitionTo(k, "UNKNOWN") \/ UNCHANGED rec) /\ Return(t)
      BY <1>1, <1>4
    <2>2. OnlyRow(k) /\ RecordsKept(k) /\ OutsideKept(k) /\ KeyStep(t, k)
      BY <1>0, <2>1, UnknownStep
    <2> QED BY <1>0, <1>2, <2>1, <2>2, ReturnStep
  <1> QED BY <1>3, <1>4

LEMMA ReconcileSettleStep ==
    ASSUME GovernorInv, NEW t \in Threads, ReconcileSettle(t)
    PROVE  GovernorInv' /\ Visible
  <1> DEFINE k == th[t].key
             seen == th[t].arg = "CONFIRMED"
             charged == seen /\ RowState(k) \in {"RESERVED", "COMMITTED"} /\ Charged(k)
             returned == ~seen /\ RowState(k) \in {"COMMITTED", "REFUNDED", "RESERVED", "RELEASED"}
                         /\ \/ RefundResult(k) \in {"REFUNDED", "ALREADY_REFUNDED"}
                            \/ ReleaseResult(k) \in {"RELEASED", "ALREADY_RELEASED"}
  <1>0. /\ th[t].pc = "compensate" /\ TypeOK /\ TablesOK /\ k \in Keys /\ ThreadOK(t) /\ KeyOK(k)
        /\ UNCHANGED rec /\ UNCHANGED quarantine /\ UNCHANGED <<prov, calls>> /\ UNCHANGED faults
    BY Own DEF ReconcileSettle, At
  <1>1. /\ CASE seen /\ RowState(k) \in {"RESERVED", "COMMITTED"} -> Commit(k)
             [] ~seen /\ RowState(k) \in {"COMMITTED", "REFUNDED"} -> Refund(k)
             [] ~seen /\ RowState(k) \in {"RESERVED", "RELEASED"} -> Release(k)
             [] OTHER -> UNCHANGED tables
        /\ CASE charged  -> Goto(t, "kflags") /\ UNCHANGED <<lock, active>>
             [] returned -> Goto(t, "unflag") /\ UNCHANGED <<lock, active>>
             [] OTHER    -> Return(t)
    BY DEF ReconcileSettle
  <1>2. /\ lock[k] = t /\ th[t].arg \in {"CONFIRMED", "FAILED"}
        /\ seen => prov[k] = "effect" /\ RowState(k) = "COMMITTED"
        /\ ~seen => prov[k] = "failed" /\ RowState(k) \in {"COMMITTED", "REFUNDED"}
    BY <1>0 DEF ThreadOK, KeyOK, LockPCs
  <1>3. \/ seen /\ Commit(k)
        \/ ~seen /\ Refund(k)
    BY <1>1, <1>2
  <1>4. OnlyRow(k) /\ RecordsKept(k) /\ OutsideKept(k) /\ KeyStep(t, k)
    BY <1>0, <1>2, <1>3, RowStep
  <1>5. faults' \in 0 .. MaxFaults
    BY <1>0, Kept
  <1>6. CASE charged
    <2>1. Goto(t, "kflags") /\ UNCHANGED <<lock, active>>
      BY <1>1, <1>6
    <2>2. th'[t].pc = "kflags" /\ SameLocals(t) => ThreadOK(t)'
      BY <1>0, <1>2, <1>6, <2>1 DEF ThreadOK, SameLocals, State, LockPCs, AdmitPCs, DispatchPCs
    <2> QED BY <1>0, <1>4, <2>1, <2>2, GotoStep DEF PCs, AdmitPCs, DispatchPCs
  <1>7. CASE returned /\ ~charged
    <2>1. Goto(t, "unflag") /\ UNCHANGED <<lock, active>>
      BY <1>1, <1>7
    <2>2. rows'[k].state = "REFUNDED"
      <3>1. RefundResult(k) \in {"REFUNDED", "ALREADY_REFUNDED"}
        BY <1>2, <1>7, RowFacts DEF ReleaseResult
      <3> QED BY <1>0, <1>3, <1>7, <3>1, RefundOK
    <2>3. th'[t].pc = "unflag" /\ SameLocals(t) => ThreadOK(t)'
      BY <1>0, <1>2, <2>1, <2>2 DEF ThreadOK, SameLocals, State, RowState, Returned,
            LockPCs, AdmitPCs, DispatchPCs
    <2> QED BY <1>0, <1>4, <2>1, <2>3, GotoStep DEF PCs, AdmitPCs, DispatchPCs
  <1>8. CASE ~charged /\ ~returned
    BY <1>0, <1>1, <1>4, <1>5, <1>8, ReturnStep
  <1> QED BY <1>6, <1>7, <1>8

-----------------------------------------------------------------------------
\* Holds.  The calls that are one durable write have no thread.
LEMMA WriteStep ==
    ASSUME GovernorInv, NEW k \in Keys, UNCHANGED <<th, lock, active>>,
           OnlyRow(k), RecordsKept(k), OutsideKept(k), KeyStep(NoThread, k),
           UNCHANGED quarantine, UNCHANGED faults
    PROVE  GovernorInv' /\ Visible
  <1>0. TypeOK /\ NoThread \notin Threads
    BY OfKey, GovernorAssumption
  <1>1. Locally(NoThread)
    BY <1>0, Alone
  <1>2. quarantine' \in BOOLEAN /\ faults' \in 0 .. MaxFaults
    BY <1>0, Kept
  <1> QED BY <1>0, <1>1, <1>2, StepOK

LEMMA ScenarioHoldStep ==
    ASSUME GovernorInv, NEW k \in Keys, ScenarioHold(k)
    PROVE  GovernorInv' /\ Visible
  <1> DEFINE r == [rec[k] EXCEPT !.state = "HOLD", !.tau = "running", !.reserved = TRUE, !.bound = TRUE]
  <1>0. /\ TypeOK /\ TablesOK /\ KeyOK(k) /\ State(k) = "NONE" /\ ~HasRow(k)
        /\ UNCHANGED quarantine /\ UNCHANGED <<th, lock, active>> /\ UNCHANGED <<prov, calls>>
        /\ UNCHANGED faults /\ ReserveResult(k, AmountOf[k], ResourceOf[k]) = "RESERVED"
        /\ Reserve(k, AmountOf[k], ResourceOf[k])
    BY OfKey DEF ScenarioHold, KeyOK, world
  <1>1. OnlyRow(k) /\ rows'[k].state = "RESERVED"
    BY <1>0, ReserveOK
  <1>2. OutsideKept(k) /\ SameOutside(k)
    BY <1>0, Kept
  <1>3. rec[k] \in Records(Procs \cup {NoProc}) /\ DOMAIN rec = Keys
    BY <1>0 DEF TypeOK
  <1>4. r \in Records(Procs \cup {NoProc}) /\ rec' = [rec EXCEPT ![k] = r]
    BY <1>3 DEF Records, OpStates, Taus, ScenarioHold
  <1>5. r.state = "HOLD" /\ r.reserved = TRUE /\ r.committed = rec[k].committed /\ r.bound = TRUE
    BY <1>3 DEF Records
  <1> HIDE DEF r
  <1>6. RecordsKept(k) /\ rec'[k] = r
    BY <1>0, <1>3, <1>4 DEF TypeOK, RecordsKept
  <1>7. KeyStep(NoThread, k)
    BY <1>0, <1>1, <1>2, <1>5, <1>6 DEF KeyStep, Presets
  <1> QED BY <1>0, <1>1, <1>2, <1>6, <1>7, WriteStep

LEMMA TauElapsesStep ==
    ASSUME GovernorInv, NEW k \in Keys, TauElapses(k)
    PROVE  GovernorInv' /\ Visible
  <1> DEFINE r == [rec[k] EXCEPT !.tau = "expired"]
  <1>0. /\ TypeOK /\ UNCHANGED tables /\ UNCHANGED quarantine /\ UNCHANGED <<th, lock, active>>
        /\ UNCHANGED <<prov, calls>> /\ UNCHANGED faults
    BY OfKey DEF TauElapses, world
  <1>1. OnlyRow(k) /\ SameRow(k) /\ OutsideKept(k) /\ SameOutside(k)
    BY <1>0, Kept
  <1>2. rec[k] \in Records(Procs \cup {NoProc}) /\ DOMAIN rec = Keys
    BY <1>0 DEF TypeOK
  <1>3. r \in Records(Procs \cup {NoProc}) /\ rec' = [rec EXCEPT ![k] = r]
    BY <1>2 DEF Records, Taus, TauElapses
  <1>4. r.state = rec[k].state /\ r.reserved = rec[k].reserved /\ r.committed = rec[k].committed
        /\ r.bound = rec[k].bound
    BY <1>2 DEF Records
  <1> HIDE DEF r
  <1>5. RecordsKept(k) /\ rec'[k] = r
    BY <1>0, <1>2, <1>3 DEF TypeOK, RecordsKept
  <1>6. KeyStep(NoThread, k)
    BY <1>1, <1>4, <1>5 DEF KeyStep, Stays, SameState, SameFlags
  <1> QED BY <1>0, <1>1, <1>5, <1>6, WriteStep

LEMMA HoldWriteStep ==
    ASSUME GovernorInv, NEW k \in Keys,
           EscalateHold(k) \/ ApproveExit(k) \/ ExpireEscalated(k) \/ MarkUnknown(k)
    PROVE  GovernorInv' /\ Visible
  <1>0. /\ UNCHANGED tables /\ UNCHANGED quarantine /\ UNCHANGED <<th, lock, active>>
        /\ UNCHANGED <<prov, calls>> /\ UNCHANGED faults
    BY DEF EscalateHold, ApproveExit, ExpireEscalated, MarkUnknown, world
  <1>1. \/ State(k) = "HOLD" /\ TransitionTo(k, "ESCALATED")
        \/ State(k) = "ESCALATED" /\ TransitionTo(k, "HOLD")
        \/ TransitionTo(k, "UNKNOWN")
    BY DEF EscalateHold, ApproveExit, ExpireEscalated, MarkUnknown
  <1>2. OnlyRow(k) /\ RecordsKept(k) /\ OutsideKept(k) /\ KeyStep(NoThread, k)
    <2>1. CASE TransitionTo(k, "UNKNOWN")
      BY <1>0, <2>1, UnknownStep
    <2>2. CASE State(k) = "HOLD" /\ TransitionTo(k, "ESCALATED")
      BY <1>0, <2>2, MoveStep DEF OpStates
    <2>3. CASE State(k) = "ESCALATED" /\ TransitionTo(k, "HOLD")
      BY <1>0, <2>3, MoveStep DEF OpStates
    <2> QED BY <1>1, <2>1, <2>2, <2>3
  <1> QED BY <1>0, <1>2, WriteStep

\* A held or escalated operation has a reservation that is not committed, and
\* owns it unless it was given back.
LEMMA HeldFacts ==
    ASSUME GovernorInv, NEW k \in Keys
    PROVE  /\ State(k) \in {"HOLD", "ESCALATED"} => rec[k].bound /\ RowState(k) # "COMMITTED"
           /\ rec[k].bound /\ RowState(k) # "COMMITTED" => rec[k].reserved \/ Returned(k)
  <1>0. TablesOK /\ KeyOK(k)
    BY OfKey
  <1>1. /\ HasRow(k) <=> RowState(k) # "NONE"
        /\ RowState(k) \in RowStates \cup {"NONE"}
    BY <1>0, RowFacts
  <1> QED BY <1>0, <1>1 DEF KeyOK, FlagsOK, Claimed, Returned, RowStates

LEMMA ResolveHoldStartStep ==
    ASSUME GovernorInv, NEW t \in Threads, NEW k \in Keys, ResolveHoldStart(t, k)
    PROVE  GovernorInv' /\ Visible
  <1>1. /\ State(k) = "HOLD" /\ Start(t, k, "resolve") /\ Acquire(t, k)
        /\ UNCHANGED Durable /\ UNCHANGED active /\ UNCHANGED faults
    BY DEF ResolveHoldStart, Durable
  <1>2. rec[k].bound /\ RowState(k) # "COMMITTED"
    BY <1>1, HeldFacts
  <1> QED BY <1>1, <1>2, StartStep

LEMMA ResolveHoldDecideStep ==
    ASSUME GovernorInv, NEW t \in Threads, ResolveHoldDecide(t)
    PROVE  GovernorInv' /\ Visible
  <1> DEFINE k == th[t].key
  <1>0. /\ th[t].pc = "resolve" /\ TypeOK /\ k \in Keys /\ ThreadOK(t)
        /\ UNCHANGED tables /\ UNCHANGED quarantine /\ UNCHANGED <<prov, calls>> /\ UNCHANGED faults
    BY Own DEF ResolveHoldDecide, At
  <1>1. \/ TransitionTo(k, "RESERVED") /\ Return(t)
        \/ /\ th' = [th EXCEPT ![t].pc = "hrelease", ![t].arg = "VETO"]
           /\ UNCHANGED <<rec, lock, active>>
        \/ ~rec[k].reserved /\ TransitionTo(k, "FAILED") /\ Return(t)
        \/ UNCHANGED rec /\ Return(t)
    BY DEF ResolveHoldDecide
  <1>2. rec[k].bound /\ RowState(k) # "COMMITTED" /\ State(k) # "CREATED" /\ lock[k] = t
        /\ State(k) # "NONE" /\ (th[t].auth => prov[k] = "failed")
    BY <1>0 DEF ThreadOK, LockPCs
  <1>3. faults' \in 0 .. MaxFaults
    BY <1>0, Kept
  <1>4. CASE TransitionTo(k, "RESERVED") /\ Return(t)
    <2>1. OnlyRow(k) /\ RecordsKept(k) /\ OutsideKept(k) /\ KeyStep(t, k)
      BY <1>0, <1>2, <1>4, MoveStep DEF OpStates
    <2> QED BY <1>0, <1>3, <1>4, <2>1, ReturnStep
  <1>5. CASE ~rec[k].reserved /\ TransitionTo(k, "FAILED") /\ Return(t)
    <2>1. HoldsNothing(k)
      BY <1>0, <1>2, <1>5, HeldFacts DEF HoldsNothing
    <2>2. OnlyRow(k) /\ RecordsKept(k) /\ OutsideKept(k) /\ KeyStep(t, k)
      BY <1>0, <1>5, <2>1, MoveStep DEF OpStates
    <2> QED BY <1>0, <1>3, <1>5, <2>2, ReturnStep
  <1>6. CASE UNCHANGED rec /\ Return(t)
    <2>1. OnlyRow(k) /\ RecordsKept(k) /\ OutsideKept(k) /\ KeyStep(t, k)
      BY <1>0, <1>6, NothingDurable
    <2> QED BY <1>0, <1>3, <1>6, <2>1, ReturnStep
  <1>7. CASE /\ th' = [th EXCEPT ![t].pc = "hrelease", ![t].arg = "VETO"]
             /\ UNCHANGED <<rec, lock, active>>
    <2> DEFINE l == [th[t] EXCEPT !.pc = "hrelease", !.arg = "VETO"]
    <2>1. th[t] \in ThreadStates /\ DOMAIN th = Threads /\ active' \subseteq Procs \X Keys
      BY <1>0, <1>7, ThreadFacts DEF TypeOK
    <2>2. l \in ThreadStates /\ l.pc = "hrelease" /\ l.key = k /\ l.auth = th[t].auth
      BY <2>1 DEF ThreadStates, PCs
    <2>3. th' = [th EXCEPT ![t] = l]
      BY <1>7, <2>1
    <2> HIDE DEF l
    <2>4. Locally(t) /\ th'[t] = l
      BY <1>0, <1>7, <2>1, <2>2, <2>3, MovesThread
    <2>5. ThreadOK(t)'
      BY <1>0, <1>2, <1>7, <2>2, <2>4 DEF ThreadOK, State, LockPCs, AdmitPCs, DispatchPCs
    <2>6. Enters(t)
      BY <2>2, <2>4, EntersNothing DEF AdmitPCs, DispatchPCs
    <2>7. UNCHANGED Durable
      BY <1>0, <1>7 DEF Durable
    <2> QED BY <1>0, <1>3, <2>4, <2>5, <2>6, <2>7, QuietStep
  <1> QED BY <1>1, <1>4, <1>5, <1>6, <1>7

LEMMA HoldExitStartStep ==
    ASSUME GovernorInv, NEW t \in Threads, NEW k \in Keys, NEW exit \in {"deny", "expire"},
           HoldExitStart(t, k, exit)
    PROVE  GovernorInv' /\ Visible
  <1> DEFINE pc == IF rec[k].reserved THEN "hrelease" ELSE "hfinal"
             l == [IdleThread EXCEPT !.pc = pc, !.key = k, !.arg = exit]
  <1>0. /\ TypeOK /\ th[t] = IdleThread /\ State(k) \in {"HOLD", "ESCALATED"} /\ Acquire(t, k)
        /\ UNCHANGED Durable /\ UNCHANGED active /\ UNCHANGED faults
    BY OfKey DEF HoldExitStart, TauExpired, GovernorInv, ThreadOK, At, Durable
  <1>1. faults' \in 0 .. MaxFaults /\ active' \subseteq Procs \X Keys /\ lock'[k] = t
    BY <1>0, Kept DEF TypeOK, Acquire
  <1>2. pc \in {"hrelease", "hfinal"} /\ (pc = "hfinal" => Returned(k))
    BY <1>0, HeldFacts
  <1>3. l \in ThreadStates
    BY <1>2 DEF IdleThread, ThreadStates, OpStates, PCs
  <1>4. th' = [th EXCEPT ![t] = l]
    BY <1>0, ThreadFacts DEF HoldExitStart
  <1>5. l.pc = pc /\ l.key = k /\ l.auth = FALSE
    BY DEF IdleThread
  <1> HIDE DEF l, pc
  <1>6. Locally(t) /\ th'[t] = l
    BY <1>0, <1>1, <1>3, <1>4, MovesThread
  <1>7. ThreadOK(t)'
    BY <1>0, <1>1, <1>2, <1>5, <1>6 DEF ThreadOK, State, RowState, Returned, Durable, tables,
          LockPCs, AdmitPCs, DispatchPCs
  <1>8. Enters(t)
    BY <1>2, <1>5, <1>6, EntersNothing DEF AdmitPCs, DispatchPCs
  <1> QED BY <1>0, <1>1, <1>6, <1>7, <1>8, QuietStep

LEMMA HoldReleaseStep ==
    ASSUME GovernorInv, NEW t \in Threads, HoldRelease(t)
    PROVE  GovernorInv' /\ Visible
  <1> DEFINE k == th[t].key
             given == rec[k].bound /\ ReleaseResult(k) \in {"RELEASED", "ALREADY_RELEASED"}
  <1>0. /\ th[t].pc = "hrelease" /\ TypeOK /\ TablesOK /\ k \in Keys /\ ThreadOK(t) /\ Release(k)
        /\ UNCHANGED rec /\ UNCHANGED quarantine /\ UNCHANGED <<prov, calls>> /\ UNCHANGED faults
        /\ IF given THEN Goto(t, "hflags") /\ UNCHANGED <<lock, active>> ELSE Return(t)
    BY Own DEF HoldRelease, At
  <1>1. lock[k] = t
    BY <1>0 DEF ThreadOK, LockPCs
  <1>2. OnlyRow(k) /\ RecordsKept(k) /\ OutsideKept(k) /\ KeyStep(t, k)
    BY <1>0, <1>1, RowStep
  <1>3. faults' \in 0 .. MaxFaults
    BY <1>0, Kept
  <1>4. CASE given
    <2>1. rows'[k].state = "RELEASED"
      BY <1>0, <1>4, ReleaseOK
    <2>2. th'[t].pc = "hflags" /\ SameLocals(t) => ThreadOK(t)'
      BY <1>0, <1>1, <1>4, <2>1 DEF ThreadOK, SameLocals, State, RowState, Returned,
            LockPCs, AdmitPCs, DispatchPCs
    <2> QED BY <1>0, <1>2, <1>4, <2>2, GotoStep DEF PCs, AdmitPCs, DispatchPCs
  <1>5. CASE ~given
    BY <1>0, <1>2, <1>3, <1>5, ReturnStep
  <1> QED BY <1>4, <1>5

LEMMA HoldFlagsStep ==
    ASSUME GovernorInv, NEW t \in Threads, HoldFlags(t)
    PROVE  GovernorInv' /\ Visible
  <1> DEFINE k == th[t].key
  <1>0. /\ th[t].pc = "hflags" /\ TypeOK /\ k \in Keys /\ ThreadOK(t) /\ SetBudgetFlags(k, FALSE, FALSE)
        /\ UNCHANGED tables /\ UNCHANGED quarantine /\ UNCHANGED <<prov, calls>>
        /\ UNCHANGED faults /\ UNCHANGED lock /\ UNCHANGED active /\ Goto(t, "hfinal")
    BY Own DEF HoldFlags, At, world
  <1>1. Returned(k)
    BY <1>0 DEF ThreadOK
  <1>2. OnlyRow(k) /\ RecordsKept(k) /\ OutsideKept(k) /\ KeyStep(t, k)
    BY <1>0, <1>1, FlagStep
  <1>3. SameState(k)
    BY <1>0, SetFlagsOK
  <1>4. th'[t].pc = "hfinal" /\ SameLocals(t) => ThreadOK(t)'
    BY <1>0, <1>3 DEF ThreadOK, SameLocals, State, SameState, RowState, Returned, tables,
          LockPCs, AdmitPCs, DispatchPCs
  <1> QED BY <1>0, <1>2, <1>4, GotoStep DEF PCs, AdmitPCs, DispatchPCs

LEMMA HoldExitFinalStep ==
    ASSUME GovernorInv, NEW t \in Threads, HoldExitFinal(t)
    PROVE  GovernorInv' /\ Visible
  <1> DEFINE k == th[t].key
  <1>0. /\ th[t].pc = "hfinal" /\ TypeOK /\ k \in Keys /\ ThreadOK(t)
        /\ TransitionTo(k, "FAILED") \/ UNCHANGED rec
        /\ UNCHANGED tables /\ UNCHANGED quarantine /\ UNCHANGED <<prov, calls>>
        /\ UNCHANGED faults /\ Return(t)
    BY Own DEF HoldExitFinal, At
  <1>1. HoldsNothing(k)
    BY <1>0 DEF ThreadOK, HoldsNothing
  <1>2. OnlyRow(k) /\ RecordsKept(k) /\ OutsideKept(k) /\ KeyStep(t, k)
    BY <1>0, <1>1, MoveStep DEF OpStates
  <1>3. faults' \in 0 .. MaxFaults
    BY <1>0, Kept
  <1> QED BY <1>0, <1>2, <1>3, ReturnStep

-----------------------------------------------------------------------------
\* Quarantine, provider, failing steps and crashes.
LEMMA QuarantineStep ==
    ASSUME GovernorInv, LockQuarantine \/ ReleaseQuarantine
    PROVE  GovernorInv' /\ Visible
  <1>1. /\ UNCHANGED tables /\ UNCHANGED rec /\ UNCHANGED th /\ UNCHANGED lock /\ UNCHANGED active
        /\ UNCHANGED prov /\ UNCHANGED calls /\ UNCHANGED faults /\ quarantine' \in BOOLEAN
    BY DEF LockQuarantine, ReleaseQuarantine, world
  <1>2. TypeOK'
    BY <1>1 DEF GovernorInv, TypeOK, TablesOK, tables
  <1>3. /\ \A k \in Keys : KeyOK(k)'
        /\ \A t \in Threads : ThreadOK(t)'
        /\ Exclusive'
    <2>1. \A k \in Keys : KeyOK(k)'
      BY <1>1 DEF GovernorInv, tables, KeyOK, FlagsOK, State, RowState, HasRow, HoldsNothing, Returned
    <2>2. \A t \in Threads : ThreadOK(t)'
      BY <1>1 DEF GovernorInv, tables, ThreadOK, State, RowState, HasRow, HoldsNothing, Returned
    <2>3. Exclusive'
      BY <1>1 DEF GovernorInv, Exclusive, Within
    <2> QED BY <2>1, <2>2, <2>3
  <1> QED BY <1>1, <1>2, <1>3 DEF GovernorInv, Visible, tables

LEMMA ProviderSettlesStep ==
    ASSUME GovernorInv, NEW k \in Keys, ProviderSettles(k)
    PROVE  GovernorInv' /\ Visible
  <1>0. /\ TypeOK /\ prov[k] = "pending" /\ UNCHANGED tables /\ UNCHANGED rec /\ UNCHANGED quarantine
        /\ UNCHANGED <<th, lock, active>> /\ UNCHANGED calls /\ UNCHANGED faults
    BY OfKey DEF ProviderSettles
  <1>1. PICK p \in {"effect", "failed"} : prov' = [prov EXCEPT ![k] = p]
    BY DEF ProviderSettles
  <1>2. OnlyRow(k) /\ SameRow(k) /\ RecordsKept(k) /\ SameState(k) /\ SameFlags(k)
    BY <1>0, Kept
  <1>3. OutsideKept(k) /\ prov'[k] \in {"effect", "failed"} /\ calls'[k] = calls[k]
    BY <1>0, <1>1 DEF TypeOK, OutsideKept
  <1>4. KeyStep(NoThread, k)
    BY <1>0, <1>2, <1>3 DEF KeyStep, Settles
  <1> QED BY <1>0, <1>2, <1>3, <1>4, WriteStep

LEMMA StepFailsStep ==
    ASSUME GovernorInv, NEW t \in Threads, StepFails(t)
    PROVE  GovernorInv' /\ Visible
  <1> DEFINE k == th[t].key
  <1>0. /\ faults < MaxFaults /\ faults' = faults + 1 /\ UNCHANGED Durable
        /\ UNCHANGED tables /\ UNCHANGED rec /\ UNCHANGED quarantine /\ UNCHANGED <<prov, calls>>
        /\ th[t].pc # "idle"
    BY DEF StepFails, At, Fallible, Durable
  <1>1. TypeOK /\ k \in Keys /\ ThreadOK(t)
    BY <1>0, Own
  <1>2. faults' \in 0 .. MaxFaults
    BY <1>0, <1>1, Kept
  <1>3. CASE Return(t)
    <2>1. OnlyRow(k) /\ RecordsKept(k) /\ OutsideKept(k) /\ KeyStep(t, k)
      BY <1>0, <1>1, NothingDurable
    <2> QED BY <1>0, <1>2, <1>3, <2>1, ReturnStep
  <1>4. CASE /\ th[t].pc = "reserve"
             /\ th' = [th EXCEPT ![t].pc = "claim", ![t].arg = "VETO"]
             /\ UNCHANGED <<lock, active>>
    <2>1. /\ Locally(t) /\ Enters(t)
          /\ th'[t].pc = "claim" /\ th'[t].arg = "VETO" /\ th'[t].key = k
          /\ th'[t].ext = TRUE /\ th'[t].auth = th[t].auth
      BY <1>4, VetoLocals
    <2>2. ThreadOK(t)'
      BY <1>0, <1>1, <1>4, <2>1 DEF ThreadOK, State, LockPCs, AdmitPCs, DispatchPCs
    <2> QED BY <1>0, <1>1, <1>2, <2>1, <2>2, QuietStep
  <1>5. CASE /\ th' = [th EXCEPT ![t] = IdleThread]
             /\ UNCHANGED <<lock, active>>
    <2>1. active' \subseteq Procs \X Keys
      BY <1>1, <1>5 DEF TypeOK
    <2>2. Locally(t) /\ th'[t] = IdleThread
      BY <1>1, <1>5, <2>1, MovesThread, ThreadFacts
    <2>3. ThreadOK(t)' /\ Enters(t)
      BY <2>2, IdleOK
    <2> QED BY <1>0, <1>1, <1>2, <2>2, <2>3, QuietStep
  <1> QED BY <1>3, <1>4, <1>5 DEF StepFails, At

(* A crash forgets threads and locks of one process and nothing durable;   *)
(* the threads of the other processes keep their locks.                    *)
LEMMA CrashStep ==
    ASSUME GovernorInv, NEW p \in Procs, Crash(p)
    PROVE  GovernorInv' /\ Visible
  <1>0. /\ TypeOK /\ faults' \in 0 .. MaxFaults
        /\ UNCHANGED tables /\ UNCHANGED rec /\ UNCHANGED quarantine /\ UNCHANGED prov /\ UNCHANGED calls
        /\ th' = [t \in Threads |-> IF ProcOf[t] = p THEN IdleThread ELSE th[t]]
        /\ lock' = [k \in Keys |-> IF lock[k] \in Threads /\ ProcOf[lock[k]] = p
                                     THEN NoThread ELSE lock[k]]
        /\ active' = {a \in active : a[1] # p}
    <2>1. faults < MaxFaults /\ faults' = faults + 1 /\ TypeOK
      BY DEF Crash, GovernorInv
    <2>2. faults' \in 0 .. MaxFaults
      BY <2>1, GovernorAssumption DEF TypeOK
    <2> QED BY <2>1, <2>2 DEF Crash
  <1>1. \A u \in Threads : th'[u] = IF ProcOf[u] = p THEN IdleThread ELSE th[u]
    BY <1>0
  <1>2. TypeOK'
    <2>1. TablesOK'
      BY <1>0 DEF TypeOK, TablesOK, tables
    <2>2. th' \in [Threads -> ThreadStates]
      <3>1. \A u \in Threads : th[u] \in ThreadStates /\ IdleThread \in ThreadStates
        BY <1>0, ThreadFacts
      <3> QED BY <1>0, <3>1
    <2>3. lock' \in [Keys -> Threads \cup {NoThread}] /\ active' \subseteq Procs \X Keys
      BY <1>0 DEF TypeOK
    <2> QED BY <1>0, <2>1, <2>2, <2>3 DEF TypeOK
  <1>3. \A k \in Keys : KeyOK(k)'
    BY <1>0 DEF GovernorInv, tables, KeyOK, FlagsOK, State, RowState, HasRow, HoldsNothing, Returned
  <1>4. ASSUME NEW u \in Threads PROVE ThreadOK(u)'
    <2>1. CASE ProcOf[u] = p
      BY <1>1, <2>1, IdleOK
    <2>2. CASE ProcOf[u] # p
      <3>1. th'[u] = th[u] /\ ThreadOK(u)
        BY <1>1, <2>2 DEF GovernorInv
      <3>2. \A k \in Keys : lock[k] = u => lock'[k] = u
        BY <1>0, <2>2
      <3> QED BY <1>0, <3>1, <3>2
            DEF tables, ThreadOK, State, RowState, HasRow, HoldsNothing, Returned
    <2> QED BY <2>1, <2>2
  <1>5. Exclusive'
    <2>1. \A u \in Threads, k \in Keys :
            /\ Within(u, k, AdmitPCs)' => Within(u, k, AdmitPCs)
            /\ Within(u, k, DispatchPCs)' => Within(u, k, DispatchPCs)
      BY <1>1 DEF Within, IdleThread, AdmitPCs, DispatchPCs
    <2> QED BY <2>1 DEF GovernorInv, Exclusive
  <1> QED BY <1>0, <1>2, <1>3, <1>4, <1>5 DEF GovernorInv, Visible, tables

-----------------------------------------------------------------------------
\* Every step of every method, caller, provider and process.
LEMMA NextOK ==
    ASSUME ~AbsenceIsFailure, GovernorInv, Next
    PROVE  GovernorInv' /\ Visible
  <1>1. ASSUME NEW t \in Threads, NEW k \in Keys, Call(t, k) PROVE GovernorInv' /\ Visible
    <2>1. CASE AdjudicateRegister(t, k)
      BY <2>1, RegisterStep
    <2>2. CASE \E auth \in BOOLEAN : FailCall(t, k, auth)
      BY <2>2, FailCallStep
    <2>3. CASE \E live \in LiveModes : DispatchClaim(t, k, live)
      BY <2>3, DispatchClaimStep, GovernorAssumption
    <2>4. CASE ConfirmCall(t, k)
      BY <2>4, ConfirmCallStep
    <2>5. CASE ReconcileStart(t, k)
      BY <2>5, ReconcileStartStep
    <2>6. CASE ResolveHoldStart(t, k)
      BY <2>6, ResolveHoldStartStep
    <2>7. CASE \E exit \in {"deny", "expire"} : HoldExitStart(t, k, exit)
      BY <2>7, HoldExitStartStep
    <2> QED BY <1>1, <2>1, <2>2, <2>3, <2>4, <2>5, <2>6, <2>7 DEF Call
  <1>2. ASSUME NEW t \in Threads, Step(t) PROVE GovernorInv' /\ Visible
    <2>1. CASE Adjudicating(t)
      BY <2>1, ComposeStep, ReserveStep, FlagsStep, FlagsFailStep, ClaimStep DEF Adjudicating
    <2>2. CASE Failing(t)
      BY <2>2, FailStartStep, FailSettleStep, ClearFlagsStep, FailFinalStep DEF Failing
    <2>3. CASE Dispatching(t)
      BY <2>3, DispatchMarkStep, DispatchCommitStep, DispatchFlagsStep, DispatchExecuteStep,
         DispatchUnknownStep DEF Dispatching
    <2>4. CASE Confirming(t)
      BY <2>4, ConfirmStartStep, ConfirmFlagsStep, ConfirmFinalStep DEF Confirming
    <2>5. CASE Reconciling(t)
      BY <2>5, ReconcileAskStep, ReconcileRaisesStep, ReconcileApplyStep, ReconcileSettleStep
         DEF Reconciling
    <2>6. CASE Holding(t)
      BY <2>6, ResolveHoldDecideStep, HoldReleaseStep, HoldFlagsStep, HoldExitFinalStep DEF Holding
    <2> QED BY <1>2, <2>1, <2>2, <2>3, <2>4, <2>5, <2>6 DEF Step
  <1>3. ASSUME NEW k \in Keys, Write(k) PROVE GovernorInv' /\ Visible
    BY <1>3, ScenarioHoldStep, HoldWriteStep DEF Write
  <1>4. ASSUME NEW k \in Keys, Environment(k) PROVE GovernorInv' /\ Visible
    BY <1>4, TauElapsesStep, ProviderSettlesStep DEF Environment
  <1>5. ASSUME NEW t \in Threads, StepFails(t) PROVE GovernorInv' /\ Visible
    BY <1>5, StepFailsStep
  <1>6. ASSUME NEW p \in Procs, Crash(p) PROVE GovernorInv' /\ Visible
    BY <1>6, CrashStep
  <1> QED BY <1>1, <1>2, <1>3, <1>4, <1>5, <1>6, QuarantineStep DEF Next

LEMMA Stutters ==
    ASSUME GovernorInv, UNCHANGED vars
    PROVE  GovernorInv' /\ Visible
  <1>1. /\ UNCHANGED tables /\ UNCHANGED rec /\ UNCHANGED th /\ UNCHANGED lock /\ UNCHANGED active
        /\ UNCHANGED prov /\ UNCHANGED calls /\ UNCHANGED faults /\ UNCHANGED quarantine
    BY DEF vars, world
  <1>2. TypeOK'
    BY <1>1 DEF GovernorInv, TypeOK, TablesOK, tables
  <1>3. \A k \in Keys : KeyOK(k)'
    BY <1>1 DEF GovernorInv, tables, KeyOK, FlagsOK, State, RowState, HasRow, HoldsNothing, Returned
  <1>4. \A t \in Threads : ThreadOK(t)'
    BY <1>1 DEF GovernorInv, tables, ThreadOK, State, RowState, HasRow, HoldsNothing, Returned
  <1>5. Exclusive'
    BY <1>1 DEF GovernorInv, Exclusive, Within
  <1> QED BY <1>1, <1>2, <1>3, <1>4, <1>5 DEF GovernorInv, Visible, tables

LEMMA InitOK ==
    ASSUME Init
    PROVE  GovernorInv
  <1>1. TypeOK
    <2>1. TablesOK
      BY CapacitiesAssumption DEF Init, TablesOK
    <2>2. NewRecord \in Records(Procs \cup {NoProc}) /\ IdleThread \in ThreadStates
      BY DEF NewRecord, Records, OpStates, Taus, IdleThread, ThreadStates, PCs
    <2>3. /\ rec \in [Keys -> Records(Procs \cup {NoProc})]
          /\ th \in [Threads -> ThreadStates]
      BY <2>2 DEF Init
    <2>4. /\ quarantine \in BOOLEAN /\ lock \in [Keys -> Threads \cup {NoThread}]
          /\ active \subseteq Procs \X Keys
          /\ prov \in [Keys -> {"none", "pending", "effect", "failed"}]
          /\ calls \in [Keys -> Nat]
      BY DEF Init
    <2>5. faults \in 0 .. MaxFaults
      BY GovernorAssumption DEF Init
    <2> QED BY <2>1, <2>3, <2>4, <2>5 DEF TypeOK
  <1>2. ASSUME NEW k \in Keys PROVE KeyOK(k)
    <2>1. rec[k] = NewRecord /\ rows[k] = NoRow /\ prov[k] = "none" /\ calls[k] = 0
      BY DEF Init
    <2> QED BY <2>1 DEF KeyOK, FlagsOK, State, RowState, HasRow, HoldsNothing, Returned, NewRecord, NoRow
  <1>3. \A t \in Threads : th[t] = IdleThread
    BY DEF Init
  <1>4. ASSUME NEW t \in Threads PROVE ThreadOK(t)
    <2>1. th[t] = IdleThread /\ IdleThread.pc = "idle"
      BY <1>3 DEF IdleThread
    <2> QED BY <2>1 DEF ThreadOK
  <1>5. Exclusive
    BY <1>3 DEF Exclusive, Within, IdleThread, AdmitPCs, DispatchPCs
  <1> QED BY <1>1, <1>2, <1>4, <1>5 DEF GovernorInv

-----------------------------------------------------------------------------
\* Record, ledger, provider and threads stay in agreement.
THEOREM GovernorInvariant ==
    ASSUME ~AbsenceIsFailure
    PROVE  Spec => []GovernorInv
  <1>1. Init => GovernorInv
    BY InitOK
  <1>2. GovernorInv /\ [Next]_vars => GovernorInv'
    BY NextOK, Stutters
  <1> QED BY <1>1, <1>2, PTL DEF Spec

(* A budget flag in the registry always has a row to back it, whatever     *)
(* write was interrupted.                                                  *)
THEOREM RecordsStayBacked ==
    ASSUME ~AbsenceIsFailure
    PROVE  Spec => []RecordsBacked
  <1>1. GovernorInv => RecordsBacked
    <2> SUFFICES ASSUME GovernorInv, NEW k \in Keys
                 PROVE  /\ rec[k].committed => RowState(k) \in {"COMMITTED", "REFUNDED"}
                        /\ rec[k].reserved => RowState(k) \in {"RESERVED", "COMMITTED", "RELEASED", "REFUNDED"}
                        /\ rec[k].bound => HasRow(k)
      BY DEF GovernorInv, RecordsBacked, FlagsBacked
    <2>1. TablesOK /\ KeyOK(k)
      BY OfKey
    <2>2. /\ HasRow(k) <=> RowState(k) # "NONE"
          /\ RowState(k) \in RowStates \cup {"NONE"}
      BY <2>1, RowFacts
    <2> QED BY <2>1, <2>2 DEF KeyOK, FlagsOK, RowStates
  <1> QED BY <1>1, GovernorInvariant, PTL

(* FAILED holds no budget, CONFIRMED is charged and effected, and whatever *)
(* the provider may have done is charged, through races, late answers,     *)
(* failing writes and crashes.                                             *)
THEOREM OutcomeStaysBacked ==
    ASSUME ~AbsenceIsFailure
    PROVE  Spec => []OutcomeBacked
  <1>1. GovernorInv => OutcomeBacked
    <2> SUFFICES ASSUME GovernorInv, NEW k \in Keys
                 PROVE  /\ State(k) = "FAILED" => ~HasRow(k) \/ RowState(k) \in {"RELEASED", "REFUNDED"}
                        /\ State(k) = "CONFIRMED" => RowState(k) = "COMMITTED" /\ prov[k] = "effect"
                        /\ prov[k] \in {"pending", "effect"} =>
                             RowState(k) = "COMMITTED" /\ State(k) \in {"DISPATCHING", "UNKNOWN", "CONFIRMED"}
      BY DEF OutcomeBacked, FailedHoldsNoBudget, ConfirmedIsCharged, EffectIsCharged
    <2>1. TablesOK /\ KeyOK(k)
      BY OfKey
    <2>2. HasRow(k) <=> RowState(k) # "NONE"
      BY <2>1, RowFacts
    <2> QED BY <2>1, <2>2 DEF KeyOK, HoldsNothing, Returned, Claimed
  <1> QED BY <1>1, GovernorInvariant, PTL

(* provider.execute is called at most once per operation, however many     *)
(* workers dispatch, retry or recover it.                                  *)
THEOREM ExecutesAtMostOnce ==
    ASSUME ~AbsenceIsFailure
    PROVE  Spec => []ExecutedAtMostOnce
  <1>1. GovernorInv => ExecutedAtMostOnce
    BY DEF GovernorInv, KeyOK, ExecutedAtMostOnce
  <1> QED BY <1>1, GovernorInvariant, PTL

-----------------------------------------------------------------------------
(* The refinement.  Only the mapped values of the key a step changes can   *)
(* change, and each way KeyStep lists is a step of BudgetedOperation or    *)
(* changes none of them.                                                   *)
Status(k) == CASE State(k) = "NONE" -> "absent"
               [] State(k) = "CONFIRMED" -> "confirmed"
               [] State(k) = "FAILED" -> "failed"
               [] OTHER -> "open"
Money(k) == CASE ~HasRow(k) -> "none"
              [] RowState(k) \in {"RESERVED", "UNKNOWN"} -> "held"
              [] RowState(k) = "COMMITTED" -> "spent"
              [] OTHER -> "returned"
Effect(k) == CASE prov[k] = "none" -> "none"
               [] prov[k] = "pending" -> "possible"
               [] prov[k] = "effect" -> "done"
               [] OTHER -> "refused"

LEMMA Mapped ==
    /\ statusMap = [k \in Keys |-> Status(k)]
    /\ moneyMap = [k \in Keys |-> Money(k)]
    /\ effectMap = [k \in Keys |-> Effect(k)]
  BY DEF statusMap, moneyMap, effectMap, Status, Money, Effect

\* What the abstract state of a key says about the concrete one.
LEMMA MappedValues ==
    ASSUME TablesOK, NEW k \in Keys, KeyOK(k)
    PROVE  /\ State(k) = "NONE" => Status(k) = "absent"
           /\ State(k) = "CONFIRMED" => Status(k) = "confirmed"
           /\ State(k) = "FAILED" => Status(k) = "failed"
           /\ State(k) \notin {"NONE", "CONFIRMED", "FAILED"} => Status(k) = "open"
           /\ RowState(k) = "NONE" => Money(k) = "none"
           /\ RowState(k) = "RESERVED" => Money(k) = "held"
           /\ RowState(k) = "COMMITTED" => Money(k) = "spent"
           /\ RowState(k) \in {"RELEASED", "REFUNDED"} => Money(k) = "returned"
           /\ RowState(k) \in {"NONE", "RESERVED", "COMMITTED", "RELEASED", "REFUNDED"}
           /\ prov[k] = "none" => Effect(k) = "none"
           /\ prov[k] = "pending" => Effect(k) = "possible"
           /\ prov[k] = "effect" => Effect(k) = "done"
           /\ prov[k] = "failed" => Effect(k) = "refused"
  <1>1. (HasRow(k) <=> RowState(k) # "NONE") /\ RowState(k) \in RowStates \cup {"NONE"}
    BY RowFacts
  <1> QED BY <1>1 DEF Status, Money, Effect, KeyOK, RowStates

\* The abstract steps of one key, on its mapped values.
PromisedStep(k) ==
    LET s == Status(k)
        m == Money(k)
        e == Effect(k)
    IN  \/ s' = s /\ m' = m /\ e' = e
        \/ s = "absent" /\ s' = "open" /\ m' \in {"none", "held"} /\ e' = e
        \/ s = "open" /\ m = "none" /\ m' = "held" /\ s' = s /\ e' = e
        \/ s = "open" /\ m = "held" /\ m' = "spent" /\ s' = s /\ e' = e
        \/ /\ s = "open" /\ ((m = "held" /\ e = "none") \/ (m = "spent" /\ e = "refused"))
           /\ m' = "returned" /\ s' = s /\ e' = e
        \/ /\ s = "open" /\ m = "spent" /\ e = "none"
           /\ e' \in {"possible", "done", "refused"} /\ s' = s /\ m' = m
        \/ e = "possible" /\ e' \in {"done", "refused"} /\ s' = s /\ m' = m
        \/ s = "open" /\ m = "spent" /\ e = "done" /\ s' = "confirmed" /\ m' = m /\ e' = e
        \/ s = "open" /\ m \in {"none", "returned"} /\ s' = "failed" /\ m' = m /\ e' = e

LEMMA MappedSame ==
    ASSUME NEW k \in Keys
    PROVE  /\ SameState(k) => Status(k)' = Status(k)
           /\ SameRow(k) => Money(k)' = Money(k)
           /\ SameOutside(k) => Effect(k)' = Effect(k)
  BY DEF SameState, SameRow, SameOutside, Status, Money, Effect, State, RowState, HasRow

LEMMA MappedValuesNext ==
    ASSUME TablesOK', NEW k \in Keys, KeyOK(k)'
    PROVE  /\ rec'[k].state = "CONFIRMED" => Status(k)' = "confirmed"
           /\ rec'[k].state = "FAILED" => Status(k)' = "failed"
           /\ rec'[k].state \notin {"NONE", "CONFIRMED", "FAILED"} => Status(k)' = "open"
           /\ rows'[k].state = "RESERVED" => Money(k)' = "held"
           /\ rows'[k].state = "COMMITTED" => Money(k)' = "spent"
           /\ rows'[k].state \in {"RELEASED", "REFUNDED"} => Money(k)' = "returned"
           /\ prov'[k] = "pending" => Effect(k)' = "possible"
           /\ prov'[k] = "effect" => Effect(k)' = "done"
           /\ prov'[k] = "failed" => Effect(k)' = "refused"
  <1>1. HasRow(k)' <=> RowState(k)' # "NONE"
    BY RowFactsNext
  <1> QED BY <1>1 DEF Status, Money, Effect, KeyOK, State, RowState

LEMMA KeyStepPromised ==
    ASSUME GovernorInv, GovernorInv', NEW a, NEW k \in Keys, KeyStep(a, k)
    PROVE  PromisedStep(k)
  <1>0. TypeOK /\ TablesOK /\ KeyOK(k) /\ State(k) \in OpStates
    BY OfKey
  <1>n. TypeOK' /\ TablesOK' /\ KeyOK(k)'
    BY DEF GovernorInv, TypeOK
  <1>r. HasRow(k) <=> RowState(k) # "NONE"
    BY <1>0, RowFacts
  <1>s. CASE Stays(k)
    BY <1>s, MappedSame DEF Stays, PromisedStep
  <1>g. CASE Registers(k)
    <2>1. Status(k) = "absent" /\ Money(k) = "none"
      BY <1>0, <1>r, <1>g, MappedValues DEF Registers, KeyOK
    <2>2. Status(k)' = "open" /\ Money(k)' = Money(k) /\ Effect(k)' = Effect(k)
      BY <1>n, <1>g, MappedValuesNext, MappedSame DEF Registers
    <2> QED BY <2>1, <2>2 DEF PromisedStep
  <1>p. CASE Presets(k)
    <2>1. Status(k) = "absent" /\ Status(k)' = "open" /\ Money(k)' = "held" /\ Effect(k)' = Effect(k)
      BY <1>0, <1>n, <1>p, MappedValues, MappedValuesNext, MappedSame DEF Presets
    <2> QED BY <2>1 DEF PromisedStep
  <1>m. ASSUME NEW s \in OpStates, Moves(a, k, s) PROVE PromisedStep(k)
    <2>1. Money(k)' = Money(k) /\ Effect(k)' = Effect(k)
      BY <1>m, MappedSame DEF Moves
    <2>2. Status(k) = "open"
      BY <1>0, <1>m, MappedValues, LegalFacts DEF Moves
    <2>3. CASE s = "FAILED"
      <3>1. Money(k) \in {"none", "returned"}
        BY <1>0, <1>r, <1>m, <2>3, MappedValues DEF Moves, HoldsNothing, Returned
      <3>2. Status(k)' = "failed"
        BY <1>n, <1>m, <2>3, MappedValuesNext DEF Moves
      <3> QED BY <2>1, <2>2, <3>1, <3>2 DEF PromisedStep
    <2>4. CASE s = "CONFIRMED"
      <3>1. Money(k) = "spent" /\ Effect(k) = "done"
        BY <1>0, <1>m, <2>4, MappedValues DEF Moves, KeyOK
      <3>2. Status(k)' = "confirmed"
        BY <1>n, <1>m, <2>4, MappedValuesNext DEF Moves
      <3> QED BY <2>1, <2>2, <3>1, <3>2 DEF PromisedStep
    <2>5. CASE s \notin {"FAILED", "CONFIRMED"}
      <3>1. s # "NONE"
        BY <1>0, <1>m, LegalFacts DEF Moves
      <3>2. Status(k)' = "open"
        BY <1>n, <1>m, <2>5, <3>1, MappedValuesNext DEF Moves
      <3> QED BY <2>1, <2>2, <3>2 DEF PromisedStep
    <2> QED BY <2>3, <2>4, <2>5
  <1>f. CASE Flags(k, TRUE, FALSE) \/ Flags(k, FALSE, TRUE) \/ Flags(k, FALSE, FALSE)
    BY <1>f, MappedSame DEF Flags, PromisedStep
  <1>i. CASE Inserts(a, k)
    <2>1. Status(k) = "open" /\ Money(k) = "none"
      BY <1>0, <1>i, MappedValues DEF Inserts, RowMoves
    <2>2. Status(k)' = Status(k) /\ Money(k)' = "held" /\ Effect(k)' = Effect(k)
      BY <1>n, <1>i, MappedValuesNext, MappedSame DEF Inserts, RowMoves
    <2> QED BY <2>1, <2>2 DEF PromisedStep
  <1>c. CASE Charges(a, k)
    <2>1. Status(k) = "open" /\ Money(k) = "held"
      BY <1>0, <1>c, MappedValues DEF Charges, RowMoves
    <2>2. Status(k)' = Status(k) /\ Money(k)' = "spent" /\ Effect(k)' = Effect(k)
      BY <1>n, <1>c, MappedValuesNext, MappedSame DEF Charges, RowMoves
    <2> QED BY <2>1, <2>2 DEF PromisedStep
  <1>l. CASE Releases(a, k)
    <2>1. Status(k) = "open" /\ Money(k) = "held" /\ Effect(k) = "none"
      BY <1>0, <1>r, <1>l, MappedValues DEF Releases, RowMoves, KeyOK, HoldsNothing, Returned, TypeOK
    <2>2. Status(k)' = Status(k) /\ Money(k)' = "returned" /\ Effect(k)' = Effect(k)
      BY <1>n, <1>l, MappedValuesNext, MappedSame DEF Releases, RowMoves
    <2> QED BY <2>1, <2>2 DEF PromisedStep
  <1>u. CASE Refunds(a, k)
    <2>1. Status(k) = "open" /\ Money(k) = "spent" /\ Effect(k) = "refused"
      BY <1>0, <1>r, <1>u, MappedValues DEF Refunds, RowMoves, KeyOK, HoldsNothing, Returned
    <2>2. Status(k)' = Status(k) /\ Money(k)' = "returned" /\ Effect(k)' = Effect(k)
      BY <1>n, <1>u, MappedValuesNext, MappedSame DEF Refunds, RowMoves
    <2> QED BY <2>1, <2>2 DEF PromisedStep
  <1>x. CASE Executes(a, k)
    <2>1. Status(k) = "open" /\ Money(k) = "spent" /\ Effect(k) = "none"
      BY <1>0, <1>r, <1>x, MappedValues DEF Executes, KeyOK, HoldsNothing, Returned
    <2>2. Status(k)' = Status(k) /\ Money(k)' = Money(k) /\ Effect(k)' \in {"possible", "done", "refused"}
      BY <1>n, <1>x, MappedValuesNext, MappedSame DEF Executes
    <2> QED BY <2>1, <2>2 DEF PromisedStep
  <1>e. CASE Settles(k)
    <2>1. Effect(k) = "possible" /\ Effect(k)' \in {"done", "refused"}
          /\ Status(k)' = Status(k) /\ Money(k)' = Money(k)
      BY <1>0, <1>n, <1>e, MappedValues, MappedValuesNext, MappedSame DEF Settles
    <2> QED BY <2>1 DEF PromisedStep
  <1> QED BY <1>s, <1>g, <1>p, <1>m, <1>f, <1>i, <1>c, <1>l, <1>u, <1>x, <1>e DEF KeyStep

\* One key makes an abstract step and the others keep their mapped values.
LEMMA PromiseStep ==
    ASSUME NEW a, NEW k \in Keys, Frame(a, k), PromisedStep(k)
    PROVE  [Promise!Next]_(Promise!vars)
  <1>1. \A j \in Keys \ {k} : Status(j)' = Status(j) /\ Money(j)' = Money(j) /\ Effect(j)' = Effect(j)
    BY DEF Frame, Status, Money, Effect, State, RowState, HasRow
  <1>2. /\ statusMap[k] = Status(k) /\ moneyMap[k] = Money(k) /\ effectMap[k] = Effect(k)
    BY Mapped
  <1>m. /\ statusMap = [j \in Keys |-> Status(j)] /\ statusMap' = [j \in Keys |-> Status(j)']
        /\ moneyMap = [j \in Keys |-> Money(j)] /\ moneyMap' = [j \in Keys |-> Money(j)']
        /\ effectMap = [j \in Keys |-> Effect(j)] /\ effectMap' = [j \in Keys |-> Effect(j)']
    <2>1. /\ statusMap = [j \in Keys |-> Status(j)]
          /\ moneyMap = [j \in Keys |-> Money(j)]
          /\ effectMap = [j \in Keys |-> Effect(j)]
      BY Mapped
    <2>2. /\ statusMap' = [j \in Keys |-> Status(j)']
          /\ moneyMap' = [j \in Keys |-> Money(j)']
          /\ effectMap' = [j \in Keys |-> Effect(j)']
      BY DEF statusMap, moneyMap, effectMap, Status, Money, Effect
    <2> QED BY <2>1, <2>2
  <1>3. /\ statusMap' = [statusMap EXCEPT ![k] = Status(k)']
        /\ moneyMap' = [moneyMap EXCEPT ![k] = Money(k)']
        /\ effectMap' = [effectMap EXCEPT ![k] = Effect(k)']
    BY <1>1, <1>m
  <1>4. /\ Status(k)' = Status(k) => statusMap' = statusMap
        /\ Money(k)' = Money(k) => moneyMap' = moneyMap
        /\ Effect(k)' = Effect(k) => effectMap' = effectMap
    BY <1>1, <1>m
  <1> QED BY <1>2, <1>3, <1>4 DEF PromisedStep, Promise!vars, Promise!Next, Promise!Open,
          Promise!Submit, Promise!Hold, Promise!Spend, Promise!GiveBack, Promise!Execute,
          Promise!Resolve, Promise!Confirm, Promise!Fail

(* The governor implements BudgetedOperation: threads, locks, retries and  *)
(* crashes show nothing but its steps.                                     *)
THEOREM GovernorKeepsPromise ==
    ASSUME ~AbsenceIsFailure
    PROVE  Spec => KeepsPromise
  <1>1. Init => Promise!Init
    <2> SUFFICES ASSUME Init PROVE Promise!Init
      OBVIOUS
    <2>1. \A k \in Keys : State(k) = "NONE" /\ ~HasRow(k) /\ prov[k] = "none"
      BY DEF Init, NewRecord, State, HasRow
    <2>2. \A k \in Keys : Status(k) = "absent" /\ Money(k) = "none" /\ Effect(k) = "none"
      BY <2>1, InitOK, OfKey, RowFacts, MappedValues
    <2> QED BY <2>2, Mapped DEF Promise!Init
  <1>2. GovernorInv /\ GovernorInv' /\ [Next]_vars => [Promise!Next]_(Promise!vars)
    <2> SUFFICES ASSUME GovernorInv, GovernorInv', [Next]_vars
                 PROVE  [Promise!Next]_(Promise!vars)
      OBVIOUS
    <2>1. Visible
      BY NextOK, Stutters
    <2>2. CASE UNCHANGED <<rec, rows, prov>>
      BY <2>2 DEF Promise!vars, statusMap, moneyMap, effectMap, State, RowState, HasRow
    <2>3. ASSUME NEW a \in Threads \cup {NoThread}, NEW k \in Keys, Frame(a, k), KeyStep(a, k)
          PROVE  [Promise!Next]_(Promise!vars)
      BY <2>3, KeyStepPromised, PromiseStep
    <2> QED BY <2>1, <2>2, <2>3 DEF Visible
  <1> QED BY <1>1, <1>2, GovernorInvariant, PTL DEF Spec, KeepsPromise, Promise!Spec
=============================================================================
