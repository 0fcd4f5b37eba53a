---------------------------- MODULE RaftBackend ----------------------------
(***************************************************************************)
(* operations/raft_backend.py: the budget ledger as a replicated state     *)
(* machine, and the adapter objects through which clients on several nodes *)
(* use it.                                                                 *)
(*                                                                         *)
(* The Raft library orders the commands; it is external and modelled by    *)
(* what the adapter relies on: a command is executed once, at some time    *)
(* after it was sent, or lost; a node applies the log in order, lags       *)
(* behind, and starts again from the beginning when it restarts; a call    *)
(* returns the result once its own node has applied the command, or raises *)
(* when its timeout passes first, the command being still under way.       *)
(*                                                                         *)
(* A reservation id is identified with the key it was made for: the key    *)
(* index admits one per key.  Incidents and logical timestamps, which no   *)
(* decision reads, and the repair of pre-Decimal journals are left out.    *)
(***************************************************************************)
EXTENDS Naturals, Sequences, FiniteSets

CONSTANTS Nodes, Clients, HomeOf,      \* each client uses the adapter of one node
          Reconcilers,                 \* clients whose adapter has provider_reconcile
          Keys, Resources, Amounts, Capacities,
          NoKey,
          MaxTries,                    \* attempts of commit, refund and release (5)
          MaxFaults                    \* bound on timeouts, losses and restarts

ASSUME RaftAssumption ==
    /\ HomeOf \in [Clients -> Nodes]
    /\ Reconcilers \subseteq Clients
    /\ Amounts \subseteq Nat \ {0}
    /\ Capacities \subseteq Nat
    /\ NoKey \notin Keys
    /\ MaxTries \in Nat \ {0}
    /\ MaxFaults \in Nat

VARIABLES ledgers,   \* the ledger after each command of the log that changed it
          applied,   \* how far each node has applied them
          inflight,  \* commands sent and neither executed nor lost
          call,      \* the call each client is in, or its last answer
          effect,    \* external: what the provider did for each key
          faults

vars == <<ledgers, applied, inflight, call, effect, faults>>

RowStates == {"RESERVED", "UNKNOWN", "COMMITTED", "RELEASED", "REFUNDED"}
Row == [state : RowStates, resource : Resources, amount : Amounts]
NoRow == [state |-> "NONE"]

\* _resources, _reservations with _key_index, and _compensations.
Ledger == [registered : SUBSET Resources,
           capacity : [Resources -> Nat],
           reserved : [Resources -> Nat],
           committed : [Resources -> Nat],
           rows : [Keys -> Row \cup {NoRow}],
           compensations : SUBSET Keys]

EmptyLedger == [registered |-> {},
                capacity |-> [r \in Resources |-> 0],
                reserved |-> [r \in Resources |-> 0],
                committed |-> [r \in Resources |-> 0],
                rows |-> [k \in Keys |-> NoRow],
                compensations |-> {}]

Latest == ledgers[Len(ledgers)]
View(n) == ledgers[applied[n]]

-----------------------------------------------------------------------------
\* The replicated commands: functions from a ledger to a ledger and a status.
Outcome(l, s) == [ledger |-> l, status |-> s]

HasRow(l, k) == l.rows[k] # NoRow
StateOf(l, k) == l.rows[k].state
Amount(l, k) == l.rows[k].amount
Resource(l, k) == l.rows[k].resource

\* _normalize_resource_values refuses accounting beyond the capacity.
Sound(l, r) == l.reserved[r] + l.committed[r] <= l.capacity[r]

Charge(l, k) == [l EXCEPT !.reserved[Resource(l, k)] = @ - Amount(l, k),
                          !.committed[Resource(l, k)] = @ + Amount(l, k),
                          !.rows[k].state = "COMMITTED"]
GiveBack(l, k) == [l EXCEPT !.reserved[Resource(l, k)] = @ - Amount(l, k),
                            !.rows[k].state = "RELEASED"]
PayBack(l, k) == [l EXCEPT !.committed[Resource(l, k)] = @ - Amount(l, k),
                           !.rows[k].state = "REFUNDED"]

RegisterResource(l, r, c) ==
    CASE r \notin l.registered ->
           Outcome([l EXCEPT !.registered = @ \cup {r}, !.capacity[r] = c], "REGISTERED")
      [] r \in l.registered /\ l.capacity[r] = c -> Outcome(l, "ALREADY_REGISTERED")
      [] OTHER -> Outcome(l, "RESOURCE_CONFLICT")

Reserve(l, k, a, r) ==
    CASE HasRow(l, k) /\ Amount(l, k) = a /\ Resource(l, k) = r -> Outcome(l, StateOf(l, k))
      [] HasRow(l, k) /\ (Amount(l, k) # a \/ Resource(l, k) # r) -> Outcome(l, "DUPLICATE_KEY")
      [] ~HasRow(l, k) /\ r \notin l.registered -> Outcome(l, "UNKNOWN_RESOURCE")
      [] ~HasRow(l, k) /\ r \in l.registered /\ l.reserved[r] + l.committed[r] + a > l.capacity[r] ->
           Outcome(l, "INSUFFICIENT_BUDGET")
      [] OTHER ->
           Outcome([l EXCEPT !.reserved[r] = @ + a,
                             !.rows[k] = [state |-> "RESERVED", resource |-> r, amount |-> a]],
                   "RESERVED")

\* The accounting checks shared by the commands that move reserved budget; all
\* their refusals (corrupt resource, too little reserved) share one status here.
Reservable(l, k) == Sound(l, Resource(l, k)) /\ l.reserved[Resource(l, k)] >= Amount(l, k)

Commit(l, k) ==
    CASE ~HasRow(l, k) -> Outcome(l, "NOT_FOUND")
      [] StateOf(l, k) = "COMMITTED" -> Outcome(l, "ALREADY_COMMITTED")
      [] StateOf(l, k) \in {"UNKNOWN", "RELEASED", "REFUNDED"} -> Outcome(l, "INVALID_STATE")
      [] StateOf(l, k) = "RESERVED" /\ Reservable(l, k) -> Outcome(Charge(l, k), "COMMITTED")
      [] OTHER -> Outcome(l, "INCONSISTENT_RESERVED_AMOUNT")

\* Mutant of Refund: a retried refund pays the committed budget back again.
RefundMut(l, k) ==
    IF StateOf(l, k) \in {"COMMITTED", "REFUNDED"}
      THEN Outcome(PayBack(l, k), "REFUNDED")
      ELSE Outcome(l, "NOT_COMMITTED")

Refund(l, k) ==
    CASE ~HasRow(l, k) -> Outcome(l, "NOT_FOUND")
      [] StateOf(l, k) = "REFUNDED" -> Outcome(l, "ALREADY_REFUNDED")
      [] StateOf(l, k) \in {"RESERVED", "UNKNOWN", "RELEASED"} -> Outcome(l, "NOT_COMMITTED")
      [] /\ StateOf(l, k) = "COMMITTED" /\ Sound(l, Resource(l, k))
         /\ l.committed[Resource(l, k)] >= Amount(l, k) -> Outcome(PayBack(l, k), "REFUNDED")
      [] OTHER -> Outcome(l, "INCONSISTENT_COMMITTED_AMOUNT")

\* A reservation that is already released is refused like any other state.
Release(l, k) ==
    CASE ~HasRow(l, k) -> Outcome(l, "NOT_FOUND")
      [] StateOf(l, k) = "COMMITTED" -> Outcome(l, "ALREADY_COMMITTED")
      [] StateOf(l, k) \in {"UNKNOWN", "RELEASED", "REFUNDED"} -> Outcome(l, "INVALID_STATE")
      [] StateOf(l, k) = "RESERVED" /\ Reservable(l, k) -> Outcome(GiveBack(l, k), "RELEASED")
      [] OTHER -> Outcome(l, "INCONSISTENT_RESERVED_AMOUNT")

\* Mutants of ReconcileCommit: the late effect is charged although the budget
\* was given back; a compensation is recorded for a refunded reservation too.
ReconcileCommitMut(l, k) ==
    IF StateOf(l, k) = "RELEASED"
      THEN Outcome([l EXCEPT !.committed[Resource(l, k)] = @ + Amount(l, k),
                             !.rows[k].state = "COMMITTED"], "COMMITTED")
      ELSE Commit(l, k)

\* A late effect on a released reservation owes a compensation, once.
ReconcileCommit(l, k) ==
    IF StateOf(l, k) = "RELEASED"
      THEN Outcome([l EXCEPT !.compensations = @ \cup {k}], "COMPENSATION_REQUIRED")
      ELSE Commit(l, k)

ReconcileRelease(l, k) ==
    CASE ~HasRow(l, k) -> Outcome(l, "NOT_FOUND")
      [] StateOf(l, k) = "COMMITTED" -> Outcome(l, "ALREADY_COMMITTED")
      [] StateOf(l, k) = "RELEASED" -> Outcome(l, "RELEASED")
      [] StateOf(l, k) = "REFUNDED" -> Outcome(l, "INVALID_STATE")
      [] StateOf(l, k) \in {"RESERVED", "UNKNOWN"} /\ Reservable(l, k) ->
           Outcome(GiveBack(l, k), "RELEASED")
      [] OTHER -> Outcome(l, "INCONSISTENT_RESERVED_AMOUNT")

Execute(l, cmd) ==
    CASE cmd.op = "register" -> RegisterResource(l, cmd.resource, cmd.amount)
      [] cmd.op = "reserve" -> Reserve(l, cmd.key, cmd.amount, cmd.resource)
      [] cmd.op = "commit" -> Commit(l, cmd.key)
      [] cmd.op = "refund" -> Refund(l, cmd.key)
      [] cmd.op = "release" -> Release(l, cmd.key)
      [] cmd.op = "reconcile_commit" -> ReconcileCommit(l, cmd.key)
      [] cmd.op = "reconcile_release" -> ReconcileRelease(l, cmd.key)

-----------------------------------------------------------------------------
(* A call: pc "wait" until its command is executed, "applied" until its    *)
(* node has caught up to position at, "ask" while reconcile waits for the  *)
(* provider, "done" with the answer the caller got.  answer is what the    *)
(* provider told a reconcile.  id pairs a command with the call that waits *)
(* for it: a client sends again only once its command was executed or a    *)
(* fault was counted.                                                      *)
Statuses == RowStates \cup
    {"-", "REGISTERED", "ALREADY_REGISTERED", "RESOURCE_CONFLICT", "DUPLICATE_KEY",
     "UNKNOWN_RESOURCE", "INSUFFICIENT_BUDGET", "NOT_FOUND", "ALREADY_COMMITTED",
     "INVALID_STATE", "INCONSISTENT_RESERVED_AMOUNT", "ALREADY_REFUNDED", "NOT_COMMITTED",
     "INCONSISTENT_COMMITTED_AMOUNT", "COMPENSATION_REQUIRED", "CONFIRMED", "FAILED",
     "RECONCILE_CONFLICT", "UNRESOLVED", "ERROR"}

Calls == [pc : {"idle", "wait", "applied", "ask", "done"},
          op : {"-", "register", "reserve", "commit", "refund", "release", "reconcile"},
          key : Keys \cup {NoKey}, try : 0..MaxTries, id : 0..MaxFaults,
          at : Nat, status : Statuses,
          answer : {"-", "YES", "NO"}]

Idle == [pc |-> "idle", op |-> "-", key |-> NoKey, try |-> 0, id |-> 0, at |-> 0,
         status |-> "-", answer |-> "-"]

Commands == [by : Clients, id : 0..MaxFaults,
             op : {"register", "reserve", "commit", "refund", "release",
                   "reconcile_commit", "reconcile_release"},
             key : Keys \cup {NoKey}, resource : Resources \cup {NoKey}, amount : Nat]

TypeOK ==
    /\ ledgers \in Seq(Ledger) /\ ledgers # <<>>
    /\ applied \in [Nodes -> 1..Len(ledgers)]
    /\ inflight \subseteq Commands
    /\ call \in [Clients -> Calls]
    /\ effect \in [Keys -> {"pending", "happened", "never"}]
    /\ faults \in 0..MaxFaults

Init ==
    /\ ledgers = <<EmptyLedger>>
    /\ applied = [n \in Nodes |-> 1]
    /\ inflight = {}
    /\ call = [c \in Clients |-> Idle]
    /\ effect = [k \in Keys |-> "pending"]
    /\ faults = 0

Ready(c) == call[c].pc \in {"idle", "done"}

\* Call and command of the first attempt.
Begin(c, op, k) == [Idle EXCEPT !.pc = "wait", !.op = op, !.key = k, !.try = 1,
                                    !.id = faults]
Command(c, op, k, r, a, n) ==
    [by |-> c, id |-> n, op |-> op, key |-> k, resource |-> r, amount |-> a]

Send(c, op, k, r, a) ==
    /\ Ready(c)
    /\ call' = [call EXCEPT ![c] = Begin(c, op, k)]
    /\ inflight' = inflight \cup {Command(c, op, k, r, a, faults)}
    /\ UNCHANGED <<ledgers, applied, effect, faults>>

Waiting(c, cmd) == call[c].pc = "wait" /\ cmd.by = c /\ cmd.id = call[c].id

ClientRegisters(c, r, cap) == Send(c, "register", NoKey, r, cap)
ClientReserves(c, k, a, r) == Send(c, "reserve", k, r, a)

\* The caller has the reservation id, so the reservation is in the log.
ClientSettles(c, op, k) == HasRow(Latest, k) /\ Send(c, op, k, NoKey, 0)

\* Raft: the next command of the log is executed.
ExecuteCommand(cmd) ==
    LET res == Execute(Latest, cmd)
        c == cmd.by
        log == IF res.ledger = Latest THEN ledgers ELSE Append(ledgers, res.ledger)
    IN  /\ cmd \in inflight
        /\ inflight' = inflight \ {cmd}
        /\ ledgers' = log
        /\ call' = IF Waiting(c, cmd)
                     THEN [call EXCEPT ![c].pc = "applied", ![c].at = Len(log),
                                       ![c].status = res.status]
                     ELSE call
        /\ UNCHANGED <<applied, effect, faults>>

\* Raft: a node applies the next change of the log.
CatchUp(n) ==
    /\ applied[n] < Len(ledgers)
    /\ applied' = [applied EXCEPT ![n] = @ + 1]
    /\ UNCHANGED <<ledgers, inflight, call, effect, faults>>

(* What reconcile makes of the status of its command; the other methods    *)
(* hand the status on.                                                     *)
Verdict(cl) ==
    CASE cl.op # "reconcile" -> cl.status
      [] cl.op = "reconcile" /\ cl.status \in {"COMMITTED", "ALREADY_COMMITTED"} -> "CONFIRMED"
      [] cl.op = "reconcile" /\ cl.status = "COMPENSATION_REQUIRED" -> "RECONCILE_CONFLICT"
      [] cl.op = "reconcile" /\ cl.status = "RELEASED" -> "FAILED"
      [] OTHER -> "ERROR"

\* The caller gets an answer; of the call only the answer is kept.
Answered(op, k, a, s) == [pc |-> "done", op |-> op, key |-> k, try |-> 0, id |-> 0, at |-> 0,
                          status |-> s, answer |-> a]
Done(c, s) == Answered(call[c].op, call[c].key, call[c].answer, s)

Reply(c) ==
    /\ call[c].pc = "applied"
    /\ applied[HomeOf[c]] >= call[c].at
    /\ call' = [call EXCEPT ![c] = Done(c, Verdict(call[c]))]
    /\ UNCHANGED <<ledgers, applied, inflight, effect, faults>>

(* The call raises before its result arrived; its command may still be     *)
(* executed later.  commit, refund and release try again.  Only a timeout  *)
(* whose command was not lost counts as a fault of its own.                *)
Retries(op) == op \in {"commit", "refund", "release"}

Timeout(c) ==
    LET lost == call[c].pc = "wait" /\ ~\E cmd \in inflight : Waiting(c, cmd)
    IN  /\ call[c].pc \in {"wait", "applied"}
        /\ lost \/ faults < MaxFaults
        /\ faults' = IF lost THEN faults ELSE faults + 1
        /\ IF Retries(call[c].op) /\ call[c].try < MaxTries
             THEN /\ call' = [call EXCEPT ![c].pc = "wait", ![c].try = @ + 1,
                                          ![c].id = faults']
                  /\ inflight' = inflight \cup
                       {Command(c, call[c].op, call[c].key, NoKey, 0, faults')}
             ELSE /\ call' = [call EXCEPT ![c] = Done(c, "ERROR")]
                  /\ UNCHANGED inflight
        /\ UNCHANGED <<ledgers, applied, effect>>

-----------------------------------------------------------------------------
\* The adapter's lock: one reconcile at a time on a node.
Reconciling(n) ==
    \E c \in Clients : HomeOf[c] = n /\ ~Ready(c) /\ call[c].op = "reconcile"

(* reconcile reads the node's own replica, which may lag, and decides from *)
(* it whether to ask the provider at all.                                  *)
ReconcileRead(c, k) ==
    LET v == View(HomeOf[c])
        unasked == CASE StateOf(v, k) = "NONE" -> "NOT_FOUND"
                     [] StateOf(v, k) = "COMMITTED" -> "CONFIRMED"
                     [] StateOf(v, k) = "RELEASED" -> "FAILED"
                     [] OTHER -> "UNRESOLVED"
        asks == c \in Reconcilers /\ StateOf(v, k) \notin {"NONE", "COMMITTED"}
    IN  /\ Ready(c)
        /\ ~Reconciling(HomeOf[c])
        /\ call' = [call EXCEPT ![c] =
                      IF asks THEN [Begin(c, "reconcile", k) EXCEPT !.pc = "ask"]
                              ELSE Answered("reconcile", k, "-", unasked)]
        /\ UNCHANGED <<ledgers, applied, inflight, effect, faults>>

\* External: what the provider may answer for a key.
Answers(k) ==
    {"?"} \cup (IF effect[k] = "happened" THEN {"YES"} ELSE {})
          \cup (IF effect[k] = "never" THEN {"NO"} ELSE {})

ReconcileAsk(c) ==
    LET k == call[c].key
    IN  /\ call[c].pc = "ask"
        /\ \E a \in Answers(k) :
             /\ call' = [call EXCEPT ![c] =
                           IF a = "?" THEN Done(c, "UNRESOLVED")
                           ELSE [@ EXCEPT !.pc = "wait", !.id = faults, !.answer = a]]
             /\ inflight' = inflight \cup
                  CASE a = "YES" -> {Command(c, "reconcile_commit", k, NoKey, 0, faults)}
                    [] a = "NO"  -> {Command(c, "reconcile_release", k, NoKey, 0, faults)}
                    [] OTHER     -> {}
        /\ UNCHANGED <<ledgers, applied, effect, faults>>

ReconcileAskFails(c) ==
    /\ call[c].pc = "ask"
    /\ call' = [call EXCEPT ![c] = Done(c, "ERROR")]
    /\ UNCHANGED <<ledgers, applied, inflight, effect, faults>>

-----------------------------------------------------------------------------
\* Raft: a command is lost, with a leader or before it reached one.
Lose(cmd) ==
    /\ cmd \in inflight
    /\ faults < MaxFaults
    /\ faults' = faults + 1
    /\ inflight' = inflight \ {cmd}
    /\ UNCHANGED <<ledgers, applied, call, effect>>

\* A node dies with the calls of its clients and replays the log when it is back.
Restart(n) ==
    /\ faults < MaxFaults
    /\ faults' = faults + 1
    /\ applied' = [applied EXCEPT ![n] = 1]
    /\ call' = [c \in Clients |-> IF HomeOf[c] = n THEN Idle ELSE call[c]]
    /\ UNCHANGED <<ledgers, inflight, effect>>

\* External: the provider carries the request out, or never will.
ProviderSettles(k) ==
    /\ HasRow(Latest, k)
    /\ effect[k] = "pending"
    /\ \E e \in {"happened", "never"} : effect' = [effect EXCEPT ![k] = e]
    /\ UNCHANGED <<ledgers, applied, inflight, call, faults>>

Next ==
    \/ \E c \in Clients, r \in Resources, cap \in Capacities : ClientRegisters(c, r, cap)
    \/ \E c \in Clients, k \in Keys, a \in Amounts, r \in Resources : ClientReserves(c, k, a, r)
    \/ \E c \in Clients, op \in {"commit", "refund", "release"}, k \in Keys : ClientSettles(c, op, k)
    \/ \E cmd \in inflight : ExecuteCommand(cmd)
    \/ \E n \in Nodes : CatchUp(n)
    \/ \E c \in Clients : Reply(c)
    \/ \E c \in Clients : Timeout(c)
    \/ \E c \in Clients, k \in Keys : ReconcileRead(c, k)
    \/ \E c \in Clients : ReconcileAsk(c)
    \/ \E c \in Clients : ReconcileAskFails(c)
    \/ \E cmd \in inflight : Lose(cmd)
    \/ \E n \in Nodes : Restart(n)
    \/ \E k \in Keys : ProviderSettles(k)

Spec == Init /\ [][Next]_vars

-----------------------------------------------------------------------------
Protocol == INSTANCE ConsensusBackend WITH
    registered <- Latest.registered, capacity <- Latest.capacity,
    reserved <- Latest.reserved, committed <- Latest.committed, rows <- Latest.rows

(* Retried, late and repeated commands only ever take the ledger through   *)
(* the steps of the budget protocol.                                       *)
ImplementsProtocol == Protocol!Spec

(* I8 on every replica, however far it lags: get_state never finds more    *)
(* reserved and committed than the capacity.                               *)
I8 == \A n \in Nodes, r \in Resources : Sound(View(n), r)

(* "Refund committed budget exactly once through the replicated log": the  *)
(* totals are the sums over the reservations, so an attempt executed after *)
(* its retry, or twice, moves no budget a second time.                     *)
LedgerAgrees == Protocol!LedgerAgrees

(* What a caller was told is true of the replicated ledger and stays true, *)
(* although reconcile may decide on a lagging replica and a restarted node *)
(* replays old states.                                                     *)
AnswersBacked ==
    \A c \in Clients : call[c].pc = "done" =>
        LET k == call[c].key
            s == call[c].status
        IN  /\ s \in {"COMMITTED", "ALREADY_COMMITTED", "CONFIRMED"}
                 => StateOf(Latest, k) \in {"COMMITTED", "REFUNDED"}
            /\ s \in {"RELEASED", "FAILED"} => StateOf(Latest, k) = "RELEASED"
            /\ s \in {"REFUNDED", "ALREADY_REFUNDED"} => StateOf(Latest, k) = "REFUNDED"
            /\ s = "RECONCILE_CONFLICT" => k \in Latest.compensations

(* A compensation is owed only for a released reservation whose effect the *)
(* provider confirmed.                                                     *)
CompensationJustified ==
    \A k \in Latest.compensations : StateOf(Latest, k) = "RELEASED" /\ effect[k] = "happened"

(* However often a command was sent and in whatever order its attempts     *)
(* were executed, the totals of the replicated ledger are the sums over    *)
(* its rows, and it owes a compensation only for an effect whose budget    *)
(* was given away.                                                         *)
LedgerSound == LedgerAgrees /\ CompensationJustified
=============================================================================
