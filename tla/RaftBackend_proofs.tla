------------------------- MODULE RaftBackend_proofs -------------------------
(***************************************************************************)
(* Proofs for RaftBackend, for any nodes, clients, keys, amounts, retries  *)
(* and faults: types, I8 on every replica, refinement of the budget        *)
(* protocol, and that answers given to callers stay true.                  *)
(***************************************************************************)
EXTENDS RaftBackend, TLAPS

\* Nothing is accounted to a resource that is not registered.
Unregistered(l) ==
    \A r \in Resources \ l.registered : l.reserved[r] = 0 /\ l.committed[r] = 0

Good(l) == /\ l \in Ledger
           /\ \A r \in Resources : Sound(l, r)
           /\ Unregistered(l)

\* The arguments the adapter passes with each command.
WellFormed(cmd) ==
    /\ cmd \in Commands
    /\ cmd.op = "register" => cmd.resource \in Resources /\ cmd.amount \in Capacities
    /\ cmd.op = "reserve" => cmd.resource \in Resources /\ cmd.amount \in Amounts
    /\ cmd.op # "register" => cmd.key \in Keys

\* What a command may do to the ledger: the steps of the budget protocol.
Registers(l, m, r, c) ==
    /\ r \notin l.registered
    /\ m = [l EXCEPT !.registered = @ \cup {r}, !.capacity[r] = c]
Inserts(l, m, k, a, r) ==
    /\ l.rows[k] = NoRow /\ r \in l.registered
    /\ l.reserved[r] + l.committed[r] + a <= l.capacity[r]
    /\ m = [l EXCEPT !.reserved[r] = @ + a,
                     !.rows[k] = [state |-> "RESERVED", resource |-> r, amount |-> a]]
Charges(l, m, k) == StateOf(l, k) = "RESERVED" /\ Reservable(l, k) /\ m = Charge(l, k)
Releases(l, m, k) ==
    StateOf(l, k) \in {"RESERVED", "UNKNOWN"} /\ Reservable(l, k) /\ m = GiveBack(l, k)
Refunds(l, m, k) ==
    /\ StateOf(l, k) = "COMMITTED" /\ l.committed[Resource(l, k)] >= Amount(l, k)
    /\ m = PayBack(l, k)
Owes(l, m, k) ==
    StateOf(l, k) = "RELEASED" /\ m = [l EXCEPT !.compensations = @ \cup {k}]

LedgerStep(l, m) ==
    \/ m = l
    \/ \E r \in Resources, c \in Capacities : Registers(l, m, r, c)
    \/ \E k \in Keys, a \in Amounts, r \in Resources : Inserts(l, m, k, a, r)
    \/ \E k \in Keys : Charges(l, m, k) \/ Releases(l, m, k) \/ Refunds(l, m, k) \/ Owes(l, m, k)

\* A row of a well-typed ledger is a reservation or absent.
LEMMA RowFacts ==
    ASSUME NEW l \in Ledger, NEW k \in Keys, StateOf(l, k) # "NONE"
    PROVE  /\ HasRow(l, k) /\ l.rows[k] \in Row
           /\ Resource(l, k) \in Resources /\ Amount(l, k) \in Nat
           /\ StateOf(l, k) \in RowStates
  <1>1. l.rows[k] \in Row \cup {NoRow}
    BY DEF Ledger
  <1>2. l.rows[k] # NoRow
    BY DEF StateOf, NoRow
  <1> QED BY <1>1, <1>2, RaftAssumption DEF HasRow, Row, Resource, Amount, StateOf

\* A key has a row exactly when the row has a state.
LEMMA NoRowFacts ==
    ASSUME NEW l \in Ledger, NEW k \in Keys
    PROVE  /\ HasRow(l, k) <=> StateOf(l, k) # "NONE"
           /\ StateOf(l, k) \in RowStates \cup {"NONE"}
  <1>1. l.rows[k] \in Row \cup {NoRow}
    BY DEF Ledger
  <1> QED BY <1>1 DEF HasRow, StateOf, NoRow, Row, RowStates

\* Executing a command takes the ledger through one step of the protocol.
LEMMA ExecuteStep ==
    ASSUME NEW l \in Ledger, NEW cmd, WellFormed(cmd)
    PROVE  LedgerStep(l, Execute(l, cmd).ledger)
  <1> DEFINE k == cmd.key
             m == Execute(l, cmd).ledger
  <1>0. cmd.op \in {"register", "reserve", "commit", "refund", "release",
                    "reconcile_commit", "reconcile_release"}
    BY DEF WellFormed, Commands
  <1>c. ASSUME k \in Keys
        PROVE  Commit(l, k).ledger = l \/ Charges(l, Commit(l, k).ledger, k)
    BY <1>c, NoRowFacts DEF Commit, Outcome, Charges
  <1>1. CASE cmd.op = "register"
    <2>1. m = RegisterResource(l, cmd.resource, cmd.amount).ledger
      BY <1>1 DEF Execute
    <2>2. cmd.resource \in Resources /\ cmd.amount \in Capacities
      BY <1>1 DEF WellFormed
    <2>3. m = l \/ Registers(l, m, cmd.resource, cmd.amount)
      BY <2>1 DEF RegisterResource, Outcome, Registers
    <2> QED BY <2>2, <2>3 DEF LedgerStep
  <1>2. CASE cmd.op = "reserve"
    <2>1. m = Reserve(l, k, cmd.amount, cmd.resource).ledger
      BY <1>2 DEF Execute
    <2>2. cmd.resource \in Resources /\ cmd.amount \in Amounts /\ k \in Keys
      BY <1>2 DEF WellFormed
    <2>3. l.reserved[cmd.resource] \in Nat /\ l.committed[cmd.resource] \in Nat
          /\ l.capacity[cmd.resource] \in Nat /\ cmd.amount \in Nat
      BY <2>2, RaftAssumption DEF Ledger
    <2>4. m = l \/ Inserts(l, m, k, cmd.amount, cmd.resource)
      BY <2>1, <2>2, <2>3 DEF Reserve, Outcome, Inserts, HasRow
    <2> QED BY <2>2, <2>4 DEF LedgerStep
  <1>3. CASE cmd.op = "commit"
    <2>1. k \in Keys /\ m = Commit(l, k).ledger
      BY <1>3 DEF Execute, WellFormed
    <2> QED BY <1>c, <2>1 DEF LedgerStep
  <1>4. CASE cmd.op = "refund"
    <2>1. k \in Keys /\ m = Refund(l, k).ledger
      BY <1>4 DEF Execute, WellFormed
    <2>2. m = l \/ Refunds(l, m, k)
      BY <2>1, NoRowFacts DEF Refund, Outcome, Refunds
    <2> QED BY <2>1, <2>2 DEF LedgerStep
  <1>5. CASE cmd.op = "release"
    <2>1. k \in Keys /\ m = Release(l, k).ledger
      BY <1>5 DEF Execute, WellFormed
    <2>2. m = l \/ Releases(l, m, k)
      BY <2>1, NoRowFacts DEF Release, Outcome, Releases
    <2> QED BY <2>1, <2>2 DEF LedgerStep
  <1>6. CASE cmd.op = "reconcile_commit"
    <2>1. k \in Keys /\ m = ReconcileCommit(l, k).ledger
      BY <1>6 DEF Execute, WellFormed
    <2>2. m = l \/ Charges(l, m, k) \/ Owes(l, m, k)
      BY <1>c, <2>1 DEF ReconcileCommit, Outcome, Owes
    <2> QED BY <2>1, <2>2 DEF LedgerStep
  <1>7. CASE cmd.op = "reconcile_release"
    <2>1. k \in Keys /\ m = ReconcileRelease(l, k).ledger
      BY <1>7 DEF Execute, WellFormed
    <2>2. m = l \/ Releases(l, m, k)
      BY <2>1, NoRowFacts DEF ReconcileRelease, Outcome, Releases
    <2> QED BY <2>1, <2>2 DEF LedgerStep
  <1> QED BY <1>0, <1>1, <1>2, <1>3, <1>4, <1>5, <1>6, <1>7

-----------------------------------------------------------------------------
\* What each step does to the fields of the ledger.
LEMMA MoveFacts ==
    ASSUME NEW l \in Ledger, NEW m, NEW k \in Keys
    PROVE  /\ Charges(l, m, k) =>
                m = [registered |-> l.registered, capacity |-> l.capacity,
                     reserved |-> [l.reserved EXCEPT ![Resource(l, k)] = @ - Amount(l, k)],
                     committed |-> [l.committed EXCEPT ![Resource(l, k)] = @ + Amount(l, k)],
                     rows |-> [l.rows EXCEPT ![k].state = "COMMITTED"],
                     compensations |-> l.compensations]
           /\ Releases(l, m, k) =>
                m = [registered |-> l.registered, capacity |-> l.capacity,
                     reserved |-> [l.reserved EXCEPT ![Resource(l, k)] = @ - Amount(l, k)],
                     committed |-> l.committed,
                     rows |-> [l.rows EXCEPT ![k].state = "RELEASED"],
                     compensations |-> l.compensations]
           /\ Refunds(l, m, k) =>
                m = [registered |-> l.registered, capacity |-> l.capacity,
                     reserved |-> l.reserved,
                     committed |-> [l.committed EXCEPT ![Resource(l, k)] = @ - Amount(l, k)],
                     rows |-> [l.rows EXCEPT ![k].state = "REFUNDED"],
                     compensations |-> l.compensations]
  BY DEF Ledger, Charges, Releases, Refunds, Charge, GiveBack, PayBack, Resource, Amount

\* Every step keeps types, capacities and the emptiness of unregistered resources.
LEMMA StepKeepsGood ==
    ASSUME NEW l, Good(l), NEW m, LedgerStep(l, m)
    PROVE  Good(m)
  <1>0. l \in Ledger /\ (\A r \in Resources : Sound(l, r)) /\ Unregistered(l)
    BY DEF Good
  <1>1. ASSUME NEW r \in Resources, NEW c \in Capacities, Registers(l, m, r, c)
        PROVE  Good(m)
    <2>1. m = [registered |-> l.registered \cup {r},
               capacity |-> [l.capacity EXCEPT ![r] = c],
               reserved |-> l.reserved, committed |-> l.committed,
               rows |-> l.rows, compensations |-> l.compensations]
      BY <1>0, <1>1 DEF Registers, Ledger
    <2>2. m \in Ledger
      BY <1>0, <2>1, RaftAssumption DEF Ledger
    <2>3. Unregistered(m)
      BY <1>0, <2>1 DEF Unregistered
    <2>4. ASSUME NEW q \in Resources
          PROVE  Sound(m, q)
      <3>1. l.reserved[q] \in Nat /\ l.committed[q] \in Nat /\ l.capacity[q] \in Nat /\ c \in Nat
        BY <1>0, RaftAssumption DEF Ledger
      <3>2. CASE q = r
        <4>1. l.reserved[q] = 0 /\ l.committed[q] = 0 /\ m.capacity[q] = c
          BY <1>0, <1>1, <2>1, <3>2 DEF Registers, Unregistered, Ledger
        <4> QED BY <2>1, <3>1, <4>1 DEF Sound
      <3>3. CASE q # r
        BY <1>0, <2>1, <3>3 DEF Sound, Ledger
      <3> QED BY <3>2, <3>3
    <2> QED BY <2>2, <2>3, <2>4 DEF Good
  <1>2. ASSUME NEW k \in Keys, NEW a \in Amounts, NEW r \in Resources, Inserts(l, m, k, a, r)
        PROVE  Good(m)
    <2>1. m = [registered |-> l.registered, capacity |-> l.capacity,
               reserved |-> [l.reserved EXCEPT ![r] = @ + a], committed |-> l.committed,
               rows |-> [l.rows EXCEPT ![k] = [state |-> "RESERVED", resource |-> r, amount |-> a]],
               compensations |-> l.compensations]
      BY <1>0, <1>2 DEF Inserts, Ledger
    <2>2. m \in Ledger
      BY <1>0, <2>1, RaftAssumption DEF Ledger, Row, RowStates
    <2>3. Unregistered(m)
      BY <1>0, <1>2, <2>1 DEF Unregistered, Inserts, Ledger
    <2>4. \A q \in Resources : Sound(m, q)
      <3>1. \A q \in Resources : l.reserved[q] \in Nat /\ l.committed[q] \in Nat /\ l.capacity[q] \in Nat
        BY <1>0 DEF Ledger
      <3>2. a \in Nat
        BY RaftAssumption
      <3> QED BY <1>0, <1>2, <2>1, <3>1, <3>2 DEF Sound, Inserts, Ledger
    <2> QED BY <2>2, <2>3, <2>4 DEF Good
  <1>3. ASSUME NEW k \in Keys, Charges(l, m, k) \/ Releases(l, m, k) \/ Refunds(l, m, k)
        PROVE  Good(m)
    <2> DEFINE r == Resource(l, k)
               a == Amount(l, k)
    <2>0. r \in Resources /\ a \in Nat /\ l.rows[k] \in Row
      BY <1>0, <1>3, RowFacts DEF Charges, Releases, Refunds
    <2>1. \A q \in Resources : l.reserved[q] \in Nat /\ l.committed[q] \in Nat /\ l.capacity[q] \in Nat
      BY <1>0 DEF Ledger
    <2>a. \A s \in RowStates : [l.rows EXCEPT ![k].state = s] \in [Keys -> Row \cup {NoRow}]
      <3>1. \A s \in RowStates : [l.rows[k] EXCEPT !.state = s] \in Row
        BY <2>0 DEF Row
      <3> QED BY <1>0, <3>1 DEF Ledger
    <2> HIDE DEF r, a
    <2>2. CASE Charges(l, m, k)
      <3>1. m = [registered |-> l.registered, capacity |-> l.capacity,
                 reserved |-> [l.reserved EXCEPT ![r] = @ - a],
                 committed |-> [l.committed EXCEPT ![r] = @ + a],
                 rows |-> [l.rows EXCEPT ![k].state = "COMMITTED"],
                 compensations |-> l.compensations]
        BY <1>0, <2>2, MoveFacts DEF r, a
      <3>2. l.reserved[r] >= a
        BY <2>2 DEF Charges, Reservable, r, a
      <3>3. m \in Ledger
        BY <1>0, <2>0, <2>1, <2>a, <3>1, <3>2 DEF Ledger, RowStates
      <3>4. \A q \in Resources : Sound(m, q)
        BY <1>0, <2>0, <2>1, <3>1, <3>2 DEF Sound, Ledger
      <3>5. Unregistered(m)
        BY <1>0, <2>0, <2>1, <3>1, <3>2 DEF Unregistered, Ledger
      <3> QED BY <3>3, <3>4, <3>5 DEF Good
    <2>3. CASE Releases(l, m, k)
      <3>1. m = [registered |-> l.registered, capacity |-> l.capacity,
                 reserved |-> [l.reserved EXCEPT ![r] = @ - a],
                 committed |-> l.committed,
                 rows |-> [l.rows EXCEPT ![k].state = "RELEASED"],
                 compensations |-> l.compensations]
        BY <1>0, <2>3, MoveFacts DEF r, a
      <3>2. l.reserved[r] >= a
        BY <2>3 DEF Releases, Reservable, r, a
      <3>3. m \in Ledger
        BY <1>0, <2>0, <2>1, <2>a, <3>1, <3>2 DEF Ledger, RowStates
      <3>4. \A q \in Resources : Sound(m, q)
        BY <1>0, <2>0, <2>1, <3>1, <3>2 DEF Sound, Ledger
      <3>5. Unregistered(m)
        BY <1>0, <2>0, <2>1, <3>1, <3>2 DEF Unregistered, Ledger
      <3> QED BY <3>3, <3>4, <3>5 DEF Good
    <2>4. CASE Refunds(l, m, k)
      <3>1. m = [registered |-> l.registered, capacity |-> l.capacity,
                 reserved |-> l.reserved,
                 committed |-> [l.committed EXCEPT ![r] = @ - a],
                 rows |-> [l.rows EXCEPT ![k].state = "REFUNDED"],
                 compensations |-> l.compensations]
        BY <1>0, <2>4, MoveFacts DEF r, a
      <3>2. l.committed[r] >= a
        BY <2>4 DEF Refunds, r, a
      <3>3. m \in Ledger
        BY <1>0, <2>0, <2>1, <2>a, <3>1, <3>2 DEF Ledger, RowStates
      <3>4. \A q \in Resources : Sound(m, q)
        BY <1>0, <2>0, <2>1, <3>1, <3>2 DEF Sound, Ledger
      <3>5. Unregistered(m)
        BY <1>0, <2>0, <2>1, <3>1, <3>2 DEF Unregistered, Ledger
      <3> QED BY <3>3, <3>4, <3>5 DEF Good
    <2> QED BY <1>3, <2>2, <2>3, <2>4
  <1>4. ASSUME NEW k \in Keys, Owes(l, m, k)
        PROVE  Good(m)
    <2>1. m = [registered |-> l.registered, capacity |-> l.capacity,
               reserved |-> l.reserved, committed |-> l.committed, rows |-> l.rows,
               compensations |-> l.compensations \cup {k}]
      BY <1>0, <1>4 DEF Owes, Ledger
    <2> QED BY <1>0, <2>1 DEF Good, Ledger, Sound, Unregistered
  <1> QED BY <1>0, <1>1, <1>2, <1>3, <1>4 DEF LedgerStep, Good

-----------------------------------------------------------------------------
(* The inductive invariant: every ledger of the log is good, and the calls *)
(* and commands under way carry the arguments their operation needs.       *)
CallsOK ==
    \A c \in Clients :
        /\ call[c].op \notin {"-", "register"} => call[c].key \in Keys
        /\ call[c].pc = "ask" => call[c].op = "reconcile"

LogInv ==
    /\ TypeOK
    /\ \A i \in 1..Len(ledgers) : Good(ledgers[i])
    /\ \A cmd \in inflight : WellFormed(cmd)
    /\ CallsOK

\* The log is never empty, and its last ledger is good.
LEMMA LatestGood ==
    ASSUME LogInv
    PROVE  Len(ledgers) \in Nat \ {0} /\ Good(Latest) /\ Latest \in Ledger
  <1>1. Len(ledgers) \in Nat \ {0}
    BY DEF LogInv, TypeOK
  <1>2. Good(Latest)
    BY <1>1 DEF LogInv, Latest
  <1> QED BY <1>1, <1>2 DEF Good

\* The status of a command is one of Statuses.
LEMMA ExecuteStatus ==
    ASSUME NEW l \in Ledger, NEW cmd, WellFormed(cmd)
    PROVE  Execute(l, cmd).status \in Statuses
  <1> DEFINE k == cmd.key
  <1>0. cmd.op \in {"register", "reserve", "commit", "refund", "release",
                    "reconcile_commit", "reconcile_release"}
    BY DEF WellFormed, Commands
  <1>1. ASSUME k \in Keys, HasRow(l, k)
        PROVE  StateOf(l, k) \in Statuses
    <2>1. StateOf(l, k) \in RowStates
      BY <1>1, NoRowFacts
    <2> QED BY <2>1 DEF Statuses
  <1>2. Commit(l, k).status \in Statuses
    BY DEF Commit, Outcome, Statuses, RowStates
  <1>3. RegisterResource(l, cmd.resource, cmd.amount).status \in Statuses
    BY DEF RegisterResource, Outcome, Statuses, RowStates
  <1>4. k \in Keys => Reserve(l, k, cmd.amount, cmd.resource).status \in Statuses
    BY <1>1 DEF Reserve, Outcome, Statuses, RowStates
  <1>5. Refund(l, k).status \in Statuses
    BY DEF Refund, Outcome, Statuses, RowStates
  <1>6. Release(l, k).status \in Statuses
    BY DEF Release, Outcome, Statuses, RowStates
  <1>7. ReconcileCommit(l, k).status \in Statuses
    BY <1>2 DEF ReconcileCommit, Outcome, Statuses, RowStates
  <1>8. ReconcileRelease(l, k).status \in Statuses
    BY DEF ReconcileRelease, Outcome, Statuses, RowStates
  <1>9. cmd.op # "register" => k \in Keys
    BY DEF WellFormed
  <1> QED BY <1>0, <1>2, <1>3, <1>4, <1>5, <1>6, <1>7, <1>8, <1>9 DEF Execute

\* What an executed command does to the log and to the call that waits for it.
LEMMA ExecuteFacts ==
    ASSUME LogInv, NEW cmd \in inflight, ExecuteCommand(cmd)
    PROVE  /\ \/ ledgers' = ledgers
              \/ \E m : LedgerStep(Latest, m) /\ ledgers' = Append(ledgers, m)
           /\ Latest' = Execute(Latest, cmd).ledger
           /\ Len(ledgers') \in Nat /\ Len(ledgers') >= Len(ledgers)
           /\ ledgers' \in Seq(Ledger) /\ ledgers' # <<>>
           /\ \A i \in 1..Len(ledgers') : Good(ledgers'[i])
           /\ \A i \in 1..Len(ledgers) : ledgers'[i] = ledgers[i]
  <1> DEFINE m == Execute(Latest, cmd).ledger
  <1>0. Len(ledgers) \in Nat \ {0} /\ Good(Latest) /\ Latest \in Ledger
    BY LatestGood
  <1>1. WellFormed(cmd) /\ ledgers \in Seq(Ledger)
    BY DEF LogInv, TypeOK
  <1>2. LedgerStep(Latest, m)
    BY <1>0, <1>1, ExecuteStep
  <1>3. Good(m) /\ m \in Ledger
    BY <1>0, <1>2, StepKeepsGood DEF Good
  <1>4. ledgers' = IF m = Latest THEN ledgers ELSE Append(ledgers, m)
    BY DEF ExecuteCommand
  <1> HIDE DEF m
  <1>5. CASE m = Latest
    <2>1. ledgers' = ledgers
      BY <1>4, <1>5
    <2>2. Latest' = Latest
      BY <2>1 DEF Latest
    <2> QED BY <1>0, <1>1, <1>5, <2>1, <2>2 DEF m, LogInv, TypeOK
  <1>6. CASE m # Latest
    <2>1. ledgers' = Append(ledgers, m)
      BY <1>4, <1>6
    <2>2. Len(ledgers') = Len(ledgers) + 1 /\ ledgers' \in Seq(Ledger)
      BY <1>1, <1>3, <2>1
    <2>3. \A i \in 1..Len(ledgers) : ledgers'[i] = ledgers[i]
      BY <1>1, <2>1
    <2>4. ledgers'[Len(ledgers) + 1] = m
      BY <1>1, <2>1
    <2>5. Latest' = m
      BY <2>2, <2>4 DEF Latest
    <2>6. \A i \in 1..Len(ledgers') : Good(ledgers'[i])
      BY <1>0, <1>3, <2>2, <2>3, <2>4 DEF LogInv
    <2> QED BY <1>0, <1>2, <2>1, <2>2, <2>3, <2>5, <2>6 DEF m
  <1> QED BY <1>5, <1>6

\* The calls and commands the actions build are well-typed.
LEMMA BeginFacts ==
    ASSUME TypeOK, NEW c \in Clients, NEW k \in Keys \cup {NoKey},
           NEW op \in {"register", "reserve", "commit", "refund", "release", "reconcile"}
    PROVE  /\ Begin(c, op, k) \in Calls
           /\ Begin(c, op, k).op = op /\ Begin(c, op, k).key = k
           /\ Begin(c, op, k).pc = "wait" /\ Begin(c, op, k).id = faults
  <1>1. 1 \in 0..MaxTries /\ faults \in 0..MaxFaults
    BY RaftAssumption DEF TypeOK
  <1> QED BY <1>1, RaftAssumption DEF Begin, Idle, Calls, Statuses

\* An answered call is well-typed and keeps what it was given.
LEMMA AnsweredFacts ==
    ASSUME NEW k \in Keys \cup {NoKey}, NEW s \in Statuses,
           NEW op \in {"-", "register", "reserve", "commit", "refund", "release", "reconcile"},
           NEW a \in {"-", "YES", "NO"}
    PROVE  /\ Answered(op, k, a, s) \in Calls
           /\ Answered(op, k, a, s).op = op /\ Answered(op, k, a, s).key = k
           /\ Answered(op, k, a, s).pc = "done"
           /\ Answered(op, k, a, s).status = s
  <1>1. 0 \in 0..MaxTries /\ 0 \in 0..MaxFaults
    BY RaftAssumption
  <1> QED BY <1>1 DEF Answered, Calls

\* So is the answer to the call a client is in.
LEMMA DoneFacts ==
    ASSUME TypeOK, NEW c \in Clients, NEW s \in Statuses
    PROVE  /\ Done(c, s) \in Calls
           /\ Done(c, s).op = call[c].op /\ Done(c, s).key = call[c].key
           /\ Done(c, s).pc = "done" /\ Done(c, s).status = s
  <1>1. call[c] \in Calls
    BY DEF TypeOK
  <1>2. /\ call[c].key \in Keys \cup {NoKey} /\ call[c].answer \in {"-", "YES", "NO"}
        /\ call[c].op \in {"-", "register", "reserve", "commit", "refund", "release", "reconcile"}
    BY <1>1 DEF Calls
  <1>3. 0 \in 0..MaxTries /\ 0 \in 0..MaxFaults
    BY RaftAssumption
  <1> QED BY <1>2, <1>3 DEF Done, Answered, Calls

\* What reconcile makes of a status is a status.
LEMMA VerdictFacts ==
    ASSUME NEW cl \in Calls
    PROVE  Verdict(cl) \in Statuses
  <1>1. cl.status \in Statuses
    BY DEF Calls
  <1> QED BY <1>1 DEF Verdict, Statuses

\* The commands that need only a key are well-formed.
LEMMA CommandFacts ==
    ASSUME TypeOK, NEW c \in Clients, NEW n \in 0..MaxFaults,
           NEW op \in {"commit", "refund", "release", "reconcile_commit", "reconcile_release"},
           NEW k \in Keys
    PROVE  WellFormed(Command(c, op, k, NoKey, 0, n))
  BY DEF Command, WellFormed, Commands

\* Every action keeps the log invariant.
LEMMA LogInvStep ==
    ASSUME LogInv, [Next]_vars
    PROVE  LogInv'
  <1> USE RaftAssumption
  <1>0. /\ TypeOK /\ CallsOK /\ \A cmd \in inflight : WellFormed(cmd)
        /\ \A c \in Clients : call[c] \in Calls
    BY DEF LogInv, TypeOK
  <1>set. ASSUME NEW c \in Clients, NEW x \in Calls, call' = [call EXCEPT ![c] = x],
                 x.op \notin {"-", "register"} => x.key \in Keys,
                 x.pc = "ask" => x.op = "reconcile"
          PROVE  call' \in [Clients -> Calls] /\ CallsOK'
    <2>1. \A d \in Clients : call'[d] = IF d = c THEN x ELSE call[d]
      BY <1>0, <1>set DEF TypeOK
    <2>2. call' \in [Clients -> Calls]
      BY <1>0, <1>set DEF TypeOK
    <2> QED BY <1>0, <1>set, <2>1, <2>2 DEF CallsOK
  <1>log. ASSUME UNCHANGED ledgers PROVE \A i \in 1..Len(ledgers') : Good(ledgers'[i])
    BY <1>log DEF LogInv
  <1>send. ASSUME NEW c \in Clients, NEW op \in {"register", "reserve", "commit", "refund", "release"},
                  NEW k \in Keys \cup {NoKey}, NEW r, NEW a, Send(c, op, k, r, a),
                  WellFormed(Command(c, op, k, r, a, faults)),
                  op # "register" => k \in Keys
           PROVE  LogInv'
    <2>1. Begin(c, op, k) \in Calls /\ Begin(c, op, k).op = op /\ Begin(c, op, k).key = k
          /\ Begin(c, op, k).pc = "wait"
      BY <1>0, BeginFacts
    <2>2. call' = [call EXCEPT ![c] = Begin(c, op, k)]
          /\ inflight' = inflight \cup {Command(c, op, k, r, a, faults)}
          /\ UNCHANGED <<ledgers, applied, effect, faults>>
      BY <1>send DEF Send
    <2> HIDE DEF Begin, Command
    <2>3. TypeOK'
      BY <1>0, <1>send, <2>1, <2>2 DEF TypeOK, WellFormed
    <2>4. CallsOK'
      BY <1>0, <1>send, <2>1, <2>2 DEF TypeOK, CallsOK
    <2> QED BY <1>0, <1>log, <1>send, <2>2, <2>3, <2>4 DEF LogInv
  <1>1. ASSUME NEW c \in Clients, NEW r \in Resources, NEW cap \in Capacities,
               ClientRegisters(c, r, cap)
        PROVE  LogInv'
    <2>1. WellFormed(Command(c, "register", NoKey, r, cap, faults))
      BY <1>0 DEF Command, WellFormed, Commands, TypeOK
    <2> QED BY <1>1, <1>send, <2>1 DEF ClientRegisters
  <1>2. ASSUME NEW c \in Clients, NEW k \in Keys, NEW a \in Amounts, NEW r \in Resources,
               ClientReserves(c, k, a, r)
        PROVE  LogInv'
    <2>1. WellFormed(Command(c, "reserve", k, r, a, faults))
      BY <1>0 DEF Command, WellFormed, Commands, TypeOK
    <2> QED BY <1>2, <1>send, <2>1 DEF ClientReserves
  <1>3. ASSUME NEW c \in Clients, NEW op \in {"commit", "refund", "release"}, NEW k \in Keys,
               ClientSettles(c, op, k)
        PROVE  LogInv'
    <2>1. WellFormed(Command(c, op, k, NoKey, 0, faults))
      BY <1>0, CommandFacts DEF TypeOK
    <2> QED BY <1>3, <1>send, <2>1 DEF ClientSettles
  <1>4. ASSUME NEW cmd \in inflight, ExecuteCommand(cmd)
        PROVE  LogInv'
    <2> DEFINE res == Execute(Latest, cmd)
               c == cmd.by
    <2>1. /\ Len(ledgers) \in Nat /\ Len(ledgers') \in Nat /\ Len(ledgers') >= Len(ledgers)
          /\ ledgers' \in Seq(Ledger) /\ ledgers' # <<>>
          /\ \A i \in 1..Len(ledgers') : Good(ledgers'[i])
      BY <1>4, ExecuteFacts, LatestGood
    <2>2. res.status \in Statuses /\ c \in Clients
      BY <1>0, ExecuteStatus, LatestGood DEF WellFormed, Commands
    <2>3. /\ inflight' = inflight \ {cmd} /\ UNCHANGED <<applied, effect, faults>>
          /\ \/ call' = call
             \/ call' = [call EXCEPT ![c].pc = "applied", ![c].at = Len(ledgers'),
                                     ![c].status = res.status]
      BY <1>4 DEF ExecuteCommand
    <2> HIDE DEF res, c
    <2>4. call' \in [Clients -> Calls] /\ CallsOK'
      <3> DEFINE x == [call[c] EXCEPT !.pc = "applied", !.at = Len(ledgers'),
                                      !.status = res.status]
      <3>1. x \in Calls /\ x.op = call[c].op /\ x.key = call[c].key /\ x.pc = "applied"
        BY <1>0, <2>1, <2>2 DEF Calls
      <3>2. call' = call \/ call' = [call EXCEPT ![c] = x]
        BY <2>3
      <3> HIDE DEF x
      <3>3. CASE call' = call
        BY <1>0, <3>3 DEF TypeOK, CallsOK
      <3>4. CASE call' = [call EXCEPT ![c] = x]
        <4>1. x.op \notin {"-", "register"} => x.key \in Keys
          BY <1>0, <2>2, <3>1 DEF CallsOK
        <4> QED BY <1>set, <2>2, <3>1, <3>4, <4>1
      <3> QED BY <3>2, <3>3, <3>4
    <2>5. applied' \in [Nodes -> 1..Len(ledgers')]
      BY <1>0, <2>1, <2>3 DEF TypeOK
    <2> QED BY <1>0, <2>1, <2>3, <2>4, <2>5 DEF LogInv, TypeOK
  <1>5. ASSUME NEW n \in Nodes, CatchUp(n)
        PROVE  LogInv'
    <2>1. applied' \in [Nodes -> 1..Len(ledgers)]
      BY <1>0, <1>5, LatestGood DEF TypeOK, CatchUp
    <2> QED BY <1>0, <1>5, <1>log, <2>1 DEF LogInv, TypeOK, CatchUp, CallsOK
  <1>done. ASSUME NEW c \in Clients, NEW s \in Statuses,
                  call' = [call EXCEPT ![c] = Done(c, s)]
           PROVE  call' \in [Clients -> Calls] /\ CallsOK'
    <2>1. Done(c, s) \in Calls /\ Done(c, s).op = call[c].op
          /\ Done(c, s).key = call[c].key /\ Done(c, s).pc = "done"
      BY <1>0, DoneFacts
    <2> HIDE DEF Done
    <2> QED BY <1>0, <1>done, <2>1 DEF TypeOK, CallsOK
  <1>6. ASSUME NEW c \in Clients, Reply(c)
        PROVE  LogInv'
    <2>1. Verdict(call[c]) \in Statuses
      BY <1>0, VerdictFacts
    <2>2. call' \in [Clients -> Calls] /\ CallsOK'
      BY <1>6, <1>done, <2>1 DEF Reply
    <2> QED BY <1>0, <1>6, <1>log, <2>2 DEF LogInv, TypeOK, Reply
  <1>7. ASSUME NEW c \in Clients, Timeout(c)
        PROVE  LogInv'
    <2>1. faults' \in 0..MaxFaults /\ UNCHANGED <<ledgers, applied, effect>>
      BY <1>0, <1>7 DEF Timeout, TypeOK
    <2>2. CASE Retries(call[c].op) /\ call[c].try < MaxTries
      <3>1. /\ call' = [call EXCEPT ![c].pc = "wait", ![c].try = @ + 1, ![c].id = faults']
            /\ inflight' = inflight \cup {Command(c, call[c].op, call[c].key, NoKey, 0, faults')}
        BY <1>7, <2>2 DEF Timeout
      <3>2. call[c].op \in {"commit", "refund", "release"} /\ call[c].key \in Keys
        BY <1>0, <2>2 DEF Retries, CallsOK
      <3>3. WellFormed(Command(c, call[c].op, call[c].key, NoKey, 0, faults'))
        BY <1>0, <2>1, <3>2, CommandFacts
      <3>4. call' \in [Clients -> Calls] /\ CallsOK'
        <4> DEFINE x == [call[c] EXCEPT !.pc = "wait", !.try = @ + 1, !.id = faults']
        <4>1. call[c].try \in Nat /\ call[c].try + 1 \in 0..MaxTries
          BY <1>0, <2>2 DEF Calls
        <4>2. x \in Calls /\ x.key = call[c].key /\ x.pc = "wait"
          BY <1>0, <2>1, <4>1 DEF Calls
        <4>3. call' = [call EXCEPT ![c] = x]
          BY <3>1
        <4> HIDE DEF x
        <4> QED BY <1>set, <3>2, <4>2, <4>3
      <3> HIDE DEF Command
      <3> QED BY <1>0, <1>log, <2>1, <3>1, <3>3, <3>4 DEF LogInv, TypeOK, WellFormed
    <2>3. CASE ~(Retries(call[c].op) /\ call[c].try < MaxTries)
      <3>1. call' = [call EXCEPT ![c] = Done(c, "ERROR")]
            /\ inflight' = inflight
        BY <1>7, <2>3 DEF Timeout
      <3>2. call' \in [Clients -> Calls] /\ CallsOK'
        BY <1>done, <3>1 DEF Statuses
      <3> QED BY <1>0, <1>log, <2>1, <3>1, <3>2 DEF LogInv, TypeOK
    <2> QED BY <2>2, <2>3
  <1>8. ASSUME NEW c \in Clients, NEW k \in Keys, ReconcileRead(c, k)
        PROVE  LogInv'
    <2> DEFINE asked == [Begin(c, "reconcile", k) EXCEPT !.pc = "ask"]
    <2>1. asked \in Calls /\ asked.op = "reconcile" /\ asked.key = k
      <3>1. Begin(c, "reconcile", k) \in Calls /\ Begin(c, "reconcile", k).op = "reconcile"
            /\ Begin(c, "reconcile", k).key = k
        BY <1>0, BeginFacts
      <3> QED BY <3>1 DEF Calls
    <2> HIDE DEF asked
    <2>2. ASSUME call' = [call EXCEPT ![c] = asked]
          PROVE  call' \in [Clients -> Calls] /\ CallsOK'
      BY <1>set, <2>1, <2>2
    <2>3. ASSUME NEW s \in {"NOT_FOUND", "CONFIRMED", "FAILED", "UNRESOLVED"},
                 call' = [call EXCEPT ![c] = Answered("reconcile", k, "-", s)]
          PROVE  call' \in [Clients -> Calls] /\ CallsOK'
      <3> DEFINE x == Answered("reconcile", k, "-", s)
      <3>1. s \in Statuses
        BY DEF Statuses
      <3>2. x \in Calls /\ x.key = k /\ x.pc = "done"
        BY <3>1, AnsweredFacts
      <3> HIDE DEF x
      <3>3. call' = [call EXCEPT ![c] = x]
        BY <2>3 DEF x
      <3> QED BY <1>set, <3>2, <3>3
    <2>4. \/ call' = [call EXCEPT ![c] = asked]
          \/ \E s \in {"NOT_FOUND", "CONFIRMED", "FAILED", "UNRESOLVED"} :
                call' = [call EXCEPT ![c] = Answered("reconcile", k, "-", s)]
      BY <1>8 DEF ReconcileRead, asked
    <2>6. call' \in [Clients -> Calls] /\ CallsOK'
      BY <2>2, <2>3, <2>4
    <2> QED BY <1>0, <1>8, <1>log, <2>6 DEF LogInv, TypeOK, ReconcileRead
  <1>9. ASSUME NEW c \in Clients, ReconcileAsk(c)
        PROVE  LogInv'
    <2> DEFINE k == call[c].key
    <2>1. k \in Keys /\ call[c].op = "reconcile" /\ faults \in 0..MaxFaults
      BY <1>0, <1>9 DEF ReconcileAsk, CallsOK, TypeOK
    <2>2. WellFormed(Command(c, "reconcile_commit", k, NoKey, 0, faults))
          /\ WellFormed(Command(c, "reconcile_release", k, NoKey, 0, faults))
      BY <1>0, <2>1, CommandFacts
    <2>3. PICK a \in Answers(k) :
            /\ call' = [call EXCEPT ![c] =
                           IF a = "?" THEN Done(c, "UNRESOLVED")
                           ELSE [@ EXCEPT !.pc = "wait", !.id = faults, !.answer = a]]
            /\ inflight' = inflight \cup
                  CASE a = "YES" -> {Command(c, "reconcile_commit", k, NoKey, 0, faults)}
                    [] a = "NO"  -> {Command(c, "reconcile_release", k, NoKey, 0, faults)}
                    [] OTHER     -> {}
      BY <1>9 DEF ReconcileAsk
    <2>4. a \in {"?", "YES", "NO"}
      BY DEF Answers
    <2>5. call' \in [Clients -> Calls] /\ CallsOK'
      <3>1. CASE a = "?"
        <4>1. call' = [call EXCEPT ![c] = Done(c, "UNRESOLVED")]
          BY <2>3, <3>1
        <4> QED BY <1>done, <4>1 DEF Statuses
      <3>2. CASE a # "?"
        <4>1. call' = [call EXCEPT ![c] = [@ EXCEPT !.pc = "wait", !.id = faults, !.answer = a]]
          BY <2>3, <3>2
        <4> DEFINE x == [call[c] EXCEPT !.pc = "wait", !.id = faults, !.answer = a]
        <4>2. x \in Calls /\ x.key = k /\ x.pc = "wait"
          BY <1>0, <2>1, <2>4, <3>2 DEF Calls
        <4>3. call' = [call EXCEPT ![c] = x]
          BY <4>1
        <4> HIDE DEF x
        <4> QED BY <1>set, <2>1, <4>2, <4>3
      <3> QED BY <3>1, <3>2
    <2>6. \A cmd \in inflight' : WellFormed(cmd)
      <3> HIDE DEF Command, k
      <3> QED BY <1>0, <2>2, <2>3, <2>4
    <2> QED BY <1>0, <1>9, <1>log, <2>5, <2>6 DEF LogInv, TypeOK, ReconcileAsk, WellFormed
  <1>10. ASSUME NEW c \in Clients, ReconcileAskFails(c)
         PROVE  LogInv'
    <2>1. call' \in [Clients -> Calls] /\ CallsOK'
      BY <1>10, <1>done DEF ReconcileAskFails, Statuses
    <2> QED BY <1>0, <1>10, <1>log, <2>1 DEF LogInv, TypeOK, ReconcileAskFails
  <1>11. ASSUME NEW cmd \in inflight, Lose(cmd)
         PROVE  LogInv'
    <2>1. faults' \in 0..MaxFaults
      BY <1>0, <1>11 DEF Lose, TypeOK
    <2> QED BY <1>0, <1>11, <1>log, <2>1 DEF LogInv, TypeOK, Lose, CallsOK
  <1>12. ASSUME NEW n \in Nodes, Restart(n)
         PROVE  LogInv'
    <2>1. faults' \in 0..MaxFaults
      BY <1>0, <1>12 DEF Restart, TypeOK
    <2>2. Idle \in Calls /\ Idle.op = "-" /\ Idle.pc = "idle"
      BY DEF Idle, Calls, Statuses
    <2>3. call' \in [Clients -> Calls] /\ CallsOK'
      BY <1>0, <1>12, <2>2 DEF Restart, CallsOK
    <2>4. applied' \in [Nodes -> 1..Len(ledgers)]
      BY <1>0, <1>12, LatestGood DEF Restart, TypeOK
    <2> QED BY <1>0, <1>12, <1>log, <2>1, <2>3, <2>4 DEF LogInv, TypeOK, Restart
  <1>13. ASSUME NEW k \in Keys, ProviderSettles(k)
         PROVE  LogInv'
    BY <1>0, <1>13, <1>log DEF LogInv, TypeOK, ProviderSettles, CallsOK
  <1>14. CASE UNCHANGED vars
    BY <1>0, <1>14, <1>log DEF LogInv, TypeOK, CallsOK, vars
  <1> QED BY <1>1, <1>2, <1>3, <1>4, <1>5, <1>6, <1>7, <1>8, <1>9, <1>10, <1>11, <1>12,
             <1>13, <1>14 DEF Next

\* The empty log satisfies the invariant.
LEMMA InitGood ==
    ASSUME Init
    PROVE  LogInv
  <1>1. EmptyLedger \in Ledger
    BY DEF EmptyLedger, Ledger
  <1>2. Good(EmptyLedger)
    BY <1>1 DEF Good, EmptyLedger, Sound, Unregistered
  <1>3. ledgers \in Seq(Ledger) /\ ledgers # <<>> /\ Len(ledgers) = 1 /\ ledgers[1] = EmptyLedger
    BY <1>1 DEF Init
  <1>4. Idle \in Calls /\ Idle.op = "-" /\ Idle.pc = "idle"
    BY RaftAssumption DEF Idle, Calls, Statuses
  <1>5. TypeOK
    BY <1>3, <1>4, RaftAssumption DEF Init, TypeOK
  <1> QED BY <1>2, <1>3, <1>4, <1>5 DEF Init, LogInv, CallsOK

\* The log, the calls and the commands under way stay consistent.
THEOREM LogInvariant == Spec => []LogInv
  <1>1. LogInv /\ [Next]_vars => LogInv'
    BY LogInvStep
  <1> QED BY <1>1, InitGood, PTL DEF Spec

(* Every variable keeps its type whatever is retried, lost or replayed: in *)
(* particular no counter of the replicated ledger ever becomes negative.   *)
THEOREM TypeCorrect == Spec => []TypeOK
  <1>1. LogInv => TypeOK
    BY DEF LogInv
  <1> QED BY <1>1, LogInvariant, PTL

(* I8: on every replica, at whatever point of the log it stands, reserved  *)
(* and committed budget together stay within the capacity.                 *)
THEOREM BudgetNeverExceeded == Spec => []I8
  <1>1. LogInv => I8
    <2> SUFFICES ASSUME LogInv, NEW n \in Nodes, NEW r \in Resources
                 PROVE  Sound(View(n), r)
      BY DEF I8
    <2>1. Good(View(n))
      BY DEF LogInv, TypeOK, View
    <2> QED BY <2>1 DEF Good
  <1> QED BY <1>1, LogInvariant, PTL

\* The ledger at the end of the log changes only when a command is executed.
LEMMA LatestStep ==
    ASSUME LogInv, [Next]_vars
    PROVE  Latest \in Ledger /\ LedgerStep(Latest, Latest')
  <1>1. Latest \in Ledger
    BY LatestGood
  <1>2. ASSUME NEW cmd \in inflight, ExecuteCommand(cmd)
        PROVE  LedgerStep(Latest, Latest')
    <2>1. Latest' = Execute(Latest, cmd).ledger
      BY <1>2, ExecuteFacts
    <2>2. WellFormed(cmd)
      BY DEF LogInv
    <2> QED BY <1>1, <2>1, <2>2, ExecuteStep
  <1>3. ASSUME UNCHANGED ledgers
        PROVE  LedgerStep(Latest, Latest')
    BY <1>3 DEF Latest, LedgerStep
  <1>4. UNCHANGED ledgers \/ \E cmd \in inflight : ExecuteCommand(cmd)
    BY DEF Next, vars, ClientRegisters, ClientReserves, ClientSettles, Send, CatchUp, Reply,
           Timeout, ReconcileRead, ReconcileAsk, ReconcileAskFails, Lose, Restart, ProviderSettles
  <1> QED BY <1>1, <1>2, <1>3, <1>4

\* A step of the log is a step of the budget protocol or none.
LEMMA StepImplements ==
    ASSUME LogInv, [Next]_vars
    PROVE  [Protocol!Next]_(Protocol!vars)
  <1>0. Latest \in Ledger /\ LedgerStep(Latest, Latest')
    BY LatestStep
  <1>1. CASE Latest' = Latest
    BY <1>1 DEF Protocol!vars
  <1>2. ASSUME NEW r \in Resources, NEW c \in Capacities, Registers(Latest, Latest', r, c)
        PROVE  Protocol!Next
    <2>1. Protocol!Register(r, c)
      BY <1>0, <1>2 DEF Registers, Ledger, Protocol!Register
    <2> QED BY <2>1 DEF Protocol!Next
  <1>3. ASSUME NEW k \in Keys, NEW a \in Amounts, NEW r \in Resources,
               Inserts(Latest, Latest', k, a, r)
        PROVE  Protocol!Next
    <2>1. Protocol!Reserve(k, a, r)
      BY <1>0, <1>3 DEF Inserts, Ledger, Protocol!Reserve
    <2> QED BY <2>1 DEF Protocol!Next
  <1>4. ASSUME NEW k \in Keys, Charges(Latest, Latest', k)
        PROVE  Protocol!Next
    <2>1. Latest' = [registered |-> Latest.registered, capacity |-> Latest.capacity,
                     reserved |-> [Latest.reserved EXCEPT ![Resource(Latest, k)] = @ - Amount(Latest, k)],
                     committed |-> [Latest.committed EXCEPT ![Resource(Latest, k)] = @ + Amount(Latest, k)],
                     rows |-> [Latest.rows EXCEPT ![k].state = "COMMITTED"],
                     compensations |-> Latest.compensations]
      BY <1>0, <1>4, MoveFacts
    <2>2. Protocol!Commit(k)
      BY <1>4, <2>1 DEF Charges, StateOf, Resource, Amount, Protocol!Commit, Protocol!Held,
                        Protocol!Move
    <2> QED BY <2>2 DEF Protocol!Next
  <1>5. ASSUME NEW k \in Keys, Releases(Latest, Latest', k)
        PROVE  Protocol!Next
    <2>1. Latest' = [registered |-> Latest.registered, capacity |-> Latest.capacity,
                     reserved |-> [Latest.reserved EXCEPT ![Resource(Latest, k)] = @ - Amount(Latest, k)],
                     committed |-> Latest.committed,
                     rows |-> [Latest.rows EXCEPT ![k].state = "RELEASED"],
                     compensations |-> Latest.compensations]
      BY <1>0, <1>5, MoveFacts
    <2>2. Protocol!Release(k)
      BY <1>5, <2>1 DEF Releases, StateOf, Resource, Amount, Protocol!Release, Protocol!Held,
                        Protocol!Move
    <2> QED BY <2>2 DEF Protocol!Next
  <1>6. ASSUME NEW k \in Keys, Refunds(Latest, Latest', k)
        PROVE  Protocol!Next
    <2>1. Latest' = [registered |-> Latest.registered, capacity |-> Latest.capacity,
                     reserved |-> Latest.reserved,
                     committed |-> [Latest.committed EXCEPT ![Resource(Latest, k)] = @ - Amount(Latest, k)],
                     rows |-> [Latest.rows EXCEPT ![k].state = "REFUNDED"],
                     compensations |-> Latest.compensations]
      BY <1>0, <1>6, MoveFacts
    <2>2. Protocol!Refund(k)
      BY <1>6, <2>1 DEF Refunds, StateOf, Resource, Amount, Protocol!Refund, Protocol!Move
    <2> QED BY <2>2 DEF Protocol!Next
  <1>7. ASSUME NEW k \in Keys, Owes(Latest, Latest', k)
        PROVE  UNCHANGED Protocol!vars
    BY <1>0, <1>7 DEF Owes, Ledger, Protocol!vars
  <1> QED BY <1>0, <1>1, <1>2, <1>3, <1>4, <1>5, <1>6, <1>7 DEF LedgerStep

(* The replicated ledger implements the budget protocol: whatever is sent, *)
(* retried, lost or executed late, its last state only ever takes the      *)
(* atomic steps ConsensusBackend allows.                                   *)
THEOREM ImplementsTheProtocol == Spec => ImplementsProtocol
  <1>1. Init => Protocol!Init
    BY DEF Init, Latest, EmptyLedger, Protocol!Init
  <1>2. LogInv /\ [Next]_vars => [Protocol!Next]_(Protocol!vars)
    BY StepImplements
  <1> QED BY <1>1, <1>2, LogInvariant, PTL DEF Spec, ImplementsProtocol, Protocol!Spec

-----------------------------------------------------------------------------
(* What was answered stays true.  The final states of a reservation are    *)
(* kept along the log, so an answer drawn from a lagging replica holds of  *)
(* its end too; and a call is answered with the outcome of its own command *)
(* only, for no other command of its client carries the same id.           *)
Follows(l, m) ==
    /\ \A k \in Keys :
        /\ StateOf(l, k) \in {"COMMITTED", "REFUNDED"} => StateOf(m, k) \in {"COMMITTED", "REFUNDED"}
        /\ StateOf(l, k) \in {"RELEASED", "REFUNDED"} => StateOf(m, k) = StateOf(l, k)
    /\ l.compensations \subseteq m.compensations

Backed(l, k, s) ==
    /\ s \in {"COMMITTED", "ALREADY_COMMITTED", "CONFIRMED"}
          => k \in Keys /\ StateOf(l, k) \in {"COMMITTED", "REFUNDED"}
    /\ s \in {"RELEASED", "FAILED"} => k \in Keys /\ StateOf(l, k) = "RELEASED"
    /\ s \in {"REFUNDED", "ALREADY_REFUNDED"} => k \in Keys /\ StateOf(l, k) = "REFUNDED"
    /\ s = "RECONCILE_CONFLICT" => k \in Keys /\ k \in l.compensations

Monotone == \A i \in 1..Len(ledgers) : Follows(ledgers[i], Latest)

Fresh ==
    \A cmd \in inflight :
        /\ cmd.id <= faults
        /\ cmd.id = faults => call[cmd.by].pc = "wait" /\ call[cmd.by].id = faults
Unique == \A x, y \in inflight : x.by = y.by /\ x.id = y.id => x = y
Paired == \A c \in Clients : \A cmd \in inflight : Waiting(c, cmd) => cmd.key = call[c].key

CallsBacked ==
    \A c \in Clients :
        /\ call[c].pc = "done" => Backed(Latest, call[c].key, call[c].status)
        /\ call[c].pc = "applied" => Backed(Latest, call[c].key, Verdict(call[c]))

AnswersInv == Monotone /\ Fresh /\ Unique /\ Paired /\ CallsBacked

\* Keeping the final states composes.
LEMMA FollowsTransitive ==
    ASSUME NEW l, NEW m, NEW n, Follows(l, m), Follows(m, n)
    PROVE  Follows(l, n)
  BY DEF Follows

\* What a ledger backs, a later ledger backs.
LEMMA BackedStays ==
    ASSUME NEW l, NEW m, NEW k, NEW s, Follows(l, m), Backed(l, k, s)
    PROVE  Backed(m, k, s)
  BY DEF Follows, Backed

\* No step of the ledger takes a reservation out of a final state.
LEMMA StepFollows ==
    ASSUME NEW l \in Ledger, NEW m, LedgerStep(l, m)
    PROVE  Follows(l, m)
  <1>0. l.rows \in [Keys -> Row \cup {NoRow}]
    BY DEF Ledger
  <1>1. CASE m = l
    BY <1>1 DEF Follows
  <1>2. ASSUME NEW r \in Resources, NEW c \in Capacities, Registers(l, m, r, c)
        PROVE  Follows(l, m)
    BY <1>2 DEF Registers, Ledger, Follows, StateOf
  <1>3. ASSUME NEW k \in Keys, NEW a \in Amounts, NEW r \in Resources, Inserts(l, m, k, a, r)
        PROVE  Follows(l, m)
    <2>1. StateOf(l, k) = "NONE"
      BY <1>3 DEF Inserts, NoRow, StateOf
    <2>2. \A j \in Keys : j # k => StateOf(m, j) = StateOf(l, j)
      BY <1>0, <1>3 DEF Inserts, Ledger, StateOf
    <2>3. m.compensations = l.compensations
      BY <1>3 DEF Inserts, Ledger
    <2> QED BY <2>1, <2>2, <2>3 DEF Follows
  <1>4. ASSUME NEW k \in Keys, NEW s \in RowStates,
               m.rows = [l.rows EXCEPT ![k].state = s], m.compensations = l.compensations,
               \/ StateOf(l, k) \in {"RESERVED", "UNKNOWN"}
               \/ StateOf(l, k) = "COMMITTED" /\ s = "REFUNDED"
        PROVE  Follows(l, m)
    <2>1. l.rows[k] \in Row
      BY <1>4, RowFacts
    <2>2. StateOf(m, k) = s /\ \A j \in Keys : j # k => StateOf(m, j) = StateOf(l, j)
      BY <1>0, <1>4, <2>1 DEF StateOf, Row
    <2> QED BY <1>4, <2>2 DEF Follows
  <1>5. ASSUME NEW k \in Keys, Charges(l, m, k)
        PROVE  Follows(l, m)
    <2>1. m.rows = [l.rows EXCEPT ![k].state = "COMMITTED"] /\ m.compensations = l.compensations
      BY <1>5, MoveFacts
    <2> QED BY <1>4, <1>5, <2>1 DEF Charges, RowStates
  <1>6. ASSUME NEW k \in Keys, Releases(l, m, k)
        PROVE  Follows(l, m)
    <2>1. m.rows = [l.rows EXCEPT ![k].state = "RELEASED"] /\ m.compensations = l.compensations
      BY <1>6, MoveFacts
    <2> QED BY <1>4, <1>6, <2>1 DEF Releases, RowStates
  <1>7. ASSUME NEW k \in Keys, Refunds(l, m, k)
        PROVE  Follows(l, m)
    <2>1. m.rows = [l.rows EXCEPT ![k].state = "REFUNDED"] /\ m.compensations = l.compensations
      BY <1>7, MoveFacts
    <2> QED BY <1>4, <1>7, <2>1 DEF Refunds, RowStates
  <1>8. ASSUME NEW k \in Keys, Owes(l, m, k)
        PROVE  Follows(l, m)
    BY <1>8 DEF Owes, Ledger, Follows, StateOf
  <1> QED BY <1>1, <1>2, <1>3, <1>5, <1>6, <1>7, <1>8 DEF LedgerStep

\* The state a moved row has afterwards.
LEMMA MovedState ==
    ASSUME NEW l \in Ledger, NEW k \in Keys, HasRow(l, k)
    PROVE  /\ StateOf(Charge(l, k), k) = "COMMITTED"
           /\ StateOf(GiveBack(l, k), k) = "RELEASED"
           /\ StateOf(PayBack(l, k), k) = "REFUNDED"
  <1>1. l.rows \in [Keys -> Row \cup {NoRow}] /\ l.rows[k] \in Row
    BY NoRowFacts, RowFacts DEF Ledger
  <1>2. \A s : [l.rows EXCEPT ![k].state = s][k].state = s
    BY <1>1 DEF Row
  <1> QED BY <1>2 DEF Charge, GiveBack, PayBack, StateOf, Ledger

\* The status of a command is true of the ledger it leaves.
LEMMA ExecuteBacks ==
    ASSUME NEW l \in Ledger, NEW cmd, WellFormed(cmd)
    PROVE  LET res == Execute(l, cmd)
           IN  /\ Backed(res.ledger, cmd.key, res.status)
               /\ res.status = "COMPENSATION_REQUIRED"
                     => cmd.key \in Keys /\ cmd.key \in res.ledger.compensations
  <1> DEFINE k == cmd.key
             res == Execute(l, cmd)
             True(x) == /\ Backed(x.ledger, k, x.status)
                        /\ x.status = "COMPENSATION_REQUIRED"
                              => k \in Keys /\ k \in x.ledger.compensations
  <1>0. cmd.op \in {"register", "reserve", "commit", "refund", "release",
                    "reconcile_commit", "reconcile_release"}
    BY DEF WellFormed, Commands
  <1>1. CASE cmd.op = "register"
    <2>1. res = RegisterResource(l, cmd.resource, cmd.amount)
      BY <1>1 DEF Execute
    <2>2. res.status \in {"REGISTERED", "ALREADY_REGISTERED", "RESOURCE_CONFLICT"}
      BY <2>1 DEF RegisterResource, Outcome
    <2> HIDE DEF res
    <2> QED BY <2>2 DEF Backed, res
  <1>2. ASSUME k \in Keys
        PROVE  True(Commit(l, k))
    BY <1>2, NoRowFacts, MovedState DEF Commit, Outcome, Backed
  <1>3. ASSUME k \in Keys
        PROVE  True(Reserve(l, k, cmd.amount, cmd.resource))
    <2>1. HasRow(l, k) => StateOf(l, k) \in RowStates
      BY <1>3, NoRowFacts
    <2> QED BY <2>1, <1>3 DEF Reserve, Outcome, Backed, RowStates
  <1>4. ASSUME k \in Keys
        PROVE  True(Refund(l, k))
    BY <1>4, NoRowFacts, MovedState DEF Refund, Outcome, Backed
  <1>5. ASSUME k \in Keys
        PROVE  True(Release(l, k))
    BY <1>5, NoRowFacts, MovedState DEF Release, Outcome, Backed
  <1>6. ASSUME k \in Keys
        PROVE  True(ReconcileCommit(l, k))
    <2>1. CASE StateOf(l, k) = "RELEASED"
      BY <1>6, <2>1 DEF ReconcileCommit, Outcome, Backed, Ledger
    <2>2. CASE StateOf(l, k) # "RELEASED"
      BY <1>2, <1>6, <2>2 DEF ReconcileCommit
    <2> QED BY <2>1, <2>2
  <1>7. ASSUME k \in Keys
        PROVE  True(ReconcileRelease(l, k))
    BY <1>7, NoRowFacts, MovedState DEF ReconcileRelease, Outcome, Backed
  <1>8. cmd.op # "register" => k \in Keys
    BY DEF WellFormed
  <1>9. cmd.op # "register" => True(res)
    <2> HIDE DEF True
    <2> QED BY <1>0, <1>2, <1>3, <1>4, <1>5, <1>6, <1>7, <1>8 DEF Execute
  <1> QED BY <1>1, <1>9

\* What reconcile concludes from a backed status is backed.
LEMMA VerdictBacked ==
    ASSUME NEW cl \in Calls, NEW l, NEW k, Backed(l, k, cl.status),
           cl.status = "COMPENSATION_REQUIRED" => k \in Keys /\ k \in l.compensations
    PROVE  Backed(l, k, Verdict(cl))
  BY DEF Verdict, Backed

\* Every action keeps the final states along the log.
LEMMA MonotoneStep ==
    ASSUME LogInv, Monotone, [Next]_vars
    PROVE  Follows(Latest, Latest') /\ Monotone'
  <1>1. Follows(Latest, Latest')
    BY LatestStep, StepFollows
  <1>2. CASE UNCHANGED ledgers
    BY <1>1, <1>2 DEF Monotone, Latest
  <1>3. ASSUME NEW cmd \in inflight, ExecuteCommand(cmd)
        PROVE  Monotone'
    <2>1. /\ Len(ledgers) \in Nat \ {0} /\ ledgers \in Seq(Ledger)
          /\ \A i \in 1..Len(ledgers) : ledgers'[i] = ledgers[i]
          /\ \/ ledgers' = ledgers
             \/ \E m : ledgers' = Append(ledgers, m)
      BY <1>3, ExecuteFacts, LatestGood DEF LogInv, TypeOK
    <2>2. Len(ledgers') \in {Len(ledgers), Len(ledgers) + 1}
      BY <2>1
    <2>3. \A i \in 1..Len(ledgers') : i \in 1..Len(ledgers) \/ i = Len(ledgers')
      BY <2>1, <2>2
    <2>4. \A i \in 1..Len(ledgers) : Follows(ledgers'[i], Latest')
      BY <1>1, <2>1, FollowsTransitive DEF Monotone
    <2>5. Follows(Latest', Latest')
      BY DEF Follows
    <2> QED BY <2>3, <2>4, <2>5 DEF Monotone, Latest
  <1>4. UNCHANGED ledgers \/ \E cmd \in inflight : ExecuteCommand(cmd)
    BY DEF Next, vars, ClientRegisters, ClientReserves, ClientSettles, Send, CatchUp, Reply,
           Timeout, ReconcileRead, ReconcileAsk, ReconcileAskFails, Lose, Restart, ProviderSettles
  <1> QED BY <1>1, <1>2, <1>3, <1>4

\* The three ways a step can affect which command a call waits for.
CommandsInv == Fresh /\ Unique /\ Paired

\* A call that sends a command of a new id waits for that one only.
LEMMA Sends ==
    ASSUME LogInv, CommandsInv, NEW c \in Clients, NEW x \in Calls, NEW z,
           call' = [call EXCEPT ![c] = x], inflight' = inflight \cup {z},
           faults' \in Nat, faults' >= faults,
           x.pc = "wait", x.id = faults', z.by = c, z.id = faults', z.key = x.key,
           \A cmd \in inflight : cmd.by = c => cmd.id # faults'
    PROVE  CommandsInv'
  <1>1. /\ faults \in Nat /\ \A d \in Clients : call'[d] = IF d = c THEN x ELSE call[d]
        /\ \A cmd \in inflight : cmd.by \in Clients /\ cmd.id \in Nat
    BY RaftAssumption DEF LogInv, TypeOK, WellFormed, Commands
  <1>2. Fresh'
    BY <1>1 DEF CommandsInv, Fresh
  <1>3. Unique'
    BY <1>1 DEF CommandsInv, Unique
  <1>4. Paired'
    BY <1>1 DEF CommandsInv, Paired, Waiting
  <1> QED BY <1>2, <1>3, <1>4 DEF CommandsInv

\* A call that ends, with none of its commands of the current id under way.
LEMMA Quits ==
    ASSUME LogInv, CommandsInv, NEW c \in Clients, NEW x \in Calls,
           call' = [call EXCEPT ![c] = x], inflight' \subseteq inflight,
           faults' \in Nat, faults' >= faults, x.pc # "wait",
           \A cmd \in inflight' : cmd.by = c => cmd.id # faults'
    PROVE  CommandsInv'
  <1>1. /\ faults \in Nat /\ \A d \in Clients : call'[d] = IF d = c THEN x ELSE call[d]
        /\ \A cmd \in inflight : cmd.by \in Clients /\ cmd.id \in Nat
    BY RaftAssumption DEF LogInv, TypeOK, WellFormed, Commands
  <1>2. Fresh'
    BY <1>1 DEF CommandsInv, Fresh
  <1>3. Unique'
    BY <1>1 DEF CommandsInv, Unique
  <1>4. Paired'
    BY <1>1 DEF CommandsInv, Paired, Waiting
  <1> QED BY <1>2, <1>3, <1>4 DEF CommandsInv

\* A step in which no call moves on, other than to be forgotten by a restart.
LEMMA Keeps ==
    ASSUME LogInv, CommandsInv, inflight' \subseteq inflight, faults' \in Nat,
           \/ faults' = faults /\ call' = call
           \/ /\ faults' > faults
              /\ \A d \in Clients : call'[d] = call[d] \/ call'[d].pc = "idle"
    PROVE  CommandsInv'
  <1>1. /\ faults \in Nat
        /\ \A cmd \in inflight : cmd.by \in Clients /\ cmd.id \in Nat
    BY RaftAssumption DEF LogInv, TypeOK, WellFormed, Commands
  <1>2. Fresh'
    BY <1>1 DEF CommandsInv, Fresh
  <1>3. Unique'
    BY <1>1 DEF CommandsInv, Unique
  <1>4. Paired'
    BY <1>1 DEF CommandsInv, Paired, Waiting
  <1> QED BY <1>2, <1>3, <1>4 DEF CommandsInv

\* An answer is recorded only when the ledger backs it.
LEMMA SetsCall ==
    ASSUME LogInv, CallsBacked, Follows(Latest, Latest'), NEW c \in Clients, NEW x,
           call' = [call EXCEPT ![c] = x],
           x.pc = "done" => Backed(Latest', x.key, x.status),
           x.pc = "applied" => Backed(Latest', x.key, Verdict(x))
    PROVE  CallsBacked'
  <1>1. \A d \in Clients : call'[d] = IF d = c THEN x ELSE call[d]
    BY DEF LogInv, TypeOK
  <1>2. \A k, s : Backed(Latest, k, s) => Backed(Latest', k, s)
    BY BackedStays
  <1> QED BY <1>1, <1>2 DEF CallsBacked

\* Calls that do not move stay backed.
LEMMA KeepsCalls ==
    ASSUME LogInv, CallsBacked, Follows(Latest, Latest'),
           \A d \in Clients : call'[d] = call[d] \/ call'[d].pc = "idle"
    PROVE  CallsBacked'
  <1>2. \A k, s : Backed(Latest, k, s) => Backed(Latest', k, s)
    BY BackedStays
  <1> QED BY <1>2 DEF CallsBacked

\* Every action keeps the invariant on calls and answers.
LEMMA AnswersInvStep ==
    ASSUME LogInv, AnswersInv, [Next]_vars
    PROVE  AnswersInv'
  <1>0. /\ TypeOK /\ CallsOK /\ CommandsInv /\ CallsBacked
        /\ faults \in Nat /\ \A c \in Clients : call[c] \in Calls
    BY RaftAssumption DEF LogInv, TypeOK, AnswersInv, CommandsInv
  <1>f. Follows(Latest, Latest') /\ Monotone'
    BY MonotoneStep DEF AnswersInv
  <1> SUFFICES CommandsInv' /\ CallsBacked'
    BY <1>f DEF AnswersInv, CommandsInv
  \* A client whose call waits for nothing has no command of the current id.
  <1>n. ASSUME NEW c \in Clients, call[c].pc # "wait"
        PROVE  \A cmd \in inflight : cmd.by = c => cmd.id # faults
    BY <1>0, <1>n DEF CommandsInv, Fresh
  <1>send. ASSUME NEW c \in Clients, NEW op \in {"register", "reserve", "commit", "refund", "release"},
                  NEW k \in Keys \cup {NoKey}, NEW r, NEW a, Send(c, op, k, r, a)
           PROVE  CommandsInv' /\ CallsBacked'
    <2> DEFINE x == Begin(c, op, k)
               z == Command(c, op, k, r, a, faults)
    <2>1. x \in Calls /\ x.pc = "wait" /\ x.id = faults /\ x.key = k
      BY <1>0, BeginFacts
    <2>2. z.by = c /\ z.id = faults /\ z.key = k
      BY DEF Command
    <2>3. /\ call' = [call EXCEPT ![c] = x] /\ inflight' = inflight \cup {z}
          /\ faults' = faults /\ call[c].pc # "wait"
      BY <1>send DEF Send, Ready
    <2> HIDE DEF x, z
    <2>n. /\ faults' \in Nat /\ faults' >= faults
          /\ \A cmd \in inflight : cmd.by = c => cmd.id # faults'
      BY <1>0, <1>n, <2>3
    <2>4. CommandsInv'
      BY <1>0, <2>1, <2>2, <2>3, <2>n, Sends
    <2>5. CallsBacked'
      BY <1>0, <1>f, <2>1, <2>3, SetsCall
    <2> QED BY <2>4, <2>5
  <1>1. ASSUME NEW c \in Clients, NEW r \in Resources, NEW cap \in Capacities,
               ClientRegisters(c, r, cap)
        PROVE  CommandsInv' /\ CallsBacked'
    BY <1>1, <1>send DEF ClientRegisters
  <1>2. ASSUME NEW c \in Clients, NEW k \in Keys, NEW a \in Amounts, NEW r \in Resources,
               ClientReserves(c, k, a, r)
        PROVE  CommandsInv' /\ CallsBacked'
    BY <1>2, <1>send DEF ClientReserves
  <1>3. ASSUME NEW c \in Clients, NEW op \in {"commit", "refund", "release"}, NEW k \in Keys,
               ClientSettles(c, op, k)
        PROVE  CommandsInv' /\ CallsBacked'
    BY <1>3, <1>send DEF ClientSettles
  <1>4. ASSUME NEW cmd \in inflight, ExecuteCommand(cmd)
        PROVE  CommandsInv' /\ CallsBacked'
    <2> DEFINE res == Execute(Latest, cmd)
               c == cmd.by
    <2>1. /\ Latest' = res.ledger /\ Len(ledgers') \in Nat /\ res.status \in Statuses
          /\ c \in Clients /\ WellFormed(cmd) /\ Latest \in Ledger
      BY <1>4, ExecuteFacts, ExecuteStatus, LatestGood DEF LogInv, WellFormed, Commands
    <2>2. inflight' = inflight \ {cmd} /\ faults' = faults
      BY <1>4 DEF ExecuteCommand
    <2>3. CASE ~Waiting(c, cmd)
      <3>1. call' = call
        BY <1>4, <2>3 DEF ExecuteCommand
      <3>2. CommandsInv'
        BY <1>0, <2>2, <3>1, Keeps
      <3>3. CallsBacked'
        BY <1>0, <1>f, <3>1, KeepsCalls
      <3> QED BY <3>2, <3>3
    <2>4. CASE Waiting(c, cmd)
      <3> DEFINE x == [call[c] EXCEPT !.pc = "applied", !.at = Len(ledgers'), !.status = res.status]
      <3>1. call' = [call EXCEPT ![c] = x]
        <4>1. call' = [call EXCEPT ![c].pc = "applied", ![c].at = Len(ledgers'),
                                   ![c].status = res.status]
          BY <1>4, <2>4 DEF ExecuteCommand
        <4> HIDE DEF res
        <4> QED BY <4>1
      <3>2. x \in Calls /\ x.pc = "applied" /\ x.key = call[c].key /\ x.status = res.status
        <4> HIDE DEF res, c
        <4> QED BY <1>0, <2>1 DEF Calls
      <3>3. cmd.key = call[c].key /\ cmd.id = call[c].id
        BY <1>0, <2>1, <2>4 DEF CommandsInv, Paired, Waiting
      <3>4. \A y \in inflight' : y.by = c => y.id # faults'
        <4> SUFFICES ASSUME NEW y \in inflight, y # cmd, y.by = c, y.id = faults
                     PROVE  FALSE
          BY <2>2
        <4>1. call[c].id = faults
          BY <1>0 DEF CommandsInv, Fresh
        <4> QED BY <1>0, <3>3, <4>1 DEF CommandsInv, Unique
      <3>5. /\ Backed(Latest', cmd.key, res.status)
            /\ res.status = "COMPENSATION_REQUIRED"
                  => cmd.key \in Keys /\ cmd.key \in Latest'.compensations
        BY <2>1, ExecuteBacks
      <3> HIDE DEF x, res, c
      <3>6. Backed(Latest', x.key, Verdict(x))
        BY <3>2, <3>3, <3>5, VerdictBacked
      <3>n. faults' \in Nat /\ faults' >= faults /\ inflight' \subseteq inflight
        BY <1>0, <2>2
      <3>7. CommandsInv'
        BY <1>0, <2>1, <3>1, <3>2, <3>4, <3>n, Quits
      <3>8. CallsBacked'
        BY <1>0, <1>f, <2>1, <3>1, <3>2, <3>6, SetsCall
      <3> QED BY <3>7, <3>8
    <2> QED BY <2>3, <2>4
  <1>done. ASSUME NEW c \in Clients, NEW s \in Statuses, Backed(Latest', call[c].key, s),
                  call' = [call EXCEPT ![c] = Done(c, s)], inflight' = inflight,
                  faults' \in Nat, faults' >= faults,
                  \A cmd \in inflight : cmd.by = c => cmd.id # faults'
           PROVE  CommandsInv' /\ CallsBacked'
    <2> DEFINE x == Done(c, s)
    <2>1. x \in Calls /\ x.pc = "done" /\ x.key = call[c].key /\ x.status = s
      BY <1>0, DoneFacts
    <2>2. call' = [call EXCEPT ![c] = x]
      BY <1>done
    <2> HIDE DEF x
    <2>3. CommandsInv'
      BY <1>0, <1>done, <2>1, <2>2, Quits
    <2>4. CallsBacked'
      BY <1>0, <1>done, <1>f, <2>1, <2>2, SetsCall
    <2> QED BY <2>3, <2>4
  <1>5. ASSUME NEW c \in Clients, Reply(c)
        PROVE  CommandsInv' /\ CallsBacked'
    <2>1. Backed(Latest', call[c].key, Verdict(call[c]))
      BY <1>0, <1>5, <1>f, BackedStays DEF Reply, CallsBacked
    <2>2. Verdict(call[c]) \in Statuses
      BY <1>0, VerdictFacts
    <2>3. /\ faults' \in Nat /\ faults' >= faults
          /\ \A cmd \in inflight : cmd.by = c => cmd.id # faults'
      BY <1>0, <1>5, <1>n DEF Reply
    <2>4. call' = [call EXCEPT ![c] = Done(c, Verdict(call[c]))] /\ inflight' = inflight
      BY <1>5 DEF Reply
    <2> QED BY <1>done, <2>1, <2>2, <2>3, <2>4
  <1>6. ASSUME NEW c \in Clients, Timeout(c)
        PROVE  CommandsInv' /\ CallsBacked'
    <2> DEFINE lost == call[c].pc = "wait" /\ ~\E cmd \in inflight : Waiting(c, cmd)
    <2>1. faults' \in 0..MaxFaults /\ faults' \in Nat /\ faults' >= faults
      BY <1>0, <1>6, RaftAssumption DEF Timeout, TypeOK
    <2>2. \A cmd \in inflight : cmd.by = c => cmd.id # faults'
      <3>1. CASE lost
        BY <1>0, <1>6, <3>1 DEF Timeout, CommandsInv, Fresh, Waiting
      <3>2. CASE ~lost
        <4>1. faults' = faults + 1
          BY <1>6, <3>2 DEF Timeout
        <4>2. \A cmd \in inflight : cmd.id \in Nat /\ cmd.id <= faults
          BY <1>0, RaftAssumption DEF LogInv, WellFormed, Commands, CommandsInv, Fresh
        <4> QED BY <1>0, <4>1, <4>2
      <3> QED BY <3>1, <3>2
    <2>3. CASE Retries(call[c].op) /\ call[c].try < MaxTries
      <3> DEFINE x == [call[c] EXCEPT !.pc = "wait", !.try = @ + 1, !.id = faults']
                 z == Command(c, call[c].op, call[c].key, NoKey, 0, faults')
      <3>1. call' = [call EXCEPT ![c] = x] /\ inflight' = inflight \cup {z}
        BY <1>6, <2>3 DEF Timeout
      <3>2. call[c].try \in Nat /\ call[c].try + 1 \in 0..MaxTries
        BY <1>0, <2>3, RaftAssumption DEF Calls
      <3>3. x \in Calls /\ x.key = call[c].key /\ x.pc = "wait" /\ x.id = faults'
        BY <1>0, <2>1, <3>2 DEF Calls
      <3>4. z.by = c /\ z.id = faults' /\ z.key = x.key
        BY <3>3 DEF Command
      <3> HIDE DEF x, z
      <3>5. CommandsInv'
        BY <1>0, <2>1, <2>2, <3>1, <3>3, <3>4, Sends
      <3>6. CallsBacked'
        BY <1>0, <1>f, <3>1, <3>3, SetsCall
      <3> QED BY <3>5, <3>6
    <2>4. CASE ~(Retries(call[c].op) /\ call[c].try < MaxTries)
      <3>1. call' = [call EXCEPT ![c] = Done(c, "ERROR")] /\ inflight' = inflight
        BY <1>6, <2>4 DEF Timeout
      <3>2. Backed(Latest', call[c].key, "ERROR") /\ "ERROR" \in Statuses
        BY DEF Backed, Statuses
      <3> QED BY <1>done, <2>1, <2>2, <3>1, <3>2
    <2> QED BY <2>3, <2>4
  <1>7. ASSUME NEW c \in Clients, NEW k \in Keys, ReconcileRead(c, k)
        PROVE  CommandsInv' /\ CallsBacked'
    <2> DEFINE v == View(HomeOf[c])
               unasked == CASE StateOf(v, k) = "NONE" -> "NOT_FOUND"
                            [] StateOf(v, k) = "COMMITTED" -> "CONFIRMED"
                            [] StateOf(v, k) = "RELEASED" -> "FAILED"
                            [] OTHER -> "UNRESOLVED"
               asked == [Begin(c, "reconcile", k) EXCEPT !.pc = "ask"]
               answered == Answered("reconcile", k, "-", unasked)
    <2>1. Follows(v, Latest)
      <3>1. HomeOf[c] \in Nodes
        BY RaftAssumption
      <3> QED BY <1>0, <3>1 DEF View, TypeOK, AnswersInv, Monotone
    <2>2. unasked \in Statuses /\ Backed(v, k, unasked)
      BY DEF Backed, Statuses
    <2>3. asked \in Calls /\ asked.pc = "ask"
      <3>1. Begin(c, "reconcile", k) \in Calls
        BY <1>0, BeginFacts
      <3> QED BY <3>1 DEF Calls
    <2>4. answered \in Calls /\ answered.pc = "done" /\ answered.key = k /\ answered.status = unasked
      <3> HIDE DEF unasked
      <3> QED BY <2>2, AnsweredFacts
    <2>5. /\ \/ call' = [call EXCEPT ![c] = asked]
             \/ call' = [call EXCEPT ![c] = answered]
          /\ inflight' = inflight /\ faults' = faults /\ call[c].pc # "wait"
      BY <1>7 DEF ReconcileRead, Ready
    <2> HIDE DEF v, unasked, asked, answered
    <2>6. Backed(Latest', k, unasked)
      BY <1>f, <2>1, <2>2, BackedStays
    <2>7. PICK x \in {asked, answered} : call' = [call EXCEPT ![c] = x]
      BY <2>5
    <2>8. /\ x \in Calls /\ x.pc \in {"ask", "done"}
          /\ x.pc = "done" => Backed(Latest', x.key, x.status)
      BY <2>3, <2>4, <2>6
    <2>n. /\ faults' \in Nat /\ faults' >= faults /\ inflight' \subseteq inflight
          /\ \A cmd \in inflight' : cmd.by = c => cmd.id # faults'
      BY <1>0, <1>n, <2>5
    <2>9. CommandsInv'
      BY <1>0, <2>7, <2>8, <2>n, Quits
    <2>10. CallsBacked'
      BY <1>0, <1>f, <2>7, <2>8, SetsCall
    <2> QED BY <2>9, <2>10
  <1>8. ASSUME NEW c \in Clients, ReconcileAsk(c)
        PROVE  CommandsInv' /\ CallsBacked'
    <2> DEFINE k == call[c].key
    <2>1. call[c].pc = "ask" /\ faults' = faults /\ faults \in 0..MaxFaults
      BY <1>0, <1>8 DEF ReconcileAsk, TypeOK
    <2>2. PICK a \in Answers(k) :
            /\ call' = [call EXCEPT ![c] =
                           IF a = "?" THEN Done(c, "UNRESOLVED")
                           ELSE [@ EXCEPT !.pc = "wait", !.id = faults, !.answer = a]]
            /\ inflight' = inflight \cup
                  CASE a = "YES" -> {Command(c, "reconcile_commit", k, NoKey, 0, faults)}
                    [] a = "NO"  -> {Command(c, "reconcile_release", k, NoKey, 0, faults)}
                    [] OTHER     -> {}
      BY <1>8 DEF ReconcileAsk
    <2>3. a \in {"?", "YES", "NO"}
      BY DEF Answers
    <2>4. CASE a = "?"
      <3>1. call' = [call EXCEPT ![c] = Done(c, "UNRESOLVED")] /\ inflight' = inflight
        BY <2>2, <2>4
      <3>2. Backed(Latest', call[c].key, "UNRESOLVED") /\ "UNRESOLVED" \in Statuses
        BY DEF Backed, Statuses
      <3>3. /\ faults' \in Nat /\ faults' >= faults
            /\ \A cmd \in inflight : cmd.by = c => cmd.id # faults'
        BY <1>0, <1>n, <2>1
      <3> QED BY <1>done, <3>1, <3>2, <3>3
    <2>5. CASE a # "?"
      <3> DEFINE x == [call[c] EXCEPT !.pc = "wait", !.id = faults, !.answer = a]
      <3>1. x \in Calls /\ x.key = k /\ x.pc = "wait" /\ x.id = faults
        BY <1>0, <2>1, <2>3, <2>5 DEF Calls
      <3>2. call' = [call EXCEPT ![c] = x]
        BY <2>2, <2>5
      <3> DEFINE z == Command(c, IF a = "YES" THEN "reconcile_commit" ELSE "reconcile_release",
                              k, NoKey, 0, faults)
      <3>3. inflight' = inflight \cup {z}
        BY <2>2, <2>3, <2>5
      <3>z. z.by = c /\ z.id = faults' /\ z.key = x.key /\ x.id = faults'
        BY <2>1, <3>1 DEF Command
      <3> HIDE DEF x, z
      <3>4. /\ faults' \in Nat /\ faults' >= faults
            /\ \A cmd \in inflight : cmd.by = c => cmd.id # faults'
        BY <1>0, <1>n, <2>1
      <3>5. CommandsInv'
        BY <1>0, <3>1, <3>2, <3>3, <3>4, <3>z, Sends
      <3>6. CallsBacked'
        BY <1>0, <1>f, <3>1, <3>2, SetsCall
      <3> QED BY <3>5, <3>6
    <2> QED BY <2>4, <2>5
  <1>9. ASSUME NEW c \in Clients, ReconcileAskFails(c)
        PROVE  CommandsInv' /\ CallsBacked'
    <2>1. Backed(Latest', call[c].key, "ERROR") /\ "ERROR" \in Statuses
      BY DEF Backed, Statuses
    <2>2. /\ faults' \in Nat /\ faults' >= faults
          /\ \A cmd \in inflight : cmd.by = c => cmd.id # faults'
      BY <1>0, <1>9, <1>n DEF ReconcileAskFails
    <2>3. call' = [call EXCEPT ![c] = Done(c, "ERROR")] /\ inflight' = inflight
      BY <1>9 DEF ReconcileAskFails
    <2> QED BY <1>done, <2>1, <2>2, <2>3
  <1>10. ASSUME NEW cmd \in inflight, Lose(cmd)
         PROVE  CommandsInv' /\ CallsBacked'
    <2>1. inflight' \subseteq inflight /\ call' = call /\ faults' = faults + 1
      BY <1>10 DEF Lose
    <2> QED BY <1>0, <1>f, <2>1, Keeps, KeepsCalls
  <1>11. ASSUME NEW n \in Nodes, Restart(n)
         PROVE  CommandsInv' /\ CallsBacked'
    <2>1. /\ inflight' = inflight /\ faults' = faults + 1
          /\ \A d \in Clients : call'[d] = call[d] \/ call'[d].pc = "idle"
      BY <1>11 DEF Restart, Idle
    <2> QED BY <1>0, <1>f, <2>1, Keeps, KeepsCalls
  <1>12. CASE UNCHANGED <<inflight, call, faults>>
    BY <1>0, <1>f, <1>12, Keeps, KeepsCalls
  <1>13. ASSUME \/ UNCHANGED vars
                \/ \E n \in Nodes : CatchUp(n)
                \/ \E k \in Keys : ProviderSettles(k)
         PROVE  UNCHANGED <<inflight, call, faults>>
    BY <1>13 DEF vars, CatchUp, ProviderSettles
  <1> QED BY <1>1, <1>2, <1>3, <1>4, <1>5, <1>6, <1>7, <1>8, <1>9, <1>10, <1>11, <1>12,
             <1>13 DEF Next

(* Whatever a caller was told of its reservation is true of the replicated *)
(* ledger and stays true: also when reconcile decided on a lagging         *)
(* replica, when attempts overtake each other, and after restarts.         *)
THEOREM AnswersStayBacked == Spec => []AnswersBacked
  <1>1. Init => AnswersInv
    <2> SUFFICES ASSUME Init PROVE AnswersInv
      OBVIOUS
    <2>1. Monotone
      BY DEF Init, Monotone, Latest, Follows
    <2> QED BY <2>1 DEF Init, AnswersInv, Fresh, Unique, Paired, CallsBacked, Idle
  <1>2. LogInv /\ AnswersInv /\ [Next]_vars => AnswersInv'
    BY AnswersInvStep
  <1>3. AnswersInv => AnswersBacked
    BY DEF AnswersInv, CallsBacked, Backed, AnswersBacked
  <1> QED BY <1>1, <1>2, <1>3, LogInvariant, PTL DEF Spec

-----------------------------------------------------------------------------
(* A compensation is recorded by reconcile_commit alone, which is sent     *)
(* only once the provider has confirmed the effect; and the effect, like   *)
(* the release it came too late for, is final.                             *)
Confirmed == \A cmd \in inflight : cmd.op = "reconcile_commit" => effect[cmd.key] = "happened"

CompensationInv == CompensationJustified /\ Confirmed

\* Only reconcile_commit, on a released reservation, records a compensation.
LEMMA ExecuteOwes ==
    ASSUME NEW l \in Ledger, NEW cmd, WellFormed(cmd),
           NEW k \in Execute(l, cmd).ledger.compensations, k \notin l.compensations
    PROVE  cmd.op = "reconcile_commit" /\ k = cmd.key /\ StateOf(l, k) = "RELEASED"
  <1> DEFINE j == cmd.key
             m == Execute(l, cmd).ledger
  <1>0. cmd.op \in {"register", "reserve", "commit", "refund", "release",
                    "reconcile_commit", "reconcile_release"}
    BY DEF WellFormed, Commands
  <1>c. Commit(l, j).ledger.compensations = l.compensations
    BY NoRowFacts DEF Commit, Outcome, Charge, Ledger
  <1>1. CASE cmd.op = "register"
    BY <1>1 DEF Execute, RegisterResource, Outcome, Ledger
  <1>2. CASE cmd.op = "reserve"
    BY <1>2 DEF Execute, Reserve, Outcome, Ledger
  <1>3. CASE cmd.op = "commit"
    BY <1>3, <1>c DEF Execute
  <1>4. CASE cmd.op = "refund"
    BY <1>4, NoRowFacts DEF Execute, Refund, Outcome, PayBack, Ledger
  <1>5. CASE cmd.op = "release"
    BY <1>5, NoRowFacts DEF Execute, Release, Outcome, GiveBack, Ledger
  <1>6. CASE cmd.op = "reconcile_commit"
    <2>1. m = ReconcileCommit(l, j).ledger
      BY <1>6 DEF Execute
    <2>2. StateOf(l, j) = "RELEASED"
      BY <1>c, <2>1 DEF ReconcileCommit
    <2>3. m.compensations = l.compensations \cup {j}
      BY <2>1, <2>2 DEF ReconcileCommit, Outcome, Ledger
    <2> QED BY <1>6, <2>2, <2>3
  <1>7. CASE cmd.op = "reconcile_release"
    BY <1>7, NoRowFacts DEF Execute, ReconcileRelease, Outcome, GiveBack, Ledger
  <1> QED BY <1>0, <1>1, <1>2, <1>3, <1>4, <1>5, <1>6, <1>7

\* Every action keeps the compensations justified.
LEMMA CompensationStep ==
    ASSUME LogInv, CompensationInv, [Next]_vars
    PROVE  CompensationInv'
  <1>0. /\ Latest \in Ledger /\ Latest.compensations \subseteq Keys
        /\ effect \in [Keys -> {"pending", "happened", "never"}]
        /\ \A cmd \in inflight : WellFormed(cmd)
    BY LatestGood DEF LogInv, TypeOK, Ledger
  <1>1. \A k \in Keys : effect[k] = "happened" => effect'[k] = "happened"
    <2>1. ASSUME NEW k \in Keys, ProviderSettles(k)
          PROVE  \A j \in Keys : effect[j] = "happened" => effect'[j] = "happened"
      BY <1>0, <2>1 DEF ProviderSettles
    <2>2. UNCHANGED effect \/ \E k \in Keys : ProviderSettles(k)
      BY DEF Next, vars, ClientRegisters, ClientReserves, ClientSettles, Send, ExecuteCommand,
             CatchUp, Reply, Timeout, ReconcileRead, ReconcileAsk, ReconcileAskFails, Lose, Restart
    <2> QED BY <2>1, <2>2
  <1>2. CompensationJustified'
    <2>1. Follows(Latest, Latest')
      BY LatestStep, StepFollows
    <2>2. ASSUME NEW k \in Latest.compensations
          PROVE  StateOf(Latest', k) = "RELEASED" /\ effect'[k] = "happened"
      BY <1>0, <1>1, <2>1 DEF CompensationInv, CompensationJustified, Follows
    <2>3. ASSUME NEW k \in Latest'.compensations, k \notin Latest.compensations
          PROVE  StateOf(Latest', k) = "RELEASED" /\ effect'[k] = "happened"
      <3>1. Latest' # Latest
        BY <2>3
      <3>2. UNCHANGED ledgers \/ \E cmd \in inflight : ExecuteCommand(cmd)
        BY DEF Next, vars, ClientRegisters, ClientReserves, ClientSettles, Send, CatchUp, Reply,
               Timeout, ReconcileRead, ReconcileAsk, ReconcileAskFails, Lose, Restart,
               ProviderSettles
      <3>3. PICK cmd \in inflight : ExecuteCommand(cmd)
        BY <3>1, <3>2 DEF Latest
      <3>4. Latest' = Execute(Latest, cmd).ledger
        BY <3>3, ExecuteFacts
      <3>5. cmd.op = "reconcile_commit" /\ k = cmd.key /\ StateOf(Latest, k) = "RELEASED"
        BY <1>0, <2>3, <3>4, ExecuteOwes
      <3>6. k \in Keys
        BY <1>0, <3>5 DEF WellFormed
      <3> QED BY <1>1, <2>1, <3>5, <3>6 DEF CompensationInv, Confirmed, Follows
    <2> QED BY <2>2, <2>3 DEF CompensationJustified
  <1>3. Confirmed'
    <2>1. ASSUME inflight' \subseteq inflight
          PROVE  Confirmed'
      BY <1>0, <1>1, <2>1 DEF CompensationInv, Confirmed, WellFormed
    <2>2. ASSUME NEW z, inflight' = inflight \cup {z},
                 z.op = "reconcile_commit" => z.key \in Keys /\ effect[z.key] = "happened"
          PROVE  Confirmed'
      BY <1>0, <1>1, <2>2 DEF CompensationInv, Confirmed, WellFormed
    <2>3. ASSUME NEW c \in Clients, NEW op \in {"register", "reserve", "commit", "refund", "release"},
                 NEW k, NEW r, NEW a, NEW n, inflight' = inflight \cup {Command(c, op, k, r, a, n)}
          PROVE  Confirmed'
      <3>1. Command(c, op, k, r, a, n).op # "reconcile_commit"
        BY DEF Command
      <3> QED BY <2>2, <2>3, <3>1
    <2>4. ASSUME NEW c \in Clients, ReconcileAsk(c)
          PROVE  Confirmed'
      <3> DEFINE k == call[c].key
      <3>1. k \in Keys
        BY <2>4 DEF ReconcileAsk, LogInv, CallsOK
      <3>2. PICK a \in Answers(k) : inflight' = inflight \cup
                  CASE a = "YES" -> {Command(c, "reconcile_commit", k, NoKey, 0, faults)}
                    [] a = "NO"  -> {Command(c, "reconcile_release", k, NoKey, 0, faults)}
                    [] OTHER     -> {}
        BY <2>4 DEF ReconcileAsk
      <3>3. CASE a = "YES"
        <4>1. effect[k] = "happened"
          BY <3>2, <3>3 DEF Answers
        <4> QED BY <2>2, <3>1, <3>2, <3>3, <4>1 DEF Command
      <3>4. CASE a = "NO"
        BY <2>2, <3>2, <3>4 DEF Command
      <3>5. CASE a \notin {"YES", "NO"}
        BY <2>1, <3>2, <3>5
      <3> QED BY <3>3, <3>4, <3>5
    <2>5. ASSUME NEW c \in Clients, Timeout(c)
          PROVE  Confirmed'
      BY <2>1, <2>3, <2>5 DEF Timeout, Retries
    <2>6. ASSUME NEW c \in Clients, NEW op \in {"register", "reserve", "commit", "refund", "release"},
                 NEW k, NEW r, NEW a, Send(c, op, k, r, a)
          PROVE  Confirmed'
      BY <2>3, <2>6 DEF Send
    <2>7. \/ inflight' \subseteq inflight
          \/ \E c \in Clients : ReconcileAsk(c) \/ Timeout(c)
          \/ \E c \in Clients, r \in Resources, cap \in Capacities : ClientRegisters(c, r, cap)
          \/ \E c \in Clients, k \in Keys, a \in Amounts, r \in Resources : ClientReserves(c, k, a, r)
          \/ \E c \in Clients, op \in {"commit", "refund", "release"}, k \in Keys :
                ClientSettles(c, op, k)
      BY DEF Next, vars, ExecuteCommand, CatchUp, Reply, ReconcileRead, ReconcileAskFails, Lose,
             Restart, ProviderSettles
    <2> QED BY <2>1, <2>4, <2>5, <2>6, <2>7 DEF ClientRegisters, ClientReserves, ClientSettles
  <1> QED BY <1>2, <1>3 DEF CompensationInv

Sums == INSTANCE ConsensusBackend_proofs WITH
    registered <- Latest.registered, capacity <- Latest.capacity,
    reserved <- Latest.reserved, committed <- Latest.committed, rows <- Latest.rows

(* "Refund committed budget exactly once through the replicated log":      *)
(* however often a command was sent, and in whatever order its attempts    *)
(* were executed, the totals of the ledger are the sums over its rows, and *)
(* a compensation is owed only for a confirmed effect whose reservation    *)
(* had been released.                                                      *)
THEOREM LedgerStaysSound == Spec => []LedgerSound
  <1>1. Spec => Protocol!Spec
    BY ImplementsTheProtocol DEF ImplementsProtocol
  <1>2. Protocol!Spec => Sums!Spec
    <2>1. Protocol!Init => Sums!Init
      BY DEF Protocol!Init, Sums!Init
    <2>2. [Protocol!Next]_(Protocol!vars) => [Sums!Next]_(Sums!vars)
      BY DEF Protocol!Next, Protocol!vars, Protocol!Register, Protocol!Reserve, Protocol!Park,
             Protocol!Commit, Protocol!Release, Protocol!Refund, Protocol!Held, Protocol!Move,
             Sums!Next, Sums!vars, Sums!Register, Sums!Reserve, Sums!Park,
             Sums!Commit, Sums!Release, Sums!Refund, Sums!Held, Sums!Move
    <2> QED BY <2>1, <2>2, PTL DEF Protocol!Spec, Sums!Spec
  <1>3. Sums!ProtocolAssumption
    BY RaftAssumption DEF Sums!ProtocolAssumption, NoRow
  <1>4. Sums!Spec => []Sums!LedgerAgrees
    BY <1>3, Sums!CountersAreSums
  <1>5. Sums!LedgerAgrees => LedgerAgrees
    BY DEF LedgerAgrees, Sums!LedgerAgrees, Sums!Spent, Sums!SumFunction, Sums!SumFunctionOnSet,
           Sums!FoldFunctionOnSet, Sums!MapThenFoldSet, Protocol!LedgerAgrees, Protocol!Spent,
           Protocol!SumFunction, Protocol!SumFunctionOnSet, Protocol!FoldFunctionOnSet,
           Protocol!MapThenFoldSet
  <1>6. Init => CompensationInv
    BY DEF Init, CompensationInv, CompensationJustified, Confirmed, Latest, EmptyLedger
  <1>7. LogInv /\ CompensationInv /\ [Next]_vars => CompensationInv'
    BY CompensationStep
  <1>8. Spec => []CompensationInv
    BY <1>6, <1>7, LogInvariant, PTL DEF Spec
  <1>9. CompensationInv => CompensationJustified
    BY DEF CompensationInv
  <1> QED BY <1>1, <1>2, <1>4, <1>5, <1>8, <1>9, PTL DEF LedgerSound
=============================================================================
