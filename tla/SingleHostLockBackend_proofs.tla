-------------------- MODULE SingleHostLockBackend_proofs --------------------
(***************************************************************************)
(* Proofs about SingleHostLockBackend, for any number of processes, keys   *)
(* and resources and any number of failures.                               *)
(*                                                                         *)
(* Safety of the counters, and of the values recovery meets, holds under   *)
(* every failure.  That the four writes are atomic is proved for as long   *)
(* as only the host fails: after it no live object overwrites the journal. *)
(***************************************************************************)
EXTENDS SingleHostLockBackend, TLAPS

\* What a mutator has checked when it journals an operation.
Ready(op, k, record) ==
    /\ op \in Ops /\ k \in Keys /\ record \in Row
    /\ record.resource \in registered
    /\ \/ op = "reserve" /\ record.state = "RESERVED" /\ ~HasRow(k)
       \/ /\ op # "reserve" /\ HasRow(k)
          /\ rows[k].resource = record.resource /\ rows[k].amount = record.amount
          /\ \/ /\ op = "commit" /\ record.state = "COMMITTED" /\ Held(k)
                /\ reserved[record.resource] >= record.amount
             \/ /\ op = "release" /\ record.state = "RELEASED" /\ Held(k)
                /\ reserved[record.resource] >= record.amount
             \/ /\ op = "refund" /\ record.state = "REFUNDED" /\ RowState(k) = "COMMITTED"
                /\ consumed[record.resource] >= record.amount

\* How the two sides of a journal differ.
Sides(op, b, c, a) ==
    \/ op = "reserve" /\ c.reserved = b.reserved + a /\ c.consumed = b.consumed
    \/ /\ op = "commit" /\ b.reserved >= a
       /\ c.reserved = b.reserved - a /\ c.consumed = b.consumed + a
    \/ op = "release" /\ b.reserved >= a /\ c.reserved = b.reserved - a /\ c.consumed = b.consumed
    \/ op = "refund" /\ b.consumed >= a /\ c.reserved = b.reserved /\ c.consumed = b.consumed - a

\* A resource that is not registered holds nothing.
Unregistered == \A r \in Resources \ registered : reserved[r] = 0 /\ consumed[r] = 0

(* A journal, current or left behind, describes a transition of a          *)
(* registered resource, and the record it moves exists.                    *)
JournalOK ==
    journal # NoTx =>
        /\ journal.record.resource \in registered
        /\ Sides(journal.op, journal.before, journal.after, journal.record.amount)
        /\ journal.op # "reserve" =>
             /\ HasRow(journal.key)
             /\ rows[journal.key].resource = journal.record.resource
             /\ rows[journal.key].amount = journal.record.amount

\* Where the holder of the lock is, and on which side the counters are.
PositionOK ==
    /\ holder = NoProc <=> pc = "free"
    /\ pc # "free" => journal # NoTx
    /\ journal # NoTx => Counted \/ Uncounted
    /\ pc = "count" => Uncounted
    /\ pc \in {"store", "rollback", "replay"} => Counted
    /\ pc = "rollback" => journal.op = "reserve"

FailuresOK == faults \in 0..MaxFaults /\ seen \subseteq Kinds

(* The inductive invariant, for every kind of failure.  I8 alone is not    *)
(* inductive: the counters write relies on the sides of the journal.       *)
IInv == TypeOK /\ I8 /\ Unregistered /\ JournalOK /\ PositionOK

-----------------------------------------------------------------------------
LEMMA AmountFacts == \A n \in Amounts : n \in Nat /\ n > 0
  BY SingleHostAssumption

LEMMA RowFacts ==
    ASSUME TypeOK, NEW k \in Keys
    PROVE  /\ HasRow(k) => rows[k] \in Row
           /\ RowState(k) \in {"RESERVED", "UNKNOWN", "COMMITTED"} => HasRow(k)
  BY DEF TypeOK, HasRow, RowState, NoRow, Row

\* A journal is a transaction, its amount is positive, its two sides differ.
LEMMA JournalFacts ==
    ASSUME TypeOK, journal # NoTx
    PROVE  /\ journal \in Tx
           /\ journal.op \in Ops /\ journal.key \in Keys /\ journal.record \in Row
           /\ journal.record.resource \in Resources
           /\ journal.record.amount \in Nat /\ journal.record.amount > 0
           /\ journal.before.reserved \in Nat /\ journal.before.consumed \in Nat
           /\ journal.after.reserved \in Nat /\ journal.after.consumed \in Nat
  <1>1. journal \in Tx BY DEF TypeOK
  <1>2. journal.op \in Ops /\ journal.key \in Keys /\ journal.record \in Row
        /\ journal.before \in Snapshots /\ journal.after \in Snapshots
    BY <1>1 DEF Tx
  <1>3. journal.record.resource \in Resources /\ journal.record.amount \in Amounts
    BY <1>2 DEF Row
  <1> QED BY <1>1, <1>2, <1>3, AmountFacts DEF Snapshots

\* On which side of its journal a resource is, counter by counter.
LEMMA SideFacts ==
    ASSUME TypeOK, journal # NoTx
    PROVE  /\ Counted <=> /\ reserved[journal.record.resource] = journal.after.reserved
                          /\ consumed[journal.record.resource] = journal.after.consumed
           /\ Uncounted <=> /\ reserved[journal.record.resource] = journal.before.reserved
                            /\ consumed[journal.record.resource] = journal.before.consumed
  <1>1. journal.before \in Snapshots /\ journal.after \in Snapshots
    BY JournalFacts DEF Tx
  <1> QED BY <1>1 DEF Snapshots, Counted, Uncounted, Snapshot

\* The same in the next state, when the journal stays.
LEMMA SideFactsNext ==
    ASSUME TypeOK, journal # NoTx, journal' = journal
    PROVE  /\ Counted' <=> /\ reserved'[journal.record.resource] = journal.after.reserved
                           /\ consumed'[journal.record.resource] = journal.after.consumed
           /\ Uncounted' <=> /\ reserved'[journal.record.resource] = journal.before.reserved
                             /\ consumed'[journal.record.resource] = journal.before.consumed
  <1>1. journal.before \in Snapshots /\ journal.after \in Snapshots
    BY JournalFacts DEF Tx
  <1> QED BY <1>1 DEF Snapshots, Counted, Uncounted, Snapshot

\* Every mutator has made its checks when it journals.
LEMMA CallBegins ==
    ASSUME IInv, NEW p \in Procs, NEW k \in Keys, Call(p, k)
    PROVE  \/ ReconcileParks(p, k)
           \/ \E op \in Ops, record \in Row : Ready(op, k, record) /\ Begin(p, op, k, record)
  <1> TypeOK BY DEF IInv
  <1> DEFINE Goal == \E op \in Ops, record \in Row : Ready(op, k, record) /\ Begin(p, op, k, record)
  <1>1. ASSUME NEW a \in Amounts, NEW r \in Resources, Reserve(p, k, a, r)
        PROVE  Goal
    <2> DEFINE record == [state |-> "RESERVED", resource |-> r, amount |-> a]
    <2>1. record \in Row /\ record.resource = r /\ record.state = "RESERVED" BY DEF Row
    <2>2. Begin(p, "reserve", k, record) /\ ~HasRow(k) /\ r \in registered
      BY <1>1 DEF Reserve
    <2> HIDE DEF record
    <2>3. Ready("reserve", k, record)
      BY <2>1, <2>2 DEF Ready, Ops
    <2> QED BY <2>1, <2>2, <2>3 DEF Ops
  <1>2. ASSUME NEW s \in {"COMMITTED", "RELEASED", "REFUNDED"}, HasRow(k)
        PROVE  /\ [rows[k] EXCEPT !.state = s] \in Row
               /\ [rows[k] EXCEPT !.state = s].state = s
               /\ [rows[k] EXCEPT !.state = s].resource = rows[k].resource
               /\ [rows[k] EXCEPT !.state = s].amount = rows[k].amount
               /\ rows[k].resource \in Resources
               /\ rows[k].amount \in Nat /\ rows[k].amount > 0
    <2>1. rows[k] \in Row BY <1>2, RowFacts
    <2>2. rows[k].amount \in Amounts /\ rows[k].resource \in Resources BY <2>1 DEF Row
    <2>3. rows[k].amount \in Nat /\ rows[k].amount > 0 BY <2>2, AmountFacts
    <2> QED BY <2>1, <2>2, <2>3 DEF Row
  <1>3. HasRow(k) /\ (Covered(reserved, k) \/ Covered(consumed, k))
          => rows[k].resource \in registered
    <2> SUFFICES ASSUME HasRow(k), Covered(reserved, k) \/ Covered(consumed, k),
                        rows[k].resource \notin registered
                 PROVE  FALSE
      OBVIOUS
    <2>1. rows[k].resource \in Resources /\ rows[k].amount \in Nat /\ rows[k].amount > 0
      BY <1>2
    <2> QED BY <2>1 DEF IInv, Unregistered, Covered
  <1>4. ASSUME Held(k), Covered(reserved, k), NEW op \in {"commit", "release"},
               NEW s, s = IF op = "commit" THEN "COMMITTED" ELSE "RELEASED",
               Begin(p, op, k, [rows[k] EXCEPT !.state = s])
        PROVE  Goal
    <2> DEFINE record == [rows[k] EXCEPT !.state = s]
    <2>1. HasRow(k) BY <1>4, RowFacts DEF Held
    <2>2. s \in {"COMMITTED", "RELEASED", "REFUNDED"} BY <1>4
    <2>3. /\ record \in Row /\ record.state = s
          /\ record.resource = rows[k].resource /\ record.amount = rows[k].amount
      BY <1>2, <2>1, <2>2
    <2>4. Begin(p, op, k, record) BY <1>4
    <2> HIDE DEF record
    <2>5. Ready(op, k, record)
      BY <1>3, <1>4, <2>1, <2>3 DEF Ready, Ops, Covered
    <2> QED BY <2>3, <2>4, <2>5 DEF Ops
  <1>5. ASSUME Refund(p, k) PROVE Goal
    <2> DEFINE record == [rows[k] EXCEPT !.state = "REFUNDED"]
    <2>1. HasRow(k) BY <1>5, RowFacts DEF Refund
    <2>3. /\ record \in Row /\ record.state = "REFUNDED"
          /\ record.resource = rows[k].resource /\ record.amount = rows[k].amount
      BY <1>2, <2>1
    <2>4. Begin(p, "refund", k, record) BY <1>5 DEF Refund
    <2> HIDE DEF record
    <2>5. Ready("refund", k, record)
      BY <1>3, <1>5, <2>1, <2>3 DEF Refund, Ready, Ops, Covered
    <2> QED BY <2>3, <2>4, <2>5 DEF Ops
  <1>6. Commit(p, k) \/ Release(p, k) \/ ReconcileSettles(p, k) => Goal
    <2>1. Commit(p, k) => Held(k) /\ Covered(reserved, k)
            /\ Begin(p, "commit", k, [rows[k] EXCEPT !.state = "COMMITTED"])
      BY DEF Commit, Held
    <2>2. Release(p, k) => Held(k) /\ Covered(reserved, k)
            /\ Begin(p, "release", k, [rows[k] EXCEPT !.state = "RELEASED"])
      BY DEF Release, Held
    <2> HIDE DEF Goal
    <2> QED BY <1>4, <2>1, <2>2 DEF ReconcileSettles
  <1> HIDE DEF Goal
  <1> QED BY <1>1, <1>5, <1>6 DEF Call, Goal

-----------------------------------------------------------------------------
LEMMA InitIInv == Init => IInv
  <1> SUFFICES ASSUME Init PROVE IInv OBVIOUS
  <1>1. TypeOK BY SingleHostAssumption DEF Init, TypeOK, Snapshots
  <1>2. I8 /\ Unregistered BY DEF Init, I8, Unregistered
  <1>3. JournalOK /\ PositionOK BY DEF Init, JournalOK, PositionOK
  <1> QED BY <1>1, <1>2, <1>3 DEF IInv

\* Steps that leave the counters, the reservations and the journal alone.
LEMMA ControlStep ==
    ASSUME IInv, UNCHANGED <<counters, rows, journal>>,
           up' \subseteq Procs, holder' \in Procs \cup {NoProc},
           pc' \in {"free", "count", "store", "clear", "rollback", "replay", "drop"},
           FailuresOK',
           holder' = NoProc <=> pc' = "free",
           pc' # "free" => journal # NoTx,
           pc' = "count" => Uncounted,
           pc' \in {"store", "rollback", "replay"} => Counted,
           pc' = "rollback" => journal.op = "reserve"
    PROVE  IInv'
  <1>1. TypeOK' BY DEF IInv, TypeOK, counters, FailuresOK
  <1>2. I8' /\ Unregistered' /\ JournalOK'
    BY DEF IInv, I8, Unregistered, JournalOK, HasRow, counters
  <1>3. (Counted' <=> Counted) /\ (Uncounted' <=> Uncounted)
    BY DEF Counted, Uncounted, Snapshot, counters
  <1>4. PositionOK'
    BY <1>3 DEF IInv, PositionOK
  <1> QED BY <1>1, <1>2, <1>4 DEF IInv

LEMMA RegisterStep ==
    ASSUME IInv, NEW p \in Procs, NEW r \in Resources, NEW c \in Capacities,
           RegisterResource(p, r, c)
    PROVE  IInv'
  <1> USE DEF RegisterResource, control, failures
  <1>1. TypeOK' BY SingleHostAssumption DEF IInv, TypeOK
  <1>2. I8' BY SingleHostAssumption DEF IInv, TypeOK, I8, Unregistered
  <1>3. Unregistered' /\ JournalOK' BY DEF IInv, Unregistered, JournalOK, HasRow
  <1>4. (Counted' <=> Counted) /\ (Uncounted' <=> Uncounted)
    BY DEF Counted, Uncounted, Snapshot
  <1>5. PositionOK' BY <1>4 DEF IInv, PositionOK
  <1> QED BY <1>1, <1>2, <1>3, <1>5 DEF IInv

\* The two sides of a fresh journal are those of its operation.
LEMMA AfterSides ==
    ASSUME TypeOK, NEW op, NEW k, NEW record, Ready(op, k, record)
    PROVE  /\ After(op, record.resource, record.amount) \in Snapshots
           /\ Snapshot(record.resource) \in Snapshots
           /\ Sides(op, Snapshot(record.resource),
                    After(op, record.resource, record.amount), record.amount)
  <1> DEFINE r == record.resource
             a == record.amount
  <1>1. r \in Resources /\ a \in Nat /\ a > 0
    BY AmountFacts DEF Ready, Row
  <1>2. reserved[r] \in Nat /\ consumed[r] \in Nat
    BY <1>1 DEF TypeOK
  <1>3. /\ op \in Ops
        /\ op \in {"commit", "release"} => reserved[r] >= a
        /\ op = "refund" => consumed[r] >= a
    BY DEF Ready
  <1> SUFFICES /\ After(op, r, a) \in Snapshots /\ Snapshot(r) \in Snapshots
               /\ Sides(op, Snapshot(r), After(op, r, a), a)
    OBVIOUS
  <1> HIDE DEF r, a
  <1>4. CASE op = "reserve"
    BY <1>1, <1>2, <1>4 DEF After, Snapshot, Snapshots, Sides
  <1>5. CASE op = "commit"
    <2>1. After(op, r, a) = [reserved |-> reserved[r] - a, consumed |-> consumed[r] + a]
      BY <1>5 DEF After, Snapshot
    <2>2. reserved[r] - a \in Nat /\ consumed[r] + a \in Nat BY <1>1, <1>2, <1>3, <1>5
    <2> QED BY <1>1, <1>2, <1>3, <1>5, <2>1, <2>2 DEF Snapshot, Snapshots, Sides
  <1>6. CASE op = "release"
    BY <1>1, <1>2, <1>3, <1>6 DEF After, Snapshot, Snapshots, Sides
  <1>7. CASE op = "refund"
    BY <1>1, <1>2, <1>3, <1>7 DEF After, Snapshot, Snapshots, Sides
  <1> QED BY <1>3, <1>4, <1>5, <1>6, <1>7 DEF Ops

\* The decimals of a sum or a difference.
LEMMA SpelledFacts ==
    ASSUME TypeOK, NEW op, NEW r \in Resources, NEW a \in Amounts
    PROVE  AfterSpelled(op, r, a) \in Snapshots
  <1>1. spelled[r] \in Snapshots /\ Decimals[a] \in Nat
    BY SingleHostAssumption DEF TypeOK
  <1>2. /\ Longer(spelled[r].reserved, Decimals[a]) \in Nat
        /\ Longer(spelled[r].consumed, Decimals[a]) \in Nat
    BY <1>1 DEF Snapshots, Longer
  <1> QED BY <1>1, <1>2 DEF AfterSpelled, Snapshots

LEMMA BeginStep ==
    ASSUME IInv, NEW p \in Procs, NEW op \in Ops, NEW k \in Keys, NEW record \in Row,
           Ready(op, k, record), Begin(p, op, k, record)
    PROVE  IInv'
  <1> USE DEF Begin, failures
  <1>0. /\ spelled[record.resource] \in Snapshots
        /\ AfterSpelled(op, record.resource, record.amount) \in Snapshots
    BY SpelledFacts DEF IInv, TypeOK, Row
  <1>1. /\ After(op, record.resource, record.amount) \in Snapshots
        /\ Snapshot(record.resource) \in Snapshots
        /\ Sides(op, Snapshot(record.resource),
                 After(op, record.resource, record.amount), record.amount)
    BY AfterSides DEF IInv
  <1>2. journal' \in Tx /\ journal' # NoTx
    BY <1>0, <1>1 DEF Tx, NoTx
  <1>3. TypeOK' BY <1>2 DEF IInv, TypeOK, counters
  <1>4. I8' /\ Unregistered' BY DEF IInv, I8, Unregistered, counters
  <1>5. JournalOK'
    BY <1>1 DEF JournalOK, Ready, HasRow, counters
  <1>6. Uncounted'
    BY DEF Uncounted, Snapshot, counters
  <1>7. PositionOK'
    BY <1>2, <1>6, SingleHostAssumption DEF PositionOK
  <1> QED BY <1>3, <1>4, <1>5, <1>7 DEF IInv

\* Reservations change, the record a journal names keeps its binding.
LEMMA RowsStep ==
    ASSUME IInv, UNCHANGED <<counters, journal>>, NEW k \in Keys, NEW row \in Row,
           rows' = [rows EXCEPT ![k] = row],
           journal # NoTx /\ journal.op # "reserve" /\ journal.key = k =>
               row.resource = journal.record.resource /\ row.amount = journal.record.amount,
           up' = up, holder' = holder, UNCHANGED failures,
           \/ pc' = pc
           \/ pc = "store" /\ pc' = "clear"
           \/ pc = "replay" /\ pc' = "drop"
    PROVE  IInv'
  <1>1. TypeOK' BY DEF IInv, TypeOK, counters, failures
  <1>2. I8' /\ Unregistered' BY DEF IInv, I8, Unregistered, counters
  <1>3. JournalOK'
    <2> SUFFICES ASSUME journal # NoTx PROVE JournalOK' BY DEF JournalOK
    <2>1. journal.key \in Keys BY JournalFacts DEF IInv
    <2>2. row # NoRow BY DEF Row, NoRow
    <2>3. rows \in [Keys -> Row \cup {NoRow}] BY DEF IInv, TypeOK
    <2> QED BY <2>1, <2>2, <2>3 DEF IInv, JournalOK, HasRow, counters
  <1>4. (Counted' <=> Counted) /\ (Uncounted' <=> Uncounted)
    BY DEF Counted, Uncounted, Snapshot, counters
  <1>5. PositionOK' BY <1>4 DEF IInv, PositionOK
  <1> QED BY <1>1, <1>2, <1>3, <1>5 DEF IInv

LEMMA ParkStep ==
    ASSUME IInv, NEW p \in Procs, NEW k \in Keys, ReconcileParks(p, k)
    PROVE  IInv'
  <1> DEFINE row == [rows[k] EXCEPT !.state = "UNKNOWN"]
  <1>1. rows[k] \in Row BY RowFacts DEF IInv, ReconcileParks, Held
  <1>2. row \in Row /\ row.resource = rows[k].resource /\ row.amount = rows[k].amount
    BY <1>1 DEF Row
  <1>3. rows' = [rows EXCEPT ![k] = row]
    BY DEF ReconcileParks
  <1> HIDE DEF row
  <1>4. journal # NoTx /\ journal.op # "reserve" /\ journal.key = k =>
          row.resource = journal.record.resource /\ row.amount = journal.record.amount
    BY <1>2 DEF IInv, JournalOK
  <1> QED BY <1>2, <1>3, <1>4, RowsStep DEF ReconcileParks, control

LEMMA StoreReplayStep ==
    ASSUME IInv, NEW p \in Procs, StoreStep(p) \/ ReplayStep(p)
    PROVE  IInv'
  <1>1. journal # NoTx /\ TypeOK
    BY DEF IInv, PositionOK, StoreStep, ReplayStep, At
  <1>2. journal.key \in Keys /\ journal.record \in Row BY <1>1, JournalFacts
  <1>3. CASE StoreStep(p) \/ journal.op = "reserve"
    BY <1>2, <1>3, RowsStep DEF StoreStep, ReplayStep, Goto, At
  <1>4. CASE ReplayStep(p) /\ journal.op # "reserve"
    <2> DEFINE k == journal.key
               row == [rows[k] EXCEPT !.state = journal.record.state]
    <2>1. /\ HasRow(k) /\ rows[k].resource = journal.record.resource
          /\ rows[k].amount = journal.record.amount
      BY <1>1, <1>4 DEF IInv, JournalOK
    <2>2. rows[k] \in Row BY <1>1, <1>2, <2>1, RowFacts
    <2>3. row \in Row /\ row.resource = rows[k].resource /\ row.amount = rows[k].amount
      BY <1>2, <2>2 DEF Row
    <2>4. rows' = [rows EXCEPT ![k] = row] BY <1>4 DEF ReplayStep
    <2>5. k \in Keys BY <1>2
    <2> HIDE DEF row, k
    <2> QED BY <1>4, <2>1, <2>3, <2>4, <2>5, RowsStep DEF ReplayStep, Goto, At
  <1> QED BY <1>3, <1>4

-----------------------------------------------------------------------------
\* The coordinator keeps the text of every counter a text.
LEMMA ReleaseSpelled ==
    ASSUME TypeOK, NEW r \in Resources, NEW a \in Amounts, CoordinatorRelease(r, a)
    PROVE  spelled' \in [Resources -> Snapshots]
  <1>1. spelled \in [Resources -> Snapshots] /\ spelled[r] \in Snapshots
    BY DEF TypeOK
  <1>2. Decimals[a] \in Nat /\ spelled[r].reserved \in Nat
    BY <1>1, SingleHostAssumption DEF Snapshots
  <1> DEFINE n == IF reserved[r] <= a THEN 0 ELSE Longer(spelled[r].reserved, Decimals[a])
  <1>3. n \in Nat BY <1>2 DEF Longer
  <1>4. spelled' = [spelled EXCEPT ![r] = [spelled[r] EXCEPT !.reserved = n]]
    BY DEF CoordinatorRelease
  <1> HIDE DEF n
  <1>5. [spelled[r] EXCEPT !.reserved = n] \in Snapshots
    BY <1>1, <1>3 DEF Snapshots
  <1> QED BY <1>1, <1>4, <1>5

LEMMA UpdateSpelled ==
    ASSUME TypeOK, journal # NoTx,
           CoordinatorUpdate(journal.op, journal.record.resource, journal.record.amount)
    PROVE  spelled' \in [Resources -> Snapshots]
  <1>1. journal.record.resource \in Resources /\ journal.record.amount \in Amounts
    BY JournalFacts DEF Row
  <1>2. CASE journal.op = "release"
    BY <1>1, <1>2, ReleaseSpelled DEF CoordinatorUpdate
  <1>3. CASE journal.op # "release"
    BY <1>1, <1>3, SpelledFacts DEF CoordinatorUpdate, CoordinatorAdd, TypeOK
  <1> QED BY <1>2, <1>3

\* What the coordinator writes is the after side of the journal.
LEMMA UpdateFacts ==
    ASSUME IInv, journal # NoTx, Uncounted,
           CoordinatorAccepts(journal.op, journal.record.resource, journal.record.amount),
           CoordinatorUpdate(journal.op, journal.record.resource, journal.record.amount)
    PROVE  /\ UNCHANGED <<registered, capacity>>
           /\ reserved' \in [Resources -> Nat] /\ consumed' \in [Resources -> Nat]
           /\ spelled' \in [Resources -> Snapshots]
           /\ \A q \in Resources : q # journal.record.resource =>
                 reserved'[q] = reserved[q] /\ consumed'[q] = consumed[q]
           /\ reserved'[journal.record.resource] = journal.after.reserved
           /\ consumed'[journal.record.resource] = journal.after.consumed
           /\ journal.after.reserved + journal.after.consumed
                <= capacity[journal.record.resource]
  <1> DEFINE r == journal.record.resource
             a == journal.record.amount
             b == journal.before
             c == journal.after
  <1>1. /\ r \in Resources /\ a \in Nat /\ a > 0 /\ journal.op \in Ops
        /\ b.reserved \in Nat /\ b.consumed \in Nat
        /\ c.reserved \in Nat /\ c.consumed \in Nat
    BY JournalFacts DEF IInv
  <1>2. reserved[r] = b.reserved /\ consumed[r] = b.consumed
    BY SideFacts DEF IInv
  <1>3. Sides(journal.op, b, c, a) BY DEF IInv, JournalOK
  <1>4. /\ reserved \in [Resources -> Nat] /\ consumed \in [Resources -> Nat]
        /\ capacity \in [Resources -> Nat] /\ reserved[r] + consumed[r] <= capacity[r]
    BY <1>1 DEF IInv, TypeOK, I8
  <1>5. CoordinatorAccepts(journal.op, r, a) /\ CoordinatorUpdate(journal.op, r, a) OBVIOUS
  <1>10. spelled' \in [Resources -> Snapshots]
    BY UpdateSpelled DEF IInv
  <1> SUFFICES /\ UNCHANGED <<registered, capacity>>
               /\ reserved' \in [Resources -> Nat] /\ consumed' \in [Resources -> Nat]
               /\ \A q \in Resources : q # r =>
                     reserved'[q] = reserved[q] /\ consumed'[q] = consumed[q]
               /\ reserved'[r] = c.reserved /\ consumed'[r] = c.consumed
               /\ c.reserved + c.consumed <= capacity[r]
    BY <1>10
  <1> HIDE DEF r, a, b, c
  <1>6. CASE journal.op = "reserve"
    BY <1>1, <1>2, <1>3, <1>4, <1>5, <1>6 DEF Sides, CoordinatorAccepts, CoordinatorUpdate, CoordinatorAdd
  <1>7. CASE journal.op = "commit"
    BY <1>1, <1>2, <1>3, <1>4, <1>5, <1>7 DEF Sides, CoordinatorAccepts, CoordinatorUpdate, CoordinatorAdd
  <1>8. CASE journal.op = "release"
    BY <1>1, <1>2, <1>3, <1>4, <1>5, <1>8
    DEF Sides, CoordinatorUpdate, CoordinatorRelease, Minus
  <1>9. CASE journal.op = "refund"
    BY <1>1, <1>2, <1>3, <1>4, <1>5, <1>9 DEF Sides, CoordinatorAccepts, CoordinatorUpdate, CoordinatorAdd
  <1> QED BY <1>1, <1>6, <1>7, <1>8, <1>9, <1>10 DEF Ops

\* A write of the counters of the journalled resource, to either side.
LEMMA SideStep ==
    ASSUME IInv, journal # NoTx, UNCHANGED <<registered, capacity, rows, journal, up>>,
           reserved' \in [Resources -> Nat], consumed' \in [Resources -> Nat],
           spelled' \in [Resources -> Snapshots],
           \A q \in Resources : q # journal.record.resource =>
               reserved'[q] = reserved[q] /\ consumed'[q] = consumed[q],
           reserved'[journal.record.resource] + consumed'[journal.record.resource]
               <= capacity[journal.record.resource],
           Counted' \/ Uncounted',
           holder' \in Procs \cup {NoProc},
           pc' \in {"free", "clear"} \/ (pc' = "store" /\ Counted'),
           holder' = NoProc <=> pc' = "free",
           FailuresOK'
    PROVE  IInv'
  <1>1. TypeOK' BY DEF IInv, TypeOK, FailuresOK
  <1>2. I8' BY DEF IInv, TypeOK, I8
  <1>3. Unregistered' /\ JournalOK'
    BY DEF IInv, Unregistered, JournalOK, HasRow
  <1>4. PositionOK' BY DEF PositionOK
  <1> QED BY <1>1, <1>2, <1>3, <1>4 DEF IInv

LEMMA CountStep ==
    ASSUME IInv, NEW p \in Procs, CountersStep(p)
    PROVE  IInv'
  <1>1. journal # NoTx /\ Uncounted /\ TypeOK /\ holder = p /\ pc = "count"
    BY DEF IInv, PositionOK, CountersStep, At
  <1>2. CASE CoordinatorAccepts(journal.op, journal.record.resource, journal.record.amount)
    <2>1. CoordinatorUpdate(journal.op, journal.record.resource, journal.record.amount)
      BY <1>2 DEF CountersStep
    <2>2. journal' = journal /\ UNCHANGED <<rows, up, holder, failures>> /\ pc' = "store"
      BY <1>2 DEF CountersStep, Goto
    <2>3. Counted' BY <1>1, <1>2, <2>1, <2>2, UpdateFacts, SideFactsNext
    <2>4. holder \in Procs \cup {NoProc} /\ (holder = NoProc <=> pc = "free")
          /\ FailuresOK'
      BY <2>2 DEF IInv, TypeOK, PositionOK, FailuresOK, failures
    <2> QED BY <1>1, <1>2, <2>1, <2>2, <2>3, <2>4, UpdateFacts, SideStep
  <1>3. CASE ~CoordinatorAccepts(journal.op, journal.record.resource, journal.record.amount)
    BY <1>1, <1>3, ControlStep DEF CountersStep, Goto, IInv, TypeOK, PositionOK, FailuresOK, failures
  <1> QED BY <1>2, <1>3

\* The rollback of a reserve returns to the before side.
LEMMA RollbackFacts ==
    ASSUME IInv, journal # NoTx, Counted, journal.op = "reserve",
           CoordinatorRelease(journal.record.resource, journal.record.amount)
    PROVE  /\ UNCHANGED <<registered, capacity, consumed>>
           /\ reserved' \in [Resources -> Nat] /\ spelled' \in [Resources -> Snapshots]
           /\ \A q \in Resources : q # journal.record.resource => reserved'[q] = reserved[q]
           /\ reserved'[journal.record.resource] = journal.before.reserved
           /\ reserved'[journal.record.resource] <= reserved[journal.record.resource]
           /\ consumed[journal.record.resource] = journal.before.consumed
  <1> DEFINE r == journal.record.resource
             a == journal.record.amount
  <1>1. /\ r \in Resources /\ a \in Nat /\ a > 0
        /\ journal.before.reserved \in Nat /\ journal.before.consumed \in Nat
    BY JournalFacts DEF IInv
  <1>2. reserved[r] = journal.after.reserved /\ consumed[r] = journal.after.consumed
    BY SideFacts DEF IInv
  <1>3. /\ journal.after.reserved = journal.before.reserved + a
        /\ journal.after.consumed = journal.before.consumed
    BY DEF IInv, JournalOK, Sides
  <1>4. reserved \in [Resources -> Nat] BY DEF IInv, TypeOK
  <1>5. CoordinatorRelease(r, a) OBVIOUS
  <1>6. spelled' \in [Resources -> Snapshots]
    BY JournalFacts, ReleaseSpelled DEF IInv, Row
  <1> SUFFICES /\ UNCHANGED <<registered, capacity, consumed>>
               /\ reserved' \in [Resources -> Nat]
               /\ \A q \in Resources : q # r => reserved'[q] = reserved[q]
               /\ reserved'[r] = journal.before.reserved /\ reserved'[r] <= reserved[r]
               /\ consumed[r] = journal.before.consumed
    BY <1>6
  <1> HIDE DEF r, a
  <1>7. /\ reserved' = [reserved EXCEPT ![r] = Minus(@, a)]
        /\ UNCHANGED <<registered, capacity, consumed>>
    BY <1>5 DEF CoordinatorRelease
  <1> QED BY <1>1, <1>2, <1>3, <1>4, <1>7 DEF Minus

LEMMA RollbackKeeps ==
    ASSUME IInv, NEW p \in Procs, RollbackStep(p)
    PROVE  IInv'
  <1>1. /\ journal # NoTx /\ Counted /\ TypeOK /\ journal.op = "reserve"
        /\ holder = p /\ pc = "rollback"
    BY DEF IInv, PositionOK, RollbackStep, At
  <1>2. /\ CoordinatorRelease(journal.record.resource, journal.record.amount)
        /\ journal' = journal /\ UNCHANGED <<rows, up, holder, failures>> /\ pc' = "clear"
    BY DEF RollbackStep, Goto
  <1>3. /\ UNCHANGED <<registered, capacity, consumed>>
        /\ reserved' \in [Resources -> Nat] /\ spelled' \in [Resources -> Snapshots]
        /\ \A q \in Resources : q # journal.record.resource => reserved'[q] = reserved[q]
        /\ reserved'[journal.record.resource] = journal.before.reserved
        /\ reserved'[journal.record.resource] <= reserved[journal.record.resource]
        /\ consumed[journal.record.resource] = journal.before.consumed
    BY <1>1, <1>2, RollbackFacts
  <1>4. Uncounted' BY <1>1, <1>2, <1>3, SideFactsNext
  <1>5. journal.record.resource \in Resources BY <1>1, JournalFacts
  <1>6. consumed \in [Resources -> Nat] BY <1>1 DEF TypeOK
  <1>7. reserved'[journal.record.resource] + consumed'[journal.record.resource]
          <= capacity[journal.record.resource]
    BY <1>3, <1>5, <1>6 DEF IInv, I8, TypeOK
  <1>8. holder' \in Procs \cup {NoProc} /\ (holder' = NoProc <=> pc' = "free")
        /\ FailuresOK'
    BY <1>1, <1>2, SingleHostAssumption DEF TypeOK, FailuresOK, failures
  <1> QED BY <1>1, <1>2, <1>3, <1>4, <1>6, <1>7, <1>8, SideStep

\* The journal is removed.
LEMMA ClearKeeps ==
    ASSUME IInv, NEW p \in Procs, ClearStep(p) \/ DropStep(p)
    PROVE  IInv'
  <1> USE DEF ClearStep, DropStep, Unlock, failures
  <1>1. TypeOK' BY DEF IInv, TypeOK, counters
  <1>2. I8' /\ Unregistered' /\ JournalOK'
    BY DEF IInv, I8, Unregistered, JournalOK, counters
  <1>3. PositionOK' BY DEF PositionOK
  <1> QED BY <1>1, <1>2, <1>3 DEF IInv

LEMMA ConstructKeeps ==
    ASSUME IInv, NEW p \in Procs, Construct(p)
    PROVE  IInv'
  BY ControlStep, SingleHostAssumption
  DEF IInv, TypeOK, PositionOK, Construct, CountedText, FailuresOK, failures

LEMMA FaultsGrow ==
    ASSUME TypeOK, NEW kind \in Kinds, Fault(kind)
    PROVE  FailuresOK'
  BY SingleHostAssumption DEF TypeOK, Fault, FailuresOK

LEMMA CrashKeeps ==
    ASSUME IInv, HostCrash \/ \E p \in Procs : ProcessCrash(p)
    PROVE  IInv'
  <1>1. CASE HostCrash
    BY <1>1, ControlStep, FaultsGrow DEF IInv, HostCrash, Unlock, Kinds
  <1>2. ASSUME NEW p \in Procs, ProcessCrash(p) PROVE IInv'
    BY <1>2, ControlStep, FaultsGrow DEF IInv, TypeOK, PositionOK, ProcessCrash, Unlock, Kinds
  <1> QED BY <1>1, <1>2

LEMMA RaiseKeeps ==
    ASSUME IInv, NEW p \in Procs, WriteRaises(p)
    PROVE  IInv'
  <1>1. FailuresOK' BY FaultsGrow DEF IInv, WriteRaises, Kinds
  <1>2. CASE UNCHANGED counters
    BY <1>1, <1>2, ControlStep DEF IInv, TypeOK, PositionOK, WriteRaises, Unlock, At
  <1>3. CASE /\ pc = "count" /\ holder = p /\ Unlock
             /\ CoordinatorAccepts(journal.op, journal.record.resource, journal.record.amount)
             /\ CoordinatorUpdate(journal.op, journal.record.resource, journal.record.amount)
    <2>1. journal # NoTx /\ Uncounted /\ TypeOK BY <1>3 DEF IInv, PositionOK
    <2>2. UNCHANGED <<rows, journal, up>> BY DEF WriteRaises
    <2>3. Counted' BY <1>3, <2>1, <2>2, UpdateFacts, SideFactsNext
    <2>4. holder' = NoProc /\ pc' = "free" BY <1>3 DEF Unlock
    <2> QED BY <1>1, <1>3, <2>1, <2>2, <2>3, <2>4, UpdateFacts, SideStep
  <1> QED BY <1>2, <1>3 DEF WriteRaises

LEMMA NextIInv == IInv /\ [Next]_vars => IInv'
  <1> SUFFICES ASSUME IInv, [Next]_vars PROVE IInv' OBVIOUS
  <1>1. CASE UNCHANGED vars
    BY <1>1, ControlStep DEF vars, control, failures, IInv, TypeOK, PositionOK, FailuresOK
  <1>2. ASSUME NEW p \in Procs, NEW r \in Resources, NEW c \in Capacities,
               RegisterResource(p, r, c)
        PROVE  IInv'
    BY <1>2, RegisterStep
  <1>3. ASSUME NEW p \in Procs, NEW k \in Keys, Call(p, k) PROVE IInv'
    BY <1>3, CallBegins, ParkStep, BeginStep
  <1>4. ASSUME NEW p \in Procs, Step(p) PROVE IInv'
    BY <1>4, CountStep, StoreReplayStep, ClearKeeps, RollbackKeeps DEF Step
  <1>5. ASSUME NEW p \in Procs, Construct(p) \/ WriteRaises(p) PROVE IInv'
    BY <1>5, ConstructKeeps, RaiseKeeps
  <1>6. CASE HostCrash \/ \E p \in Procs : ProcessCrash(p)
    BY <1>6, CrashKeeps
  <1> QED BY <1>1, <1>2, <1>3, <1>4, <1>5, <1>6 DEF Next

-----------------------------------------------------------------------------
(* IInv is an invariant of the specification, under every kind of failure. *)
THEOREM InductiveInvariant == Spec => []IInv
  BY InitIInv, NextIInv, PTL DEF Spec

(* Type correctness: no sequence of failures and lost journals takes a     *)
(* counter below zero.                                                     *)
THEOREM TypeCorrect == Spec => []TypeOK
  BY InductiveInvariant, PTL DEF IInv

(* I8 "at all times": no interleaving of processes, crash at any write or  *)
(* lost journal takes a resource over its capacity.                        *)
THEOREM BudgetNeverExceeded == Spec => []I8
  BY InductiveInvariant, PTL DEF IInv

(* What host failures add: a journal left behind means that no object is   *)
(* alive to overwrite it; the record journalled by the holder is still the *)
(* one its checks were made on; a journal about to be removed was applied. *)
HostInv ==
    /\ journal # NoTx /\ (holder = NoProc \/ pc \in {"replay", "drop"}) => up = {}
    /\ pc = "count" => Ready(journal.op, journal.key, journal.record)
    /\ pc \in {"clear", "drop"} /\ Counted => rows[journal.key] = journal.record
    /\ pc # "rollback"

(* The text of the counters is that of the side their values are on, but   *)
(* for a release to zero; until they are written the journal speaks of the *)
(* text on disk.                                                           *)
SpellingOK ==
    journal # NoTx =>
        /\ Uncounted => UncountedText
        /\ Counted => CountedText \/ (journal.op = "release" /\ journal.after.reserved = 0)
        /\ pc = "count" =>
             journal.spelledAfter =
                 AfterSpelled(journal.op, journal.record.resource, journal.record.amount)

\* As long as only the host failed, the last step did not add another kind.
LEMMA HostOnlyStep ==
    ASSUME HostOnly', [Next]_vars
    PROVE  /\ HostOnly
           /\ \A p \in Procs : ~ProcessCrash(p) /\ ~WriteRaises(p)
  <1>1. seen \subseteq seen'
    BY DEF Next, vars, failures, control, RegisterResource, Call, Begin, Reserve, Commit,
           Release, Refund, ReconcileSettles, ReconcileParks, Step, CountersStep, StoreStep,
           ClearStep, RollbackStep, ReplayStep, DropStep, Construct, HostCrash,
           ProcessCrash, WriteRaises, Fault
  <1>2. \A p \in Procs : ~ProcessCrash(p) /\ ~WriteRaises(p)
    BY DEF ProcessCrash, WriteRaises, Fault, HostOnly
  <1> QED BY <1>1, <1>2 DEF HostOnly

\* The two sides of a journal are different.
LEMMA SidesDiffer ==
    ASSUME IInv, journal # NoTx
    PROVE  ~(Counted /\ Uncounted)
  <1>1. /\ journal.record.amount \in Nat /\ journal.record.amount > 0
        /\ journal.before.reserved \in Nat /\ journal.before.consumed \in Nat
        /\ journal.after.reserved \in Nat /\ journal.after.consumed \in Nat
    BY JournalFacts DEF IInv
  <1>2. Sides(journal.op, journal.before, journal.after, journal.record.amount)
    BY DEF IInv, JournalOK
  <1>3. ASSUME Counted, Uncounted
        PROVE  /\ journal.after.reserved = journal.before.reserved
               /\ journal.after.consumed = journal.before.consumed
    BY <1>3, SideFacts DEF IInv
  <1> QED BY <1>1, <1>2, <1>3 DEF Sides

\* With no live object there is no call.
LEMMA BeginsQuiet ==
    ASSUME HostInv, NEW p \in Procs, p \in up, holder = NoProc
    PROVE  journal = NoTx
  BY DEF HostInv

LEMMA ReplayMakesRecord ==
    ASSUME IInv, NEW p \in Procs, ReplayStep(p)
    PROVE  /\ journal # NoTx /\ Counted
           /\ rows' = [rows EXCEPT ![journal.key] = journal.record]
           /\ rows'[journal.key] = journal.record
  <1>1. journal # NoTx /\ Counted /\ TypeOK
    BY DEF IInv, PositionOK, ReplayStep, At
  <1>2. journal.key \in Keys /\ journal.record \in Row BY <1>1, JournalFacts
  <1>3. rows \in [Keys -> Row \cup {NoRow}] BY <1>1 DEF TypeOK
  <1>4. CASE journal.op = "reserve"
    BY <1>1, <1>2, <1>3, <1>4 DEF ReplayStep
  <1>5. CASE journal.op # "reserve"
    <2>1. /\ HasRow(journal.key)
          /\ rows[journal.key].resource = journal.record.resource
          /\ rows[journal.key].amount = journal.record.amount
      BY <1>1, <1>5 DEF IInv, JournalOK
    <2>2. rows[journal.key] \in Row BY <1>1, <1>2, <2>1, RowFacts
    <2>3. [rows[journal.key] EXCEPT !.state = journal.record.state] = journal.record
      BY <1>2, <2>1, <2>2 DEF Row
    <2>4. rows' = [rows EXCEPT ![journal.key] =
                     [rows[journal.key] EXCEPT !.state = journal.record.state]]
      BY <1>5 DEF ReplayStep
    <2> QED BY <1>1, <1>2, <1>3, <2>3, <2>4
  <1> QED BY <1>4, <1>5

LEMMA HostInvStep ==
    ASSUME HostOnly', IInv, HostInv, [Next]_vars
    PROVE  HostInv'
  <1>1. ASSUME UNCHANGED <<reserved, consumed, rows, journal, holder, pc>>,
               registered \subseteq registered',
               up' = up \/ (journal = NoTx /\ pc' = "free")
        PROVE  HostInv'
    <2>1. Counted' <=> Counted BY <1>1 DEF Counted, Snapshot
    <2>2. pc = "count" => Ready(journal.op, journal.key, journal.record)'
      BY <1>1 DEF HostInv, Ready, HasRow, RowState, Held
    <2> QED BY <1>1, <2>1, <2>2 DEF HostInv
  <1>2. ASSUME NEW p \in Procs, NEW r \in Resources, NEW c \in Capacities,
               RegisterResource(p, r, c)
        PROVE  HostInv'
    BY <1>1, <1>2 DEF RegisterResource, control
  <1>3. ASSUME NEW p \in Procs, NEW k \in Keys, Call(p, k)
        PROVE  HostInv'
    <2>1. CASE ReconcileParks(p, k)
      <3>1. journal = NoTx /\ journal' = NoTx /\ pc' = "free"
        BY <2>1, BeginsQuiet DEF ReconcileParks, control, IInv, PositionOK
      <3> QED BY <3>1 DEF HostInv
    <2>2. ASSUME NEW op \in Ops, NEW record \in Row,
                 Ready(op, k, record), Begin(p, op, k, record)
          PROVE  HostInv'
      <3>1. /\ journal'.op = op /\ journal'.key = k /\ journal'.record = record
            /\ pc' = "count" /\ holder' = p
            /\ UNCHANGED <<registered, reserved, consumed, rows>>
        BY <2>2 DEF Begin, counters
      <3>2. Ready(op, k, record)'
        BY <2>2, <3>1 DEF Ready, HasRow, RowState, Held
      <3>3. holder' # NoProc BY <3>1, SingleHostAssumption
      <3> QED BY <3>1, <3>2, <3>3 DEF HostInv
    <2> QED BY <1>3, <2>1, <2>2, CallBegins
  <1>4. ASSUME NEW p \in Procs, CountersStep(p) PROVE HostInv'
    <2>1. journal # NoTx /\ Uncounted /\ holder = p /\ p # NoProc
      BY <1>4, SingleHostAssumption DEF CountersStep, At, IInv, PositionOK
    <2>2. journal' = journal /\ holder' = p BY <1>4, <2>1 DEF CountersStep, Goto
    <2>3. CASE pc' = "store"
      BY <2>1, <2>2, <2>3 DEF HostInv
    <2>4. CASE pc' = "clear" /\ UNCHANGED counters
      <3>1. ~Counted' BY <2>1, <2>2, <2>4, SidesDiffer DEF Counted, Snapshot, counters
      <3> QED BY <2>1, <2>2, <2>4, <3>1 DEF HostInv
    <2> QED BY <1>4, <2>3, <2>4 DEF CountersStep, Goto
  <1>5. ASSUME NEW p \in Procs, StoreStep(p) PROVE HostInv'
    <2>1. journal # NoTx /\ holder = p /\ p # NoProc /\ journal.key \in Keys
      BY <1>5, JournalFacts, SingleHostAssumption DEF StoreStep, At, IInv, PositionOK
    <2>2. rows'[journal.key] = journal.record
      BY <1>5, <2>1 DEF StoreStep, IInv, TypeOK
    <2> QED BY <1>5, <2>1, <2>2 DEF StoreStep, Goto, HostInv
  <1>6. ASSUME NEW p \in Procs, ReplayStep(p) PROVE HostInv'
    BY <1>6, ReplayMakesRecord DEF ReplayStep, At, Goto, HostInv
  <1>7. ASSUME NEW p \in Procs, ClearStep(p) \/ DropStep(p) PROVE HostInv'
    BY <1>7 DEF ClearStep, DropStep, Unlock, HostInv
  <1>8. ASSUME NEW p \in Procs, RollbackStep(p) PROVE HostInv'
    BY <1>8 DEF RollbackStep, At, HostInv
  <1>9. ASSUME NEW p \in Procs, Construct(p) PROVE HostInv'
    <2>1. CASE journal = NoTx
      <3>1. pc \notin {"count", "clear", "drop", "replay"}
        BY <2>1 DEF IInv, PositionOK
      <3> QED BY <1>9, <2>1, <3>1 DEF Construct, HostInv
    <2>2. CASE journal # NoTx
      <3>1. /\ UNCHANGED <<counters, rows, journal, up>> /\ holder = NoProc
            /\ pc' = IF CountedText THEN "replay" ELSE "drop"
            /\ Recoverable
        BY <1>9, <2>2 DEF Construct
      <3>2. up = {} BY <2>2, <3>1 DEF HostInv
      <3>3. Counted' <=> Counted BY <3>1 DEF Counted, Snapshot, counters
      <3>4. pc' = "drop" => ~Counted
        BY <2>2, <3>1, SidesDiffer DEF Recoverable, UncountedText
      <3> QED BY <3>1, <3>2, <3>3, <3>4 DEF HostInv
    <2> QED BY <2>1, <2>2
  <1>10. CASE HostCrash
    BY <1>10 DEF HostCrash, Unlock, HostInv
  <1>11. ASSUME NEW p \in Procs, ProcessCrash(p) \/ WriteRaises(p) PROVE FALSE
    BY <1>11, HostOnlyStep
  <1>12. CASE UNCHANGED vars
    BY <1>1, <1>12 DEF vars, counters, control
  <1> QED
    BY <1>2, <1>3, <1>4, <1>5, <1>6, <1>7, <1>8, <1>9, <1>10, <1>11, <1>12 DEF Next, Step

\* Neither the counters nor the journal change.
LEMMA SpellingStays ==
    ASSUME SpellingOK, UNCHANGED <<reserved, consumed, spelled, journal>>,
           pc' = "count" => pc = "count"
    PROVE  SpellingOK'
  BY DEF SpellingOK, Counted, Uncounted, CountedText, UncountedText, Snapshot, AfterSpelled

LEMMA SpellingStep ==
    ASSUME HostOnly', IInv, HostInv, SpellingOK, [Next]_vars
    PROVE  SpellingOK'
  <1>1. ASSUME NEW p \in Procs, NEW r \in Resources, NEW c \in Capacities,
               RegisterResource(p, r, c)
        PROVE  SpellingOK'
    BY <1>1, SpellingStays DEF RegisterResource, control
  <1>2. ASSUME NEW p \in Procs, NEW k \in Keys, Call(p, k)
        PROVE  SpellingOK'
    <2>1. CASE ReconcileParks(p, k)
      BY <2>1, SpellingStays DEF ReconcileParks, counters, control
    <2>2. ASSUME NEW op \in Ops, NEW record \in Row,
                 Ready(op, k, record), Begin(p, op, k, record)
          PROVE  SpellingOK'
      <3>1. IInv' /\ journal' # NoTx /\ Uncounted'
        BY <2>2, BeginStep DEF IInv, PositionOK, Begin
      <3>2. ~Counted'
        <4>1. (IInv /\ journal # NoTx => ~(Counted /\ Uncounted))' BY SidesDiffer, PTL
        <4> QED BY <3>1, <4>1
      <3>3. /\ journal'.record = record /\ journal'.op = op /\ spelled' = spelled
            /\ journal'.spelledBefore = spelled[record.resource]
            /\ journal'.spelledAfter = AfterSpelled(op, record.resource, record.amount)
        BY <2>2 DEF Begin, counters
      <3>4. UncountedText' BY <3>1, <3>3 DEF UncountedText
      <3> QED BY <3>2, <3>3, <3>4 DEF SpellingOK, AfterSpelled
    <2> QED BY <1>2, <2>1, <2>2, CallBegins
  <1>3. ASSUME NEW p \in Procs, CountersStep(p)
        PROVE  SpellingOK'
    <2> DEFINE r == journal.record.resource
               a == journal.record.amount
    <2>1. /\ journal # NoTx /\ Uncounted /\ TypeOK /\ journal' = journal /\ pc' # "count"
          /\ journal.spelledAfter = AfterSpelled(journal.op, r, a)
      BY <1>3 DEF CountersStep, At, Goto, IInv, PositionOK, SpellingOK
    <2>2. CASE ~CoordinatorAccepts(journal.op, r, a)
      BY <1>3, <2>2, SpellingStays DEF CountersStep, Goto, counters
    <2>3. CASE CoordinatorAccepts(journal.op, r, a)
      <3>1. CoordinatorUpdate(journal.op, r, a) BY <1>3, <2>3 DEF CountersStep
      <3>2. Counted' BY <2>1, <2>3, <3>1, UpdateFacts, SideFactsNext
      <3>3. ~Uncounted'
        <4>1. IInv' BY <1>3, CountStep
        <4>2. (IInv /\ journal # NoTx => ~(Counted /\ Uncounted))' BY SidesDiffer, PTL
        <4> QED BY <2>1, <3>2, <4>1, <4>2
      <3>4. /\ r \in Resources /\ a \in Nat /\ spelled \in [Resources -> Snapshots]
            /\ reserved[r] = journal.before.reserved
            /\ journal.before.reserved \in Nat /\ journal.after.reserved \in Nat
        BY <2>1, JournalFacts, SideFacts DEF TypeOK
      <3>5. CASE journal.op # "release"
        <4>1. spelled'[r] = AfterSpelled(journal.op, r, a)
          BY <3>1, <3>4, <3>5 DEF CoordinatorUpdate, CoordinatorAdd
        <4>2. CountedText' BY <2>1, <3>2, <4>1 DEF CountedText
        <4> QED BY <2>1, <3>3, <4>2 DEF SpellingOK
      <3>6. CASE journal.op = "release" /\ reserved[r] <= a
        <4>1. journal.before.reserved >= a
              /\ journal.after.reserved = journal.before.reserved - a
          BY <2>1, <3>6 DEF IInv, JournalOK, Sides
        <4>2. journal.after.reserved = 0 BY <3>4, <3>6, <4>1
        <4> QED BY <2>1, <3>3, <3>6, <4>2 DEF SpellingOK
      <3>7. CASE journal.op = "release" /\ ~(reserved[r] <= a)
        <4>1. spelled'[r] = AfterSpelled(journal.op, r, a)
          BY <3>1, <3>4, <3>7 DEF CoordinatorUpdate, CoordinatorRelease, AfterSpelled
        <4>2. CountedText' BY <2>1, <3>2, <4>1 DEF CountedText
        <4> QED BY <2>1, <3>3, <4>2 DEF SpellingOK
      <3> QED BY <3>5, <3>6, <3>7
    <2> QED BY <2>2, <2>3
  <1>4. ASSUME NEW p \in Procs, StoreStep(p) \/ ReplayStep(p) PROVE SpellingOK'
    BY <1>4, SpellingStays DEF StoreStep, ReplayStep, Goto, counters
  <1>5. ASSUME NEW p \in Procs, ClearStep(p) \/ DropStep(p) PROVE SpellingOK'
    BY <1>5 DEF ClearStep, DropStep, SpellingOK
  <1>6. ASSUME NEW p \in Procs, RollbackStep(p) PROVE SpellingOK'
    BY <1>6 DEF RollbackStep, At, HostInv
  <1>7. ASSUME NEW p \in Procs, Construct(p) PROVE SpellingOK'
    BY <1>7, SpellingStays DEF Construct, counters
  <1>8. CASE HostCrash
    BY <1>8, SpellingStays DEF HostCrash, Unlock, counters
  <1>9. CASE UNCHANGED vars
    BY <1>9, SpellingStays DEF vars, counters, control
  <1> QED
    BY <1>1, <1>2, <1>3, <1>4, <1>5, <1>6, <1>7, <1>8, <1>9, HostOnlyStep DEF Next, Step

-----------------------------------------------------------------------------
\* Steps the protocol does not see.
LEMMA Unseen ==
    ASSUME UNCHANGED counters, recovered' = recovered
    PROVE  UNCHANGED Ledger!vars
  BY DEF counters, Ledger!vars

\* The write of the counters is the step of the protocol.
LEMMA CountIsAtomic ==
    ASSUME IInv, HostInv, NEW p \in Procs, CountersStep(p)
    PROVE  [Ledger!Next]_(Ledger!vars)
  <1> DEFINE r == journal.record.resource
             a == journal.record.amount
             k == journal.key
             t == journal.record
  <1>1. journal # NoTx /\ Uncounted /\ TypeOK /\ Ready(journal.op, k, t)
    BY DEF CountersStep, At, IInv, PositionOK, HostInv
  <1>2. /\ r \in Resources /\ a \in Nat /\ a > 0 /\ k \in Keys /\ t \in Row
        /\ journal.op \in Ops
    BY <1>1, JournalFacts
  <1>3. ~Counted BY <1>1, SidesDiffer
  <1>4. recovered = rows BY <1>3 DEF recovered
  <1>5. UNCHANGED <<rows, journal>> BY DEF CountersStep
  <1>6. CASE ~CoordinatorAccepts(journal.op, r, a)
    <2>1. UNCHANGED counters BY <1>6 DEF CountersStep
    <2>2. ~Counted' BY <1>3, <1>5, <2>1 DEF Counted, Snapshot, counters
    <2>3. recovered' = recovered BY <1>4, <1>5, <2>2 DEF recovered
    <2> QED BY <2>1, <2>3, Unseen
  <1>7. CASE CoordinatorAccepts(journal.op, r, a)
    <2>1. CoordinatorUpdate(journal.op, r, a) BY <1>7 DEF CountersStep
    <2>2. Counted' BY <1>1, <1>5, <1>7, <2>1, UpdateFacts, SideFactsNext
    <2>3. recovered' = [rows EXCEPT ![k] = t] BY <1>1, <1>5, <2>2 DEF recovered
    <2>4. /\ reserved \in [Resources -> Nat] /\ consumed \in [Resources -> Nat]
          /\ rows \in [Keys -> Row \cup {NoRow}]
      BY <1>1 DEF TypeOK
    <2>5. CASE journal.op = "reserve"
      <3>1. t = [state |-> "RESERVED", resource |-> r, amount |-> a] /\ ~HasRow(k)
            /\ r \in registered
        BY <1>1, <1>2, <2>5 DEF Ready, Row
      <3>2. /\ reserved[r] + consumed[r] + a <= capacity[r]
            /\ reserved' = [reserved EXCEPT ![r] = @ + a]
            /\ UNCHANGED <<registered, capacity, consumed>>
        BY <1>7, <2>1, <2>5 DEF CoordinatorAccepts, CoordinatorUpdate, CoordinatorAdd
      <3>3. a \in Amounts BY <1>2 DEF Row
      <3>4. rows[k] = NoRow BY <3>1 DEF HasRow
      <3> HIDE DEF r, a, k, t
      <3>5. Ledger!Reserve(k, a, r)
        BY <1>4, <2>3, <3>1, <3>2, <3>4 DEF Ledger!Reserve
      <3> QED BY <1>2, <3>3, <3>5 DEF Ledger!Next
    <2>6. ASSUME NEW s \in {"COMMITTED", "RELEASED", "REFUNDED"}, t.state = s,
                 journal.op # "reserve"
          PROVE  /\ recovered' = [recovered EXCEPT ![k].state = s]
                 /\ recovered[k].resource = r /\ recovered[k].amount = a
                 /\ recovered[k].state = RowState(k)
      <3>1. HasRow(k) /\ rows[k].resource = r /\ rows[k].amount = a
        BY <1>1, <2>6 DEF Ready
      <3>2. rows[k] \in Row BY <1>1, <1>2, <3>1, RowFacts
      <3>3. [rows[k] EXCEPT !.state = s] = t BY <1>2, <2>6, <3>1, <3>2 DEF Row
      <3>4. [rows EXCEPT ![k].state = s] = [rows EXCEPT ![k] = t] BY <3>3
      <3> QED BY <1>4, <2>3, <3>1, <3>4 DEF RowState
    <2>7. CASE journal.op = "commit"
      <3>1. t.state = "COMMITTED" /\ Held(k) BY <1>1, <2>7 DEF Ready
      <3>2. /\ reserved' = [reserved EXCEPT ![r] = @ - a]
            /\ consumed' = [consumed EXCEPT ![r] = @ + a]
            /\ UNCHANGED <<registered, capacity>>
        BY <2>1, <2>7 DEF CoordinatorUpdate, CoordinatorAdd
      <3>3. Ledger!Commit(k)
        BY <2>6, <2>7, <3>1, <3>2 DEF Held, Ledger!Commit, Ledger!Held, Ledger!Move
      <3> QED BY <1>2, <3>3 DEF Ledger!Next
    <2>8. CASE journal.op = "release"
      <3>1. t.state = "RELEASED" /\ Held(k) /\ reserved[r] >= a BY <1>1, <2>8 DEF Ready
      <3>2. CoordinatorRelease(r, a) BY <2>1, <2>8 DEF CoordinatorUpdate
      <3>3. /\ reserved' = [reserved EXCEPT ![r] = @ - a]
            /\ UNCHANGED <<registered, capacity, consumed>>
        BY <1>2, <2>4, <3>1, <3>2 DEF CoordinatorRelease, Minus
      <3>4. Ledger!Release(k)
        BY <2>6, <2>8, <3>1, <3>3 DEF Held, Ledger!Release, Ledger!Held, Ledger!Move
      <3> QED BY <1>2, <3>4 DEF Ledger!Next
    <2>9. CASE journal.op = "refund"
      <3>1. t.state = "REFUNDED" /\ RowState(k) = "COMMITTED" BY <1>1, <2>9 DEF Ready
      <3>2. /\ consumed' = [consumed EXCEPT ![r] = @ - a]
            /\ UNCHANGED <<registered, capacity, reserved>>
        BY <2>1, <2>9 DEF CoordinatorUpdate, CoordinatorAdd
      <3>3. Ledger!Refund(k)
        BY <2>6, <2>9, <3>1, <3>2 DEF Ledger!Refund, Ledger!Move
      <3> QED BY <1>2, <3>3 DEF Ledger!Next
    <2> QED BY <1>2, <2>5, <2>7, <2>8, <2>9 DEF Ops
  <1> QED BY <1>6, <1>7

LEMMA StepIsAtomic ==
    ASSUME HostOnly', IInv, HostInv, [Next]_vars
    PROVE  [Ledger!Next]_(Ledger!vars)
  <1> TypeOK BY DEF IInv
  <1> rows \in [Keys -> Row \cup {NoRow}] BY DEF TypeOK
  <1>1. ASSUME UNCHANGED <<counters, rows, journal>> PROVE UNCHANGED Ledger!vars
    <2>1. Counted' <=> Counted BY <1>1 DEF Counted, Snapshot, counters
    <2> QED BY <1>1, <2>1, Unseen DEF recovered
  <1>2. ASSUME NEW p \in Procs, NEW r \in Resources, NEW c \in Capacities,
               RegisterResource(p, r, c)
        PROVE  Ledger!Next
    <2>1. Counted' <=> Counted BY <1>2 DEF RegisterResource, Counted, Snapshot
    <2>2. recovered' = recovered BY <1>2, <2>1 DEF RegisterResource, recovered
    <2>3. Ledger!Register(r, c) BY <1>2, <2>2 DEF RegisterResource, Ledger!Register
    <2> QED BY <2>3 DEF Ledger!Next
  <1>3. ASSUME NEW p \in Procs, NEW k \in Keys, ReconcileParks(p, k)
        PROVE  [Ledger!Next]_(Ledger!vars)
    <2>1. journal = NoTx /\ journal' = NoTx
      BY <1>3, BeginsQuiet DEF ReconcileParks
    <2>2. recovered = rows /\ recovered' = rows' BY <2>1 DEF recovered
    <2>3. CASE RowState(k) = "RESERVED"
      <3>1. Ledger!Park(k)
        BY <1>3, <2>2, <2>3 DEF ReconcileParks, RowState, counters, Ledger!Park, Ledger!Move
      <3> QED BY <3>1 DEF Ledger!Next
    <2>4. CASE RowState(k) = "UNKNOWN"
      <3>1. rows[k] \in Row BY <2>4 DEF RowState, NoRow
      <3>2. [rows[k] EXCEPT !.state = "UNKNOWN"] = rows[k] BY <2>4, <3>1 DEF Row, RowState
      <3>3. rows' = rows BY <1>3, <3>2 DEF ReconcileParks
      <3> QED BY <1>3, <2>2, <3>3, Unseen DEF ReconcileParks
    <2> QED BY <1>3, <2>3, <2>4 DEF ReconcileParks, Held
  <1>4. ASSUME NEW p \in Procs, NEW k \in Keys, NEW op \in Ops, NEW record \in Row,
               Ready(op, k, record), Begin(p, op, k, record)
        PROVE  UNCHANGED Ledger!vars
    <2>1. journal = NoTx BY <1>4, BeginsQuiet DEF Begin
    <2>2. IInv' /\ journal' # NoTx /\ Uncounted'
      BY <1>4, BeginStep DEF IInv, PositionOK, Begin
    <2>3. ~Counted'
      <3>1. (IInv /\ journal # NoTx => ~(Counted /\ Uncounted))' BY SidesDiffer, PTL
      <3> QED BY <2>2, <3>1
    <2>4. recovered' = recovered BY <1>4, <2>1, <2>3 DEF recovered, Begin
    <2> QED BY <1>4, <2>4, Unseen DEF Begin
  <1>5. ASSUME NEW p \in Procs, StoreStep(p) \/ ReplayStep(p) PROVE UNCHANGED Ledger!vars
    <2>1. journal # NoTx /\ Counted /\ journal.key \in Keys
      BY <1>5, JournalFacts DEF StoreStep, ReplayStep, At, IInv, PositionOK
    <2>2. rows' = [rows EXCEPT ![journal.key] = journal.record]
      BY <1>5, ReplayMakesRecord DEF StoreStep
    <2>3. UNCHANGED <<counters, journal>> BY <1>5 DEF StoreStep, ReplayStep
    <2>4. Counted' BY <2>1, <2>3 DEF Counted, Snapshot, counters
    <2>5. recovered' = recovered BY <2>1, <2>2, <2>3, <2>4 DEF recovered
    <2> QED BY <2>3, <2>5, Unseen
  <1>6. ASSUME NEW p \in Procs, ClearStep(p) \/ DropStep(p) PROVE UNCHANGED Ledger!vars
    <2>1. UNCHANGED <<counters, rows>> /\ journal' = NoTx BY <1>6 DEF ClearStep, DropStep
    <2>2. journal # NoTx /\ (Counted => rows[journal.key] = journal.record)
      BY <1>6 DEF ClearStep, DropStep, At, IInv, PositionOK, HostInv
    <2>3. journal.key \in Keys BY <2>2, JournalFacts
    <2>4. recovered = rows BY <2>2, <2>3 DEF recovered
    <2>5. recovered' = rows BY <2>1 DEF recovered
    <2> QED BY <2>1, <2>4, <2>5, Unseen
  <1>7. ASSUME NEW p \in Procs, RollbackStep(p) PROVE FALSE
    BY <1>7 DEF RollbackStep, At, HostInv
  <1>8. ASSUME NEW p \in Procs, ProcessCrash(p) \/ WriteRaises(p) PROVE FALSE
    BY <1>8, HostOnlyStep
  <1>9. CASE HostCrash \/ UNCHANGED vars \/ \E p \in Procs : Construct(p)
    BY <1>1, <1>9 DEF HostCrash, vars, Construct
  <1> QED
    BY <1>2, <1>3, <1>4, <1>5, <1>6, <1>7, <1>8, <1>9, CallBegins, CountIsAtomic DEF Next, Step

-----------------------------------------------------------------------------
Sums == INSTANCE ConsensusBackend_proofs WITH committed <- consumed, rows <- recovered

\* What holds as long as only the host has failed.
HostSafe == HostOnly => HostInv /\ SpellingOK /\ Sums!Balanced

LEMMA AssumptionHolds == Sums!ProtocolAssumption
  BY SingleHostAssumption DEF Sums!ProtocolAssumption, NoRow

LEMMA InitHostSafe == Init => Ledger!Init /\ HostSafe
  <1> SUFFICES ASSUME Init PROVE Ledger!Init /\ HostSafe OBVIOUS
  <1>1. Ledger!Init /\ Sums!Init
    BY DEF Init, recovered, Ledger!Init, Sums!Init
  <1>2. HostInv /\ SpellingOK BY DEF Init, HostInv, SpellingOK
  <1>3. Sums!Balanced BY <1>1, AssumptionHolds, Sums!InitBalanced
  <1> QED BY <1>1, <1>2, <1>3 DEF HostSafe

LEMMA NextHostSafe ==
    ASSUME IInv, HostSafe, [Next]_vars
    PROVE  HostSafe' /\ (HostOnly' => [Ledger!Next]_(Ledger!vars))
  <1> SUFFICES ASSUME HostOnly'
               PROVE  /\ [Ledger!Next]_(Ledger!vars)
                      /\ (HostInv /\ SpellingOK /\ Sums!Balanced)'
    BY DEF HostSafe
  <1>1. HostInv /\ SpellingOK /\ Sums!Balanced BY HostOnlyStep DEF HostSafe
  <1>2. [Ledger!Next]_(Ledger!vars) BY <1>1, StepIsAtomic
  <1>3. [Sums!Next]_(Sums!vars)
    BY <1>2
    DEF Ledger!Next, Ledger!vars, Ledger!Register, Ledger!Reserve, Ledger!Park,
        Ledger!Commit, Ledger!Release, Ledger!Refund, Ledger!Held, Ledger!Move,
        Sums!Next, Sums!vars, Sums!Register, Sums!Reserve, Sums!Park,
        Sums!Commit, Sums!Release, Sums!Refund, Sums!Held, Sums!Move
  <1>4. Sums!Balanced' BY <1>1, <1>3, AssumptionHolds, Sums!StepBalanced
  <1> QED BY <1>1, <1>2, <1>4, HostInvStep, SpellingStep

LEMMA HostSafety == Spec => []HostSafe
  <1>1. Init => HostSafe BY InitHostSafe
  <1>2. IInv /\ HostSafe /\ [Next]_vars => HostSafe' BY NextHostSafe
  <1> QED BY <1>1, <1>2, InductiveInvariant, PTL DEF Spec

(* Whatever failed, the values recovery meets are those of one side of the *)
(* journal; and while only the host failed, the one journal it refuses is  *)
(* that of a release which left nothing reserved.                          *)
THEOREM RefusalsAreSpelling == Spec => []RefusalIsSpelling
  <1>1. IInv /\ HostSafe => RefusalIsSpelling
    BY DEF IInv, PositionOK, JournalOK, HostSafe, SpellingOK, RefusalIsSpelling, Recoverable
  <1> QED BY <1>1, InductiveInvariant, HostSafety, PTL

(* While only the host fails, the four writes of every mutator implement   *)
(* the atomic steps of the ConsensusBackend protocol, wherever it dies,    *)
(* however often recovery itself is interrupted, and whether or not        *)
(* recovery refuses in the end.                                            *)
THEOREM ImplementsTheProtocol == Spec => ImplementsProtocol
  <1>1. IInv /\ HostSafe /\ [Next]_vars => (HostOnly' => [Ledger!Next]_(Ledger!vars))
    BY NextHostSafe
  <1>2. Spec => [][HostOnly' => [Ledger!Next]_(Ledger!vars)]_vars
    BY <1>1, InductiveInvariant, HostSafety, PTL DEF Spec
  <1> QED BY <1>2, InitHostSafe DEF Spec, ImplementsProtocol

(* While only the host fails, a journal is removed only when the counters  *)
(* are the sums over the reservations: neither the method that wrote it    *)
(* nor a constructor that recovered it loses or repeats a change.          *)
THEOREM SettledLedgersAgree == Spec => []SettledLedgerAgrees
  <1>1. HostSafe => SettledLedgerAgrees
    <2> SUFFICES ASSUME Sums!LedgerAgrees, journal = NoTx PROVE Files!LedgerAgrees
      BY DEF SettledLedgerAgrees, HostSafe, Sums!Balanced
    <2>1. recovered = rows
      BY DEF recovered
    <2>2. \A r \in Resources :
             /\ reserved[r] = Sums!Spent(rows, r, {"RESERVED", "UNKNOWN"})
             /\ consumed[r] = Sums!Spent(rows, r, {"COMMITTED"})
      BY <2>1 DEF Sums!LedgerAgrees
    <2> QED
      BY <2>2
      DEF Sums!Spent, Sums!SumFunction, Sums!SumFunctionOnSet, Sums!FoldFunctionOnSet,
          Sums!MapThenFoldSet, Files!LedgerAgrees, Files!Spent, Files!SumFunction,
          Files!SumFunctionOnSet, Files!FoldFunctionOnSet, Files!MapThenFoldSet
  <1> QED BY <1>1, HostSafety, PTL
=============================================================================
