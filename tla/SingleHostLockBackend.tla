----------------------- MODULE SingleHostLockBackend -----------------------
(***************************************************************************)
(* SingleHostLockBackend of operations/consensus_backend.py over the       *)
(* DurableBudgetCoordinator of operations/budget.py.                       *)
(*                                                                         *)
(* The counters (budget.json) and the reservations (reservations.json) are *)
(* two files.  A mutator, under the file lock, journals the transition it  *)
(* is about to make (transaction.json: the new record and the counters     *)
(* before and after), changes the counters, changes the reservations and   *)
(* removes the journal: four durable writes.  A failure between two writes *)
(* leaves the journal behind, and only the constructor of a backend object *)
(* replays it.                                                             *)
(*                                                                         *)
(* Whoever holds the file lock has just read the files it works on, so the *)
(* locals of a method are the files themselves: pc says which write comes  *)
(* next.  A refused call writes nothing and is a stuttering step.          *)
(*                                                                         *)
(* Recovery compares the counters with the journal as decimal strings, so  *)
(* a counter is a value (reserved, consumed) and the number of decimals it *)
(* is written with (spelled): "10.0" and "10" are two texts of one value.  *)
(* Sums and differences keep the longer of two fractions.                  *)
(***************************************************************************)
EXTENDS Naturals, FiniteSets

CONSTANTS Keys, Resources, Amounts, Capacities,
          Procs, NoProc,
          Decimals,   \* how many decimals a caller writes an amount with
          MaxFaults   \* bound on the number of failures

ASSUME SingleHostAssumption ==
    /\ Amounts \subseteq Nat \ {0}
    /\ Capacities \subseteq Nat
    /\ NoProc \notin Procs
    /\ Decimals \in [Amounts -> Nat]
    /\ MaxFaults \in Nat

VARIABLES registered, capacity, reserved, consumed,  \* budget.json
          spelled,   \* the decimals the counters are written with
          rows,      \* reservations.json, one slot per idempotency key
          journal,   \* transaction.json
          up,        \* processes with a constructed backend object
          holder,    \* the process that holds the file lock
          pc,        \* the next write of the holder
          faults,    \* number of failures so far
          seen       \* history: the kinds of failure so far

counters == <<registered, capacity, reserved, consumed, spelled>>
control == <<up, holder, pc>>
failures == <<faults, seen>>
vars == <<counters, rows, journal, control, failures>>

NoRow == [state |-> "NONE"]
Row == [state : {"RESERVED", "UNKNOWN", "COMMITTED", "RELEASED", "REFUNDED"},
        resource : Resources, amount : Amounts]

HasRow(k) == rows[k] # NoRow
RowState(k) == rows[k].state
Held(k) == RowState(k) \in {"RESERVED", "UNKNOWN"}

\* _snapshot: the counters of one resource.
Snapshot(r) == [reserved |-> reserved[r], consumed |-> consumed[r]]
Snapshots == [reserved : Nat, consumed : Nat]

Kinds == {"host", "process", "exception"}
Ops == {"reserve", "commit", "release", "refund"}
NoTx == [op |-> "none"]
Tx == [op : Ops, key : Keys, record : Row, before : Snapshots, after : Snapshots,
       spelledBefore : Snapshots, spelledAfter : Snapshots]

TypeOK ==
    /\ registered \subseteq Resources
    /\ capacity \in [Resources -> Nat]
    /\ reserved \in [Resources -> Nat]
    /\ consumed \in [Resources -> Nat]
    /\ spelled \in [Resources -> Snapshots]
    /\ rows \in [Keys -> Row \cup {NoRow}]
    /\ journal \in Tx \cup {NoTx}
    /\ up \subseteq Procs
    /\ holder \in Procs \cup {NoProc}
    /\ pc \in {"free", "count", "store", "clear", "rollback", "replay", "drop"}
    /\ faults \in 0..MaxFaults
    /\ seen \subseteq Kinds

Init ==
    /\ registered = {}
    /\ capacity = [r \in Resources |-> 0]
    /\ reserved = [r \in Resources |-> 0]
    /\ consumed = [r \in Resources |-> 0]
    /\ spelled = [r \in Resources |-> [reserved |-> 1, consumed |-> 1]]
    /\ rows = [k \in Keys |-> NoRow]
    /\ journal = NoTx
    /\ up = {}
    /\ holder = NoProc
    /\ pc = "free"
    /\ faults = 0
    /\ seen = {}

-----------------------------------------------------------------------------
At(p, step) == holder = p /\ pc = step
Goto(step) == pc' = step /\ UNCHANGED <<up, holder>>
Unlock == holder' = NoProc /\ pc' = "free"

(* register_resource: one durable write, the counters start as "0.0"; a    *)
(* known resource is left alone.                                           *)
RegisterResource(p, r, c) ==
    /\ p \in up
    /\ r \notin registered
    /\ registered' = registered \cup {r}
    /\ capacity' = [capacity EXCEPT ![r] = c]
    /\ UNCHANGED <<reserved, consumed, spelled, rows, journal, control, failures>>

\* Mutant of After: the journal of a commit forgets what becomes consumed.
AfterMut(op, r, a) ==
    CASE op = "reserve" -> [Snapshot(r) EXCEPT !.reserved = @ + a]
      [] op = "refund"  -> [Snapshot(r) EXCEPT !.consumed = @ - a]
      [] OTHER          -> [Snapshot(r) EXCEPT !.reserved = @ - a]

(* The counters after an operation on amount a of resource r, as a mutator *)
(* writes them in its journal.                                             *)
After(op, r, a) ==
    CASE op = "reserve" -> [Snapshot(r) EXCEPT !.reserved = @ + a]
      [] op = "commit"  -> [Snapshot(r) EXCEPT !.reserved = @ - a, !.consumed = @ + a]
      [] op = "release" -> [Snapshot(r) EXCEPT !.reserved = @ - a]
      [] op = "refund"  -> [Snapshot(r) EXCEPT !.consumed = @ - a]

Longer(m, n) == IF m >= n THEN m ELSE n

\* How the counters of After are written, as the same journal has it.
AfterSpelled(op, r, a) ==
    LET longer(n) == Longer(n, Decimals[a])
    IN  CASE op = "commit" -> [spelled[r] EXCEPT !.reserved = longer(@), !.consumed = longer(@)]
          [] op = "refund" -> [spelled[r] EXCEPT !.consumed = longer(@)]
          [] OTHER         -> [spelled[r] EXCEPT !.reserved = longer(@)]

\* Take the file lock and persist the journal (_persist_transaction).
Begin(p, op, k, record) ==
    /\ p \in up
    /\ holder = NoProc
    /\ holder' = p /\ pc' = "count"
    /\ journal' = [op |-> op, key |-> k, record |-> record,
                   before |-> Snapshot(record.resource),
                   after |-> After(op, record.resource, record.amount),
                   spelledBefore |-> spelled[record.resource],
                   spelledAfter |-> AfterSpelled(op, record.resource, record.amount)]
    /\ UNCHANGED <<counters, rows, up, failures>>

\* reserve: a known key is answered from its row; an unknown resource raises.
Reserve(p, k, a, r) ==
    /\ ~HasRow(k)
    /\ r \in registered
    /\ Begin(p, "reserve", k, [state |-> "RESERVED", resource |-> r, amount |-> a])

Covered(total, k) == total[rows[k].resource] >= rows[k].amount

Commit(p, k) ==
    /\ RowState(k) = "RESERVED" /\ Covered(reserved, k)
    /\ Begin(p, "commit", k, [rows[k] EXCEPT !.state = "COMMITTED"])

Release(p, k) ==
    /\ RowState(k) = "RESERVED" /\ Covered(reserved, k)
    /\ Begin(p, "release", k, [rows[k] EXCEPT !.state = "RELEASED"])

Refund(p, k) ==
    /\ RowState(k) = "COMMITTED" /\ Covered(consumed, k)
    /\ Begin(p, "refund", k, [rows[k] EXCEPT !.state = "REFUNDED"])

(* reconcile keeps the file lock while it asks the provider.  An observed  *)
(* effect commits, a proven absence releases; without a provider, or with  *)
(* an indeterminate answer, the row is marked UNKNOWN with no journal.     *)
ReconcileSettles(p, k) ==
    /\ Held(k) /\ Covered(reserved, k)
    /\ \/ Begin(p, "commit", k, [rows[k] EXCEPT !.state = "COMMITTED"])
       \/ Begin(p, "release", k, [rows[k] EXCEPT !.state = "RELEASED"])

ReconcileParks(p, k) ==
    /\ p \in up
    /\ holder = NoProc
    /\ Held(k)
    /\ rows' = [rows EXCEPT ![k].state = "UNKNOWN"]
    /\ UNCHANGED <<counters, journal, control, failures>>

-----------------------------------------------------------------------------
\* Mutant of CoordinatorAccepts: the capacity test ignores what is consumed.
CoordinatorAcceptsMut(op, r, a) == op = "reserve" => reserved[r] + a <= capacity[r]

(* DurableBudgetCoordinator: reserve re-checks availability, commit and    *)
(* refund refuse an underflow, release clamps at zero.                     *)
CoordinatorAccepts(op, r, a) ==
    CASE op = "reserve" -> reserved[r] + consumed[r] + a <= capacity[r]
      [] op = "commit"  -> reserved[r] >= a
      [] op = "refund"  -> consumed[r] >= a
      [] OTHER -> TRUE

Minus(m, n) == IF m >= n THEN m - n ELSE 0

\* release stores max(Decimal('0'), ...): a result of zero is written "0".
CoordinatorRelease(r, a) ==
    /\ reserved' = [reserved EXCEPT ![r] = Minus(@, a)]
    /\ spelled' = [spelled EXCEPT ![r].reserved =
                     IF reserved[r] <= a THEN 0 ELSE Longer(@, Decimals[a])]
    /\ UNCHANGED <<registered, capacity, consumed>>

CoordinatorAdd(op, r, a) ==
    /\ reserved' = CASE op = "reserve" -> [reserved EXCEPT ![r] = @ + a]
                      [] op = "commit"  -> [reserved EXCEPT ![r] = @ - a]
                      [] op = "refund"  -> reserved
    /\ consumed' = CASE op = "reserve" -> consumed
                      [] op = "commit"  -> [consumed EXCEPT ![r] = @ + a]
                      [] op = "refund"  -> [consumed EXCEPT ![r] = @ - a]
    /\ spelled' = [spelled EXCEPT ![r] = AfterSpelled(op, r, a)]
    /\ UNCHANGED <<registered, capacity>>

CoordinatorUpdate(op, r, a) ==
    IF op = "release" THEN CoordinatorRelease(r, a) ELSE CoordinatorAdd(op, r, a)

\* The second write of a mutator: the counters, unless the coordinator refuses.
CountersStep(p) ==
    LET r == journal.record.resource
        a == journal.record.amount
    IN  /\ At(p, "count")
        /\ IF CoordinatorAccepts(journal.op, r, a)
             THEN CoordinatorUpdate(journal.op, r, a) /\ Goto("store")
             ELSE UNCHANGED counters /\ Goto("clear")
        /\ UNCHANGED <<rows, journal, failures>>

\* The third: the reservations.
StoreStep(p) ==
    /\ At(p, "store")
    /\ rows' = [rows EXCEPT ![journal.key] = journal.record]
    /\ Goto("clear")
    /\ UNCHANGED <<counters, journal, failures>>

\* The fourth: _clear_transaction, and the method returns.
ClearStep(p) ==
    /\ At(p, "clear")
    /\ journal' = NoTx
    /\ Unlock
    /\ UNCHANGED <<counters, rows, up, failures>>

\* A reserve that could not store its record gives the counters back.
RollbackStep(p) ==
    /\ At(p, "rollback")
    /\ CoordinatorRelease(journal.record.resource, journal.record.amount)
    /\ Goto("clear")
    /\ UNCHANGED <<rows, journal, failures>>

-----------------------------------------------------------------------------
\* The counters have the values of one side of the journal ...
Counted == Snapshot(journal.record.resource) = journal.after
Uncounted == Snapshot(journal.record.resource) = journal.before

\* ... and are written the way the journal writes them.
CountedText == Counted /\ spelled[journal.record.resource] = journal.spelledAfter
UncountedText == Uncounted /\ spelled[journal.record.resource] = journal.spelledBefore

(* _recover_pending_transaction refuses when the text of the counters is   *)
(* that of neither side, or when the record to move does not exist.        *)
Recoverable ==
    \/ UncountedText
    \/ CountedText /\ (journal.op # "reserve" => HasRow(journal.key))

\* Mutant of Construct: the journal of the previous life is ignored.
ConstructMut(p) ==
    /\ p \notin up
    /\ up' = up \cup {p}
    /\ UNCHANGED <<counters, rows, journal, holder, pc, failures>>

\* The constructor; _lock_file is taken only when there is a journal.
Construct(p) ==
    /\ p \notin up
    /\ \/ /\ journal = NoTx
          /\ up' = up \cup {p}
          /\ UNCHANGED <<holder, pc>>
       \/ /\ journal # NoTx /\ holder = NoProc /\ Recoverable
          /\ holder' = p
          /\ pc' = IF CountedText THEN "replay" ELSE "drop"
          /\ UNCHANGED up
    /\ UNCHANGED <<counters, rows, journal, failures>>

\* Mutant of ReplayStep: only interrupted reserves are replayed.
ReplayStepMut(p) ==
    /\ At(p, "replay")
    /\ rows' = IF journal.op = "reserve"
                 THEN [rows EXCEPT ![journal.key] = journal.record]
                 ELSE rows
    /\ Goto("drop")
    /\ UNCHANGED <<counters, journal, failures>>

ReplayStep(p) ==
    /\ At(p, "replay")
    /\ rows' = IF journal.op = "reserve"
                 THEN [rows EXCEPT ![journal.key] = journal.record]
                 ELSE [rows EXCEPT ![journal.key].state = journal.record.state]
    /\ Goto("drop")
    /\ UNCHANGED <<counters, journal, failures>>

DropStep(p) ==
    /\ At(p, "drop")
    /\ journal' = NoTx
    /\ up' = up \cup {p}
    /\ Unlock
    /\ UNCHANGED <<counters, rows, failures>>

-----------------------------------------------------------------------------
Fault(kind) == /\ faults < MaxFaults
               /\ faults' = faults + 1
               /\ seen' = seen \cup {kind}

\* The host goes down: every process and every lock is gone, files remain.
HostCrash ==
    /\ Fault("host")
    /\ up' = {}
    /\ Unlock
    /\ UNCHANGED <<counters, rows, journal>>

\* One process dies; the operating system drops its file lock.
ProcessCrash(p) ==
    /\ Fault("process")
    /\ p \in up \cup {holder}
    /\ up' = up \ {p}
    /\ IF holder = p THEN Unlock ELSE UNCHANGED <<holder, pc>>
    /\ UNCHANGED <<counters, rows, journal>>

(* A write raises and the exception leaves the method: the lock is         *)
(* released, the journal stays and the object lives on.  A write of the    *)
(* counters may fail after its rename (directory fsync).  Only the store   *)
(* of reserve is caught, and rolled back.                                  *)
WriteRaises(p) ==
    /\ Fault("exception")
    /\ \/ /\ pc = "count" /\ holder = p
          /\ CoordinatorAccepts(journal.op, journal.record.resource, journal.record.amount)
          /\ \/ CoordinatorUpdate(journal.op, journal.record.resource, journal.record.amount)
             \/ UNCHANGED counters
          /\ Unlock
       \/ /\ At(p, "store") /\ journal.op = "reserve"
          /\ holder' = holder /\ pc' = "rollback"
          /\ UNCHANGED counters
       \/ /\ \/ At(p, "store") /\ journal.op # "reserve"
             \/ At(p, "rollback") \/ At(p, "clear")
             \/ At(p, "replay") \/ At(p, "drop")
          /\ Unlock
          /\ UNCHANGED counters
    /\ UNCHANGED <<rows, journal, up>>

-----------------------------------------------------------------------------
Call(p, k) ==
    \/ \E a \in Amounts, r \in Resources : Reserve(p, k, a, r)
    \/ Commit(p, k) \/ Release(p, k) \/ Refund(p, k)
    \/ ReconcileSettles(p, k) \/ ReconcileParks(p, k)

Step(p) == \/ CountersStep(p) \/ StoreStep(p) \/ ClearStep(p) \/ RollbackStep(p)
           \/ ReplayStep(p) \/ DropStep(p)

Next ==
    \/ \E p \in Procs, r \in Resources, c \in Capacities : RegisterResource(p, r, c)
    \/ \E p \in Procs, k \in Keys : Call(p, k)
    \/ \E p \in Procs : Step(p)
    \/ \E p \in Procs : Construct(p)
    \/ \E p \in Procs : ProcessCrash(p)
    \/ \E p \in Procs : WriteRaises(p)
    \/ HostCrash

Spec == Init /\ [][Next]_vars

-----------------------------------------------------------------------------
(* I8 of the coordinator's docstring, "at all times": with any failure at  *)
(* any write, and even after a journal was lost, no resource is over its   *)
(* capacity.                                                               *)
I8 == \A r \in Resources : reserved[r] + consumed[r] <= capacity[r]

\* No failure so far but of the host.
HostOnly == seen \subseteq {"host"}

(* Recovery is refused over the way a number is written, never over its    *)
(* value: after any failures, the counters have the values of one side of  *)
(* the journal left behind, and the record to move exists.  When only the  *)
(* host failed, what is refused is a release that left nothing reserved.   *)
RefusalIsSpelling ==
    journal # NoTx /\ holder = NoProc =>
        /\ \/ Uncounted
           \/ Counted /\ (journal.op # "reserve" => HasRow(journal.key))
        /\ HostOnly /\ ~Recoverable =>
              journal.op = "release" /\ Counted /\ journal.after.reserved = 0

(* "journal the budget/registry transition so a crash between the two      *)
(* durable writes is recoverable", "journal the release so restart cannot  *)
(* double-release": after a crash of the host a backend object can be      *)
(* constructed.  The code does not keep this: a release to zero journals   *)
(* "0.0" and the coordinator writes "0".                                   *)
RecoveryNeverRefuses ==
    HostOnly /\ journal # NoTx /\ holder = NoProc => Recoverable

(* The reservations the counters on disk speak of: the record in a journal *)
(* counts as stored once its counters, by value, are written.  It is what  *)
(* a constructor stores when it does not refuse.                           *)
recovered ==
    IF journal # NoTx /\ Counted
      THEN [rows EXCEPT ![journal.key] = journal.record]
      ELSE rows

Ledger == INSTANCE ConsensusBackend
            WITH committed <- consumed, rows <- recovered

(* As long as only the host fails, four separate writes are one atomic     *)
(* step of the protocol: whatever write the host died at, the files        *)
(* describe a state of ConsensusBackend, and recovery, or its refusal,     *)
(* changes nothing in it.                                                  *)
ImplementsProtocol ==
    /\ Ledger!Init
    /\ [][HostOnly' => [Ledger!Next]_(Ledger!vars)]_vars

Files == INSTANCE ConsensusBackend WITH committed <- consumed

(* As long as only the host fails, whoever removes the journal leaves      *)
(* counters that are the sums over the reservations; a recovery that       *)
(* removed it without its record, or replayed it twice, would not.         *)
SettledLedgerAgrees == HostOnly /\ journal = NoTx => Files!LedgerAgrees
=============================================================================
