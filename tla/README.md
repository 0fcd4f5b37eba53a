# TENIR governance in TLA+

This directory is a verification project for the repository it sits beside. It
models the part of TENIR that can lose money or let an action through: the
budgeted life cycle of an operation, the durable budget ledgers under it, the
durable quarantine that closes admission, the EP-02 commit authorization with
its trust stores, and the two servers with ledgers of their own, R4 and R5. The modules are checked by TLC on
small instances, and the results that matter most are proved by TLAPS for every
value of the constants.

## 1. The system

| Part | State | Operations | Talks to |
|---|---|---|---|
| Integrated governor, `composition/governor.py` | settlement locks, `_active_dispatches` (memory) | adjudicate, dispatch, dispatch_and_execute, confirm, fail, mark_unknown, reconcile_unknown, resolve/escalate/authorize_exit/expire hold, recover, resume_existing, authorize_commit | registry, hold manager, budget backend, provider, membrane, kernels, ledger |
| Operation registry, `operations/registry.py` | one JSON record per idempotency key, the quarantine mark, its sentinel and its release intent, a file lock per key | register, transition_to, set_budget_flags, settlement_lock, quarantine calls, commit-gate writes | files |
| Hold manager, `operations/hold.py` | the hold record inside the operation record | enter, resolve, escalate, authorize_exit, expire, check_tau_k_expiry | registry |
| SQLite backend, `operations/sqlite_backend.py` | tables resources, reservations, compensations | register_resource, reserve, commit, release, refund, reconcile, get_state | SQLite, provider callback |
| Single-host backend, `operations/consensus_backend.py` and `budget.py` | a counters file, a reservations file, a transaction journal | the same protocol, and recovery in the constructor | files, provider callback |
| Raft backend, `operations/raft_backend.py` | a replicated copy of the same ledger | the same protocol | Raft library |
| Membrane, `membrane/__init__.py` | resources, the quarantine flag of the process | adjudicate, lock_quarantine, release_quarantine, quarantine_active | registry |
| Providers, `operations/provider.py` | external effects | execute, reconcile | outside world |
| EP-02 trust authority, `experimental/ep02_durable_cas.py`, `ep02_external_cas.py` | checkpoint row and append-only table of request outcomes | bootstrap, compare_and_swap, lookup, execute, open | SQLite, signed requests and receipts |
| EP-02 host side, `ep02_checkpoint_store.py`, `ep02_local_cas.py`, `ep02_*_anchor.py` | a checkpoint file, challenges | advance, compare_and_swap, assess_anchor | file, signed observations |
| EP-02 commit authority, `ep02_commit_authorization.py` | authorizations and consumptions tables | authorize, consume, the two lookups, open | trust authority, governor |
| EP-01/EP-02 policy, `ep01_*`, `ep02_signed_trust.py`, `ep02_binding.py`, `ep02_rotation.py` | none | evaluate, preflight, revalidate, validate_successor | authority, gate |
| R4 monitor, `r4/tenir_v4_test` | mode, trajectory window, used nonces (memory); a hash-chained ledger file | observe, close_the_glass, reopen_to_shadow, replay | ledger file shared by processes, operators |
| R5 hardened server, `r5_hardened/IRON_OMEGA_R5` | mode, used oaths, hub connections (memory); a ledger file with Merkle epochs | adjudicate, request_transition, sign_oath, broadcast | file, WebSocket clients |
| Composition: lattice, decisions, policy, hold strategy, schema adapter | the blocked set of the hold strategy | compose, block, unblock | governor |
| Assessment, validator, nomenclature, policy engine, SDK | none that lives on | scoring and validation | |
| `tenir_kernel/`, `r5_wired`, `demo.py`, tools | scoring kernel, an earlier generation, scripts | | |

What is hard in it:

* one operation is driven by several threads and several processes, and each
  method is a sequence of durable writes to two stores (registry and budget)
  and a call to a provider, with no transaction across them;
* a process may die, or a write may raise, between any two of these steps;
* the provider may act although its reply was lost, may still be working, or
  may be asked before it was ever called;
* the single-host ledger writes two files and repairs them from a journal;
* the quarantine mark is read and written by several processes, and releasing
  it asks a verifier that may be slow, for a lock that may be renewed meanwhile;
* the commit gate spans two databases, registry and authority, whose replies may
  be lost, while the trust they rest on is rotated;
* the trust authority is used over a network on which old, truthful, signed
  answers may turn up again;
* R5 handlers interleave at every await, and both R4 and R5 must rebuild from
  their files, after failing and torn writes, what they had in memory.

What makes each part correct: the ledgers never exceed a capacity (the code
calls it I8), charge and give back a reservation once, and survive a crash; the
governor ends an operation CONFIRMED only with the effect and the charge, FAILED
only without budget, and reaches the provider at most once; the quarantine fails
closed; what reaches a provider was authorised under the trust in force when it
was consumed; a trust checkpoint never moves back; a mode that blocks is entered
only by a recorded human decision, and a restart finds it again. `PROJECT.json` lists the hazards line by line.

## 2. The modules

```
ConsensusBackend            what every budget backend promises
   ^            ^                     ^
   | refines    | refines             | refines
SqliteClients  SingleHostLockBackend  RaftBackend
   |
   | EXTENDS                BudgetedOperation   what the governor promises
SqliteBackend                     ^
   ^                              | refines
   |______ EXTENDS _________  Governor  ____ EXTENDS ___ OperationRegistry

Quarantine                  the durable mark behind Governor's flag `quarantine`

TrustPolicy  <--  DurableAnchorCAS  <--  CommitAuthority  <--  CommitGate  <--  DamagedRegistry
                        ^
                        |____  ExternalCAS  <--  HostCheckpoint      (<-- : is extended by)
DurableAnchorCAS and the host's file each refine TrustRegister

R5Ledger     <--  R5Server          R4Trajectory  <--  R4Monitor
```

**ConsensusBackend** is the abstract budget protocol of
`consensus_backend.ConsensusBackend`: a ledger of counters and rows, with
Register, Reserve, Commit, Release, Refund and Park as its only steps.

**SqliteBackend** holds the tables and one operator per transaction.
`ReserveResult`, `CommitResult`, `ReleaseResult`, `RefundResult` and
`ReconcileResult` give the status the code answers; `Reserve`, `Commit`,
`Release`, `Refund`, `ReconcileTransaction` give the effect. A refused call
changes nothing. Each is atomic because `_transaction` is `BEGIN IMMEDIATE`.

**SqliteClients** lets clients use the database at once. `reconcile` is split as
in the code: `ClientReconcileRead` (a plain read), then `ClientReconcilePark` (no
provider callback) or `ClientReconcileAsk` and `ClientReconcileApply`; anything
may happen between them. A client may die in the middle (`ClientDies`).

**SingleHostLockBackend** splits each mutator into its writes: journal,
counters (through `DurableBudgetCoordinator`, which re-validates), reservations,
journal removal. `Construct`, `ReplayStep` and `DropStep` are the recovery in the
constructor. Recovery compares the counters with the journal as decimal strings,
so a counter is a value (`reserved`, `consumed`) with the number of decimals it
is written with (`spelled`): sums and differences keep the longer fraction, while
the coordinator's release stores `max(Decimal("0"), ...)`, written `0` when
nothing is left. `Decimals` gives the decimals callers write an amount with. The
host may go down (every process dies together), one process may die while
another lives on, and a write may raise with the object living on, with
reserve's rollback; `seen` remembers which of these have happened.

**RaftBackend** has the replicated commands of `_RaftStateMachine` as functions
from a ledger to a ledger and a status, and the adapter methods of
`RaftConsensusBackend` around them. `ledgers` is the log, as the ledger after
each command that changed it; `applied[n]` is how far node `n` has come. A call
sends a command (`ClientRegisters`, `ClientReserves`, `ClientSettles`), which is
executed at some later time (`ExecuteCommand`) or lost (`Lose`); the caller gets
the result once its own node has applied it (`Reply`), or times out before, tries
again (`commit`, `refund`, `release`: up to five attempts, `MaxTries`) or gives
up, the first command being still under way. `ReconcileRead` decides on the
node's own replica, `ReconcileAsk` sends what the provider's answer calls for.
`Restart` kills the calls of a node, which replays the log. The Raft library is
external: `ExecuteCommand`, `CatchUp` and `Lose` are what the adapter relies on.

**OperationRegistry** has the record of an operation, the table of legal
transitions, `TransitionTo`, `SetBudgetFlags`, `EnterHold` and `TauExpired`.

**Governor** composes SqliteBackend and OperationRegistry with threads,
processes, settlement locks, the in-memory active markers and a provider. The
program counter `th[t].pc` names the next durable step of the method thread `t`
is in:

| Method | Steps |
|---|---|
| adjudicate | AdjudicateRegister, Compose, Reserve, Flags / FlagsFail, Claim, and on a late veto fail() |
| fail | FailCall, FailStart, FailSettle, ClearFlags, FailFinal |
| dispatch, dispatch_and_execute | DispatchClaim, Mark, Commit, Flags, Execute, Unknown |
| confirm | ConfirmCall, ConfirmStart, ConfirmFlags, ConfirmFinal |
| reconcile_unknown | ReconcileStart, Ask / Raises, Apply, Settle, then the flags and final steps of confirm or fail |
| holds | ResolveHoldStart, ResolveHoldDecide, EscalateHold, ApproveExit, ExpireEscalated, HoldExitStart, HoldRelease, HoldFlags, HoldExitFinal |

A step that raises ends its method (`StepFails`). Where the write of UNKNOWN
raises, the active marker stays behind, as in `_dispatch_and_execute`, and
`reconcile_unknown` of that process defers from then on (`Leaked`). `Retrying`
names the processes whose callers take an unfinished operation up again.

`lock[k]` is the per-key settlement file lock. The additional per-process
`_settlement_lock` is left out, which only allows more interleavings. A step the
code takes under the quarantine gate is one action that reads `quarantine`.

**BudgetedOperation** is the abstract promise: status, money and effect of an
operation, and the few ways they may move. `Governor!KeepsPromise` is the
refinement.

**Quarantine** has the three files (mark, sentinel, release intent), the
cross-process gate, the mutex and the local flag of each process, and one step
per write of `set_quarantine`, `authorized_release_quarantine`,
`lock_quarantine` and `release_quarantine`. `WriteFails` models a raising write
whose file may or may not be in place, `Crash` a dead process, `DamageMark` a
lost or damaged mark.

**TrustPolicy** is the pure part of EP-01 and EP-02: `evaluate`, the signed and
bound snapshots, the preflight and its revalidation, and the rule for a
successor. Snapshots and claims are names with a content; hashing is injective
and signatures cannot be forged.

**DurableAnchorCAS** is the SQLite trust authority. `Transact` is the one
transaction: look the request id up, refuse another envelope under it, decide
(`Outcome`), write checkpoint and outcome. `Opens` is what `open` verifies of a
database it finds. **ExternalCAS** puts the signed protocol around it: clients
submit, time out, submit again or look up with a challenge; the service may die
between commit and reply (`ServeExecute`, `ServeReply`); the wire delays,
reorders and loses. **HostCheckpoint** adds a host with a checkpoint file and
signed observations of the authority, old ones included. **TrustRegister** is
what both stores promise: a mark set once that only moves to newer revisions.

**CommitAuthority** has the two append-only tables with `authorize`, `consume`
and their lookups as operators. **CommitGate** is the governor's
`authorize_commit`, `_consume_commit_authorization` and the dispatch under the
quarantine gate, one step per registry write and per authority transaction. A
call to the authority may fail before or after its commit, a worker may die
anywhere, a rotation and a quarantine may come between, another operation may
use the same request id. `Recover` is a caller that follows `resume_existing`.
**DamagedRegistry** gives every worker the records it loaded last and lets the
file stop parsing.

**R5Ledger** has the chain, the epochs and the Merkle trees of
`distributed_ledger.py` as operators; a digest is what was hashed. **R5Server**
has the handlers: up to and with the ledger append a handler runs without
interruption and is one action, then every broadcast is an await. The hub's lock
is a FIFO queue whose head sends the frame to one client after the other;
a client may stop reading (`Stalls`), and then its send need not end.
`Start`, `Die` and torn or failing writes bring in the restart.

**R4Trajectory** judges an event with exact scores and, beside it, with the
rounded scores of the shared policy engine. **R4Monitor** has processes that
change memory, then append to one shared chain; a constructor replays it. Where
the shared engine refuses the policy (`EngineAccepts`) or the append raises,
memory stays changed and nothing is ledgered (`RaiseUnledgered`).
Proofs are issued, expire, are presented again, altered or by the wrong
operator.

The `MC*` modules give the constants their values. `*_proofs` hold the theorems.
Definitions ending in `Mut` (and `LateEffectMissed`, `SettableOnce`,
`ReplayEntryModeless`) are deliberately wrong variants of the definition that
follows them; they are not used by any specification and show, when put in its
place, that the properties can fail. An invariant a run checks is often the
conjunction of named parts that belong together; each part has its own comment.

## 3. The runs

| Run | Instance | What it shows |
|---|---|---|
| SqliteClients | 3 clients (with and without a provider callback), 2 keys, 1 resource | totals equal the sums over the rows, reconcile verdicts stay true, refinement of ConsensusBackend |
| SingleHost | 2 objects, 2 keys, 1 resource, amounts written with no and with one decimal, 3 failures of any kind | I8; a refused recovery is about spelling, and after host failures only about a release to zero (`RefusalIsSpelling`); as long as only the host fails, a settled ledger adds up and the files refine ConsensusBackend |
| SingleHostRecovery | the same | violation, finding 2 of section 4 |
| RaftRetries | 2 nodes with a client each, 1 key, 2 attempts, 1 fault | no attempt moves budget twice and compensations are justified (`LedgerSound`), answers stay true, refinement of ConsensusBackend |
| Governor | 2 threads in 2 processes of which 1 retries, 1 operation, 2 faults, fair | FAILED holds no budget, CONFIRMED is charged and happened, a possible effect stays charged (`OutcomeBacked`), flags are backed by rows (`RecordsBacked`), the provider is called at most once, refinement of BudgetedOperation; outcomes settle unless the retrying process has leaked its marker, admissions complete |
| Quarantine | 3 threads in 2 processes, 2 locks, 1 fault, fair | fail closed, aborted releases stay closed, local flags are sound, proofs match locks, an emergency lock returns although a verifier hangs |
| ExternalCAS | 2 processes of one client identity, a host, 4 snapshots (a rival and a forged one), an operator that provisions once, 1 timeout, 1 lookup, 2 observations, 2 of the three active | receipts state the first durable outcome, the table replays to the checkpoint, no old answer is taken for a fresh one, both stores refine TrustRegister, every client learns its outcome |
| CommitGate | 2 workers, 1 operation, 3 requests (one of another operation with the same id), a revoking rotation, 1 failing call, death or quarantine (the theorems cover any number) | what the provider gets was authorised, consumed under the same trust and is the adjudicated payload; registry and authority agree; a HOLD has a cause; recovery ends |
| RegistryDamage | 2 workers, 1 operation | violation, finding 1 of section 4 |
| R5Server | 2 handler slots, 1 WebSocket client, epochs of 3, 1 fault | memory and answers follow the ledger, ENFORCE is earned with an oath used once, epochs are rebuilt and provable, frames arrive gapless, requests are answered unless a send never ends |
| R5Reload | the same | violation, finding 3 of section 4 |
| R4Monitor | 2 monitors, 2 operators (one unregistered), 1 nonce, floors 2 apart with 10 units to the last rounded digit, two events that round onto the block floor, 3 entries without or 2 with a fault | one chain, transitions are human, replay is exact, the engines disagree on blocking only where rounding crosses the block floor |

Bounds. One operation is enough in Governor: operations interact only through
the capacity of a resource, which SqliteClients checks with two keys competing
for one resource; capacities 0 and 1 make both the granted and the refused
reservation happen. Two threads, each in a process of its own, give every race
for a durable claim and the survivor that recovers for a dead process; that a
process has several threads is left to the theorems, which hold for any number.
Two faults let a recovery be interrupted by a second crash; the single-host runs
allow three. In RaftRetries one fault, a timeout, a
loss or a restart, is enough for two attempts of one call to be under way
together, with every command of the other client between them; a second attempt
is the last, so both the retry and the surrender happen. Keys compete for a
resource through one capacity check, which the theorem covers for any number of
them and SqliteClients shows with two. `MaxFaults` and `MaxLocks` bound the
guards of the fault actions and of `LockCall`. In ExternalCAS two processes of
one identity are the hard case, since they share request ids; `MaxActive` lets
any two of the two clients and the host act in one behaviour, which is every
pairwise race. In CommitGate one fault at any step is enough to leave the two
databases a write apart. In R5Server the bounds come as records, so that long
ledgers, concurrent handlers and connected clients are each explored without the
product of all; epochs of three entries give Merkle levels of odd length. In
R4Monitor a second nonce adds nothing: reuse is about one nonce; its two events
have a stability of 71 and 73 tenths of the last digit and both round to the
block floor of 70, one below and one above the alert floor of 72, so that the
engines do disagree. Deadlock checking is off where
every operation or key ends in a final state and nothing is left to do.

Fairness. A method under way takes its next step (the thread is scheduled). The
file locks starve nobody (strong fairness of the steps of each thread). An
operation left DISPATCHING, UNKNOWN or CREATED is taken up again in the
processes of `Retrying`, one of the two in the run:
`recover()` and `resume_existing()` list it with that recommendation. A provider
that knows an outcome does not answer UNRESOLVED for ever. In Quarantine nothing
is assumed of the verifier. In ExternalCAS a client with an unknown outcome
submits the same request again, the retry procedure the module prescribes, the
service serves what reaches it and losses are bounded. In CommitGate a started
call goes on, a quarantine is lifted some day, and a caller follows
`resume_existing` again and again (strong fairness, as other workers may get in
between). In R5Server the event loop runs what can run. `broadcast` awaits each
send without a time limit, so a send is only taken to end, by completing or
raising, for a client that has not stalled; `RequestsAnswered` says that requests
are answered if no client stays stalled for ever. Nothing is assumed of clients
connecting or of writes succeeding.

## 4. Findings

1. (RegistryDamage) The commit-gate mutators of the registry check the
   corruption flag before they reload the file and not after. When the reload
   finds a damaged file, they go on with the records in memory and write these
   over it: the claim another process made in between is lost, and the provider
   is called twice. `transition_to` checks after the reload.
2. (SingleHostRecovery) After a crash of the host, the constructor of the
   single-host backend compares the counters with the journal as strings. A
   release that leaves nothing reserved journals `0.0` and writes `0`, so a crash
   after that write leaves a text that matches neither side, and the constructor
   refuses although the comment of the journal promises recovery. The values are
   right (`RefusalIsSpelling`); only the text differs. The same follows from
   reserve's rollback when the journal's removal raises.
3. (R5Reload) `_load_from_disk` of the R5 ledger recomputes the hash of a
   transition without the override signature and operator that were hashed when
   it was appended, so the file of a server that has taken a signed transition
   does not load again. `verify_full_chain` includes them, and the recovery of
   mode and nonces at the next start is written for such files.

Known counterexamples without a run of their own. Each is a state the models
reach, found by checking the property it contradicts:

* `expire_hold` on an ESCALATED operation with an expired τ_K releases the
  budget and is then refused; a later approval returns a hold without a
  reservation, against "Approval retains the reservation" (Governor).
* The protection of `reconcile_unknown` against a running execute is local to
  the process and set after the durable claim; with a provider that reports
  FAILED for a key it has never seen (`AbsenceIsFailure = TRUE`) the budget is
  refunded and the effect follows. The runs use, and the theorems assume,
  providers that answer UNRESOLVED for such a key (Governor).
* The active marker leaks: in `_dispatch_and_execute` a raising write of UNKNOWN
  (governor.py:2132) skips the discard, and the process that executed defers
  `reconcile_unknown` for as long as it lives, with "Provider execution is still
  active", although the marker "only prevents a concurrent live execute"
  (governor.py:1990). Another process settles the operation; if there is none,
  nobody does. `OutcomeSettles` names this exception.
* The single-host journal is replayed only by a constructor; a process that
  outlives a crashed one overwrites it, and counters and reservations disagree
  for ever. `SettledLedgerAgrees` and `ImplementsProtocol` are therefore about
  behaviours in which only the host has failed so far (`HostOnly`).
* `release` of the Raft backend refuses a reservation that is already released
  with INVALID_STATE, so its own retry after a timed-out attempt that was
  executed fails. The two other backends accept it.
* One WebSocket client that stops reading holds the hub's lock inside
  `await ws.send_text(frame)` (ws_hub.py:221), which has no time limit; every
  handler that broadcasts waits behind it, so no request is answered, although
  broadcast is to "Remove stale connections". Without its premise
  `RequestsAnswered` is false.
* A monitor of R4 that was constructed before another process used a proof
  accepts the same proof again; `ProofReusedOnlyByStaleMonitor` says that this
  is the only way.
* The two engines of R4 disagree on blocking when rounding to six digits carries
  a score across the block floor. If the floors are, besides, less than half of
  the last rounded digit apart, `s_block_floor = s_alert_floor` included, which
  `PolicyBundle.validate` admits, such an event is "allow" for R4 and "block" for
  the shared engine, against "shared engine must agree"
  (r4/tests/test_governance_integration.py:113). `EnginesAgreeOnBlock` says that
  this is the only disagreement, and the run's floors make it happen.
* `PolicyBundle.validate` admits derivative floors above 0, which
  `PolicyEngine.validate` refuses: with such a bundle every `observe` raises
  after the tracker was updated (controller.py:150, 166) and nothing is ever
  ledgered. The run's policy is one the engine accepts; the theorems cover both.

## 5. The proofs

Eight modules hold theorems. Each has its inductive invariant, proved with one
step per action, and the listed results follow from it.

* **ConsensusBackend_proofs.** `CountersAreSums`: the counters of a resource are
  the sums over the keys, for any finite set of keys. A sum is a fold, and the
  provers cannot instantiate the induction theorems, so the induction is done on
  sets: the set of the sizes at which a fact about sums fails has no least
  element, hence is empty. The module is about the protocol, so its result
  reaches the backends through their refinements.
* **SingleHostLockBackend_proofs.** Counters and rows are written separately, so
  neither alone says anything about the other. The invariant describes the
  journal (`JournalOK`: its images differ by one legal transition and both fit
  the capacity) and the writer's position in it (`PositionOK`). I8 under torn
  writes and that the counters have the value of one side of the journal follow
  from these. A second invariant, `HostSafe`, holds as long as only the host has
  failed: the text of the counters is that of the journal except after a release
  to zero (`SpellingOK`), and the ledger the counters speak of adds up. HostOnly
  is a predicate of the state, not a hypothesis on the constants: the theorems
  are about every behaviour up to its first other failure; beyond it they are
  false (section 4). The sums of `SettledLedgersAgree` come from the refinement.
* **Quarantine_proofs.** The invariant ties the mark to the history of locks and
  approvals, says that an inactive mark without a pending intent is the result of
  a completed release, and that the gate's holder is the only thread inside.
* **RaftBackend_proofs.** `ExecuteStep` shows that every command is a step of the
  protocol or none, for any ledger; with `Good` ledgers along the whole log
  (`LogInv`) this gives types, I8 on every replica, however far it lags, and the
  refinement. That answers stay true needs a second invariant (`AnswersInv`): the
  final states of a reservation are kept along the log (`Monotone`), so what a
  lagging replica shows is still true of its end; and a call is only ever
  answered with its own command's outcome (`Fresh`, `Unique`, `Paired`), although
  earlier attempts of it may be executed meanwhile. `LedgerStaysSound` adds that
  only a confirmed effect is compensated (`CompensationInv`).
* **Governor_proofs.** `GovernorInv` has three parts. `KeyOK` relates the record,
  the row, the provider and the call count of one operation; a flag may lag behind
  the row, since no transaction spans both files, and `FlagsOK` says by how much.
  `ThreadOK` says for each program counter what the thread may still rely on: it
  holds the settlement lock, the row it settles is in the state it left it, an
  answer it carries is true. `Exclusive` says that one thread admits a key and one
  dispatches it. Every action changes one key at most, in one of the thirteen ways
  `KeyStep` lists; these keep `KeyOK` (`KeyStepOK`) and what other threads rely on
  (`KeyStepEvolves`, `Undisturbed`), so each action is left with its own thread.
  The argument for `ExecutedAtMostOnce` is that the claim leaves RESERVED for good
  and a thread past it finds no earlier call; the refund argument is that a
  committed row with no call yet is never given back, and one with a call only
  after the provider has refused. `KeyStepPromised` maps the thirteen ways to the
  steps of BudgetedOperation. Hypothesis: the provider never reports FAILED for a
  key it has not seen; without it the claims are false (section 4).
  The same module has the other user of the SQLite ledger, the clients. For them
  I8 is inductive with the types. The verdict of a finished reconcile needs more:
  a client between read and apply must know that the row it read still exists,
  and a "yes" or "no" of the provider is final. Refinement of ConsensusBackend
  maps every transaction to one abstract step, and `TotalsAreSums` is
  `CountersAreSums` carried back through it.
* **TrustAuthority_proofs** is about the trust store and its two drivers.
  `StoreInv` says that the rows of the trust database are typed, share no id and
  replay to the checkpoint; `TransactKeeps` shows it of the one transaction, where
  the snapshot rebuilt from a stored envelope must decide as the original did
  (`StoredOutcome`).
  Around it, for the signed protocol and the host (HostCheckpoint), `ProtocolInv`
  says of every message, unanswered execution and client that the row it names is
  in the table, and of every challenge that the revision when it was drawn is not
  above the authority's now. Rows are only appended and revisions only grow, so
  all of this survives the steps of others (`StillTrue`); truth of receipts,
  freshness and both refinements of TrustRegister are read off.
  For the commit gate, `GateInv` relates four things no transaction spans: the
  trust store, the authority's two tables, the registry and the locals of the
  workers. A record's request, receipt, claim and consumption are set once
  (`Kept`), so what a worker read before a call is still true after it
  (`StillLocal`); a receipt is a row of the table or a replay of one, and its
  stored form is that row (`StoredForm`), which is why a repeated call never
  conflicts with what is recorded. `EvaluateFacts` takes an AUTHORIZED decision
  back to the mandates, revocations and keys of the snapshot in force. The
  provider is reached by one worker at most, since the claim leaves RESERVED for
  good. `DispatchesOnce` holds here for every instance and fails in RegistryDamage,
  which takes away the assumption that the registry file stays readable.
* **R4Monitor_proofs.** `R4Inv` relates the shared file, what a replay of it
  gives, the memory of every running monitor and the proofs in circulation. The
  file is one chain whose transitions name their author (`LedgerOK`, `AuthorsOK`);
  the nonces a replay finds are those of its transitions (`ReplayOK`); a monitor
  knows at least what the chain held when it was constructed and what it appended
  since (`MemOK`, `Known`). A replay is a fold, and what it gives for a chain with
  one more entry is what the append did to memory, so `RestartRestores` is kept by
  every append. `BlockingIsShared` is arithmetic on one event, for every policy the
  code admits: rounding moves a score by half a unit at most, so a score that
  does not cross the block floor is judged alike, and one that does is blocked by
  R4's alert floor or lies above it.
* **R5Server_proofs.** `AuditPathsVerify` is about the algorithm alone: for two or
  more leaves the audit path of each, folded as `verify` does it, gives the root,
  whatever their number, with the last node of an odd level paired with itself. Of the
  state, `R5Inv` has three parts. `CoreInv`: the ledger in memory is the one
  `_load_from_disk` would build from its entries, trees and epochs included, so a
  restart and an uninterrupted run agree; memory is the file unless a write was
  torn; no used oath is forgotten. `TaskInv`: what a handler still has to stream
  and to answer cites an entry of the ledger. `HubInv` carries `FramesGapless`:
  frame numbers waiting in the hub's queue are consecutive and end at the last
  one given out, each connected client has received everything up to the frame
  being sent or not, according to the set of those already served, and the handler
  of a client waits at one place of the queue at most, so a client joins and
  leaves between two frames and never within one. A stalled client
  stays connected, so nothing of this depends on sends that end.

Recursion. The induction theorems take an operator as parameter, which the
provers cannot instantiate. Where a theorem rests on a recursive function or a
fold (sums over keys, R4's replay, R5's entry lists, Merkle levels and audit
paths), the induction is done on sets: the set of the lengths at which the claim
fails is a set of naturals without a least element, hence empty.

Assumptions are those of the modules: `Amounts` and `Capacities` are natural
numbers, the null values are not members of their sets, every thread has a
process; in the EP-02 modules revisions are integers, envelopes and requests
carry known snapshots, and None is no checkpoint, claim or row; in R4 the policy
is one `PolicyBundle.validate` admits, with integers for its numbers, and events
pass `ValidEvent`; in R5 an epoch has two entries or more (the code's has 100) and
a WebSocket client is not an HTTP request. Nothing is assumed of the number of
clients, threads, workers, monitors, keys or faults. That digests
are injective and signatures unforgeable is part of the models, not of the
proofs.

`Replayed` of DurableAnchorCAS gives the checkpoint a replay of the table ends
with in closed form, the outcome of the last row that applied. The loop of
`_validate_request_rows` carries the same value from row to row.

The type invariants, I8 of the SQLite and Raft backends, and the SQLite backend's
`CompensationJustified` and `RowsMoveForward` are established by the proofs alone
and are not checked by a run of their own.

Only model-checked: liveness under fairness (`OutcomeSettles`,
`AdmissionCompletes`, `EmergencyLockReturns`, `OutcomeLearned`, `GateSettles`,
`RequestsAnswered`), which the prover does not reach. Every invariant and every
action property of a passing run is also a theorem.

## 6. Limits of the models

* Amounts are naturals: the code uses exact decimals. Parsing is left out. The
  text of a decimal, which only the single-host recovery reads, is its value and
  its number of decimals, and callers write one amount always alike. The amount
  and resource of a key never change.
* Governor has budgeted operations with a durable backend only: no in-memory
  budget, no unbudgeted operation. The commit gate and the damaged registry are
  in CommitGate and DamagedRegistry, which leave the budget out. FLAG is
  treated as PASS: both go on to dispatch. The read of the backend state and the
  commit that follows it under one settlement lock are one step.
* Bare `dispatch()` leaves the effect to the caller; the model performs it once.
* A mark that predates the sentinel and is lost before its first read cannot be
  told from an untouched store, so `DamageMark` starts with the sentinel.
* In SingleHostLockBackend the provider call of reconcile, made under the file
  lock, is one step with the journal write, and a refused call changes nothing.
* In RaftBackend a reservation id stands for its key, which the key index allows,
  and a caller settles a reservation only once it is in the log, so the retry on
  NOT_FOUND, which waits for the replica to catch up, does not arise. Incidents
  and logical time, which no decision reads, and the repair of old journals are
  left out. Refusals for corrupt accounting share one status.

* In CommitGate a payload is a value. A caller that changes the mapping it handed
  over while the call runs is not modelled.
* EP-02 byte formats, key encodings and their validation are abstracted to
  records: encoding round-trips or rejects. The clock of a preflight is one of
  two times.
* In CommitGate the provider's outcome ends the story; Governor takes it up
  there. The settlement locks around the gate are left out, which only allows
  more interleavings.
* R5Server has the severity of an event as input, not the scores behind it. The
  Neo4j call is an await without effect. An answer is the decision and the entry
  it cites; the `operating_mode` beside them, which is read after the awaits
  (r5_server.py:449, 466, 489), is left out. R4 monitors replay their history
  (`replay_history`, the default). A torn write of R4 loses a part of the entry's
  text; one that loses only the newline is not modelled. R4 scores are integers in the finest
  unit, with `Policy.unit` of them to the last digit `round(s, 6)` keeps.

### Not modelled

ConsensusBroadcast, the graph store and the read-only endpoints of R5 (no state
the modelled parts read); the wired R5 generation (an earlier copy); R4's offline
adjudication and burn overlay (floating-point statistics over recordings); the
assessment and scoring kernels (floating point); command-line tools, HTTP front
ends and the demo (pure I/O); the schema adapter, validator and nomenclature (no
state). Still open and possible: section 7.

## 7. Plan

Done, in order: SqliteBackend and its clients, OperationRegistry and Governor
with BudgetedOperation, Quarantine, ConsensusBackend with its three refinements,
the single-host backend, the Raft backend, the proofs of section 5; then the
EP-02 stores, protocol and commit gate, the damaged registry, R5 and R4; then the
proofs of the sums, of the trust authority, of the commit gate and of the
governor; then those of R4 and R5.

Next:

1. The composition hold strategy, the lattice and the membrane's adjudication as
   operators with reference definitions.
2. The in-memory budget path of the governor.
3. The governor's audit ledger, and R5's ConsensusBroadcast.
