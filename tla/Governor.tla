------------------------------ MODULE Governor ------------------------------
(***************************************************************************)
(* composition/governor.py with a durable budget backend: the lifecycle of *)
(* budgeted operations driven by worker threads of several processes that  *)
(* share the operation registry, the budget database and a provider.       *)
(*                                                                         *)
(* A method of the governor is a sequence of atomic steps, one per durable *)
(* write (registry file, budget transaction) or external call; th[t] says  *)
(* where thread t is.  Between two steps any other thread may run, the     *)
(* step may raise (StepFails), or the process may die (Crash).             *)
(*                                                                         *)
(* lock[k] is registry.settlement_lock(k), the per-operation file lock     *)
(* that spans settlement sequences in all processes.  A step that the code *)
(* takes under the quarantine gate is a single action that reads the mark. *)
(***************************************************************************)
EXTENDS SqliteBackend, OperationRegistry

CONSTANTS Threads, Procs,      \* worker threads, and the processes they run in
          ProcOf,              \* the process of each thread
          AmountOf, ResourceOf,\* the request of each key
          NoKey, NoThread, NoProc,
          RevalidateBudget,    \* policy.revalidate_budget_at_dispatch
          AbsenceIsFailure,    \* the provider reports FAILED for a key it never saw
          LiveModes,           \* dispatch_and_execute (TRUE), bare dispatch (FALSE)
          Retrying,            \* the processes whose callers retry recovery
          MaxFaults            \* bound on crashes and failing steps

ASSUME GovernorAssumption ==
    /\ ProcOf \in [Threads -> Procs]
    /\ AmountOf \in [Keys -> Amounts]
    /\ ResourceOf \in [Keys -> Resources]
    /\ NoKey \notin Keys /\ NoThread \notin Threads /\ NoProc \notin Procs
    /\ RevalidateBudget \in BOOLEAN /\ AbsenceIsFailure \in BOOLEAN
    /\ LiveModes \subseteq BOOLEAN
    /\ Retrying \subseteq Procs
    /\ MaxFaults \in Nat

VARIABLES th,        \* program counter and locals of each thread
          lock,      \* holder of each settlement lock
          active,    \* _active_dispatches of each process
          prov,      \* external: what the provider did with each key
          calls,     \* provider.execute calls per key
          faults     \* crashes and failed steps so far

world == <<lock, active, prov, calls, faults>>
vars == <<tables, rec, quarantine, th, world>>

PCs == {"idle", "compose", "reserve", "rflags", "claim",
        "fail", "settle", "unflag", "failed",
        "mark", "commit", "cflags", "exec", "unknown",
        "confirm", "kflags", "confirmed",
        "ask", "apply", "compensate",
        "resolve", "hrelease", "hflags", "hfinal"}

(* arg: the composed decision, the provider's answer or the hold exit      *)
(* under way; auth: authoritative_non_execution; live: dispatch_and_execute*)
(* owns the active marker; ext: an external reservation was attempted;     *)
(* paid, owns, from: the record snapshot a settlement works from.          *)
ThreadStates ==
    [pc : PCs, key : Keys \cup {NoKey},
     arg : {"-", "PASS", "HOLD", "VETO", "CONFIRMED", "FAILED", "UNRESOLVED", "deny", "expire"},
     auth : BOOLEAN, live : BOOLEAN, ext : BOOLEAN,
     paid : BOOLEAN, owns : BOOLEAN, from : OpStates]

IdleThread == [pc |-> "idle", key |-> NoKey, arg |-> "-", auth |-> FALSE, live |-> FALSE,
               ext |-> FALSE, paid |-> FALSE, owns |-> FALSE, from |-> "NONE"]

NewRecord == [state |-> "NONE", reserved |-> FALSE, committed |-> FALSE, bound |-> FALSE,
              tau |-> "absent", by |-> NoProc]

TypeOK ==
    /\ TablesOK
    /\ rec \in [Keys -> Records(Procs \cup {NoProc})]
    /\ quarantine \in BOOLEAN
    /\ th \in [Threads -> ThreadStates]
    /\ lock \in [Keys -> Threads \cup {NoThread}]
    /\ active \subseteq Procs \X Keys
    /\ prov \in [Keys -> {"none", "pending", "effect", "failed"}]
    /\ calls \in [Keys -> Nat]
    /\ faults \in 0..MaxFaults

Init ==
    /\ registered = Resources
    /\ capacity \in [Resources -> Capacities]
    /\ reserved = [r \in Resources |-> 0]
    /\ committed = [r \in Resources |-> 0]
    /\ rows = [k \in Keys |-> NoRow]
    /\ compensations = {}
    /\ rec = [k \in Keys |-> NewRecord]
    /\ quarantine = FALSE
    /\ th = [t \in Threads |-> IdleThread]
    /\ lock = [k \in Keys |-> NoThread]
    /\ active = {}
    /\ prov = [k \in Keys |-> "none"]
    /\ calls = [k \in Keys |-> 0]
    /\ faults = 0

-----------------------------------------------------------------------------
\* Control flow shared by all methods.
At(t, pc) == th[t].pc = pc
Goto(t, pc) == th' = [th EXCEPT ![t].pc = pc]
Start(t, k, pc) == /\ At(t, "idle")
                   /\ th' = [th EXCEPT ![t].pc = pc, ![t].key = k]

Acquire(t, k) == lock[k] = NoThread /\ lock' = [lock EXCEPT ![k] = t]
Unlock(t, k) == lock' = [lock EXCEPT ![k] = IF @ = t THEN NoThread ELSE @]

\* _active_dispatches.discard in the finally blocks of dispatch_and_execute.
Discard(t) == active' = IF th[t].live THEN active \ {<<ProcOf[t], th[t].key>>} ELSE active

\* The method returns: settlement lock released, active marker dropped.
Return(t) ==
    /\ th' = [th EXCEPT ![t] = IdleThread]
    /\ Unlock(t, th[t].key)
    /\ Discard(t)

-----------------------------------------------------------------------------
\* adjudicate: durable claim of the key before either kernel runs.
AdjudicateRegister(t, k) ==
    /\ State(k) = "NONE"
    /\ Start(t, k, "compose")
    /\ rec' = [rec EXCEPT ![k].state = "CREATED"]
    /\ UNCHANGED <<tables, quarantine, world>>

(* Both kernels and the lattice produce some decision; a raising kernel    *)
(* counts as HOLD.  The early quarantine check vetoes before the budget is *)
(* touched.                                                                *)
AdjudicateCompose(t) ==
    /\ At(t, "compose")
    /\ \E d \in {"PASS", "HOLD", "VETO"} :
          th' = [th EXCEPT
                   ![t].arg = IF quarantine THEN "VETO" ELSE d,
                   ![t].ext = ~quarantine /\ d # "VETO",
                   ![t].pc = IF quarantine \/ d = "VETO" THEN "claim" ELSE "reserve"]
    /\ UNCHANGED <<tables, rec, quarantine, world>>

\* _reserve_budget under the settlement lock, only while still CREATED.
AdjudicateReserve(t) ==
    LET k == th[t].key
        reserving == State(k) = "CREATED" /\ ~rec[k].reserved
        granted == ReserveResult(k, AmountOf[k], ResourceOf[k]) = "RESERVED"
        held == State(k) = "CREATED" /\ rec[k].reserved /\ rec[k].bound
    IN  /\ At(t, "reserve")
        /\ lock[k] = NoThread
        /\ IF reserving THEN Reserve(k, AmountOf[k], ResourceOf[k]) ELSE UNCHANGED tables
        /\ IF reserving /\ granted
             THEN Goto(t, "rflags") /\ lock' = [lock EXCEPT ![k] = t]
             ELSE /\ th' = [th EXCEPT ![t].pc = "claim", ![t].arg = IF held THEN @ ELSE "VETO"]
                  /\ UNCHANGED lock
        /\ UNCHANGED <<rec, quarantine, active, prov, calls, faults>>

\* _reserve_budget persists ownership of the reservation it obtained.
AdjudicateFlags(t) ==
    LET k == th[t].key
    IN  /\ At(t, "rflags")
        /\ SetBudgetFlags(k, TRUE, FALSE)
        /\ Goto(t, "claim")
        /\ Unlock(t, k)
        /\ UNCHANGED <<tables, quarantine, active, prov, calls, faults>>

\* The ownership write fails: compensate the reservation and veto.
AdjudicateFlagsFail(t) ==
    LET k == th[t].key
    IN  /\ At(t, "rflags")
        /\ faults < MaxFaults
        /\ faults' = faults + 1
        /\ Release(k) \/ UNCHANGED tables
        /\ th' = [th EXCEPT ![t].pc = "claim", ![t].arg = "VETO"]
        /\ Unlock(t, k)
        /\ UNCHANGED <<rec, quarantine, active, prov, calls>>

(* The final claim, under the quarantine gate.  A veto after an external   *)
(* reservation was attempted keeps the operation CREATED and continues     *)
(* with fail(), which compensates.                                         *)
AdjudicateClaim(t) ==
    LET k == th[t].key
        dec == IF quarantine THEN "VETO" ELSE th[t].arg
        vetoed == dec = "VETO" \/ (dec = "PASS" /\ ~CanMove(k, "RESERVED"))
    IN  /\ At(t, "claim")
        /\ CASE vetoed /\ ~th[t].ext -> TransitionTo(k, "FAILED")
             [] vetoed /\ th[t].ext  -> UNCHANGED rec
             [] ~vetoed /\ dec = "PASS" -> TransitionTo(k, "RESERVED")
             [] ~vetoed /\ dec = "HOLD" -> EnterHold(k, "unbounded")
        /\ IF vetoed /\ th[t].ext
             THEN th' = [th EXCEPT ![t] = [IdleThread EXCEPT !.pc = "fail", !.key = k]]
             ELSE th' = [th EXCEPT ![t] = IdleThread]
        /\ UNCHANGED <<tables, quarantine, world>>

-----------------------------------------------------------------------------
\* fail(): called by recovery or an operator, with or without proof of no effect.
FailCall(t, k, auth) ==
    /\ State(k) # "NONE"
    /\ auth => prov[k] = "failed"
    /\ At(t, "idle")
    /\ th' = [th EXCEPT ![t].pc = "fail", ![t].key = k, ![t].auth = auth]
    /\ UNCHANGED <<tables, rec, quarantine, world>>

\* Mutant of Adopted: fail() trusts the flags of the record.
AdoptedMut(k) == rec[k]

(* Take the settlement lock, adopt by key a reservation whose identity was *)
(* never recorded, and snapshot the record.                                *)
Adopted(k) ==
    IF rec[k].bound \/ ~HasRow(k)
      THEN rec[k]
      ELSE [rec[k] EXCEPT !.bound = TRUE, !.reserved = Held(k),
                          !.committed = RowState(k) = "COMMITTED"]

FailStart(t) ==
    LET k == th[t].key
        record == Adopted(k)
    IN  /\ At(t, "fail")
        /\ Acquire(t, k)
        /\ rec' = [rec EXCEPT ![k] = record]
        /\ th' = [th EXCEPT ![t].pc = "settle",
                            ![t].paid = record.committed,
                            ![t].owns = record.reserved \/ record.committed,
                            ![t].from = record.state]
        /\ UNCHANGED <<tables, quarantine, active, prov, calls, faults>>

\* Mutants: a refund without proof; a release that forgets CREATED.
MayRefundMut(t) == th[t].from \in {"DISPATCHING", "UNKNOWN"}
MayReleaseMut(t) == th[t].from \in {"HOLD", "RESERVED", "ESCALATED"}

(* Refund a committed budget only on proof and only from DISPATCHING or    *)
(* UNKNOWN; release a reservation only before dispatch; an operation that  *)
(* owns nothing is failed at once.                                         *)
MayRefund(t) == th[t].auth /\ th[t].from \in {"DISPATCHING", "UNKNOWN"}
MayRelease(t) == th[t].from \in {"CREATED", "HOLD", "RESERVED", "ESCALATED"}

FailSettle(t) ==
    LET k == th[t].key
        refunds == th[t].owns /\ th[t].paid /\ MayRefund(t)
        releases == th[t].owns /\ ~th[t].paid /\ MayRelease(t)
        settled == \/ refunds /\ RefundResult(k) \in {"REFUNDED", "ALREADY_REFUNDED"}
                   \/ releases /\ ReleaseResult(k) \in {"RELEASED", "ALREADY_RELEASED"}
    IN  /\ At(t, "settle")
        /\ CASE refunds  -> Refund(k)
             [] releases -> Release(k)
             [] OTHER    -> UNCHANGED tables
        /\ IF th[t].owns THEN UNCHANGED rec ELSE TransitionTo(k, "FAILED")
        /\ IF settled THEN Goto(t, "unflag") /\ UNCHANGED <<lock, active>> ELSE Return(t)
        /\ UNCHANGED <<quarantine, prov, calls, faults>>

\* The compensated budget is no longer owned; shared with reconcile_unknown.
ClearFlags(t) ==
    /\ At(t, "unflag")
    /\ SetBudgetFlags(th[t].key, FALSE, FALSE)
    /\ Goto(t, "failed")
    /\ UNCHANGED <<tables, quarantine, world>>

FailFinal(t) ==
    /\ At(t, "failed")
    /\ TransitionTo(th[t].key, "FAILED")
    /\ Return(t)
    /\ UNCHANGED <<tables, quarantine, prov, calls, faults>>

-----------------------------------------------------------------------------
\* Mutant of DispatchClaim: a second worker may claim a DISPATCHING operation.
DispatchClaimMut(t, k, live) ==
    /\ At(t, "idle")
    /\ CanMove(k, "DISPATCHING") \/ State(k) = "DISPATCHING"
    /\ rec' = [rec EXCEPT ![k].state = "DISPATCHING", ![k].by = ProcOf[t]]
    /\ th' = [th EXCEPT ![t].pc = IF live THEN "mark" ELSE "commit",
                        ![t].key = k, ![t].live = live]
    /\ UNCHANGED <<tables, quarantine, world>>

(* dispatch / dispatch_and_execute.  The durable claim is made under the   *)
(* quarantine gate; the active marker is set in process memory only after  *)
(* the claim is on disk, and reconcile_unknown does not take the gate.     *)
DispatchClaim(t, k, live) ==
    /\ At(t, "idle")
    /\ CanMove(k, "DISPATCHING")
    /\ rec' = [rec EXCEPT ![k].state = "DISPATCHING", ![k].by = ProcOf[t]]
    /\ th' = [th EXCEPT ![t].pc = IF live THEN "mark" ELSE "commit",
                        ![t].key = k, ![t].live = live]
    /\ UNCHANGED <<tables, quarantine, world>>

DispatchMark(t) ==
    /\ At(t, "mark")
    /\ active' = active \cup {<<ProcOf[t], th[t].key>>}
    /\ Goto(t, "commit")
    /\ UNCHANGED <<tables, rec, quarantine, lock, prov, calls, faults>>

\* Mutant of Charged: any answer of a known reservation counts as charged.
ChargedMut(k) == CommitResult(k) # "NOT_FOUND"

\* The commit answers that let a method go on.
Charged(k) == CommitResult(k) \in {"COMMITTED", "ALREADY_COMMITTED"}

(* Under the settlement lock: the claim must still be this worker's, the   *)
(* reservation identified and, by policy, still RESERVED; then the budget  *)
(* is committed before the provider is called.                             *)
DispatchCommit(t) ==
    LET k == th[t].key
        mine == /\ State(k) = "DISPATCHING" /\ rec[k].by = ProcOf[t]
                /\ rec[k].bound
                /\ RevalidateBudget => RowState(k) = "RESERVED"
    IN  /\ At(t, "commit")
        /\ lock[k] = NoThread
        /\ IF mine THEN Commit(k) ELSE UNCHANGED tables
        /\ IF mine /\ Charged(k)
             THEN Goto(t, "cflags") /\ Acquire(t, k) /\ UNCHANGED active
             ELSE Return(t)
        /\ UNCHANGED <<rec, quarantine, prov, calls, faults>>

DispatchFlags(t) ==
    LET k == th[t].key
    IN  /\ At(t, "cflags")
        /\ SetBudgetFlags(k, FALSE, TRUE)
        /\ Goto(t, "exec")
        /\ Unlock(t, k)
        /\ UNCHANGED <<tables, quarantine, active, prov, calls, faults>>

\* Only an outcome that reports the effect leads to confirm().
Confirms(outcome) == outcome = "effect"

(* provider.execute.  The request reaches the provider: it may carry it    *)
(* out, refuse it for good, or still be working on it.  The reply may be   *)
(* lost whatever happened (timeout or exception: UNKNOWN).  After a bare   *)
(* dispatch() (live = FALSE) the caller performs the effect itself.        *)
DispatchExecute(t) ==
    LET k == th[t].key
    IN  /\ At(t, "exec")
        /\ calls' = [calls EXCEPT ![k] = @ + 1]
        /\ \E p \in IF prov[k] = "none" THEN {"pending", "effect", "failed"} ELSE {prov[k]} :
              /\ prov' = [prov EXCEPT ![k] = p]
              /\ \/ /\ th[t].live /\ Confirms(p)
                    /\ Goto(t, "confirm") /\ UNCHANGED active
                 \/ /\ th[t].live /\ p = "failed"
                    /\ th' = [th EXCEPT ![t].pc = "fail", ![t].auth = TRUE] /\ UNCHANGED active
                 \/ /\ th[t].live
                    /\ Goto(t, "unknown") /\ UNCHANGED active
                 \/ /\ th[t].live => p = "pending"
                    /\ th' = [th EXCEPT ![t] = IdleThread] /\ Discard(t)
        /\ UNCHANGED <<tables, rec, quarantine, lock, faults>>

\* Timeout, exception, or FAILED contradicted by S3: the outcome is UNKNOWN.
DispatchUnknown(t) ==
    /\ At(t, "unknown")
    /\ TransitionTo(th[t].key, "UNKNOWN")
    /\ Return(t)
    /\ UNCHANGED <<tables, quarantine, prov, calls, faults>>

-----------------------------------------------------------------------------
\* confirm(): the caller has seen the effect.
ConfirmCall(t, k) ==
    /\ prov[k] = "effect"
    /\ Start(t, k, "confirm")
    /\ UNCHANGED <<tables, rec, quarantine, world>>

ConfirmStart(t) ==
    LET k == th[t].key
        eligible == State(k) \in {"DISPATCHING", "UNKNOWN"} /\ rec[k].bound
    IN  /\ At(t, "confirm")
        /\ lock[k] = NoThread
        /\ IF eligible THEN Commit(k) ELSE UNCHANGED tables
        /\ IF eligible /\ Charged(k)
             THEN Goto(t, "kflags") /\ Acquire(t, k) /\ UNCHANGED active
             ELSE Return(t)
        /\ UNCHANGED <<rec, quarantine, prov, calls, faults>>

\* Ownership of the committed budget, then CONFIRMED; shared with reconcile.
ConfirmFlags(t) ==
    /\ At(t, "kflags")
    /\ SetBudgetFlags(th[t].key, FALSE, TRUE)
    /\ Goto(t, "confirmed")
    /\ UNCHANGED <<tables, quarantine, world>>

ConfirmFinal(t) ==
    /\ At(t, "confirmed")
    /\ TransitionTo(th[t].key, "CONFIRMED")
    /\ Return(t)
    /\ UNCHANGED <<tables, quarantine, prov, calls, faults>>

-----------------------------------------------------------------------------
\* Mutant of Unresolved: an interrupted dispatch is never reconciled.
UnresolvedMut(k) == State(k) = "UNKNOWN"

\* The states reconcile_unknown accepts.
Unresolved(k) == State(k) \in {"UNKNOWN", "DISPATCHING"}

(* reconcile_unknown.  The active marker is the only protection against a  *)
(* running execute, and it is local to the process.                        *)
ReconcileStart(t, k) ==
    /\ Unresolved(k)
    /\ <<ProcOf[t], k>> \notin active
    /\ Start(t, k, "ask")
    /\ UNCHANGED <<tables, rec, quarantine, world>>

Answers(k) ==
    {"UNRESOLVED"}
      \cup (IF prov[k] = "effect" THEN {"CONFIRMED"} ELSE {})
      \cup (IF prov[k] = "failed" \/ (AbsenceIsFailure /\ prov[k] = "none")
              THEN {"FAILED"} ELSE {})

\* The provider answers; no lock is held.
ReconcileAsk(t) ==
    /\ At(t, "ask")
    /\ \E a \in Answers(th[t].key) : th' = [th EXCEPT ![t].pc = "apply", ![t].arg = a]
    /\ UNCHANGED <<tables, rec, quarantine, world>>

\* provider.reconcile raises: an interrupted dispatch becomes UNKNOWN.
ReconcileRaises(t) ==
    LET k == th[t].key
    IN  /\ At(t, "ask")
        /\ IF State(k) = "DISPATCHING" THEN TransitionTo(k, "UNKNOWN") ELSE UNCHANGED rec
        /\ Return(t)
        /\ UNCHANGED <<tables, quarantine, prov, calls, faults>>

(* Settlement of the answer: the state is re-read under the lock; the      *)
(* reservation is found by identity or by key and its identity persisted   *)
(* before its state is changed.  A FAILED answer contradicted by S3 is     *)
(* handled like an unresolved one.                                         *)
ReconcileApply(t) ==
    LET k == th[t].key
        open == Unresolved(k)
        proceed == open /\ th[t].arg # "UNRESOLVED" /\ HasRow(k)
    IN  /\ At(t, "apply")
        /\ lock[k] = NoThread
        /\ CASE proceed -> rec' = [rec EXCEPT ![k].bound = TRUE]
             [] open /\ th[t].arg = "UNRESOLVED" /\ State(k) = "DISPATCHING" ->
                  TransitionTo(k, "UNKNOWN")
             [] OTHER -> UNCHANGED rec
        /\ IF proceed
             THEN Goto(t, "compensate") /\ Acquire(t, k) /\ UNCHANGED active
             ELSE Return(t)
        /\ UNCHANGED <<tables, quarantine, prov, calls, faults>>

(* The durable row decides, not the flags: a confirmed effect commits it,  *)
(* proven non-execution refunds or releases it.                            *)
ReconcileSettle(t) ==
    LET k == th[t].key
        effect == th[t].arg = "CONFIRMED"
        charged == effect /\ RowState(k) \in {"RESERVED", "COMMITTED"} /\ Charged(k)
        returned == ~effect /\ RowState(k) \in {"COMMITTED", "REFUNDED", "RESERVED", "RELEASED"}
                    /\ \/ RefundResult(k) \in {"REFUNDED", "ALREADY_REFUNDED"}
                       \/ ReleaseResult(k) \in {"RELEASED", "ALREADY_RELEASED"}
    IN  /\ At(t, "compensate")
        /\ CASE effect /\ RowState(k) \in {"RESERVED", "COMMITTED"} -> Commit(k)
             [] ~effect /\ RowState(k) \in {"COMMITTED", "REFUNDED"} -> Refund(k)
             [] ~effect /\ RowState(k) \in {"RESERVED", "RELEASED"} -> Release(k)
             [] OTHER -> UNCHANGED tables
        /\ CASE charged  -> Goto(t, "kflags") /\ UNCHANGED <<lock, active>>
             [] returned -> Goto(t, "unflag") /\ UNCHANGED <<lock, active>>
             [] OTHER    -> Return(t)
        /\ UNCHANGED <<rec, quarantine, prov, calls, faults>>

-----------------------------------------------------------------------------
(* A scenario caller sets up a held operation itself, as the demo and the  *)
(* tests do: registry.register, a recorded reservation, and enter_hold     *)
(* with its own bound tau_k.  The governor's adjudicate never sets one.    *)
ScenarioHold(k) ==
    /\ State(k) = "NONE"
    /\ ReserveResult(k, AmountOf[k], ResourceOf[k]) = "RESERVED"
    /\ Reserve(k, AmountOf[k], ResourceOf[k])
    /\ rec' = [rec EXCEPT ![k].state = "HOLD", ![k].tau = "running",
                          ![k].reserved = TRUE, ![k].bound = TRUE]
    /\ UNCHANGED <<quarantine, th, world>>

\* Wall-clock time passes the bound of a hold.
TauElapses(k) ==
    /\ rec[k].tau = "running"
    /\ rec' = [rec EXCEPT ![k].tau = "expired"]
    /\ UNCHANGED <<tables, quarantine, th, world>>

\* resolve_hold takes the settlement lock and re-runs the kernels under it.
ResolveHoldStart(t, k) ==
    /\ State(k) = "HOLD"
    /\ ~quarantine
    /\ Start(t, k, "resolve")
    /\ Acquire(t, k)
    /\ UNCHANGED <<tables, rec, quarantine, active, prov, calls, faults>>

(* _re_adjudicate_hold: any decision; a quarantine seen by now, or at the  *)
(* gate, retains HOLD.                                                     *)
ResolveHoldDecide(t) ==
    LET k == th[t].key
    IN  /\ At(t, "resolve")
        /\ \/ /\ ~quarantine
              /\ TransitionTo(k, "RESERVED") /\ Return(t)
           \/ /\ ~quarantine /\ rec[k].reserved
              /\ th' = [th EXCEPT ![t].pc = "hrelease", ![t].arg = "VETO"]
              /\ UNCHANGED <<rec, lock, active>>
           \/ /\ ~quarantine /\ ~rec[k].reserved
              /\ TransitionTo(k, "FAILED") /\ Return(t)
           \/ UNCHANGED rec /\ Return(t)
        /\ UNCHANGED <<tables, quarantine, prov, calls, faults>>

\* escalate_hold, approval and expire_escalated: one write under the lock.
EscalateHold(k) ==
    /\ lock[k] = NoThread
    /\ State(k) = "HOLD"
    /\ TransitionTo(k, "ESCALATED")
    /\ UNCHANGED <<tables, quarantine, th, world>>

ApproveExit(k) ==
    /\ lock[k] = NoThread
    /\ State(k) = "ESCALATED"
    /\ ~quarantine
    /\ TransitionTo(k, "HOLD")
    /\ UNCHANGED <<tables, quarantine, th, world>>

ExpireEscalated(k) ==
    /\ lock[k] = NoThread
    /\ State(k) = "ESCALATED"
    /\ TransitionTo(k, "UNKNOWN")
    /\ UNCHANGED <<tables, quarantine, th, world>>

\* mark_unknown takes no lock.
MarkUnknown(k) ==
    /\ CanMove(k, "UNKNOWN")
    /\ TransitionTo(k, "UNKNOWN")
    /\ UNCHANGED <<tables, quarantine, th, world>>

(* authorize_exit(approve=False) and expire_hold release the reservation   *)
(* before the terminal transition; check_tau_k_expiry accepts ESCALATED.   *)
HoldExitStart(t, k, exit) ==
    /\ IF exit = "deny" THEN State(k) = "ESCALATED" ELSE TauExpired(k)
    /\ ~rec[k].committed
    /\ At(t, "idle")
    /\ th' = [th EXCEPT ![t].pc = IF rec[k].reserved THEN "hrelease" ELSE "hfinal",
                        ![t].key = k, ![t].arg = exit]
    /\ Acquire(t, k)
    /\ UNCHANGED <<tables, rec, quarantine, active, prov, calls, faults>>

HoldRelease(t) ==
    LET k == th[t].key
    IN  /\ At(t, "hrelease")
        /\ Release(k)
        /\ IF rec[k].bound /\ ReleaseResult(k) \in {"RELEASED", "ALREADY_RELEASED"}
             THEN Goto(t, "hflags") /\ UNCHANGED <<lock, active>>
             ELSE Return(t)
        /\ UNCHANGED <<rec, quarantine, prov, calls, faults>>

HoldFlags(t) ==
    /\ At(t, "hflags")
    /\ SetBudgetFlags(th[t].key, FALSE, FALSE)
    /\ Goto(t, "hfinal")
    /\ UNCHANGED <<tables, quarantine, world>>

(* HoldManager re-checks the state of its own path: denial needs           *)
(* ESCALATED, expiry needs HOLD and an expired tau_k.                      *)
HoldExitFinal(t) ==
    LET k == th[t].key
        admits == CASE th[t].arg = "deny"   -> State(k) = "ESCALATED"
                    [] th[t].arg = "expire" -> State(k) = "HOLD" /\ TauExpired(k)
                    [] OTHER                -> TRUE
    IN  /\ At(t, "hfinal")
        /\ IF admits THEN TransitionTo(k, "FAILED") ELSE UNCHANGED rec
        /\ Return(t)
        /\ UNCHANGED <<tables, quarantine, prov, calls, faults>>

-----------------------------------------------------------------------------
LockQuarantine ==
    /\ ~quarantine
    /\ quarantine' = TRUE
    /\ UNCHANGED <<tables, rec, th, world>>

ReleaseQuarantine ==
    /\ quarantine
    /\ quarantine' = FALSE
    /\ UNCHANGED <<tables, rec, th, world>>

\* External: a request the provider accepted is carried out or refused.
ProviderSettles(k) ==
    /\ prov[k] = "pending"
    /\ \E p \in {"effect", "failed"} : prov' = [prov EXCEPT ![k] = p]
    /\ UNCHANGED <<tables, rec, quarantine, th, lock, active, calls, faults>>

(* A durable write or backend call of a settlement raises: the method      *)
(* returns and the locks are released.  In _reserve_budget it is a veto.   *)
(* When the provider answered UNKNOWN, and the write of that state raises, *)
(* dispatch_and_execute is left before its discard: the marker of an       *)
(* execute that is over stays.  When the provider raised, a finally clause *)
(* drops it.                                                               *)
Fallible == {"settle", "unflag", "failed", "commit", "cflags", "unknown", "confirm",
             "kflags", "confirmed", "apply", "compensate", "resolve", "hrelease",
             "hflags", "hfinal", "fail"}

StepFails(t) ==
    /\ faults < MaxFaults
    /\ faults' = faults + 1
    /\ \/ th[t].pc \in Fallible /\ Return(t)
       \/ /\ At(t, "unknown")
          /\ th' = [th EXCEPT ![t] = IdleThread]
          /\ UNCHANGED <<lock, active>>
       \/ /\ At(t, "reserve")
          /\ th' = [th EXCEPT ![t].pc = "claim", ![t].arg = "VETO"]
          /\ UNCHANGED <<lock, active>>
    /\ UNCHANGED <<tables, rec, quarantine, prov, calls>>

\* A process dies: its threads, file locks and active markers are gone.
Crash(p) ==
    /\ faults < MaxFaults
    /\ faults' = faults + 1
    /\ \/ \E t \in Threads : ProcOf[t] = p /\ ~At(t, "idle")
       \/ \E k \in Keys : <<p, k>> \in active
    /\ th' = [t \in Threads |-> IF ProcOf[t] = p THEN IdleThread ELSE th[t]]
    /\ lock' = [k \in Keys |-> IF lock[k] \in Threads /\ ProcOf[lock[k]] = p
                                 THEN NoThread ELSE lock[k]]
    /\ active' = {a \in active : a[1] # p}
    /\ UNCHANGED <<tables, rec, quarantine, prov, calls>>

-----------------------------------------------------------------------------
Adjudicating(t) == \/ AdjudicateCompose(t) \/ AdjudicateReserve(t) \/ AdjudicateFlags(t)
                   \/ AdjudicateFlagsFail(t) \/ AdjudicateClaim(t)
Failing(t) == FailStart(t) \/ FailSettle(t) \/ ClearFlags(t) \/ FailFinal(t)
Dispatching(t) == \/ DispatchMark(t) \/ DispatchCommit(t) \/ DispatchFlags(t)
                  \/ DispatchExecute(t) \/ DispatchUnknown(t)
Confirming(t) == ConfirmStart(t) \/ ConfirmFlags(t) \/ ConfirmFinal(t)
Reconciling(t) == \/ ReconcileAsk(t) \/ ReconcileRaises(t) \/ ReconcileApply(t)
                  \/ ReconcileSettle(t)
Holding(t) == ResolveHoldDecide(t) \/ HoldRelease(t) \/ HoldFlags(t) \/ HoldExitFinal(t)

\* One step of a method already under way.
Step(t) == \/ Adjudicating(t) \/ Failing(t) \/ Dispatching(t)
           \/ Confirming(t) \/ Reconciling(t) \/ Holding(t)

\* A caller invokes a method on thread t.
Call(t, k) ==
    \/ AdjudicateRegister(t, k)
    \/ \E auth \in BOOLEAN : FailCall(t, k, auth)
    \/ \E live \in LiveModes : DispatchClaim(t, k, live)
    \/ ConfirmCall(t, k)
    \/ ReconcileStart(t, k)
    \/ ResolveHoldStart(t, k)
    \/ \E exit \in {"deny", "expire"} : HoldExitStart(t, k, exit)

\* Calls that are a single durable write.
Write(k) == \/ ScenarioHold(k) \/ EscalateHold(k) \/ ApproveExit(k)
            \/ ExpireEscalated(k) \/ MarkUnknown(k)

Environment(k) == TauElapses(k) \/ ProviderSettles(k)

Next ==
    \/ \E t \in Threads, k \in Keys : Call(t, k)
    \/ \E t \in Threads : Step(t)
    \/ \E k \in Keys : Write(k)
    \/ \E k \in Keys : Environment(k)
    \/ LockQuarantine
    \/ ReleaseQuarantine
    \/ \E t \in Threads : StepFails(t)
    \/ \E p \in Procs : Crash(p)

Spec == Init /\ [][Next]_vars

(* Fairness: a method under way goes on, and the file lock starves no      *)
(* thread; an operation left DISPATCHING, UNKNOWN or CREATED is eventually *)
(* taken up again in a retrying process, as recover() and                  *)
(* resume_existing() tell the operator to do; a provider that knows the    *)
(* outcome does not withhold it for ever.                                  *)
ReconcileAnswered(t) == ReconcileAsk(t) /\ th'[t].arg # "UNRESOLVED"
RecoverCreated(t, k) == FailCall(t, k, FALSE) /\ State(k) = "CREATED"
Retriers == {t \in Threads : ProcOf[t] \in Retrying}

FairSpec ==
    /\ Spec
    /\ \A t \in Threads : SF_vars(Step(t))
    /\ \A k \in Keys : SF_vars(\E t \in Retriers : ReconcileStart(t, k))
    /\ \A k \in Keys : SF_vars(\E t \in Retriers : RecoverCreated(t, k))
    /\ SF_vars(\E t \in Threads : ReconcileAnswered(t))

-----------------------------------------------------------------------------
(* An operation that ended FAILED holds no budget: whatever crashed or     *)
(* raced, its reservation was never made, or was released or refunded.     *)
FailedHoldsNoBudget ==
    \A k \in Keys : State(k) = "FAILED" =>
        ~HasRow(k) \/ RowState(k) \in {"RELEASED", "REFUNDED"}

(* "Confirm an external effect only after durable budget ownership         *)
(* agrees": CONFIRMED is backed by a committed row and by the effect.      *)
ConfirmedIsCharged ==
    \A k \in Keys : State(k) = "CONFIRMED" =>
        RowState(k) = "COMMITTED" /\ prov[k] = "effect"

(* While the provider may have acted, or has acted, the budget stays       *)
(* committed and the operation is not reported FAILED.                     *)
EffectIsCharged ==
    \A k \in Keys : prov[k] \in {"pending", "effect"} =>
        RowState(k) = "COMMITTED" /\ State(k) \in {"DISPATCHING", "UNKNOWN", "CONFIRMED"}

(* Status, ledger and provider tell one story at every moment, whatever    *)
(* was interrupted, raced or answered late: the three rules above.         *)
OutcomeBacked == FailedHoldsNoBudget /\ ConfirmedIsCharged /\ EffectIsCharged

(* One adjudicated operation reaches the provider at most once, whichever  *)
(* workers race to dispatch it and whatever is retried after a crash.      *)
ExecutedAtMostOnce == \A k \in Keys : calls[k] <= 1

(* The registry never claims more than the ledger holds: a committed flag  *)
(* has a committed row until the refund clears it, a reserved flag a row.  *)
FlagsBacked ==
    \A k \in Keys :
        /\ rec[k].committed => RowState(k) \in {"COMMITTED", "REFUNDED"}
        /\ rec[k].reserved => RowState(k) \in {"RESERVED", "COMMITTED", "RELEASED", "REFUNDED"}
        /\ rec[k].bound => HasRow(k)

(* Records, tables and threads are well formed, and no interrupted write   *)
(* leaves a budget flag in the registry without a row to back it.          *)
RecordsBacked == TypeOK /\ FlagsBacked

-----------------------------------------------------------------------------
\* The refinement mapping to BudgetedOperation.
statusMap == [k \in Keys |->
    CASE State(k) = "NONE" -> "absent"
      [] State(k) = "CONFIRMED" -> "confirmed"
      [] State(k) = "FAILED" -> "failed"
      [] OTHER -> "open"]
moneyMap == [k \in Keys |->
    CASE ~HasRow(k) -> "none"
      [] RowState(k) \in {"RESERVED", "UNKNOWN"} -> "held"
      [] RowState(k) = "COMMITTED" -> "spent"
      [] OTHER -> "returned"]
effectMap == [k \in Keys |->
    CASE prov[k] = "none" -> "none"
      [] prov[k] = "pending" -> "possible"
      [] prov[k] = "effect" -> "done"
      [] OTHER -> "refused"]

Promise == INSTANCE BudgetedOperation
             WITH status <- statusMap, money <- moneyMap, effect <- effectMap

(* The threads, locks, crashes and retries of the governor only ever show  *)
(* the behaviour BudgetedOperation promises: every durable step of every   *)
(* method is one of its steps or changes nothing it can see.               *)
KeepsPromise == Promise!Spec

\* The marker of an execute that is over: p will not reconcile k again.
Leaked(p, k) ==
    /\ <<p, k>> \in active
    /\ \A t \in Threads : ProcOf[t] = p => ~(th[t].live /\ th[t].key = k)

(* Reconciliation converges, although only some processes retry it: once   *)
(* the provider's outcome is final, the operation reaches a terminal       *)
(* state, from every crash point.  The one exception is the code's: every  *)
(* retrying process has kept the marker of an execute that is over, and    *)
(* defers for as long as it lives.                                         *)
OutcomeSettles ==
    \A k \in Keys : prov[k] \in {"effect", "failed"} ~>
        State(k) \in Terminal \/ \A p \in Retrying : Leaked(p, k)

(* An admission interrupted anywhere between the durable claim and the     *)
(* final claim does not stay CREATED: fail() adopts and closes it.         *)
AdmissionCompletes == \A k \in Keys : State(k) = "CREATED" ~> State(k) # "CREATED"
=============================================================================
