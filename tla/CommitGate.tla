----------------------------- MODULE CommitGate -----------------------------
(***************************************************************************)
(* The governor's Profile S commit gate: authorize_commit, the consumption *)
(* of the authorization, the dispatch claim and the provider call, run by  *)
(* several workers over one durable registry and one commit authority.     *)
(*                                                                         *)
(* A step is one transaction of the registry or of the authority.  Between *)
(* two steps a worker may die, other workers act, the trust is rotated and *)
(* the quarantine is set or lifted.  An authority call may fail before its *)
(* commit, or commit and lose its reply.  The budget side of a dispatch is *)
(* the subject of Governor and left out.                                   *)
(***************************************************************************)
EXTENDS CommitAuthority

CONSTANTS Workers, Ops,
          Payloads,       \* the provider payloads
          PayloadOf,      \* the payload each operation was adjudicated with
          Times,          \* the decision times callers pass
          Rotations,      \* trust changes an operator makes: pairs of an id and an envelope
          MaxFaults       \* bound on failing authority calls, deaths and quarantines, together

ASSUME GateAssumption ==
    /\ \A q \in Requests : q.payload \in Payloads
    /\ PayloadOf \in [Ops -> Payloads]
    /\ \A x \in Rotations : x[2] \in Envelopes
    /\ MaxFaults \in Nat

VARIABLES ops,          \* the commit-gate part of each operation record
          loc,          \* what each worker holds in local variables
          quarantine,   \* whether the durable quarantine blocks dispatch
          provided,     \* history: the payloads each operation's provider call received
          faults        \* failed calls, deaths and quarantines so far

gate == <<ops, loc, provided>>
world == <<quarantine, faults>>
gateVars == <<store, tables, gate, world>>

Idle == [pc |-> "idle", op |-> None, request |-> None, receipt |-> None,
         consumption |-> None, payload |-> None, status |-> None]
Fresh == [state |-> "RESERVED", request |-> None, receipt |-> None, claim |-> None,
          consumption |-> None, authorization_status |-> "", consumption_status |-> ""]
Statuses == {"", "TRUST_COMMITTING", "TRUST_COMMITTED", "TRUST_CONSUMED", "TRUST_UNKNOWN", "HOLD"}
WorkerPCs ==
    {"idle", "request", "authorize", "lookup", "bind", "claim", "find", "consume",
     "find_again", "attach", "dispatch", "provider", "authorization", "consumption"}

Records ==
    [state : {"RESERVED", "DISPATCHING", "FAILED"}, request : Requests \cup {None},
     receipt : AuthorizationRow \cup {None}, claim : DispatchClaims \cup {None},
     consumption : ConsumptionRow \cup {None},
     authorization_status : Statuses, consumption_status : Statuses]
Locals ==
    [pc : WorkerPCs, op : Ops \cup {None}, request : Requests \cup {None},
     receipt : AuthorizationRow \cup {None}, consumption : ConsumptionRow \cup {None},
     payload : Payloads \cup {None}, status : Statuses \cup {None}]

GateTypeOK ==
    /\ TypeOKStore
    /\ authorizations \in Seq(AuthorizationRow) /\ consumptions \in Seq(ConsumptionRow)
    /\ ops \in [Ops -> Records] /\ loc \in [Workers -> Locals]
    /\ provided \in [Ops -> Seq(Payloads)]
    /\ quarantine \in BOOLEAN /\ faults \in 0 .. MaxFaults

GateInit ==
    /\ InitStore /\ InitTables
    /\ ops = [k \in Ops |-> Fresh] /\ loc = [w \in Workers |-> Idle]
    /\ provided = [k \in Ops |-> <<>>]
    /\ quarantine = FALSE /\ faults = 0

Fault == faults < MaxFaults /\ faults' = faults + 1 /\ UNCHANGED quarantine
Goto(w, pc) == loc' = [loc EXCEPT ![w].pc = pc]
Return(w) == loc' = [loc EXCEPT ![w] = Idle]

(***************************************************************************)
(* The registry's commit-gate mutators, each one file-locked transaction.  *)
(***************************************************************************)
\* Mutant of Settable: a value that is already there may be replaced.
SettableMut(rec, field, value) == rec.state = "RESERVED"

\* Mutant of Settable: the same value is refused the second time.
SettableOnce(rec, field, value) ==
    /\ rec[field] = None /\ rec.state = "RESERVED"
    /\ field = "consumption" => rec.receipt # None

(* _set_immutable_commit_value: a value is set once, while RESERVED, and   *)
(* the same value may come again in any state.                             *)
Settable(rec, field, value) ==
    \/ rec[field] = value
    \/ /\ rec[field] = None /\ rec.state = "RESERVED"
       /\ field = "consumption" => rec.receipt # None

SetValue(registry, k, field, value, status_field, status) ==
    [registry EXCEPT ![k][field] = value, ![k][status_field] = status]

(* The status record_commit_authorization_receipt derives.                 *)
SetReceipt(registry, k, r) ==
    SetValue(registry, k, "receipt", r, "authorization_status",
             IF r.decision = "AUTHORIZED" THEN "TRUST_COMMITTED" ELSE "HOLD")

(* ensure_commit_dispatch_claim: the first claim stays.                    *)
SetClaim(registry, k, claim) == [registry EXCEPT ![k].claim = IF @ = None THEN claim ELSE @]

(* record_commit_consumption_receipt: only for the claim of the record.    *)
ConsumptionSettable(rec, r) == r.claim = rec.claim /\ Settable(rec, "consumption", r)
SetConsumption(registry, k, r) ==
    SetValue(registry, k, "consumption", r, "consumption_status",
             IF r.decision = "CONSUMED" THEN "TRUST_CONSUMED" ELSE "HOLD")

(* record_commit_gate_status, from _record_commit_gate_status: it writes   *)
(* the status whatever the record says by now.                             *)
SetStatus(registry, w) ==
    [registry EXCEPT ![loc[w].op][IF loc[w].pc = "authorization" THEN "authorization_status"
                                  ELSE "consumption_status"] = loc[w].status]

RecordGateStatus(w) ==
    /\ loc[w].pc \in {"authorization", "consumption"}
    /\ ops' = SetStatus(ops, w)
    /\ Return(w)
    /\ UNCHANGED <<store, tables, provided, world>>

GiveStatus(w, phase, status) == loc' = [loc EXCEPT ![w].pc = phase, ![w].status = status]

(***************************************************************************)
(* authorize_commit                                                        *)
(***************************************************************************)
commit_request_matches_record(q, k) == q.authority = Authority /\ q.op = k /\ q.payload = PayloadOf[k]

AuthorizeStart(w, k, q) ==
    /\ loc[w].pc = "idle"
    /\ ops[k].state = "RESERVED" /\ commit_request_matches_record(q, k)
    /\ loc' = [loc EXCEPT ![w] = [Idle EXCEPT !.pc = "request", !.op = k, !.request = q]]
    /\ UNCHANGED <<store, tables, ops, provided, world>>

(* record_commit_authorization_request, before the authority is called.    *)
RecordRequest(w) ==
    LET k == loc[w].op IN
    /\ loc[w].pc = "request"
    /\ IF Settable(ops[k], "request", loc[w].request)
       THEN /\ ops' = SetValue(ops, k, "request", loc[w].request, "authorization_status", "TRUST_COMMITTING")
            /\ Goto(w, "authorize")
       ELSE Return(w) /\ UNCHANGED ops
    /\ UNCHANGED <<store, tables, provided, world>>

(* commit_authority.authorize: refused, failed before the commit, answered,*)
(* or committed with the reply lost.                                       *)
AuthorizeFails(w) ==
    /\ loc[w].pc = "authorize"
    /\ IF RequestConflict(authorizations, loc[w].request) THEN UNCHANGED world ELSE Fault
    /\ Goto(w, "lookup")
    /\ UNCHANGED <<store, tables, ops, provided>>

Authorize(w, f, c, s, now) ==
    LET q == loc[w].request
        row == Row(authorizations', q.id)
    IN  /\ loc[w].pc = "authorize" /\ ~RequestConflict(authorizations, q)
        /\ authorize(q, BoundFinding(f, q.claim, q.prior, q.scope), c, s, now)
        /\ \/ /\ loc' = [loc EXCEPT ![w].pc = "bind", ![w].receipt =
                           [row EXCEPT !.replayed = Recorded(authorizations, q.id) # {}]]
              /\ UNCHANGED world
           \/ Goto(w, "lookup") /\ Fault
        /\ UNCHANGED <<store, ops, provided>>

LookupAuthorization(w) ==
    LET q == loc[w].request
        found == Recorded(authorizations, q.id) # {} /\ ~RequestConflict(authorizations, q)
    IN  /\ loc[w].pc = "lookup"
        /\ \/ /\ found
              /\ loc' = [loc EXCEPT ![w].pc = "bind", ![w].receipt =
                           [Row(authorizations, q.id) EXCEPT !.replayed = TRUE]]
              /\ UNCHANGED world
           \/ /\ IF found THEN Fault ELSE UNCHANGED world
              /\ GiveStatus(w, "authorization", "TRUST_UNKNOWN")
        /\ UNCHANGED <<store, tables, ops, provided>>

(* verify_authorization_receipt, then record_commit_authorization_receipt. *)
BindReceipt(w) ==
    LET k == loc[w].op
        r == receipt_to_dict(loc[w].receipt)
    IN  /\ loc[w].pc = "bind"
        /\ IF verify_authorization_receipt(loc[w].receipt, loc[w].request) /\ Settable(ops[k], "receipt", r)
           THEN /\ ops' = SetReceipt(ops, k, r)
                /\ IF r.decision = "AUTHORIZED" THEN Return(w)
                   ELSE GiveStatus(w, "authorization", "HOLD")
           ELSE GiveStatus(w, "authorization", "HOLD") /\ UNCHANGED ops
        /\ UNCHANGED <<store, tables, provided, world>>

(***************************************************************************)
(* dispatch_and_execute                                                    *)
(***************************************************************************)
(* The caller's mapping, which it may still change, is copied first; the   *)
(* copy is what is digested here, under the lock, and given to the         *)
(* provider.                                                               *)
DispatchStart(w, k, p) ==
    /\ loc[w].pc = "idle" /\ ops[k].state = "RESERVED"
    /\ p = PayloadOf[k]
    /\ ~quarantine
    /\ loc' = [loc EXCEPT ![w] = [Idle EXCEPT !.pc = "claim", !.op = k, !.payload = p]]
    /\ UNCHANGED <<store, tables, ops, provided, world>>

(* The first part of _consume_commit_authorization, up to and with         *)
(* ensure_commit_dispatch_claim.  The claim is a hash of key and request.  *)
EnsureClaim(w) ==
    LET k == loc[w].op
        q == ops[k].request
    IN  /\ loc[w].pc = "claim"
        /\ IF ops[k].state # "RESERVED" \/ q = None \/ ops[k].receipt = None
           THEN Return(w) /\ UNCHANGED ops
           ELSE IF /\ commit_request_matches_record(q, k)
                   /\ verify_authorization_receipt(ops[k].receipt, q)
                   /\ ops[k].receipt.decision = "AUTHORIZED"
           THEN /\ ops' = SetClaim(ops, k, <<k, q.id>>)
                /\ loc' = [loc EXCEPT ![w].pc = "find", ![w].request = q, ![w].receipt = ops[k].receipt]
           ELSE GiveStatus(w, "consumption", "HOLD") /\ UNCHANGED ops
        /\ UNCHANGED <<store, tables, provided, world>>

(* lookup_consumption, before the call and again after one that raised.    *)
LookupConsumption(w) ==
    LET q == loc[w].request
        found == Recorded(consumptions, q.id) # {} /\ ~RequestConflict(consumptions, q)
    IN  /\ loc[w].pc \in {"find", "find_again"}
        /\ \/ /\ found
              /\ loc' = [loc EXCEPT ![w].pc = "attach", ![w].consumption =
                           [Row(consumptions, q.id) EXCEPT !.replayed = TRUE]]
              /\ UNCHANGED world
           \/ /\ loc[w].pc = "find" /\ Recorded(consumptions, q.id) = {}
              /\ Goto(w, "consume") /\ UNCHANGED world
           \/ /\ loc[w].pc = "find" /\ Goto(w, "find_again") /\ Fault
           \/ /\ loc[w].pc = "find_again"
              /\ IF found THEN Fault ELSE UNCHANGED world
              /\ GiveStatus(w, "consumption", "TRUST_UNKNOWN")
        /\ UNCHANGED <<store, tables, ops, provided>>

ConsumeFails(w) ==
    /\ loc[w].pc = "consume"
    /\ IF Consumable(loc[w].request, loc[w].receipt, ops[loc[w].op].claim) THEN Fault ELSE UNCHANGED world
    /\ Goto(w, "find_again")
    /\ UNCHANGED <<store, tables, ops, provided>>

Consume(w) ==
    LET q == loc[w].request
        row == Row(consumptions', q.id)
    IN  /\ loc[w].pc = "consume"
        /\ Consumable(q, loc[w].receipt, ops[loc[w].op].claim)
        /\ consume(q, loc[w].receipt, ops[loc[w].op].claim)
        /\ \/ /\ loc' = [loc EXCEPT ![w].pc = "attach", ![w].consumption =
                           [row EXCEPT !.replayed = Recorded(consumptions, q.id) # {}]]
              /\ UNCHANGED world
           \/ Goto(w, "find_again") /\ Fault
        /\ UNCHANGED <<store, ops, provided>>

(* verify_consumption_receipt, then record_commit_consumption_receipt.     *)
AttachConsumption(w) ==
    LET k == loc[w].op
        r == receipt_to_dict(loc[w].consumption)
    IN  /\ loc[w].pc = "attach"
        /\ IF /\ verify_consumption_receipt(loc[w].consumption, loc[w].request, loc[w].receipt)
              /\ ConsumptionSettable(ops[k], r)
           THEN /\ ops' = SetConsumption(ops, k, r)
                /\ IF r.decision = "CONSUMED" THEN Goto(w, "dispatch")
                   ELSE GiveStatus(w, "consumption", "HOLD")
           ELSE GiveStatus(w, "consumption", "HOLD") /\ UNCHANGED ops
        /\ UNCHANGED <<store, tables, provided, world>>

(* valid_commit_consumption and the registry's own check in transition_to.*)
valid_commit_consumption(rec, k) ==
    /\ None \notin {rec.request, rec.receipt, rec.consumption}
    /\ commit_request_matches_record(rec.request, k)
    /\ rec.receipt.decision = "AUTHORIZED" /\ rec.consumption.decision = "CONSUMED"
    /\ rec.consumption.claim = rec.claim
    /\ verify_consumption_receipt(rec.consumption, rec.request, rec.receipt)

(* _dispatch_under_quarantine_lock: the claim RESERVED -> DISPATCHING.     *)
ClaimDispatch(w) ==
    LET k == loc[w].op IN
    /\ loc[w].pc = "dispatch"
    /\ IF /\ loc[w].payload = PayloadOf[k] /\ valid_commit_consumption(ops[k], k)
          /\ ~quarantine /\ ops[k].state = "RESERVED"
       THEN ops' = [ops EXCEPT ![k].state = "DISPATCHING"] /\ Goto(w, "provider")
       ELSE Return(w) /\ UNCHANGED ops
    /\ UNCHANGED <<store, tables, provided, world>>

ProviderCall(w) ==
    /\ loc[w].pc = "provider"
    /\ provided' = [provided EXCEPT ![loc[w].op] = Append(@, loc[w].payload)]
    /\ Return(w)
    /\ UNCHANGED <<store, tables, ops, world>>

(***************************************************************************)
(* What happens around the workers.                                        *)
(***************************************************************************)
Die(w) ==
    /\ loc[w].pc # "idle" /\ Return(w) /\ Fault
    /\ UNCHANGED <<store, tables, ops, provided>>

(* fail() on an operation that was never dispatched.                       *)
Abandon(k) ==
    /\ ops[k].state = "RESERVED" /\ ops' = [ops EXCEPT ![k].state = "FAILED"]
    /\ UNCHANGED <<store, tables, loc, provided, world>>

(* Another governor on the same authority, with an operation of its own.   *)
Elsewhere(q, f, c, s, now) ==
    /\ q.op \notin Ops /\ Recorded(authorizations, q.id) = {}
    /\ authorize(q, BoundFinding(f, q.claim, q.prior, q.scope), c, s, now)
    /\ UNCHANGED <<store, gate, world>>

Rotate(id, env) ==
    /\ RowsOf(id) = {} /\ Transact(id, env)
    /\ UNCHANGED <<tables, gate, world>>

Lock ==
    /\ ~quarantine /\ quarantine' = TRUE
    /\ faults < MaxFaults /\ faults' = faults + 1
    /\ UNCHANGED <<store, tables, gate>>

Release ==
    /\ quarantine /\ quarantine' = FALSE
    /\ UNCHANGED <<store, tables, gate, faults>>

Continue(w) ==
    \/ RecordRequest(w) \/ LookupAuthorization(w) \/ BindReceipt(w) \/ RecordGateStatus(w)
    \/ \E f, s \in Snapshots, c \in Claims, now \in Times : Authorize(w, f, c, s, now)
    \/ EnsureClaim(w) \/ LookupConsumption(w) \/ Consume(w) \/ AttachConsumption(w)
    \/ ClaimDispatch(w) \/ ProviderCall(w)
    \/ AuthorizeFails(w) \/ ConsumeFails(w)

Work(w) ==
    \/ \E k \in Ops, q \in Requests : AuthorizeStart(w, k, q)
    \/ \E k \in Ops, p \in Payloads : DispatchStart(w, k, p)
    \/ Continue(w)
    \/ Die(w)

GateNext ==
    \/ \E w \in Workers : Work(w)
    \/ \E k \in Ops : Abandon(k)
    \/ \E x \in Rotations : Rotate(x[1], x[2])
    \/ \E q \in Requests, f, s \in Snapshots, c \in Claims, now \in Times : Elsewhere(q, f, c, s, now)
    \/ Lock \/ Release

GateSpec == GateInit /\ [][GateNext]_gateVars

(* What resume_existing tells a caller to do with a RESERVED operation.    *)
resume_existing(k) ==
    LET r == ops[k] IN
    CASE r.state # "RESERVED" -> "other"
      [] r.authorization_status = "TRUST_UNKNOWN" -> "reconcile_commit_authorization"
      [] r.authorization_status = "HOLD" -> "return_authorization_result"
      [] r.receipt = None -> "authorize_commit"
      [] r.consumption_status = "TRUST_UNKNOWN" -> "reconcile_commit_consumption"
      [] r.consumption_status = "HOLD" \/ r.receipt.decision # "AUTHORIZED" -> "return_authorization_result"
      [] OTHER -> "dispatch"

(* A caller that follows it, with the request already bound to k if any.   *)
Recover(w, k) ==
    \/ /\ resume_existing(k) \in {"authorize_commit", "reconcile_commit_authorization"}
       /\ \E q \in Requests : ops[k].request \in {q, None} /\ AuthorizeStart(w, k, q)
    \/ /\ resume_existing(k) \in {"dispatch", "reconcile_commit_consumption"}
       /\ DispatchStart(w, k, PayloadOf[k])

(* A call that was begun goes on, a quarantine is lifted in the end, and   *)
(* the recovery procedure is repeated for every operation.                 *)
FairGateSpec ==
    /\ GateSpec /\ WF_gateVars(Release)
    /\ \A w \in Workers : WF_gateVars(Continue(w))
    /\ \A k \in Ops : SF_gateVars(\E w \in Workers : Recover(w, k))

-----------------------------------------------------------------------------
(* Whatever is dispatched was authorised for exactly this operation and    *)
(* consumed under the trust checkpoint it was authorised under, by the     *)
(* claim in its record, however the calls were interrupted and repeated.   *)
DispatchedWasAuthorized ==
    \A k \in Ops : ops[k].state = "DISPATCHING" =>
        \E i \in DOMAIN authorizations, j \in DOMAIN consumptions :
            LET a == authorizations[i]
                c == consumptions[j]
            IN  /\ a.request = ops[k].request /\ a.request.op = k /\ a.decision = "AUTHORIZED"
                /\ c.request = a.request /\ c.decision = "CONSUMED" /\ c.claim = ops[k].claim
                /\ c.authorization_sequence = i /\ c.checkpoint = a.checkpoint

(* An authorisation was only given for evidence that the snapshot then in  *)
(* force admits: its issuer is mandated, not revoked and has a bound key.  *)
AuthorizedIsAdmissible ==
    \A i \in DOMAIN authorizations : authorizations[i].decision = "AUTHORIZED" =>
        LET q == authorizations[i].request
            issuer == Evidence[q.claim].issuer
            t == Trust[q.snapshot]
        IN  /\ authorizations[i].checkpoint = TrustCheckpoint(q.snapshot)
            /\ issuer \notin t.revoked /\ <<issuer, q.scope>> \in t.mandates
            /\ \E key \in t.issuer_keys : key[1] = issuer

(* The provider receives the payload that was adjudicated, once, although  *)
(* the caller may change its mapping during the call.                      *)
ProviderGetsBoundPayload == \A k \in Ops : provided[k] \in {<<>>, <<PayloadOf[k]>>}

(* No two workers, retries or restarts reach the provider for one          *)
(* operation.                                                              *)
DispatchedOnce == \A k \in Ops : Len(provided[k]) <= 1

(* The receipts in the registry are the authority's rows: a lost reply, a  *)
(* death or a replay never leaves a record that differs from them.         *)
RegistryMirrorsAuthority ==
    \A k \in Ops :
        /\ ops[k].receipt # None => \E i \in DOMAIN authorizations :
              authorizations[i] = ops[k].receipt /\ ops[k].receipt.request = ops[k].request
        /\ ops[k].consumption # None => \E i \in DOMAIN consumptions :
              consumptions[i] = ops[k].consumption /\ ops[k].consumption.request = ops[k].request

(* An operation is only put on HOLD because the authority refused it or    *)
(* its authorisation became stale, or after it has left RESERVED: a replay *)
(* of what is already recorded never blocks it.                            *)
HoldIsJustified ==
    \A k \in Ops : ops[k].state = "RESERVED" =>
        /\ ops[k].authorization_status = "HOLD" =>
              ops[k].receipt # None /\ ops[k].receipt.decision = "REJECTED"
        /\ ops[k].consumption_status = "HOLD" =>
              \/ ops[k].receipt.decision = "REJECTED"
              \/ ops[k].consumption # None /\ ops[k].consumption.decision = "STALE"

(* A process that opens the database after any crash accepts its tables.   *)
TablesOpen == OpensTables

(* Everything that reaches the provider was admitted as such: authorised   *)
(* and consumed for this operation, on admissible evidence, and with the   *)
(* payload that was adjudicated.                                           *)
ProviderSeesOnlyAuthorized ==
    DispatchedWasAuthorized /\ AuthorizedIsAdmissible /\ ProviderGetsBoundPayload

(* The two durable sides of the gate agree at every crash point: the       *)
(* registry holds what the authority recorded, and the authority's tables  *)
(* are ones that open() accepts.                                           *)
GateConsistent == GateTypeOK /\ TablesOpen /\ RegistryMirrorsAuthority

(* An operation does not stay RESERVED for ever when its callers follow    *)
(* resume_existing: it is dispatched, failed, answered with the authority's*)
(* refusal, or its request id belongs to another request.                  *)
GateSettles ==
    \A k \in Ops : ops[k].state = "RESERVED" ~>
        \/ ops[k].state # "RESERVED"
        \/ resume_existing(k) = "return_authorization_result"
        \/ ops[k].request # None /\ RequestConflict(authorizations, ops[k].request)
=============================================================================
