-------------------------- MODULE DurableAnchorCAS --------------------------
(***************************************************************************)
(* The SQLite trust authority of ep02_durable_cas.py: one checkpoint row   *)
(* and an append-only table of request outcomes.  Every operation is one   *)
(* BEGIN IMMEDIATE transaction that looks the request id up, decides and   *)
(* writes checkpoint and outcome together.  A process that dies before the *)
(* commit leaves nothing behind; one that dies after it loses the reply.   *)
(*                                                                         *)
(* The request digest binds the whole envelope, so the envelope itself     *)
(* stands for it.                                                          *)
(***************************************************************************)
EXTENDS TrustPolicy

VARIABLES checkpoint,     \* the checkpoint row, None before bootstrap
          requests        \* the rows of the requests table, in sequence order

store == <<checkpoint, requests>>

Checkpoints == {TrustCheckpoint(s) : s \in {x \in Snapshots : verify_bound_snapshot(x, 1)}}
ASSUME NoneAssumption == None \notin Checkpoints

Results == {"APPLIED", "UNCHANGED", "CONFLICT", "NOT_INITIALIZED", "REJECTED"}

(* CAS requires an explicit expected checkpoint, BOOTSTRAP none.           *)
Envelopes == [operation : {"BOOTSTRAP"}, expected : {None}, successor : Snapshots]
             \cup [operation : {"CAS"}, expected : Checkpoints, successor : Snapshots]

TypeOKStore ==
    /\ checkpoint \in Checkpoints \cup {None}
    /\ \A i \in DOMAIN requests :
          /\ requests[i].envelope \in Envelopes
          /\ requests[i].result \in Results
          /\ {requests[i].observed, requests[i].outcome} \subseteq Checkpoints \cup {None}

InitStore == checkpoint = None /\ requests = <<>>

\* Mutant of Outcome: a CAS is decided without comparing the expected checkpoint.
OutcomeMut(env, current) ==
    LET verdict == validate_successor(current, env.successor)
    IN  IF current = None THEN [result |-> "APPLIED", outcome |-> TrustCheckpoint(env.successor)]
        ELSE IF verdict = "ADVANCED"
             THEN [result |-> "APPLIED", outcome |-> TrustCheckpoint(env.successor)]
        ELSE [result |-> "CONFLICT", outcome |-> current]

(* The decision of _execute on the checkpoint it reads.                    *)
Outcome(env, current) ==
    LET Keep(r) == [result |-> r, outcome |-> current]
        Move == [result |-> "APPLIED", outcome |-> TrustCheckpoint(env.successor)]
        verdict == validate_successor(current, env.successor)
    IN  IF env.operation = "BOOTSTRAP"
        THEN IF current # None THEN Keep("CONFLICT")
             ELSE IF verify_bound_snapshot(env.successor, 1) THEN Move ELSE Keep("REJECTED")
        ELSE IF current = None THEN Keep("NOT_INITIALIZED")
        ELSE IF current # env.expected THEN Keep("CONFLICT")
        ELSE IF verdict = "ADVANCED" THEN Move
        ELSE IF verdict = "UNCHANGED" THEN Keep("UNCHANGED")
        ELSE Keep("CONFLICT")

RowsOf(id) == {i \in DOMAIN requests : requests[i].id = id}
RowOf(id) == requests[CHOOSE i \in RowsOf(id) : TRUE]
SequenceOf(id) == CHOOSE i \in RowsOf(id) : TRUE

\* Mutant of RequestIdConflict: a repeated id is not compared with its envelope.
RequestIdConflictMut(id, env) == FALSE

(* An id that is bound to another envelope raises RequestIdConflict.       *)
RequestIdConflict(id, env) == RowsOf(id) # {} /\ RowOf(id).envelope # env

\* Mutant of Transact: the outcome is recorded but the checkpoint row is not written.
TransactMut(id, env) ==
    LET o == Outcome(env, checkpoint)
    IN  /\ UNCHANGED checkpoint
        /\ IF RowsOf(id) # {} THEN UNCHANGED requests
           ELSE requests' = Append(requests, [id |-> id, envelope |-> env, result |-> o.result,
                                              observed |-> checkpoint, outcome |-> o.outcome])

(* The transaction of _execute for an id that raises no conflict: a repeat *)
(* only reads, a new id records its outcome and moves the checkpoint.      *)
Transact(id, env) ==
    LET o == Outcome(env, checkpoint)
    IN  IF RowsOf(id) # {} THEN UNCHANGED store
        ELSE /\ checkpoint' = o.outcome
             /\ requests' = Append(requests, [id |-> id, envelope |-> env, result |-> o.result,
                                              observed |-> checkpoint, outcome |-> o.outcome])

(* lookup: one read transaction over row and checkpoint, for an id that    *)
(* raises no conflict.                                                     *)
lookup(id) ==
    IF RowsOf(id) = {}
    THEN [status |-> "NOT_RECORDED", row |-> None, sequence |-> None, current |-> checkpoint]
    ELSE [status |-> "RECORDED", row |-> RowOf(id), sequence |-> SequenceOf(id), current |-> checkpoint]

(* _snapshot_from_envelope: the successor of a stored envelope is rebuilt  *)
(* from its stored payload, signer and signature.                          *)
StoredSuccessor(env) ==
    CHOOSE s \in Snapshots :
        /\ bound_snapshot_bytes(Trust[s]) = bound_snapshot_bytes(Trust[env.successor])
        /\ Trust[s].signer_id = Trust[env.successor].signer_id
        /\ Trust[s].signature = Trust[env.successor].signature

(* _validate_request_rows replays the table from the start: after i rows   *)
(* the simulated checkpoint is the outcome of the last row that applied.   *)
(* Each row must have observed what the earlier rows produced and must     *)
(* carry the outcome its envelope leads to.                                *)
Replayed(rows, i) ==
    LET applied == {j \in 1 .. i : rows[j].result = "APPLIED"}
        last == CHOOSE j \in applied : \A k \in applied : k <= j
    IN  IF applied = {} THEN None ELSE rows[last].outcome

ValidRequestRows ==
    \A i \in DOMAIN requests :
        LET env == requests[i].envelope
            was == Replayed(requests, i - 1)
            o   == Outcome([env EXCEPT !.successor = StoredSuccessor(env)], was)
        IN  /\ requests[i].observed = was
            /\ requests[i].result = o.result
            /\ requests[i].outcome = o.outcome

(* open(): on one snapshot of the database, the rows are valid and lead to *)
(* the checkpoint.  The stored profile never changes.                      *)
Opens == ValidRequestRows /\ checkpoint = Replayed(requests, Len(requests))

-----------------------------------------------------------------------------
(* Properties of the store, whoever drives it.                             *)

(* open() never refuses the database a crash or a lost reply left behind:  *)
(* the checkpoint is exactly what the recorded outcomes justify.           *)
HistoryJustifiesCheckpoint == Opens

Register == INSTANCE TrustRegister WITH mark <- checkpoint

(* The durable checkpoint is a monotone register: it is bootstrapped once, *)
(* from an authentic snapshot, and then only moves to newer revisions.     *)
ImplementsRegister == Register!Spec
=============================================================================
