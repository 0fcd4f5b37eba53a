-------------------------- MODULE CommitAuthority --------------------------
(***************************************************************************)
(* The Profile S commit authority of ep02_commit_authorization.py: two     *)
(* append-only tables next to the trust checkpoint, in the same SQLite     *)
(* database.  authorize and consume are one BEGIN IMMEDIATE transaction    *)
(* each.                                                                   *)
(*                                                                         *)
(* A request is a record of its id and of the fields of its operation      *)
(* binding; it stands for its digest.  A receipt is the signed row, so     *)
(* verifying its signature is asking whether the authority issued it.      *)
(***************************************************************************)
EXTENDS DurableAnchorCAS

CONSTANTS Authority,   \* the (authority, profile, generation) of this database
          Requests     \* the commit requests that may be made

VARIABLES authorizations,   \* the rows of commit_authorizations, in sequence order
          consumptions      \* the rows of commit_consumptions, likewise

tables == <<authorizations, consumptions>>

\* The columns of the two tables.  A dispatch claim hashes key and request.
DispatchClaims == {<<q.op, q.id>> : q \in Requests}
AuthorizationRow ==
    [request : Requests, sequence : Nat, checkpoint : Checkpoints \cup {None},
     decision : {"AUTHORIZED", "REJECTED"}, replayed : BOOLEAN]
ConsumptionRow ==
    [request : Requests, sequence : Nat, checkpoint : Checkpoints \cup {None},
     authorization_sequence : Nat, claim : DispatchClaims,
     decision : {"CONSUMED", "REJECTED", "STALE"}, replayed : BOOLEAN]

ASSUME AuthorityAssumption ==
    /\ \A q \in Requests : q.snapshot \in Snapshots
    /\ None \notin Requests /\ None \notin DispatchClaims
    /\ None \notin AuthorizationRow /\ None \notin ConsumptionRow

InitTables == authorizations = <<>> /\ consumptions = <<>>

Recorded(table, id) == {i \in DOMAIN table : table[i].request.id = id}
Row(table, id) == table[CHOOSE i \in Recorded(table, id) : TRUE]

(* The id is taken by a request with another context:                      *)
(* AuthorizationRequestConflict.                                           *)
RequestConflict(table, q) == Recorded(table, q.id) # {} /\ Row(table, q.id).request # q

(* _evaluate: the finding f, the claim c and the snapshot s are the        *)
(* caller's; everything is checked against the request and the checkpoint. *)
Evaluate(q, f, c, s, now) ==
    /\ q.authority = Authority
    /\ checkpoint # None /\ checkpoint = TrustCheckpoint(q.snapshot)
    /\ f = BoundFinding(q.snapshot, q.claim, q.prior, q.scope)
    /\ TrustCheckpoint(s) = TrustCheckpoint(q.snapshot)
    /\ Digest[s] = Digest[q.snapshot] /\ Trust[s].policy_version = Trust[q.snapshot].policy_version
    /\ revalidate_bound(f, c, q.prior, q.scope, now, s, checkpoint.revision)[1] = "ADMISSIBLE"

(* _authorization_body: what is signed and stored, and given back.         *)
AuthorizationBody(q, decision) ==
    [request |-> q, sequence |-> Len(authorizations) + 1, checkpoint |-> checkpoint,
     decision |-> decision, replayed |-> FALSE]

(* authorize, for a request that raises no conflict: a repeat only reads.  *)
authorize(q, f, c, s, now) ==
    IF Recorded(authorizations, q.id) # {} THEN UNCHANGED tables
    ELSE /\ authorizations' = Append(authorizations,
              AuthorizationBody(q, IF Evaluate(q, f, c, s, now) THEN "AUTHORIZED" ELSE "REJECTED"))
         /\ UNCHANGED consumptions

(* verify_authorization_receipt and verify_consumption_receipt.            *)
verify_authorization_receipt(r, q) ==
    r.request = q /\ \E i \in DOMAIN authorizations :
                        r \in {authorizations[i], [authorizations[i] EXCEPT !.replayed = TRUE]}
verify_consumption_receipt(r, q, auth) ==
    /\ verify_authorization_receipt(auth, q)
    /\ r.request = auth.request /\ r.authorization_sequence = auth.sequence
    /\ \E i \in DOMAIN consumptions :
          r \in {consumptions[i], [consumptions[i] EXCEPT !.replayed = TRUE]}

(* The receipt must be the durable row of exactly this request; a request  *)
(* consumed for another dispatch claim is AuthorizationConsumptionConflict.*)
Consumable(q, auth, claim) ==
    /\ verify_authorization_receipt(auth, q)
    /\ Recorded(consumptions, q.id) # {} => Row(consumptions, q.id).claim = claim

\* Mutant of ConsumptionDecision: the checkpoint is not compared again.
ConsumptionDecisionMut(auth) ==
    IF auth.decision # "AUTHORIZED" THEN "REJECTED" ELSE "CONSUMED"

ConsumptionDecision(auth) ==
    IF auth.decision # "AUTHORIZED" THEN "REJECTED"
    ELSE IF checkpoint # auth.checkpoint THEN "STALE"
    ELSE "CONSUMED"

(* _consumption_body.                                                      *)
ConsumptionBody(q, auth, claim) ==
    [request |-> q, sequence |-> Len(consumptions) + 1, checkpoint |-> checkpoint,
     authorization_sequence |-> auth.sequence, claim |-> claim,
     decision |-> ConsumptionDecision(auth), replayed |-> FALSE]

consume(q, auth, claim) ==
    IF Recorded(consumptions, q.id) # {} THEN UNCHANGED tables
    ELSE /\ consumptions' = Append(consumptions, ConsumptionBody(q, auth, claim))
         /\ UNCHANGED authorizations

(* _validate_rows: every row is the signed receipt of its own request and  *)
(* sequence number, and a consumption that of a recorded authorization.    *)
ValidRows ==
    /\ \A i \in DOMAIN authorizations : authorizations[i].sequence = i
    /\ \A i \in DOMAIN consumptions :
          LET q == consumptions[i].request IN
          /\ consumptions[i].sequence = i
          /\ Recorded(authorizations, q.id) # {}
          /\ verify_consumption_receipt(consumptions[i], q, Row(authorizations, q.id))

(* open(): the trust database opens, and then the two tables.              *)
OpensTables == Opens /\ ValidRows

(* *_receipt_to_dict: the stored form has no replayed flag.                *)
\* Mutant of receipt_to_dict: the flag is stored with the receipt.
receipt_to_dictMut(r) == r
receipt_to_dict(r) == [r EXCEPT !.replayed = FALSE]
=============================================================================
