---------------------------- MODULE TrustPolicy ----------------------------
(***************************************************************************)
(* The pure part of the EP-01 / EP-02 trust code: the documentary policy,  *)
(* the signed trust snapshots, the preflight that binds a claim to one     *)
(* snapshot, its revalidation, and the rule for a successor snapshot.      *)
(*                                                                         *)
(* Snapshots and claims are names; Trust and Evidence give their content.  *)
(* A digest is the first name with the same digested content, and a        *)
(* signature is the pair of the signing key and the signed value: hashing  *)
(* and Ed25519 are assumed to be injective and unforgeable.  None stands   *)
(* for Python's None, and for a time without a zone.                       *)
(***************************************************************************)
EXTENDS Integers, Sequences, FiniteSets

CONSTANTS None,
          Roots,      \* the pinned root keys: a function from signer ids to keys
          Snapshots,  \* the signed snapshots that circulate, forged ones included
          Trust,      \* the content of each snapshot
          Claims,     \* the signed claims
          Evidence    \* the content of each claim

ASSUME TrustAssumption == \A s \in Snapshots : Trust[s].revision \in Int

Signature(key, payload) == <<key, payload>>

(***************************************************************************)
(* ep01_policy and ep01_evidence.  The content of a claim is a record of   *)
(* identifier, issuer, replaces, effective_at and signature.               *)
(***************************************************************************)
CanonicalClaim(c) == [c EXCEPT !.signature = None]

evaluate(claims, prior, scope, mandates, now) ==
    LET In(P(_)) == \E i \in DOMAIN claims : P(claims[i])
        active == {i \in DOMAIN claims : claims[i].effective_at <= now}
        Invalid(c) == None \in {c.identifier, c.issuer, c.replaces, c.effective_at}
        NoStanding(c) == <<c.issuer, scope>> \notin mandates
        OtherPrior(c) == c.replaces # prior
    IN  IF claims = <<>> \/ prior = None \/ scope = None THEN <<"HOLD", "INSUFFICIENT_CONTEXT">>
        ELSE IF In(Invalid) THEN <<"HOLD", "INVALID_INPUT">>
        ELSE IF Cardinality({claims[i].identifier : i \in DOMAIN claims}) # Len(claims)
             THEN <<"HOLD", "DUPLICATE_CLAIM">>
        ELSE IF In(NoStanding) THEN <<"REJECT", "INSUFFICIENT_STANDING">>
        ELSE IF In(OtherPrior) THEN <<"HOLD", "PRECEDENCE_UNRESOLVED">>
        ELSE IF Cardinality(active) > 1 THEN <<"HOLD", "CONFLICTING_ACTIVE_CLAIMS">>
        ELSE IF active = {} THEN <<"HOLD", "NOT_YET_EFFECTIVE">>
        ELSE <<"ADMISSIBLE", "POLICY_PRECONDITIONS_MET">>

(* keys is a set of pairs of an issuer and its key.                        *)
verify_and_evaluate(signed, prior, scope, keys, mandates, now) ==
    LET Keys(i) == {k[2] : k \in {p \in keys : p[1] = signed[i].issuer}}
        Bad(i) == \A k \in Keys(i) : signed[i].signature # Signature(k, CanonicalClaim(signed[i]))
        first == CHOOSE i \in DOMAIN signed : Bad(i) /\ \A j \in 1 .. i - 1 : ~Bad(j)
    IN  IF signed = <<>> THEN <<"HOLD", "INSUFFICIENT_CONTEXT">>
        ELSE IF \E i \in DOMAIN signed : Bad(i)
             THEN <<"REJECT", IF Keys(first) = {} THEN "UNKNOWN_ISSUER_KEY"
                                                  ELSE "INVALID_SIGNATURE">>
        ELSE evaluate(signed, prior, scope, mandates, now)

(***************************************************************************)
(* ep02_binding and ep02_signed_trust.  The content of a snapshot is       *)
(* revision, policy_version, mandates, revoked, issuer_keys, signer_id and *)
(* signature.  Two snapshots that differ only in who signed them have the  *)
(* same fingerprint.                                                       *)
(***************************************************************************)
TrustState(t) == [revision |-> t.revision, policy_version |-> t.policy_version,
                  mandates |-> t.mandates, revoked |-> t.revoked]

bound_snapshot_bytes(t) == [trust |-> TrustState(t), issuer_keys |-> t.issuer_keys]

Digest == [s \in Snapshots |->
    CHOOSE x \in Snapshots : TrustState(Trust[x]) = TrustState(Trust[s])]
Fingerprint == [s \in Snapshots |->
    CHOOSE x \in Snapshots : bound_snapshot_bytes(Trust[x]) = bound_snapshot_bytes(Trust[s])]

verify_bound_snapshot(s, minimum) ==
    /\ Trust[s].revision >= 1 /\ Trust[s].policy_version # None
    /\ Trust[s].revision >= minimum
    /\ Trust[s].signer_id \in DOMAIN Roots
    /\ Trust[s].signature = Signature(Roots[Trust[s].signer_id], bound_snapshot_bytes(Trust[s]))

(* bind together with the snapshot digest verified_bound_preflight adds.   *)
BoundFinding(s, claim, prior, scope) ==
    [revision |-> Trust[s].revision, trust |-> Digest[s], policy_version |-> Trust[s].policy_version,
     claim |-> claim, prior |-> prior, scope |-> scope, snapshot |-> Fingerprint[s]]

Binds(s, issuer, scope, prior) ==
    /\ Trust[s].revision >= 1 /\ Trust[s].policy_version # None /\ prior # None
    /\ issuer \notin Trust[s].revoked
    /\ <<issuer, scope>> \in Trust[s].mandates

verified_bound_preflight(claim, prior, scope, now, s, minimum) ==
    LET issuer == Evidence[claim].issuer
        verdict == verify_and_evaluate(<<Evidence[claim]>>, prior, scope, Trust[s].issuer_keys, Trust[s].mandates, now)
        Refuse(v) == <<v[1], v[2], None>>
    IN  IF ~verify_bound_snapshot(s, minimum) THEN Refuse(<<"REJECT", "TRUST_SNAPSHOT_UNVERIFIED">>)
        ELSE IF issuer \in Trust[s].revoked THEN Refuse(<<"REJECT", "ISSUER_REVOKED">>)
        ELSE IF \A k \in Trust[s].issuer_keys : k[1] # issuer
             THEN Refuse(<<"REJECT", "ISSUER_KEY_NOT_BOUND">>)
        ELSE IF verdict[1] # "ADMISSIBLE" THEN Refuse(verdict)
        ELSE IF ~Binds(s, issuer, scope, prior)
             THEN Refuse(<<"REJECT", "TRUST_SCOPE_REJECTED">>)
        ELSE <<"ADMISSIBLE", "BOUND_PREFLIGHT_NOT_COMMITTED", BoundFinding(s, claim, prior, scope)>>

(* revalidate of ep02_binding.                                             *)
revalidate(finding, s, claim, prior, scope) ==
    /\ finding.revision = Trust[s].revision /\ finding.trust = Digest[s]
    /\ finding.policy_version = Trust[s].policy_version
    /\ finding.claim = claim /\ finding.prior = prior /\ finding.scope = scope

revalidate_bound(finding, claim, prior, scope, now, s, minimum) ==
    LET fresh == verified_bound_preflight(claim, prior, scope, now, s, minimum)
    IN  IF fresh[1] # "ADMISSIBLE" THEN <<fresh[1], fresh[2]>>
        ELSE IF \/ ~revalidate(finding, s, claim, prior, scope)
                \/ finding.snapshot # fresh[3].snapshot
             THEN <<"HOLD", "TRUST_OR_CLAIM_CHANGED">>
        ELSE <<"ADMISSIBLE", "BOUND_PREFLIGHT_VALID_NOT_COMMITTED">>

(***************************************************************************)
(* ep02_rotation and ep02_external_anchor.  A checkpoint is a revision and *)
(* the fingerprint of the snapshot accepted at it; None before bootstrap.  *)
(***************************************************************************)
TrustCheckpoint(s) == [revision |-> Trust[s].revision, fingerprint |-> Fingerprint[s]]

validate_successor(previous, s) ==
    IF ~verify_bound_snapshot(s, previous.revision) THEN "UNVERIFIED_OR_ROLLBACK"
    ELSE IF Trust[s].revision = previous.revision
         THEN IF TrustCheckpoint(s) = previous THEN "UNCHANGED" ELSE "SAME_REVISION_EQUIVOCATION"
    ELSE "ADVANCED"

assess_anchor(local, remote) ==
    IF remote = None THEN "ANCHOR_UNAVAILABLE_OR_CONFLICT"
    ELSE IF remote.revision > local.revision THEN "LOCAL_CHECKPOINT_STALE"
    ELSE IF remote.revision < local.revision THEN "ANCHOR_BEHIND_LOCAL"
    ELSE IF remote.fingerprint # local.fingerprint THEN "CHECKPOINT_EQUIVOCATION"
    ELSE "CHECKPOINTS_AGREE"
=============================================================================
