--------------------------- MODULE MCCommitGate ---------------------------
(* Two workers and two operations whose callers chose the same request id, *)
(* a second request for the first operation, and a trust rotation that     *)
(* revokes the issuer.                                                     *)
EXTENDS CommitGate, TLC

CONSTANTS w1, w2, k1, k2, good, other, genesis, second, root, rootKey, notary, issuerKey,
          claim, prior, scope, policy, authority, boot, rotate

MCRoots == root :> rootKey

Content(rev, revoked) ==
    LET t == [revision |-> rev, policy_version |-> policy, mandates |-> {<<notary, scope>>},
              revoked |-> revoked, issuer_keys |-> {<<notary, issuerKey>>},
              signer_id |-> root, signature |-> None]
    IN  [t EXCEPT !.signature = Signature(rootKey, bound_snapshot_bytes(t))]

MCTrust == genesis :> Content(1, {}) @@ second :> Content(2, {notary})
MCEvidence ==
    LET c == [identifier |-> claim, issuer |-> notary, replaces |-> prior, effective_at |-> 1,
              signature |-> None]
    IN  claim :> [c EXCEPT !.signature = Signature(issuerKey, c)]

RequestFor(id, k, s) == [id |-> id, authority |-> authority, op |-> k, payload |-> good,
                         claim |-> claim, prior |-> prior, scope |-> scope, snapshot |-> s]
MCRequests == {RequestFor(1, k1, genesis), RequestFor(2, k1, second), RequestFor(1, k2, genesis)}
MCPayloadOf == k1 :> good
MCRotations == {<<boot, [operation |-> "BOOTSTRAP", expected |-> None, successor |-> genesis]>>,
                <<rotate, [operation |-> "CAS", expected |-> TrustCheckpoint(genesis), successor |-> second]>>}
Symmetry == Permutations({w1, w2})
=============================================================================
