------------------------- MODULE MCDamagedRegistry -------------------------
(* Two processes, one operation with one request, no other failure.        *)
EXTENDS DamagedRegistry, TLC

CONSTANTS w1, w2, k1, good, genesis, root, rootKey, notary, issuerKey,
          claim, prior, scope, policy, authority, boot

MCRoots == root :> rootKey
MCTrust ==
    LET t == [revision |-> 1, policy_version |-> policy, mandates |-> {<<notary, scope>>},
              revoked |-> {}, issuer_keys |-> {<<notary, issuerKey>>},
              signer_id |-> root, signature |-> None]
    IN  genesis :> [t EXCEPT !.signature = Signature(rootKey, bound_snapshot_bytes(t))]
MCEvidence ==
    LET c == [identifier |-> claim, issuer |-> notary, replaces |-> prior, effective_at |-> 1,
              signature |-> None]
    IN  claim :> [c EXCEPT !.signature = Signature(issuerKey, c)]
MCRequests == {[id |-> 1, authority |-> authority, op |-> k1, payload |-> good,
                claim |-> claim, prior |-> prior, scope |-> scope, snapshot |-> genesis]}
MCPayloadOf == k1 :> good
MCRotations == {<<boot, [operation |-> "BOOTSTRAP", expected |-> None, successor |-> genesis]>>}
=============================================================================
