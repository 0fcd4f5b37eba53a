--------------------------- MODULE MCExternalCAS ---------------------------
(* Two processes of one client identity, two successors that compete for   *)
(* the bootstrapped checkpoint, a bootstrap that may come too late and has *)
(* a request id in use, and an operator whose snapshot may be forged.      *)
EXTENDS HostCheckpoint, TLC

CONSTANTS c1, c2, ident, operator, genesis, second, rival, forged,
          root, rootKey, rogueKey, notary, issuerKey, scope, policy

MCRoots == root :> rootKey

Content(rev, revoked, key) ==
    LET t == [revision |-> rev, policy_version |-> policy, mandates |-> {<<notary, scope>>},
              revoked |-> revoked, issuer_keys |-> {<<notary, issuerKey>>},
              signer_id |-> root, signature |-> None]
    IN  [t EXCEPT !.signature = Signature(key, bound_snapshot_bytes(t))]

MCSnapshots == {genesis, second, rival, forged}
MCTrust == genesis :> Content(1, {}, rootKey) @@ second :> Content(2, {notary}, rootKey)
           @@ rival :> Content(2, {}, rootKey) @@ forged :> Content(3, {}, rogueKey)
MCClients == {c1, c2}
MCIdentityOf == c1 :> ident @@ c2 :> ident
MCRegistered == {ident}
Bootstrap(s) == [operation |-> "BOOTSTRAP", expected |-> None, successor |-> s]
CAS(s, t) == [operation |-> "CAS", expected |-> TrustCheckpoint(s), successor |-> t]
MCSubmissions == c1 :> {<<1, CAS(genesis, second)>>}
                 @@ c2 :> {<<1, Bootstrap(rival)>>, <<2, CAS(genesis, rival)>>}
MCProvisioning == {<<<<operator, 1>>, Bootstrap(genesis)>>, <<<<operator, 1>>, Bootstrap(forged)>>}
=============================================================================
