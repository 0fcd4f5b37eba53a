---------------------------- MODULE ExternalCAS ----------------------------
(***************************************************************************)
(* The authenticated protocol of ep02_external_cas.py around the durable   *)
(* trust authority.                                                        *)
(*                                                                         *)
(* Messages are signed records on a wire that may delay, reorder and lose  *)
(* them; a request submitted again is on the wire a second time.  Encoding *)
(* and decoding round-trip or reject, so a message is the record the       *)
(* decoder rebuilds; what a decoder rejects has no effect.                 *)
(***************************************************************************)
EXTENDS DurableAnchorCAS

CONSTANTS Clients,       \* processes that submit requests
          IdentityOf,    \* the (client_id, generation) whose key a process signs with
          Registered,    \* the identities the service has a key for
          Submissions,   \* what each client may submit: pairs of a request id and an envelope
          Provisioning,  \* what the operator executes on the store itself, likewise
          MaxTimeouts,   \* bound on lost or late replies
          MaxChallenges  \* bound on the challenges drawn

ASSUME ExternalAssumption ==
    /\ \A c \in Clients : \A x \in Submissions[c] : x = <<x[1], x[2]>> /\ x[2] \in Envelopes
    /\ \A x \in Provisioning : x[2] \in Envelopes
    /\ MaxTimeouts \in Nat /\ MaxChallenges \in Nat

VARIABLES wire,        \* the messages under way
          committed,   \* executions that committed and have not replied
          cl,          \* the clients
          challenges,  \* challenges drawn so far
          asked,       \* history: the authority's revision when each challenge was drawn
          timeouts

vars == <<store, wire, committed, cl, challenges, asked, timeouts>>

(* The client's signature covers identity, id and envelope.                *)
Request(c) == [client |-> IdentityOf[c], id |-> cl[c].id, envelope |-> cl[c].envelope]
InternalId(r) == <<r.client, r.id>>

(* _receipt: what the service signs.  Without a row only current is set.   *)
Receipt(r, status, row, sequence, current, replayed, challenge) ==
    [type |-> "receipt", request |-> r, status |-> status, row |-> row, sequence |-> sequence,
     current |-> current, replayed |-> replayed, challenge |-> challenge]

IdleClient == [pc |-> "idle", id |-> None, envelope |-> None, challenge |-> 0, receipt |-> None]
PCs == {"idle", "waiting", "looking", "unknown", "known", "refused"}

(* The service binds the tables, the clients and their messages together.  *)
TypeOK ==
    /\ TypeOKStore
    /\ \A c \in Clients :
          /\ cl[c].pc \in PCs
          /\ cl[c].pc # "idle" => <<cl[c].id, cl[c].envelope>> \in Submissions[c]
          /\ IF cl[c].pc = "known" THEN cl[c].receipt.type = "receipt" ELSE cl[c].receipt = None
    /\ challenges \in 0 .. MaxChallenges /\ timeouts \in 0 .. MaxTimeouts
    /\ asked \in [1 .. challenges -> Nat]

Init ==
    /\ InitStore
    /\ wire = {} /\ committed = {}
    /\ cl = [c \in Clients |-> IdleClient]
    /\ challenges = 0 /\ asked = <<>> /\ timeouts = 0

Revision(k) == IF k = None THEN 0 ELSE k.revision

(* new_lookup_challenge: never drawn twice.                                *)
DrawChallenge ==
    /\ challenges < MaxChallenges
    /\ challenges' = challenges + 1
    /\ asked' = Append(asked, Revision(checkpoint))

(***************************************************************************)
(* The client.  A transport failure leaves the outcome unknown; the client *)
(* keeps the exact request and may look it up or submit it again.          *)
(***************************************************************************)
Submit(c, id, env) ==
    /\ cl[c].pc = "idle"
    /\ cl' = [cl EXCEPT ![c] = [IdleClient EXCEPT !.pc = "waiting", !.id = id, !.envelope = env]]
    /\ wire' = wire \cup {[type |-> "execute", request |-> Request(c)']}
    /\ UNCHANGED <<store, committed, challenges, asked, timeouts>>

Resubmit(c) ==
    /\ cl[c].pc = "unknown"
    /\ cl' = [cl EXCEPT ![c].pc = "waiting", ![c].challenge = 0]
    /\ wire' = wire \cup {[type |-> "execute", request |-> Request(c)]}
    /\ UNCHANGED <<store, committed, challenges, asked, timeouts>>

Lookup(c) ==
    /\ cl[c].pc = "unknown"
    /\ DrawChallenge
    /\ cl' = [cl EXCEPT ![c].pc = "looking", ![c].challenge = challenges']
    /\ wire' = wire \cup {[type |-> "lookup", request |-> Request(c), challenge |-> challenges']}
    /\ UNCHANGED <<store, committed, timeouts>>

(* The call fails although an answer may still be under way ...            *)
Timeout(c) ==
    /\ cl[c].pc \in {"waiting", "looking"}
    /\ timeouts < MaxTimeouts /\ timeouts' = timeouts + 1
    /\ cl' = [cl EXCEPT ![c].pc = "unknown"]
    /\ UNCHANGED <<store, wire, committed, challenges, asked>>

(* ... or because the request or its answer is gone.                       *)
LostCall(c) ==
    /\ cl[c].pc \in {"waiting", "looking"}
    /\ Request(c) \notin committed
    /\ \A m \in wire : m.request # Request(c)
    /\ cl' = [cl EXCEPT ![c].pc = "unknown"]
    /\ UNCHANGED <<store, wire, committed, challenges, asked, timeouts>>

Lose(m) ==
    /\ timeouts < MaxTimeouts /\ timeouts' = timeouts + 1
    /\ wire' = wire \ {m}
    /\ UNCHANGED <<store, committed, cl, challenges, asked>>

\* Mutant of verify_receipt: the challenge of a lookup is not compared.
verify_receiptMut(m, c) == m.request = Request(c)

(* execute expects no challenge, lookup the one it has just drawn.         *)
verify_receipt(m, c) == m.request = Request(c) /\ m.challenge = cl[c].challenge

(* A verified NOT_RECORDED is one observation: the outcome stays unknown.  *)
Receive(c, m) ==
    /\ cl[c].pc \in {"waiting", "looking"} /\ m.type = "receipt"
    /\ verify_receipt(m, c)
    /\ cl' = [cl EXCEPT ![c].pc = IF m.status = "RECORDED" THEN "known" ELSE "unknown",
                        ![c].receipt = IF m.status = "RECORDED" THEN m ELSE None]
    /\ wire' = wire \ {m}
    /\ UNCHANGED <<store, committed, challenges, asked, timeouts>>

(* An answer that does not verify raises ExternalProtocolError.            *)
ReceiveOther(c, m) ==
    /\ cl[c].pc \in {"waiting", "looking"} /\ m.type = "receipt"
    /\ m.request.client = IdentityOf[c] /\ ~verify_receipt(m, c)
    /\ timeouts < MaxTimeouts /\ timeouts' = timeouts + 1
    /\ cl' = [cl EXCEPT ![c].pc = "unknown"]
    /\ wire' = wire \ {m}
    /\ UNCHANGED <<store, committed, challenges, asked>>

(* The service raises RequestIdConflict: the id is bound to another request.*)
Refused(c, m) ==
    /\ cl[c].pc \in {"waiting", "looking"} /\ m.type # "receipt" /\ m.request = Request(c)
    /\ RequestIdConflict(InternalId(Request(c)), cl[c].envelope)
    /\ cl' = [cl EXCEPT ![c].pc = "refused"]
    /\ wire' = wire \ {m}
    /\ UNCHANGED <<store, committed, challenges, asked, timeouts>>

(***************************************************************************)
(* ExternalAuthorityService.  A new request commits first; the current     *)
(* checkpoint of its receipt is read in a second connection.  The process  *)
(* may die in between, and then the reply is lost.                         *)
(***************************************************************************)
Authentic(m, type) == m.type = type /\ m.request.client \in Registered

\* Mutant of ServeExecute: a repeated request is not answered.
ServeExecuteMut(m) ==
    LET id == InternalId(m.request)
    IN  /\ Authentic(m, "execute")
        /\ ~RequestIdConflict(id, m.request.envelope)
        /\ Transact(id, m.request.envelope)
        /\ committed' = IF RowsOf(id) = {} THEN committed \cup {m.request} ELSE committed
        /\ wire' = wire \ {m}
        /\ UNCHANGED <<cl, challenges, asked, timeouts>>

ServeExecute(m) ==
    LET id == InternalId(m.request)
    IN  /\ Authentic(m, "execute")
        /\ ~RequestIdConflict(id, m.request.envelope)
        /\ Transact(id, m.request.envelope)
        /\ IF RowsOf(id) = {}
           THEN committed' = committed \cup {m.request} /\ wire' = wire \ {m}
           ELSE /\ wire' = (wire \ {m}) \cup {Receipt(m.request, "RECORDED", RowOf(id), SequenceOf(id),
                                              checkpoint, TRUE, 0)}
                /\ committed' = committed
        /\ UNCHANGED <<cl, challenges, asked, timeouts>>

ServeReply(r) ==
    /\ r \in committed
    /\ committed' = committed \ {r}
    /\ LET id == InternalId(r)
       IN  wire' = wire \cup {Receipt(r, "RECORDED", RowOf(id), SequenceOf(id),
                                      checkpoint, FALSE, 0)}
    /\ UNCHANGED <<store, cl, challenges, asked, timeouts>>

ServiceDies ==
    /\ committed # {}
    /\ timeouts < MaxTimeouts /\ timeouts' = timeouts + 1
    /\ committed' = {}
    /\ UNCHANGED <<store, wire, cl, challenges, asked>>

(* A process on the authority's own host calls the store directly.         *)
Provision(id, env) ==
    /\ RowsOf(id) = {}
    /\ Transact(id, env)
    /\ UNCHANGED <<wire, committed, cl, challenges, asked, timeouts>>

ServeLookup(m) ==
    LET id == InternalId(m.request)
        found == lookup(id)
    IN  /\ Authentic(m, "lookup")
        /\ ~RequestIdConflict(id, m.request.envelope)
        /\ wire' = (wire \ {m}) \cup
             {Receipt(m.request, found.status, found.row, found.sequence, found.current,
                      found.row # None, m.challenge)}
        /\ UNCHANGED <<store, committed, cl, challenges, asked, timeouts>>

Client(c) == \/ \E x \in Submissions[c] : Submit(c, x[1], x[2])
             \/ Resubmit(c) \/ Lookup(c) \/ Timeout(c) \/ LostCall(c)
             \/ \E m \in wire : Receive(c, m) \/ ReceiveOther(c, m) \/ Refused(c, m)

Service == \/ \E m \in wire : ServeExecute(m) \/ ServeLookup(m) \/ Lose(m)
           \/ \E r \in committed : ServeReply(r)
           \/ ServiceDies
           \/ \E x \in Provisioning : Provision(x[1], x[2])

Next == (\E c \in Clients : Client(c)) \/ Service

Spec == Init /\ [][Next]_vars

(* The retry procedure of the protocol: an unknown outcome is followed by  *)
(* the same request again, the service answers what reaches it, and an     *)
(* answer that has arrived is read.                                        *)
Fairness ==
    /\ \A c \in Clients :
          /\ WF_vars(Resubmit(c)) /\ WF_vars(LostCall(c))
          /\ WF_vars(\E m \in wire : Receive(c, m) \/ Refused(c, m))
          /\ WF_vars(\E m \in wire : Authentic(m, "execute") /\ m.request = Request(c)
                                          /\ ServeExecute(m))
          /\ WF_vars(\E m \in wire : Authentic(m, "lookup") /\ m.request = Request(c)
                                          /\ m.challenge = cl[c].challenge /\ ServeLookup(m))
    /\ WF_vars(\E r \in committed : ServeReply(r))

-----------------------------------------------------------------------------
(* A receipt a client acted on states the durable outcome of exactly its   *)
(* request, the first one decided, whatever was lost, repeated or late.    *)
ReceiptsTruthful ==
    \A c \in Clients : cl[c].pc = "known" =>
        LET r == cl[c].receipt IN
        /\ RowsOf(InternalId(Request(c))) = {r.sequence}
        /\ requests[r.sequence] = r.row
        /\ r.row.envelope = cl[c].envelope

(* A verified lookup reports a checkpoint no older than the authority's    *)
(* when the challenge was drawn: an old answer cannot be replayed.         *)
LookupIsFresh ==
    \A c \in Clients : cl[c].pc = "known" /\ cl[c].challenge # 0 =>
        Revision(cl[c].receipt.current) >= asked[cl[c].challenge]

(* Store, wire and clients are well formed, and the recorded outcomes,     *)
(* replayed in order, lead to the checkpoint that is stored.               *)
StoreConsistent == TypeOK /\ HistoryJustifiesCheckpoint

(* A client that submitted a request learns its outcome, or that its id is *)
(* bound to another request, despite lost replies and service deaths.      *)
OutcomeLearned == \A c \in Clients : cl[c].pc # "idle" ~> cl[c].pc \in {"known", "refused"}
=============================================================================
