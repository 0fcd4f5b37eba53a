----------------------- MODULE TrustAuthority_proofs -----------------------
(***************************************************************************)
(* Proofs for the trust authority and what relies on it.                   *)
(*                                                                         *)
(* HostCheckpoint: for any clients, snapshots, requests and faults, the    *)
(* store stays one that open() accepts, receipts a client acted on are     *)
(* true, verified answers are fresh, and both checkpoint stores are        *)
(* monotone registers.                                                     *)
(*                                                                         *)
(* CommitGate: for any workers, operations, requests, snapshots and        *)
(* faults, registry and authority agree at every crash point, the provider *)
(* only sees what was authorised on admissible evidence, once and with the *)
(* payload that was adjudicated, and an operation is only put on HOLD for  *)
(* a reason the authority recorded.                                        *)
(*                                                                         *)
(* Both drive the same store, whose lemmas come first.                     *)
(***************************************************************************)
EXTENDS HostCheckpoint, CommitGate, TLAPS

\* A checkpoint of an authentic snapshot is not None and has a revision from 1 on.
LEMMA CheckpointFacts ==
    ASSUME NEW k \in Checkpoints
    PROVE  k # None /\ k.revision \in Nat /\ k.revision >= 1
  BY TrustAssumption, NoneAssumption DEF Checkpoints, TrustCheckpoint, verify_bound_snapshot

\* The snapshot rebuilt from a stored envelope cannot be told from the one stored.
LEMMA StoredFacts ==
    ASSUME NEW env \in Envelopes
    PROVE  LET s == env.successor
               t == StoredSuccessor(env)
           IN  /\ s \in Snapshots /\ t \in Snapshots
               /\ \A m : verify_bound_snapshot(t, m) <=> verify_bound_snapshot(s, m)
               /\ TrustCheckpoint(t) = TrustCheckpoint(s)
               /\ Trust[t].revision = Trust[s].revision
  <1> DEFINE s == env.successor
             t == StoredSuccessor(env)
  <1>1. s \in Snapshots
    BY DEF Envelopes
  <1>2. /\ t \in Snapshots
        /\ bound_snapshot_bytes(Trust[t]) = bound_snapshot_bytes(Trust[s])
        /\ Trust[t].signer_id = Trust[s].signer_id
        /\ Trust[t].signature = Trust[s].signature
    BY <1>1 DEF StoredSuccessor
  <1> HIDE DEF s, t
  <1>3. Trust[t].revision = Trust[s].revision /\ Trust[t].policy_version = Trust[s].policy_version
    BY <1>2 DEF bound_snapshot_bytes, TrustState
  <1>4. \A m : verify_bound_snapshot(t, m) <=> verify_bound_snapshot(s, m)
    BY <1>2, <1>3 DEF verify_bound_snapshot
  <1>5. Fingerprint[t] = Fingerprint[s]
    BY <1>1, <1>2 DEF Fingerprint
  <1>6. TrustCheckpoint(t) = TrustCheckpoint(s)
    BY <1>3, <1>5 DEF TrustCheckpoint
  <1> QED BY <1>1, <1>2, <1>3, <1>4, <1>6 DEF s, t

\* So replaying the stored envelope decides as the original request did.
LEMMA StoredOutcome ==
    ASSUME NEW env \in Envelopes, NEW current
    PROVE  Outcome([env EXCEPT !.successor = StoredSuccessor(env)], current) = Outcome(env, current)
  <1> DEFINE s == env.successor
             t == StoredSuccessor(env)
             new == [env EXCEPT !.successor = t]
  <1>1. /\ \A m : verify_bound_snapshot(t, m) <=> verify_bound_snapshot(s, m)
        /\ TrustCheckpoint(t) = TrustCheckpoint(s) /\ Trust[t].revision = Trust[s].revision
    BY StoredFacts
  <1> HIDE DEF t
  <1>2. new.operation = env.operation /\ new.expected = env.expected /\ new.successor = t
    BY DEF Envelopes
  <1> HIDE DEF s, new
  <1>3. validate_successor(current, t) = validate_successor(current, s)
    BY <1>1 DEF validate_successor
  <1> QED BY <1>1, <1>2, <1>3 DEF Outcome, new, s, t

\* A snapshot that validates as a successor has a newer, authentic checkpoint.
LEMMA SuccessorFacts ==
    ASSUME NEW k \in Checkpoints, NEW s \in Snapshots, validate_successor(k, s) = "ADVANCED"
    PROVE  TrustCheckpoint(s) \in Checkpoints /\ TrustCheckpoint(s).revision > k.revision
  <1>1. verify_bound_snapshot(s, k.revision) /\ Trust[s].revision # k.revision
    BY DEF validate_successor
  <1>2. Trust[s].revision \in Int /\ k.revision \in Int
    BY TrustAssumption, CheckpointFacts
  <1>3. Trust[s].revision > k.revision /\ verify_bound_snapshot(s, 1)
    BY <1>1, <1>2 DEF verify_bound_snapshot
  <1> QED BY <1>3 DEF Checkpoints, TrustCheckpoint

\* What a decision may be: the checkpoint stays, is set, or becomes newer.
LEMMA OutcomeFacts ==
    ASSUME NEW env \in Envelopes, NEW current \in Checkpoints \cup {None}
    PROVE  LET o == Outcome(env, current)
           IN  /\ o.result \in Results /\ o.outcome \in Checkpoints \cup {None}
               /\ o.result # "APPLIED" => o.outcome = current
               /\ o.result = "APPLIED" =>
                     /\ o.outcome \in Checkpoints
                     /\ current # None => o.outcome.revision > current.revision
  <1> DEFINE s == env.successor
  <1>1. s \in Snapshots /\ env.operation \in {"BOOTSTRAP", "CAS"}
    BY DEF Envelopes
  <1>2. verify_bound_snapshot(s, 1) => TrustCheckpoint(s) \in Checkpoints
    BY <1>1 DEF Checkpoints
  <1>3. current # None /\ validate_successor(current, s) = "ADVANCED" =>
           TrustCheckpoint(s) \in Checkpoints /\ TrustCheckpoint(s).revision > current.revision
    BY <1>1, SuccessorFacts
  <1> QED BY <1>1, <1>2, <1>3 DEF Outcome, Results

-----------------------------------------------------------------------------
(* The store, driven with request ids from ids: its rows are typed, no two *)
(* share an id, and replaying them leads to the checkpoint.                *)
StoredRow(ids) == [id : ids, envelope : Envelopes, result : Results,
                   observed : Checkpoints \cup {None}, outcome : Checkpoints \cup {None}]

Applied(rows, i) == {j \in 1 .. i : rows[j].result = "APPLIED"}
LastOutcome(rows, S) ==
    IF S = {} THEN None ELSE rows[CHOOSE j \in S : \A k \in S : k <= j].outcome
HasLast(S) == S = {} \/ \E j \in S : \A k \in S : k <= j

UniqueIds == \A i, j \in DOMAIN requests : requests[i].id = requests[j].id => i = j

StoreInv(ids) ==
    /\ checkpoint \in Checkpoints \cup {None}
    /\ requests \in Seq(StoredRow(ids))
    /\ UniqueIds
    /\ \A i \in 0 .. Len(requests) : HasLast(Applied(requests, i))
    /\ Opens

\* t continues s.
Longer(s, t) ==
    /\ Len(s) \in Nat /\ Len(t) \in Nat /\ Len(s) <= Len(t)
    /\ DOMAIN s = 1 .. Len(s) /\ DOMAIN t = 1 .. Len(t)
    /\ \A i \in 1 .. Len(s) : t[i] = s[i]

\* Rows are only added, and the checkpoint never becomes older.
Grows ==
    /\ Longer(requests, requests')
    /\ checkpoint' \in Checkpoints \cup {None}
    /\ Revision(checkpoint) \in Nat /\ Revision(checkpoint') \in Nat
    /\ Revision(checkpoint) <= Revision(checkpoint')

\* A typed store has the types of TypeOKStore.
LEMMA StoreTyped ==
    ASSUME NEW CONSTANT ids, StoreInv(ids)
    PROVE  TypeOKStore
  <1>1. \A i \in DOMAIN requests : requests[i] \in StoredRow(ids)
    BY DEF StoreInv
  <1>2. \A i \in DOMAIN requests :
          /\ requests[i].envelope \in Envelopes /\ requests[i].result \in Results
          /\ requests[i].observed \in Checkpoints \cup {None}
          /\ requests[i].outcome \in Checkpoints \cup {None}
    BY <1>1 DEF StoredRow
  <1> QED BY <1>2 DEF StoreInv, TypeOKStore

\* The replay is the outcome of the last row that applied.
LEMMA ReplayedIs ==
    ASSUME NEW s, NEW i
    PROVE  Replayed(s, i) = LastOutcome(s, Applied(s, i))
  BY DEF Replayed, Applied, LastOutcome

\* The replay of a prefix does not depend on the rows after it.
LEMMA ReplayPrefix ==
    ASSUME NEW s, NEW t, NEW i \in Nat, HasLast(Applied(s, i)),
           \A j \in 1 .. i : t[j] = s[j]
    PROVE  Replayed(t, i) = Replayed(s, i) /\ Applied(t, i) = Applied(s, i)
  <1> DEFINE S == Applied(s, i)
             last == CHOOSE j \in S : \A k \in S : k <= j
  <1>1. Applied(t, i) = S
    BY DEF Applied
  <1>2. Replayed(s, i) = IF S = {} THEN None ELSE s[last].outcome
    BY ReplayedIs DEF LastOutcome
  <1>3. Replayed(t, i) = IF S = {} THEN None ELSE t[last].outcome
    <2>1. Replayed(t, i) = LastOutcome(t, S)
      BY <1>1, ReplayedIs
    <2> QED BY <2>1 DEF LastOutcome
  <1>4. S # {} => last \in S
    BY DEF HasLast
  <1>5. S \subseteq 1 .. i
    BY DEF Applied
  <1> QED BY <1>1, <1>2, <1>3, <1>4, <1>5

\* One row more: its outcome when it applied, and what was before otherwise.
LEMMA ReplayNext ==
    ASSUME NEW s, NEW i \in Nat, HasLast(Applied(s, i))
    PROVE  /\ HasLast(Applied(s, i + 1))
           /\ Replayed(s, i + 1) = IF s[i + 1].result = "APPLIED" THEN s[i + 1].outcome
                                                                  ELSE Replayed(s, i)
  <1>1. CASE s[i + 1].result = "APPLIED"
    <2> DEFINE S == Applied(s, i + 1)
               last == CHOOSE j \in S : \A k \in S : k <= j
    <2>1. i + 1 \in S /\ \A k \in S : k <= i + 1 /\ k \in Nat
      BY <1>1 DEF Applied
    <2>2. last = i + 1
      <3>1. last \in S /\ \A k \in S : k <= last
        BY <2>1
      <3> QED BY <2>1, <3>1
    <2>3. Replayed(s, i + 1) = IF S = {} THEN None ELSE s[last].outcome
      BY DEF Replayed, Applied
    <2> QED BY <1>1, <2>1, <2>2, <2>3 DEF HasLast
  <1>2. CASE s[i + 1].result # "APPLIED"
    <2>1. Applied(s, i + 1) = Applied(s, i)
      BY <1>2 DEF Applied
    <2>2. Replayed(s, i + 1) = Replayed(s, i)
      BY <2>1, ReplayedIs
    <2> QED BY <1>2, <2>1, <2>2
  <1> QED BY <1>1, <1>2

\* A transaction keeps the store, adds at most a row and moves the register forward.
LEMMA TransactKeeps ==
    ASSUME NEW CONSTANT ids, StoreInv(ids), NEW CONSTANT id \in ids,
           NEW CONSTANT env \in Envelopes, Transact(id, env)
    PROVE  /\ StoreInv(ids)' /\ Grows
           /\ [Register!Next]_checkpoint
           /\ RowsOf(id) = {} => \E i \in DOMAIN requests' :
                                    requests'[i].id = id /\ requests'[i].envelope = env
  <1> DEFINE n == Len(requests)
             o == Outcome(env, checkpoint)
             row == [id |-> id, envelope |-> env, result |-> o.result,
                     observed |-> checkpoint, outcome |-> o.outcome]
  <1>0. /\ checkpoint \in Checkpoints \cup {None} /\ requests \in Seq(StoredRow(ids))
        /\ n \in Nat /\ DOMAIN requests = 1 .. n
    BY DEF StoreInv
  <1>r. Revision(checkpoint) \in Nat
    BY <1>0, CheckpointFacts DEF Revision
  <1>1. CASE RowsOf(id) # {}
    <2>1. checkpoint' = checkpoint /\ requests' = requests
      BY <1>1 DEF Transact, store
    <2>2. StoreInv(ids)'
      BY <2>1 DEF StoreInv, UniqueIds, Opens, ValidRequestRows
    <2>3. Grows
      BY <1>0, <1>r, <2>1 DEF Grows, Revision, Longer
    <2> QED BY <1>1, <2>1, <2>2, <2>3
  <1>2. CASE RowsOf(id) = {}
    <2>1. checkpoint' = o.outcome /\ requests' = Append(requests, row)
      BY <1>2 DEF Transact
    <2>2. /\ o.result \in Results /\ o.outcome \in Checkpoints \cup {None}
          /\ o.result # "APPLIED" => o.outcome = checkpoint
          /\ o.result = "APPLIED" =>
                /\ o.outcome \in Checkpoints
                /\ checkpoint # None => o.outcome.revision > checkpoint.revision
      BY <1>0, OutcomeFacts
    <2> HIDE DEF o
    <2>3. row \in StoredRow(ids)
      BY <1>0, <2>2 DEF StoredRow
    <2>f. /\ row.id = id /\ row.envelope = env /\ row.result = o.result
          /\ row.observed = checkpoint /\ row.outcome = o.outcome
      OBVIOUS
    <2> HIDE DEF row
    <2>4. /\ requests' \in Seq(StoredRow(ids)) /\ Len(requests') = n + 1
          /\ DOMAIN requests' = 1 .. n + 1
          /\ \A i \in 1 .. n : requests'[i] = requests[i]
          /\ requests'[n + 1] = row
      BY <1>0, <2>1, <2>3
    <2>h. /\ \A i \in 0 .. n : HasLast(Applied(requests, i))
          /\ ValidRequestRows /\ checkpoint = Replayed(requests, n)
      BY DEF StoreInv, Opens
    <2> HIDE DEF n
    <2>5. UniqueIds'
      BY <1>0, <1>2, <2>4, <2>f DEF UniqueIds, StoreInv, RowsOf
    <2>6. \A i \in 0 .. n : /\ Replayed(requests', i) = Replayed(requests, i)
                            /\ HasLast(Applied(requests', i))
      <3> SUFFICES ASSUME NEW i \in 0 .. n
                   PROVE  /\ Replayed(requests', i) = Replayed(requests, i)
                          /\ HasLast(Applied(requests', i))
        OBVIOUS
      <3>1. i \in Nat /\ \A j \in 1 .. i : requests'[j] = requests[j]
        BY <1>0, <2>4
      <3> QED BY <2>h, <3>1, ReplayPrefix
    <2>7. /\ HasLast(Applied(requests', n + 1))
          /\ Replayed(requests', n + 1) = IF o.result = "APPLIED" THEN o.outcome ELSE checkpoint
      <3>1. HasLast(Applied(requests', n)) /\ Replayed(requests', n) = checkpoint /\ n \in Nat
        BY <1>0, <2>6, <2>h
      <3> QED BY <2>4, <2>f, <3>1, ReplayNext
    <2>8. \A i \in 0 .. n + 1 : HasLast(Applied(requests', i))
      BY <1>0, <2>6, <2>7
    <2>9. checkpoint' = Replayed(requests', n + 1)
      BY <2>1, <2>2, <2>7
    <2>10. ValidRequestRows'
      <3> DEFINE Valid(r, was) ==
                   LET q == Outcome([r.envelope EXCEPT !.successor = StoredSuccessor(r.envelope)], was)
                   IN  r.observed = was /\ r.result = q.result /\ r.outcome = q.outcome
      <3>1. \A i \in 1 .. n : Valid(requests[i], Replayed(requests, i - 1))
        BY <1>0, <2>h DEF ValidRequestRows
      <3>2. Valid(row, checkpoint)
        BY <2>f, StoredOutcome DEF o
      <3> HIDE DEF Valid
      <3>3. \A i \in 1 .. n + 1 : Valid(requests'[i], Replayed(requests', i - 1))
        <4> SUFFICES ASSUME NEW i \in 1 .. n + 1
                     PROVE  Valid(requests'[i], Replayed(requests', i - 1))
          OBVIOUS
        <4>1. i - 1 \in 0 .. n /\ Replayed(requests', i - 1) = Replayed(requests, i - 1)
          BY <1>0, <2>6
        <4>2. CASE i \in 1 .. n
          BY <2>4, <3>1, <4>1, <4>2
        <4>3. CASE i = n + 1
          <5>1. i - 1 = n
            BY <1>0, <4>3
          <5> QED BY <2>4, <2>h, <3>2, <4>1, <4>3, <5>1
        <4> QED BY <1>0, <4>2, <4>3
      <3> QED BY <2>4, <3>3 DEF Valid, ValidRequestRows
    <2>11. StoreInv(ids)'
      BY <2>1, <2>2, <2>4, <2>5, <2>8, <2>9, <2>10 DEF StoreInv, Opens
    <2>12. checkpoint' = checkpoint \/ Register!Next
      BY <1>0, <2>1, <2>2 DEF Register!Next, Register!Bootstrap, Register!Advance
    <2>13. Grows
      <3>1. Revision(checkpoint') \in Nat /\ Revision(checkpoint) <= Revision(checkpoint')
        BY <1>0, <1>r, <2>1, <2>2, CheckpointFacts DEF Revision
      <3> QED BY <1>0, <1>r, <2>1, <2>2, <2>4, <3>1 DEF Grows, Longer, n
    <2>14. \E i \in DOMAIN requests' : requests'[i].id = id /\ requests'[i].envelope = env
      BY <1>0, <2>4, <2>f
    <2> QED BY <2>11, <2>12, <2>13, <2>14
  <1> QED BY <1>1, <1>2

-----------------------------------------------------------------------------
(* The protocol around the store.  What a message, an execution that has   *)
(* not replied and a client may say is stated of the table rows and the    *)
(* revisions ask of the challenges, and holds of any longer ones.          *)
Submitted ==
    UNION {{[client |-> IdentityOf[c], id |-> x[1], envelope |-> x[2]] : x \in Submissions[c]}
              : c \in Clients}
Ids == {x[1] : x \in Provisioning} \cup {InternalId(r) : r \in Submitted}

Truthful(rows, r, sequence, row) ==
    /\ sequence \in DOMAIN rows /\ rows[sequence] = row
    /\ row.id = InternalId(r) /\ row.envelope = r.envelope

ReceiptOK(m, rows, ask) ==
    /\ m.status = "RECORDED" => Truthful(rows, m.request, m.sequence, m.row)
    /\ m.challenge \in 0 .. Len(ask)
    /\ m.challenge # 0 => ask[m.challenge] <= Revision(m.current)

MessageOK(m, rows, ask) ==
    /\ m.type \in {"execute", "lookup", "receipt"} /\ m.request \in Submitted
    /\ m.type = "lookup" => m.challenge \in 1 .. Len(ask)
    /\ m.type = "receipt" => ReceiptOK(m, rows, ask)

CommittedOK(r, rows) ==
    r \in Submitted /\ \E i \in DOMAIN rows : Truthful(rows, r, i, rows[i])

\* x is a record with the fields of a client.
IsClient(x) == x \in [pc : {x.pc}, id : {x.id}, envelope : {x.envelope},
                      challenge : {x.challenge}, receipt : {x.receipt}]

ClientOK(c, x, rows, ask) ==
    /\ IsClient(x)
    /\ x.pc \in PCs
    /\ x.pc # "idle" => <<x.id, x.envelope>> \in Submissions[c]
    /\ x.challenge \in 0 .. Len(ask)
    /\ IF x.pc # "known" THEN x.receipt = None
       ELSE /\ x.receipt.type = "receipt" /\ x.receipt.status = "RECORDED"
            /\ x.receipt.challenge = x.challenge
            /\ x.receipt.request =
                  [client |-> IdentityOf[c], id |-> x.id, envelope |-> x.envelope]
            /\ ReceiptOK(x.receipt, rows, ask)

\* The challenges drawn, and that none was drawn at a later revision than now.
AskedOK ==
    /\ challenges \in 0 .. MaxChallenges
    /\ asked \in Seq(Nat) /\ Len(asked) = challenges
    /\ \A n \in 1 .. challenges : asked[n] <= Revision(checkpoint)

ProtocolInv ==
    /\ StoreInv(Ids)
    /\ AskedOK
    /\ timeouts \in 0 .. MaxTimeouts
    /\ \A m \in wire : MessageOK(m, requests, asked)
    /\ \A r \in committed : CommittedOK(r, requests)
    /\ cl = [c \in Clients |-> cl[c]]
    /\ \A c \in Clients : ClientOK(c, cl[c], requests, asked)

\* What was said of a shorter table and fewer challenges still holds.
LEMMA StillTrue ==
    ASSUME NEW rows, NEW rows2, Longer(rows, rows2), NEW ask, NEW ask2, Longer(ask, ask2)
    PROVE  /\ \A m : ReceiptOK(m, rows, ask) => ReceiptOK(m, rows2, ask2)
           /\ \A m : MessageOK(m, rows, ask) => MessageOK(m, rows2, ask2)
           /\ \A r : CommittedOK(r, rows) => CommittedOK(r, rows2)
           /\ \A c, x : ClientOK(c, x, rows, ask) => ClientOK(c, x, rows2, ask2)
  <1>1. \A r, i, row : Truthful(rows, r, i, row) => Truthful(rows2, r, i, row)
    BY DEF Longer, Truthful
  <1>2. \A n : n \in 0 .. Len(ask) => n \in 0 .. Len(ask2) /\ (n # 0 => ask2[n] = ask[n])
    BY DEF Longer
  <1>3. ASSUME NEW m, ReceiptOK(m, rows, ask)
        PROVE  ReceiptOK(m, rows2, ask2)
    BY <1>1, <1>2, <1>3 DEF ReceiptOK
  <1>4. ASSUME NEW m, MessageOK(m, rows, ask)
        PROVE  MessageOK(m, rows2, ask2)
    BY <1>2, <1>3, <1>4 DEF MessageOK, Longer
  <1>5. ASSUME NEW r, CommittedOK(r, rows)
        PROVE  CommittedOK(r, rows2)
    <2>1. PICK i \in DOMAIN rows : Truthful(rows, r, i, rows[i])
      BY <1>5 DEF CommittedOK
    <2>2. rows2[i] = rows[i] /\ i \in DOMAIN rows2
      BY DEF Longer
    <2> QED BY <1>1, <1>5, <2>1, <2>2 DEF CommittedOK
  <1>6. ASSUME NEW c, NEW x, ClientOK(c, x, rows, ask)
        PROVE  ClientOK(c, x, rows2, ask2)
    BY <1>2, <1>3, <1>6 DEF ClientOK
  <1> QED BY <1>3, <1>4, <1>5, <1>6

\* What an action has to show of what it writes.
LEMMA ProtocolStep ==
    ASSUME ProtocolInv, StoreInv(Ids)', AskedOK', timeouts' \in 0 .. MaxTimeouts,
           Longer(requests, requests'), Longer(asked, asked'),
           \A m \in wire' : m \in wire \/ MessageOK(m, requests', asked'),
           \A r \in committed' : r \in committed \/ CommittedOK(r, requests'),
           \/ cl' = cl
           \/ \E c \in Clients : \E x : ClientOK(c, x, requests', asked') /\ cl' = [cl EXCEPT ![c] = x]
    PROVE  ProtocolInv'
  <1>1. \A m \in wire' : MessageOK(m, requests', asked')
    BY StillTrue DEF ProtocolInv
  <1>2. \A r \in committed' : CommittedOK(r, requests')
    BY StillTrue DEF ProtocolInv
  <1>3. \A c \in Clients : ClientOK(c, cl[c], requests', asked')
    BY StillTrue DEF ProtocolInv
  <1>4. cl' = [c \in Clients |-> cl'[c]] /\ \A c \in Clients : ClientOK(c, cl'[c], requests', asked')
    <2>0. cl = [c \in Clients |-> cl[c]]
      BY DEF ProtocolInv
    <2>1. CASE cl' = cl
      BY <1>3, <2>0, <2>1
    <2>2. CASE cl' # cl
      <3>0. PICK c \in Clients : \E x : ClientOK(c, x, requests', asked') /\ cl' = [cl EXCEPT ![c] = x]
        BY <2>2
      <3>1. PICK x : ClientOK(c, x, requests', asked') /\ cl' = [cl EXCEPT ![c] = x]
        BY <3>0
      <3>2. DOMAIN cl = Clients
        BY <2>0
      <3>3. \A d \in Clients : cl'[d] = IF d = c THEN x ELSE cl[d]
        BY <3>1, <3>2
      <3>4. cl' = [d \in Clients |-> cl'[d]]
        BY <3>1, <3>2
      <3> QED BY <1>3, <3>1, <3>3, <3>4
    <2> QED BY <2>1, <2>2
  <1> QED BY <1>1, <1>2, <1>4 DEF ProtocolInv

\* The row of a recorded request.
LEMMA RowFacts ==
    ASSUME UniqueIds, NEW id, NEW i \in DOMAIN requests, requests[i].id = id
    PROVE  RowsOf(id) = {i} /\ RowOf(id) = requests[i] /\ SequenceOf(id) = i
  <1>1. RowsOf(id) = {i}
    BY DEF UniqueIds, RowsOf
  <1>2. (CHOOSE j \in {i} : TRUE) = i
    OBVIOUS
  <1> QED BY <1>1, <1>2 DEF RowOf, SequenceOf

\* An action that leaves store and challenges alone.
LEMMA Quiet ==
    ASSUME ProtocolInv, UNCHANGED <<checkpoint, requests, challenges, asked>>
    PROVE  /\ StoreInv(Ids)' /\ AskedOK' /\ Grows
           /\ Longer(requests, requests') /\ Longer(asked, asked')
  <1>1. StoreInv(Ids)'
    BY DEF ProtocolInv, StoreInv, UniqueIds, Opens, ValidRequestRows
  <1>2. AskedOK'
    BY DEF ProtocolInv, AskedOK, Revision
  <1>3. Longer(requests, requests')
    BY DEF ProtocolInv, StoreInv, Longer
  <1>4. Longer(asked, asked')
    BY DEF ProtocolInv, AskedOK, Longer
  <1>5. Grows
    BY <1>3, CheckpointFacts DEF ProtocolInv, StoreInv, Grows, Revision
  <1> QED BY <1>1, <1>2, <1>3, <1>4, <1>5

\* A transaction keeps the challenges drawn before it.
LEMMA GrowsAsked ==
    ASSUME AskedOK, Grows, UNCHANGED <<challenges, asked>>
    PROVE  AskedOK' /\ Longer(asked, asked')
  <1>1. Longer(asked, asked')
    BY DEF AskedOK, Longer
  <1>2. \A n \in 1 .. challenges : asked[n] \in Nat
    BY DEF AskedOK
  <1> QED BY <1>1, <1>2 DEF AskedOK, Grows

\* Every action of a client keeps the invariant.
LEMMA ClientStep ==
    ASSUME ProtocolInv, NEW c \in Clients, Client(c)
    PROVE  ProtocolInv' /\ Grows /\ UNCHANGED store
  <1> USE ExternalAssumption
  <1> DEFINE x == cl[c]
             r == [client |-> IdentityOf[c], id |-> x.id, envelope |-> x.envelope]
  <1>0. /\ ClientOK(c, x, requests, asked) /\ AskedOK /\ timeouts \in 0 .. MaxTimeouts
        /\ DOMAIN cl = Clients /\ Request(c) = r
    BY DEF ProtocolInv, Request
  <1>x. /\ IsClient(x)
        /\ x.pc \in {"waiting", "looking", "unknown"} =>
              x.receipt = None /\ <<x.id, x.envelope>> \in Submissions[c]
        /\ x.challenge \in 0 .. Len(asked)
    BY <1>0 DEF ClientOK
  <1>s. x.pc # "idle" => r \in Submitted
    BY <1>0 DEF ClientOK, Submitted
  <1>set. ASSUME NEW y, ClientOK(c, y, requests', asked'), cl' = [cl EXCEPT ![c] = y],
                 UNCHANGED <<checkpoint, requests, challenges, asked>>, committed' = committed,
                 timeouts' \in 0 .. MaxTimeouts,
                 \A m \in wire' : m \in wire \/ MessageOK(m, requests', asked')
          PROVE  ProtocolInv' /\ Grows /\ UNCHANGED store
    BY <1>set, Quiet, ProtocolStep DEF store
  <1>pc. ASSUME NEW pc \in {"unknown", "refused"}, x.pc \in {"waiting", "looking"}
         PROVE  ClientOK(c, [x EXCEPT !.pc = pc], requests, asked)
    <2> DEFINE y == [x EXCEPT !.pc = pc]
    <2>1. /\ IsClient(y) /\ y.pc = pc /\ y.id = x.id /\ y.envelope = x.envelope
          /\ y.challenge = x.challenge /\ y.receipt = x.receipt
      BY <1>x DEF IsClient
    <2> HIDE DEF y
    <2>2. ClientOK(c, y, requests, asked)
      BY <1>x, <1>pc, <2>1 DEF ClientOK, PCs
    <2> QED BY <2>2 DEF y
  <1>1. ASSUME NEW q \in Submissions[c], Submit(c, q[1], q[2])
        PROVE  ProtocolInv' /\ Grows /\ UNCHANGED store
    <2> DEFINE y == [IdleClient EXCEPT !.pc = "waiting", !.id = q[1], !.envelope = q[2]]
               m == [type |-> "execute",
                     request |-> [client |-> IdentityOf[c], id |-> q[1], envelope |-> q[2]]]
    <2>1. cl' = [cl EXCEPT ![c] = y]
      BY <1>1 DEF Submit
    <2>2. cl'[c] = y
      BY <1>0, <2>1
    <2>3. wire' = wire \cup {m}
      BY <1>1, <2>2 DEF Submit, Request, IdleClient
    <2>4. MessageOK(m, requests, asked)
      BY DEF MessageOK, Submitted
    <2>5. ClientOK(c, y, requests, asked)
      <3>1. /\ IsClient(y) /\ y.pc = "waiting" /\ y.id = q[1] /\ y.envelope = q[2]
            /\ y.challenge = 0 /\ y.receipt = None
        BY DEF IdleClient, IsClient
      <3>2. 0 \in 0 .. Len(asked) /\ <<q[1], q[2]>> \in Submissions[c] /\ "waiting" \in PCs
        BY <1>0, ExternalAssumption DEF AskedOK, PCs
      <3> HIDE DEF y
      <3> QED BY <3>1, <3>2 DEF ClientOK
    <2>6. /\ UNCHANGED <<checkpoint, requests, challenges, asked>> /\ committed' = committed
          /\ timeouts' = timeouts
      BY <1>1 DEF Submit, store
    <2> HIDE DEF y, m
    <2> QED BY <1>0, <1>set, <2>1, <2>3, <2>4, <2>5, <2>6
  <1>2. ASSUME Resubmit(c)
        PROVE  ProtocolInv' /\ Grows /\ UNCHANGED store
    <2> DEFINE y == [x EXCEPT !.pc = "waiting", !.challenge = 0]
               m == [type |-> "execute", request |-> r]
    <2>1. cl' = [cl EXCEPT ![c] = y] /\ wire' = wire \cup {m} /\ x.pc = "unknown"
      BY <1>0, <1>2 DEF Resubmit
    <2>2. MessageOK(m, requests, asked)
      BY <1>s, <2>1 DEF MessageOK
    <2>3. ClientOK(c, y, requests, asked)
      <3>1. /\ IsClient(y) /\ y.pc = "waiting" /\ y.id = x.id /\ y.envelope = x.envelope
            /\ y.challenge = 0 /\ y.receipt = x.receipt
        BY <1>x DEF IsClient
      <3>2. 0 \in 0 .. Len(asked) /\ "waiting" \in PCs
        BY <1>0 DEF AskedOK, PCs
      <3> HIDE DEF y
      <3> QED BY <1>x, <2>1, <3>1, <3>2 DEF ClientOK
    <2>4. /\ UNCHANGED <<checkpoint, requests, challenges, asked>> /\ committed' = committed
          /\ timeouts' = timeouts
      BY <1>2 DEF Resubmit, store
    <2> HIDE DEF y, m
    <2> QED BY <1>0, <1>set, <2>1, <2>2, <2>3, <2>4
  <1>3. ASSUME Lookup(c)
        PROVE  ProtocolInv' /\ Grows /\ UNCHANGED store
    <2> DEFINE y == [x EXCEPT !.pc = "looking", !.challenge = challenges + 1]
               m == [type |-> "lookup", request |-> r, challenge |-> challenges + 1]
    <2>1. /\ challenges' = challenges + 1 /\ challenges < MaxChallenges
          /\ asked' = Append(asked, Revision(checkpoint))
          /\ UNCHANGED <<checkpoint, requests, committed, timeouts>> /\ x.pc = "unknown"
      BY <1>3 DEF Lookup, DrawChallenge, store
    <2>2. cl' = [cl EXCEPT ![c] = y] /\ wire' = wire \cup {m}
      BY <1>0, <1>3, <2>1 DEF Lookup
    <2>3. StoreInv(Ids)' /\ Longer(requests, requests') /\ Revision(checkpoint) \in Nat /\ Grows
      <3>1. StoreInv(Ids)'
        BY <2>1 DEF ProtocolInv, StoreInv, UniqueIds, Opens, ValidRequestRows
      <3>2. Longer(requests, requests')
        BY <2>1 DEF ProtocolInv, StoreInv, Longer
      <3>3. Revision(checkpoint) \in Nat
        BY CheckpointFacts DEF ProtocolInv, StoreInv, Revision
      <3> QED BY <2>1, <3>1, <3>2, <3>3 DEF Grows, ProtocolInv, StoreInv
    <2>4. /\ asked' \in Seq(Nat) /\ Len(asked') = challenges + 1 /\ challenges \in Nat
          /\ \A n \in 1 .. challenges : asked'[n] = asked[n]
          /\ asked'[challenges + 1] = Revision(checkpoint)
      BY <1>0, <2>1, <2>3 DEF AskedOK
    <2>5. Longer(asked, asked')
      BY <1>0, <2>4 DEF Longer, AskedOK
    <2>6. AskedOK'
      <3>1. \A n \in 1 .. challenges + 1 : asked'[n] <= Revision(checkpoint)
        BY <1>0, <2>3, <2>4 DEF AskedOK
      <3>2. challenges + 1 \in 0 .. MaxChallenges
        BY <1>0, <2>1 DEF AskedOK
      <3>3. Revision(checkpoint') = Revision(checkpoint)
        BY <2>1 DEF Revision
      <3> QED BY <2>1, <2>4, <3>1, <3>2, <3>3 DEF AskedOK
    <2>7. MessageOK(m, requests', asked')
      BY <1>s, <2>1, <2>4 DEF MessageOK
    <2>8. ClientOK(c, y, requests', asked')
      <3>1. /\ IsClient(y) /\ y.pc = "looking" /\ y.id = x.id /\ y.envelope = x.envelope
            /\ y.challenge = challenges + 1 /\ y.receipt = x.receipt
        BY <1>x DEF IsClient
      <3>2. challenges + 1 \in 0 .. Len(asked') /\ "looking" \in PCs
        BY <2>4 DEF PCs
      <3> HIDE DEF y
      <3> QED BY <1>x, <2>1, <3>1, <3>2 DEF ClientOK
    <2> HIDE DEF y, m
    <2> QED BY <1>0, <2>1, <2>2, <2>3, <2>5, <2>6, <2>7, <2>8, ProtocolStep DEF store
  <1>4. ASSUME Timeout(c) \/ LostCall(c)
        PROVE  ProtocolInv' /\ Grows /\ UNCHANGED store
    <2> DEFINE y == [x EXCEPT !.pc = "unknown"]
    <2>1. /\ cl' = [cl EXCEPT ![c] = y] /\ wire' = wire /\ x.pc \in {"waiting", "looking"}
          /\ UNCHANGED <<checkpoint, requests, challenges, asked>> /\ committed' = committed
      BY <1>4 DEF Timeout, LostCall, store
    <2>2. timeouts' \in 0 .. MaxTimeouts
      BY <1>0, <1>4 DEF Timeout, LostCall
    <2>3. ClientOK(c, y, requests, asked)
      BY <1>pc, <2>1
    <2> HIDE DEF y
    <2> QED BY <1>set, <2>1, <2>2, <2>3
  <1>5. ASSUME NEW m \in wire, Receive(c, m)
        PROVE  ProtocolInv' /\ Grows /\ UNCHANGED store
    <2> DEFINE y == [x EXCEPT !.pc = IF m.status = "RECORDED" THEN "known" ELSE "unknown",
                              !.receipt = IF m.status = "RECORDED" THEN m ELSE None]
    <2>1. /\ cl' = [cl EXCEPT ![c] = y] /\ x.pc \in {"waiting", "looking"}
          /\ m.type = "receipt" /\ m.request = r /\ m.challenge = x.challenge
          /\ wire' \subseteq wire /\ timeouts' = timeouts
          /\ UNCHANGED <<checkpoint, requests, challenges, asked>> /\ committed' = committed
      BY <1>0, <1>5 DEF Receive, verify_receipt, store
    <2>2. ReceiptOK(m, requests, asked)
      BY <2>1 DEF ProtocolInv, MessageOK
    <2>3. CASE m.status = "RECORDED"
      <3>1. ClientOK(c, y, requests, asked)
        <4>1. /\ IsClient(y) /\ y.pc = "known" /\ y.id = x.id /\ y.envelope = x.envelope
              /\ y.challenge = x.challenge /\ y.receipt = m
          BY <1>x, <2>3 DEF IsClient
        <4> HIDE DEF y
        <4>2. "known" \in PCs
          BY DEF PCs
        <4> QED BY <1>x, <2>1, <2>2, <2>3, <4>1, <4>2 DEF ClientOK
      <3> HIDE DEF y
      <3> QED BY <1>0, <1>set, <2>1, <3>1
    <2>4. CASE m.status # "RECORDED"
      <3>1. ClientOK(c, y, requests, asked)
        <4>1. /\ IsClient(y) /\ y.pc = "unknown" /\ y.id = x.id /\ y.envelope = x.envelope
              /\ y.challenge = x.challenge /\ y.receipt = None
          BY <1>x, <2>4 DEF IsClient
        <4> HIDE DEF y
        <4>2. "unknown" \in PCs
          BY DEF PCs
        <4> QED BY <1>x, <2>1, <4>1, <4>2 DEF ClientOK
      <3> HIDE DEF y
      <3> QED BY <1>0, <1>set, <2>1, <3>1
    <2> QED BY <2>3, <2>4
  <1>6. ASSUME NEW m \in wire, ReceiveOther(c, m) \/ Refused(c, m)
        PROVE  ProtocolInv' /\ Grows /\ UNCHANGED store
    <2>1. PICK pc \in {"unknown", "refused"} : cl' = [cl EXCEPT ![c].pc = pc]
      BY <1>6 DEF ReceiveOther, Refused
    <2> DEFINE y == [x EXCEPT !.pc = pc]
    <2>2. /\ cl' = [cl EXCEPT ![c] = y] /\ wire' \subseteq wire /\ x.pc \in {"waiting", "looking"}
          /\ UNCHANGED <<checkpoint, requests, challenges, asked>> /\ committed' = committed
      BY <1>6, <2>1 DEF ReceiveOther, Refused, store
    <2>3. timeouts' \in 0 .. MaxTimeouts
      BY <1>0, <1>6 DEF ReceiveOther, Refused
    <2>4. ClientOK(c, y, requests, asked)
      BY <1>pc, <2>2
    <2> HIDE DEF y
    <2> QED BY <1>set, <2>2, <2>3, <2>4
  <1> QED BY <1>1, <1>2, <1>3, <1>4, <1>5, <1>6 DEF Client

\* The envelopes and ids of submitted requests are ones the store takes.
LEMMA SubmittedFacts ==
    ASSUME NEW r \in Submitted
    PROVE  r.envelope \in Envelopes /\ InternalId(r) \in Ids
  BY ExternalAssumption DEF Submitted, Ids

\* A request whose id is recorded and raises no conflict is the recorded one.
LEMMA RecordedFacts ==
    ASSUME ProtocolInv, NEW r, RowsOf(InternalId(r)) # {},
           ~RequestIdConflict(InternalId(r), r.envelope)
    PROVE  Truthful(requests, r, SequenceOf(InternalId(r)), RowOf(InternalId(r)))
  <1>1. PICK i \in DOMAIN requests : requests[i].id = InternalId(r)
    BY DEF RowsOf
  <1>2. RowOf(InternalId(r)) = requests[i] /\ SequenceOf(InternalId(r)) = i
    BY <1>1, RowFacts DEF ProtocolInv, StoreInv
  <1> QED BY <1>1, <1>2 DEF RequestIdConflict, Truthful

\* The fields of a receipt.
LEMMA ReceiptFacts ==
    ASSUME NEW r, NEW status, NEW row, NEW sequence, NEW current, NEW replayed, NEW challenge
    PROVE  LET m == Receipt(r, status, row, sequence, current, replayed, challenge)
           IN  /\ m.type = "receipt" /\ m.request = r /\ m.status = status /\ m.row = row
               /\ m.sequence = sequence /\ m.current = current /\ m.challenge = challenge
  BY DEF Receipt

\* Every action of the service keeps the invariant and the register's promise.
LEMMA ServiceStep ==
    ASSUME ProtocolInv, Service
    PROVE  ProtocolInv' /\ Grows /\ [Register!Next]_checkpoint
  <1>0. /\ \A m \in wire : MessageOK(m, requests, asked)
        /\ AskedOK /\ StoreInv(Ids) /\ timeouts \in 0 .. MaxTimeouts
    BY DEF ProtocolInv
  <1>k. ASSUME UNCHANGED <<checkpoint, requests, challenges, asked, cl>>,
               timeouts' \in 0 .. MaxTimeouts,
               \A m \in wire' : m \in wire \/ MessageOK(m, requests, asked),
               committed' \subseteq committed
        PROVE  ProtocolInv' /\ Grows /\ [Register!Next]_checkpoint
    BY <1>k, Quiet, ProtocolStep
  <1>0z. 0 \in 0 .. Len(asked) /\ Revision(checkpoint) \in Nat
    BY <1>0, CheckpointFacts DEF AskedOK, StoreInv, Revision
  <1>1. ASSUME NEW m \in wire, ServeExecute(m)
        PROVE  ProtocolInv' /\ Grows /\ [Register!Next]_checkpoint
    <2> DEFINE r == m.request
               id == InternalId(r)
    <2>1. /\ r \in Submitted /\ ~RequestIdConflict(id, r.envelope) /\ Transact(id, r.envelope)
          /\ UNCHANGED <<cl, challenges, asked, timeouts>>
      BY <1>0, <1>1 DEF ServeExecute, MessageOK
    <2>2. CASE RowsOf(id) = {}
      <3>1. committed' = committed \cup {r} /\ wire' = wire \ {m}
        BY <1>1, <2>2 DEF ServeExecute
      <3>2. /\ StoreInv(Ids)' /\ Grows /\ [Register!Next]_checkpoint
            /\ \E i \in DOMAIN requests' :
                  requests'[i].id = id /\ requests'[i].envelope = r.envelope
        <4> HIDE DEF id, r
        <4>1. \A e \in Envelopes : \A j \in Ids :
                 j = id /\ e = r.envelope =>
                    /\ StoreInv(Ids)' /\ Grows /\ [Register!Next]_checkpoint
                    /\ \E i \in DOMAIN requests' :
                          requests'[i].id = j /\ requests'[i].envelope = e
          <5> SUFFICES ASSUME NEW CONSTANT e \in Envelopes, NEW CONSTANT j \in Ids,
                              j = id, e = r.envelope
                       PROVE  /\ StoreInv(Ids)' /\ Grows /\ [Register!Next]_checkpoint
                              /\ \E i \in DOMAIN requests' :
                                    requests'[i].id = j /\ requests'[i].envelope = e
            OBVIOUS
          <5>1. Transact(j, e) /\ RowsOf(j) = {}
            BY <2>1, <2>2
          <5> QED BY <1>0, <5>1, TransactKeeps
        <4>2. r.envelope \in Envelopes /\ id \in Ids
          BY <2>1, SubmittedFacts DEF id
        <4> QED BY <4>1, <4>2
      <3>3. CommittedOK(r, requests')
        BY <2>1, <3>2 DEF CommittedOK, Truthful
      <3>4. AskedOK' /\ Longer(asked, asked')
        BY <1>0, <2>1, <3>2, GrowsAsked
      <3> HIDE DEF r, id
      <3> QED BY <1>0, <2>1, <3>1, <3>2, <3>3, <3>4, ProtocolStep DEF Grows
    <2>3. CASE RowsOf(id) # {}
      <3> DEFINE new == Receipt(r, "RECORDED", RowOf(id), SequenceOf(id), checkpoint, TRUE, 0)
      <3>1. /\ wire' = (wire \ {m}) \cup {new} /\ committed' = committed
            /\ UNCHANGED <<checkpoint, requests>>
        BY <1>1, <2>1, <2>3 DEF ServeExecute, Transact, store
      <3>2. Truthful(requests, r, SequenceOf(id), RowOf(id))
        BY <2>1, <2>3, RecordedFacts
      <3>3. /\ new.type = "receipt" /\ new.request = r /\ new.row = RowOf(id)
            /\ new.sequence = SequenceOf(id) /\ new.challenge = 0
        BY DEF Receipt
      <3> HIDE DEF new, id, r
      <3>4. MessageOK(new, requests, asked)
        BY <1>0z, <2>1, <3>2, <3>3 DEF MessageOK, ReceiptOK
      <3> QED BY <1>0, <1>k, <2>1, <3>1, <3>4
    <2> QED BY <2>2, <2>3
  <1>2. ASSUME NEW m \in wire, ServeLookup(m)
        PROVE  ProtocolInv' /\ Grows /\ [Register!Next]_checkpoint
    <2> DEFINE r == m.request
               id == InternalId(r)
               found == lookup(id)
               new == Receipt(r, found.status, found.row, found.sequence, found.current,
                              found.row # None, m.challenge)
    <2>1. /\ r \in Submitted /\ m.challenge \in 1 .. Len(asked) /\ ~RequestIdConflict(id, r.envelope)
          /\ wire' = (wire \ {m}) \cup {new}
          /\ UNCHANGED <<checkpoint, requests, committed, cl, challenges, asked, timeouts>>
      BY <1>0, <1>2 DEF ServeLookup, MessageOK, Authentic, store
    <2>2. /\ found.current = checkpoint
          /\ found.status = "RECORDED" => Truthful(requests, r, found.sequence, found.row)
      BY <2>1, RecordedFacts DEF lookup
    <2>3. /\ new.type = "receipt" /\ new.request = r /\ new.status = found.status
          /\ new.row = found.row /\ new.sequence = found.sequence
          /\ new.current = found.current /\ new.challenge = m.challenge
      <3> HIDE DEF found
      <3> QED BY ReceiptFacts
    <2> HIDE DEF new, found, id, r
    <2>4. m.challenge \in 0 .. Len(asked) /\ asked[m.challenge] <= Revision(checkpoint)
      BY <1>0, <2>1 DEF AskedOK
    <2>5. MessageOK(new, requests, asked)
      BY <2>1, <2>2, <2>3, <2>4 DEF MessageOK, ReceiptOK
    <2> QED BY <1>0, <1>k, <2>1, <2>5
  <1>3. ASSUME NEW r \in committed, ServeReply(r)
        PROVE  ProtocolInv' /\ Grows /\ [Register!Next]_checkpoint
    <2> DEFINE id == InternalId(r)
               new == Receipt(r, "RECORDED", RowOf(id), SequenceOf(id), checkpoint, FALSE, 0)
    <2>1. /\ wire' = wire \cup {new} /\ committed' \subseteq committed
          /\ UNCHANGED <<checkpoint, requests, cl, challenges, asked, timeouts>>
      BY <1>3 DEF ServeReply, store
    <2>2. r \in Submitted /\ Truthful(requests, r, SequenceOf(id), RowOf(id))
      <3>1. PICK i \in DOMAIN requests : r \in Submitted /\ Truthful(requests, r, i, requests[i])
        BY DEF ProtocolInv, CommittedOK
      <3>2. RowOf(id) = requests[i] /\ SequenceOf(id) = i
        BY <1>0, <3>1, RowFacts DEF StoreInv, Truthful
      <3> QED BY <3>1, <3>2
    <2>3. /\ new.type = "receipt" /\ new.request = r /\ new.row = RowOf(id)
          /\ new.sequence = SequenceOf(id) /\ new.challenge = 0
      BY DEF Receipt
    <2> HIDE DEF new, id
    <2>4. MessageOK(new, requests, asked)
      BY <1>0z, <2>2, <2>3 DEF MessageOK, ReceiptOK
    <2> QED BY <1>0, <1>k, <2>1, <2>4
  <1>4. ASSUME ServiceDies \/ \E m \in wire : Lose(m)
        PROVE  ProtocolInv' /\ Grows /\ [Register!Next]_checkpoint
    <2>1. /\ UNCHANGED <<checkpoint, requests, challenges, asked, cl>>
          /\ wire' \subseteq wire /\ committed' \subseteq committed
      BY <1>4 DEF ServiceDies, Lose, store
    <2>2. timeouts' \in 0 .. MaxTimeouts
      BY <1>0, <1>4, ExternalAssumption DEF ServiceDies, Lose
    <2> QED BY <1>k, <2>1, <2>2
  <1>5. ASSUME NEW x \in Provisioning, Provision(x[1], x[2])
        PROVE  ProtocolInv' /\ Grows /\ [Register!Next]_checkpoint
    <2>1. /\ Transact(x[1], x[2]) /\ x[1] \in Ids /\ x[2] \in Envelopes
          /\ UNCHANGED <<wire, committed, cl, challenges, asked, timeouts>>
      BY <1>5, ExternalAssumption DEF Provision, Ids
    <2>2. StoreInv(Ids)' /\ Grows /\ [Register!Next]_checkpoint
      BY <1>0, <2>1, TransactKeeps
    <2>3. AskedOK' /\ Longer(asked, asked')
      BY <1>0, <2>1, <2>2, GrowsAsked
    <2> QED BY <1>0, <2>1, <2>2, <2>3, ProtocolStep DEF Grows
  <1> QED BY <1>1, <1>2, <1>3, <1>4, <1>5 DEF Service

-----------------------------------------------------------------------------
(* The host.  Its agreement is fresh because an observation made for its   *)
(* current challenge was signed after the challenge was drawn, and its own *)
(* file only moves forward afterwards.                                     *)
HostInv ==
    /\ local \in Checkpoints \cup {None}
    /\ anchor \in [challenge : Nat, asked : Nat, verdict : {anchor.verdict}]
    /\ anchor.asked <= Revision(checkpoint)
    /\ anchor.challenge # 0 => local # None
    /\ \A m \in observations :
          /\ m.challenge \in 1 .. anchor.challenge /\ m.checkpoint \in Checkpoints
          /\ m.challenge = anchor.challenge => anchor.asked <= m.checkpoint.revision
    /\ AgreementIsFresh

AllInv == ProtocolInv /\ HostInv

\* Every step of the host keeps its invariant and the promise of its file.
LEMMA HostStep ==
    ASSUME AllInv, HostNext, UNCHANGED vars
    PROVE  HostInv' /\ [LocalRegister!Next]_local
  <1>0. /\ local \in Checkpoints \cup {None} /\ checkpoint \in Checkpoints \cup {None}
        /\ anchor.challenge \in Nat /\ anchor.asked \in Nat
        /\ Revision(checkpoint) \in Nat /\ Revision(local) \in Nat
        /\ checkpoint' = checkpoint /\ Revision(checkpoint') = Revision(checkpoint)
    BY CheckpointFacts DEF AllInv, HostInv, ProtocolInv, StoreInv, Revision, vars, store
  <1>up. ASSUME NEW s \in Snapshots, TrustCheckpoint(s) \in Checkpoints,
                local = None \/ TrustCheckpoint(s).revision > local.revision,
                local' = TrustCheckpoint(s), UNCHANGED <<anchor, observations>>
         PROVE  HostInv' /\ [LocalRegister!Next]_local
    <2>1. LocalRegister!Next
      BY <1>up DEF LocalRegister!Next, LocalRegister!Bootstrap, LocalRegister!Advance
    <2>2. local' \in Checkpoints /\ local' # None /\ Revision(local') >= Revision(local)
          /\ Revision(local') \in Nat
      BY <1>0, <1>up, CheckpointFacts DEF Revision
    <2>3. AgreementIsFresh'
      BY <1>0, <1>up, <2>2 DEF AllInv, HostInv, AgreementIsFresh
    <2> QED BY <1>0, <1>up, <2>1, <2>2, <2>3 DEF AllInv, HostInv
  <1>1. ASSUME NEW s \in Snapshots, LocalAdvance(s)
        PROVE  HostInv' /\ [LocalRegister!Next]_local
    <2>1. TrustCheckpoint(s) \in Checkpoints
          /\ (local = None \/ TrustCheckpoint(s).revision > local.revision)
      <3>1. CASE local = None
        BY <1>1, <3>1 DEF LocalAdvance, Checkpoints
      <3>2. CASE local # None
        BY <1>0, <1>1, <3>2, SuccessorFacts DEF LocalAdvance
      <3> QED BY <3>1, <3>2
    <2> QED BY <1>1, <1>up, <2>1 DEF LocalAdvance
  <1>2. ASSUME NEW k \in Checkpoints, NEW s \in Snapshots, LocalCAS(k, s)
        PROVE  HostInv' /\ [LocalRegister!Next]_local
    <2>1. TrustCheckpoint(s) \in Checkpoints /\ TrustCheckpoint(s).revision > local.revision
      BY <1>2, SuccessorFacts DEF LocalCAS
    <2> QED BY <1>2, <1>up, <2>1 DEF LocalCAS
  <1>3. ASSUME AskAnchor
        PROVE  HostInv' /\ [LocalRegister!Next]_local
    <2>1. /\ local # None /\ UNCHANGED <<local, observations>>
          /\ anchor' = [challenge |-> anchor.challenge + 1, asked |-> Revision(checkpoint),
                        verdict |-> "-"]
      BY <1>3 DEF AskAnchor
    <2>2. /\ anchor'.challenge = anchor.challenge + 1 /\ anchor'.asked = Revision(checkpoint)
          /\ anchor'.verdict = "-"
          /\ anchor' \in [challenge : Nat, asked : Nat, verdict : {anchor'.verdict}]
      BY <1>0, <2>1
    <2>3. \A m \in observations :
             m.challenge \in 1 .. anchor'.challenge /\ m.challenge # anchor'.challenge
      BY <1>0, <2>2 DEF AllInv, HostInv
    <2>4. AgreementIsFresh'
      BY <2>2 DEF AgreementIsFresh
    <2> QED BY <1>0, <2>1, <2>2, <2>3, <2>4 DEF AllInv, HostInv
  <1>4. ASSUME NEW n \in 1 .. anchor.challenge, SignObservation(n)
        PROVE  HostInv' /\ [LocalRegister!Next]_local
    <2> DEFINE o == [checkpoint |-> checkpoint, challenge |-> n]
    <2>1. checkpoint # None /\ observations' = observations \cup {o} /\ UNCHANGED <<local, anchor>>
      BY <1>4 DEF SignObservation
    <2>2. o.challenge = n /\ o.checkpoint = checkpoint
      OBVIOUS
    <2>3. checkpoint \in Checkpoints /\ anchor.asked <= checkpoint.revision
      BY <1>0, <2>1 DEF AllInv, HostInv, Revision
    <2> HIDE DEF o
    <2>4. AgreementIsFresh'
      BY <2>1 DEF AllInv, HostInv, AgreementIsFresh, Revision
    <2> QED BY <1>0, <2>1, <2>2, <2>3, <2>4 DEF AllInv, HostInv
  <1>5. ASSUME NEW m \in observations, AssessAnchor(m)
        PROVE  HostInv' /\ [LocalRegister!Next]_local
    <2> DEFINE v == IF verify_anchor(m) THEN assess_anchor(local, m.checkpoint)
                                        ELSE "ANCHOR_AUTHENTICATION_FAILED"
    <2>1. /\ anchor' = [anchor EXCEPT !.verdict = v] /\ anchor.challenge # 0
          /\ UNCHANGED <<local, observations>>
      BY <1>5 DEF AssessAnchor
    <2>2. v = "CHECKPOINTS_AGREE" => anchor.asked <= Revision(local)
      <3> SUFFICES ASSUME v = "CHECKPOINTS_AGREE" PROVE anchor.asked <= Revision(local)
        OBVIOUS
      <3>1. /\ m.challenge = anchor.challenge /\ m.checkpoint \in Checkpoints
            /\ local \in Checkpoints /\ local # None
        BY <1>0, <2>1 DEF AllInv, HostInv, verify_anchor
      <3>2. m.checkpoint.revision \in Nat /\ local.revision \in Nat /\ m.checkpoint # None
        BY <3>1, CheckpointFacts
      <3>3. m.checkpoint.revision = local.revision
        BY <3>1, <3>2 DEF assess_anchor, verify_anchor
      <3>4. anchor.asked <= m.checkpoint.revision
        BY <3>1 DEF AllInv, HostInv
      <3> QED BY <3>1, <3>3, <3>4 DEF Revision
    <2> HIDE DEF v
    <2>3. /\ anchor'.challenge = anchor.challenge /\ anchor'.asked = anchor.asked
          /\ anchor'.verdict = v
          /\ anchor' \in [challenge : Nat, asked : Nat, verdict : {anchor'.verdict}]
      BY <2>1 DEF AllInv, HostInv
    <2>4. AgreementIsFresh'
      BY <1>0, <2>1, <2>2, <2>3 DEF AgreementIsFresh, Revision
    <2> QED BY <1>0, <2>1, <2>3, <2>4 DEF AllInv, HostInv
  <1> QED BY <1>1, <1>2, <1>3, <1>4, <1>5 DEF HostNext

\* The conjunction is inductive, and each step keeps both registers' promise.
LEMMA AllStep ==
    ASSUME AllInv, [AllNext]_allVars
    PROVE  AllInv' /\ [Register!Next]_checkpoint /\ [LocalRegister!Next]_local
  <1>1. ASSUME Next, UNCHANGED hostVars
        PROVE  AllInv' /\ [Register!Next]_checkpoint /\ [LocalRegister!Next]_local
    <2>1. ProtocolInv' /\ Grows /\ [Register!Next]_checkpoint
      BY <1>1, ClientStep, ServiceStep DEF AllInv, Next, store
    <2>2. local' = local /\ anchor' = anchor /\ observations' = observations
      BY <1>1 DEF hostVars
    <2>3. anchor.asked \in Nat
      BY DEF AllInv, HostInv
    <2>4. HostInv'
      BY <2>1, <2>2, <2>3 DEF AllInv, HostInv, Grows, AgreementIsFresh, Revision
    <2> QED BY <2>1, <2>2, <2>4 DEF AllInv
  <1>2. ASSUME UNCHANGED vars, HostNext \/ UNCHANGED hostVars
        PROVE  AllInv' /\ [Register!Next]_checkpoint /\ [LocalRegister!Next]_local
    <2>1. UNCHANGED <<checkpoint, requests, challenges, asked, wire, committed, cl, timeouts>>
      BY <1>2 DEF vars, store
    <2>2. ProtocolInv'
      BY <2>1, Quiet, ProtocolStep DEF AllInv, ProtocolInv
    <2>3. HostInv' /\ [LocalRegister!Next]_local
      <3>1. CASE HostNext
        BY <1>2, <3>1, HostStep
      <3>2. CASE UNCHANGED hostVars
        BY <2>1, <3>2 DEF AllInv, HostInv, AgreementIsFresh, Revision, hostVars
      <3> QED BY <1>2, <3>1, <3>2
    <2> QED BY <2>1, <2>2, <2>3 DEF AllInv
  <1> QED BY <1>1, <1>2 DEF AllNext, allVars

\* The empty store, no messages and no checkpoint file satisfy the invariant.
LEMMA AllInit ==
    ASSUME HostInit
    PROVE  AllInv
  <1>1. /\ checkpoint = None /\ requests = <<>> /\ wire = {} /\ committed = {}
        /\ cl = [c \in Clients |-> IdleClient] /\ challenges = 0 /\ asked = <<>> /\ timeouts = 0
        /\ local = None /\ observations = {}
        /\ anchor = [challenge |-> 0, asked |-> 0, verdict |-> "-"]
    BY DEF HostInit, Init, InitStore
  <1>2. StoreInv(Ids)
    <2>1. requests \in Seq(StoredRow(Ids)) /\ Len(requests) = 0 /\ DOMAIN requests = {}
      BY <1>1
    <2>2. Applied(requests, 0) = {}
      BY DEF Applied
    <2>3. Replayed(requests, 0) = None
      BY <2>2, ReplayedIs DEF LastOutcome
    <2> QED BY <1>1, <2>1, <2>2, <2>3 DEF StoreInv, UniqueIds, HasLast, Opens, ValidRequestRows
  <1>3. AskedOK
    BY <1>1, ExternalAssumption DEF AskedOK
  <1>4. \A c \in Clients : ClientOK(c, cl[c], requests, asked)
    <2>1. \A c \in Clients : cl[c] = IdleClient
      BY <1>1
    <2>2. /\ IsClient(IdleClient) /\ IdleClient.pc = "idle" /\ IdleClient.challenge = 0
          /\ IdleClient.receipt = None
      BY DEF IdleClient, IsClient
    <2>3. 0 \in 0 .. Len(asked)
      BY <1>3 DEF AskedOK
    <2> HIDE DEF IdleClient
    <2> QED BY <2>1, <2>2, <2>3 DEF ClientOK, PCs
  <1>5. ProtocolInv
    BY <1>1, <1>2, <1>3, <1>4, ExternalAssumption DEF ProtocolInv
  <1>6. HostInv
    <2>1. /\ anchor.challenge = 0 /\ anchor.asked = 0 /\ anchor.verdict = "-"
          /\ anchor \in [challenge : Nat, asked : Nat, verdict : {anchor.verdict}]
      BY <1>1
    <2> QED BY <1>1, <2>1 DEF HostInv, AgreementIsFresh, Revision
  <1> QED BY <1>5, <1>6 DEF AllInv

(* The authority's table, the messages under way, the clients and the host *)
(* stay consistent with each other, whatever is lost, repeated or late.    *)
THEOREM ProtocolInvariant == FairSpec => []AllInv
  <1>1. AllInv /\ [AllNext]_allVars => AllInv'
    BY AllStep
  <1> QED BY <1>1, AllInit, PTL DEF FairSpec

(* Whatever clients, operator and crashes do, open() accepts the database: *)
(* every recorded outcome follows from its envelope and the rows before    *)
(* it, and together they lead to the stored checkpoint.                    *)
THEOREM StoreStaysConsistent == FairSpec => []StoreConsistent
  <1>1. AllInv => StoreConsistent
    <2> SUFFICES ASSUME AllInv PROVE StoreConsistent
      OBVIOUS
    <2>1. TypeOKStore /\ HistoryJustifiesCheckpoint
      BY StoreTyped DEF AllInv, ProtocolInv, StoreInv, HistoryJustifiesCheckpoint
    <2>2. \A c \in Clients :
            /\ cl[c].pc \in PCs
            /\ cl[c].pc # "idle" => <<cl[c].id, cl[c].envelope>> \in Submissions[c]
            /\ IF cl[c].pc = "known" THEN cl[c].receipt.type = "receipt" ELSE cl[c].receipt = None
      BY DEF AllInv, ProtocolInv, ClientOK
    <2>3. asked \in [1 .. challenges -> Nat] /\ challenges \in 0 .. MaxChallenges
          /\ timeouts \in 0 .. MaxTimeouts
      BY DEF AllInv, ProtocolInv, AskedOK
    <2> QED BY <2>1, <2>2, <2>3 DEF StoreConsistent, TypeOK
  <1> QED BY <1>1, ProtocolInvariant, PTL

(* The receipt a client acted on names the one row its request id has,     *)
(* with its own envelope, although requests are repeated, replies lost and *)
(* another process reuses the id.                                          *)
THEOREM ReceiptsStayTruthful == FairSpec => []ReceiptsTruthful
  <1>1. AllInv => ReceiptsTruthful
    <2> SUFFICES ASSUME AllInv, NEW c \in Clients, cl[c].pc = "known"
                 PROVE  /\ RowsOf(InternalId(Request(c))) = {cl[c].receipt.sequence}
                        /\ requests[cl[c].receipt.sequence] = cl[c].receipt.row
                        /\ cl[c].receipt.row.envelope = cl[c].envelope
      BY DEF ReceiptsTruthful
    <2>1. Truthful(requests, Request(c), cl[c].receipt.sequence, cl[c].receipt.row)
      BY DEF AllInv, ProtocolInv, ClientOK, ReceiptOK, Request
    <2>2. Request(c).envelope = cl[c].envelope
      BY DEF Request
    <2> QED BY <2>1, <2>2, RowFacts DEF AllInv, ProtocolInv, StoreInv, Truthful
  <1> QED BY <1>1, ProtocolInvariant, PTL

(* A verified lookup and an agreement of the host with its anchor are never *)
(* older than the question: a replayed answer carries another challenge.   *)
THEOREM AnswersStayFresh == FairSpec => []AnswersAreFresh
  <1>1. AllInv => AnswersAreFresh
    BY DEF AllInv, ProtocolInv, HostInv, ClientOK, ReceiptOK, AnswersAreFresh, LookupIsFresh
  <1> QED BY <1>1, ProtocolInvariant, PTL

(* Both checkpoint stores implement the monotone register: set once from   *)
(* an authentic snapshot, then only moved to newer revisions.              *)
THEOREM StoresImplementRegister == FairSpec => StoresAreRegisters
  <1>1. HostInit => Register!Init /\ LocalRegister!Init
    BY DEF HostInit, Init, InitStore, Register!Init, LocalRegister!Init
  <1>2. AllInv /\ [AllNext]_allVars => [Register!Next]_checkpoint /\ [LocalRegister!Next]_local
    BY AllStep
  <1> QED BY <1>1, <1>2, ProtocolInvariant, PTL
          DEF FairSpec, StoresAreRegisters, ImplementsRegister, LocalImplementsRegister,
              Register!Spec, LocalRegister!Spec

-----------------------------------------------------------------------------
(* The two tables.  A stands for the authorisations, C for the             *)
(* consumptions; a row is never changed, so what holds of a table holds of *)
(* every longer one.                                                       *)
Admissible(row) ==
    LET q == row.request
        issuer == Evidence[q.claim].issuer
        t == Trust[q.snapshot]
    IN  /\ row.checkpoint = TrustCheckpoint(q.snapshot)
        /\ issuer \notin t.revoked /\ <<issuer, q.scope>> \in t.mandates
        /\ \E key \in t.issuer_keys : key[1] = issuer

\* Rows are numbered, stored unreplayed, and no two share a request id.
Ordered(T) ==
    /\ \A i \in DOMAIN T : T[i].sequence = i /\ T[i].replayed = FALSE
    /\ \A i, j \in DOMAIN T : T[i].request.id = T[j].request.id => i = j

AuthorizationsOK(A) ==
    /\ A \in Seq(AuthorizationRow) /\ Ordered(A)
    /\ \A i \in DOMAIN A : A[i].decision = "AUTHORIZED" => Admissible(A[i])

\* A consumption row is one of the authorisation c refers to.
Consumes(c, a) ==
    /\ c.request = a.request /\ c.authorization_sequence = a.sequence
    /\ c.claim = <<c.request.op, c.request.id>>
    /\ c.decision = "CONSUMED" => a.decision = "AUTHORIZED" /\ c.checkpoint = a.checkpoint
    /\ c.decision = "REJECTED" => a.decision = "REJECTED"

ConsumptionsOK(A, C) ==
    /\ C \in Seq(ConsumptionRow) /\ Ordered(C)
    /\ \A j \in DOMAIN C : \E i \in DOMAIN A : Consumes(C[j], A[i])

\* r is a row of T for the request q, or a replay of it.
Stored(T, r, q) == r.request = q /\ \E i \in DOMAIN T : r = T[i]
Replays(T, r, q) ==
    r.request = q /\ \E i \in DOMAIN T : r \in {T[i], [T[i] EXCEPT !.replayed = TRUE]}

(* The registry: a record holds the authority's rows for its own request,  *)
(* its claim is that of the request, and a HOLD has its reason.            *)
AuthorizationHeld(r) ==
    r.state = "RESERVED" => r.receipt # None /\ r.receipt.decision = "REJECTED"
ConsumptionHeld(r) ==
    r.state = "RESERVED" => \/ r.receipt # None /\ r.receipt.decision = "REJECTED"
                            \/ r.consumption # None /\ r.consumption.decision = "STALE"

RecordOK(k, r, A, C) ==
    /\ r \in Records
    /\ r.request # None => commit_request_matches_record(r.request, k)
    /\ r.receipt # None => r.request # None /\ Stored(A, r.receipt, r.request)
    /\ r.claim # None =>
          /\ r.receipt # None /\ r.receipt.decision = "AUTHORIZED"
          /\ r.claim = <<k, r.request.id>>
    /\ r.consumption # None =>
          /\ r.claim # None /\ Stored(C, r.consumption, r.request)
          /\ r.consumption.claim = r.claim
    /\ r.state = "DISPATCHING" => r.consumption # None /\ r.consumption.decision = "CONSUMED"
    /\ r.authorization_status = "HOLD" => AuthorizationHeld(r)
    /\ r.consumption_status = "HOLD" => ConsumptionHeld(r)

(* A worker: what it read before stays true until it acts, because the     *)
(* values of a record are set once.                                        *)
Consuming == {"find", "consume", "find_again", "attach"}

LocalOK(l, O, A, C) ==
    LET r == O[l.op] IN
    /\ l \in Locals
    /\ l.pc # "idle" => l.op \in Ops
    /\ l.pc = "request" => l.request # None /\ commit_request_matches_record(l.request, l.op)
    /\ l.pc \in {"authorize", "lookup", "bind"} => l.request # None /\ l.request = r.request
    /\ l.pc = "bind" => l.receipt # None /\ Replays(A, l.receipt, l.request)
    /\ l.pc \in Consuming => /\ l.request # None /\ l.request = r.request
                             /\ l.receipt # None /\ l.receipt = r.receipt /\ r.claim # None
    /\ l.pc = "attach" => l.consumption # None /\ Replays(C, l.consumption, l.request)
    /\ l.pc \in Consuming \cup {"claim", "dispatch", "provider"} => l.payload = PayloadOf[l.op]
    /\ l.pc = "provider" => r.state = "DISPATCHING"
    /\ l.pc = "authorization" =>
          l.status \in Statuses /\ (l.status = "HOLD" => AuthorizationHeld(r))
    /\ l.pc = "consumption" =>
          l.status \in Statuses /\ (l.status = "HOLD" => ConsumptionHeld(r))

(* The provider: only a dispatched operation reaches it, one worker at a   *)
(* time and once.                                                          *)
ProviderOK(O, L, given) ==
    /\ \A k \in Ops : /\ given[k] \in {<<>>, <<PayloadOf[k]>>}
                      /\ given[k] # <<>> => O[k].state = "DISPATCHING"
    /\ \A w \in Workers : L[w].pc = "provider" =>
          /\ given[L[w].op] = <<>>
          /\ \A v \in Workers : L[v].pc = "provider" /\ L[v].op = L[w].op => v = w

\* A typed row is not None, and its stored form does not depend on the flag.
LEMMA AuthorizationRowFacts ==
    ASSUME NEW r \in AuthorizationRow, NEW b \in BOOLEAN
    PROVE  LET x == [r EXCEPT !.replayed = b] IN
           /\ r # None /\ r.request \in Requests /\ r.request # None
           /\ r.decision \in {"AUTHORIZED", "REJECTED"}
           /\ x \in AuthorizationRow /\ x.request = r.request /\ x.decision = r.decision
           /\ x.sequence = r.sequence /\ receipt_to_dict(x) = receipt_to_dict(r)
           /\ r.replayed = FALSE => receipt_to_dict(r) = r /\ (b = FALSE => x = r)
  BY AuthorityAssumption DEF AuthorizationRow, receipt_to_dict

LEMMA ConsumptionRowFacts ==
    ASSUME NEW r \in ConsumptionRow, NEW b \in BOOLEAN
    PROVE  LET x == [r EXCEPT !.replayed = b] IN
           /\ r # None /\ r.request \in Requests
           /\ r.decision \in {"CONSUMED", "REJECTED", "STALE"} /\ r.claim \in DispatchClaims
           /\ r.claim # None
           /\ x \in ConsumptionRow /\ x.request = r.request /\ x.decision = r.decision
           /\ x.claim = r.claim /\ x.authorization_sequence = r.authorization_sequence
           /\ receipt_to_dict(x) = receipt_to_dict(r)
           /\ r.replayed = FALSE => receipt_to_dict(r) = r /\ (b = FALSE => x = r)
  BY AuthorityAssumption DEF ConsumptionRow, receipt_to_dict

\* The row of a recorded id.
LEMMA RowIs ==
    ASSUME NEW T, Ordered(T), NEW i \in DOMAIN T
    PROVE  Recorded(T, T[i].request.id) = {i} /\ Row(T, T[i].request.id) = T[i]
  <1>1. Recorded(T, T[i].request.id) = {i}
    BY DEF Ordered, Recorded
  <1>2. (CHOOSE j \in {i} : TRUE) = i
    OBVIOUS
  <1> QED BY <1>1, <1>2 DEF Row

\* Two stored rows of one request are the same row.
LEMMA SameRow ==
    ASSUME NEW T, Ordered(T), NEW q, NEW r, Stored(T, r, q), NEW s, Stored(T, s, q)
    PROVE  r = s
  BY DEF Ordered, Stored

\* What an authority call gives back for a recorded request.
LEMMA RecordedRow ==
    ASSUME NEW T, Ordered(T), NEW q, Recorded(T, q.id) # {}, ~RequestConflict(T, q)
    PROVE  Stored(T, Row(T, q.id), q)
  <1>1. PICK i \in DOMAIN T : T[i].request.id = q.id
    BY DEF Recorded
  <1>2. Row(T, q.id) = T[i]
    BY <1>1, RowIs
  <1> QED BY <1>2 DEF Stored, RequestConflict

\* What the registry stores of a receipt is the row it was taken from.
LEMMA StoredForm ==
    ASSUME NEW A, AuthorizationsOK(A), NEW r, NEW q, Replays(A, r, q)
    PROVE  /\ r \in AuthorizationRow /\ receipt_to_dict(r) \in AuthorizationRow
           /\ Stored(A, receipt_to_dict(r), q)
  <1>1. PICK i \in DOMAIN A : r \in {A[i], [A[i] EXCEPT !.replayed = TRUE]}
    BY DEF Replays
  <1>2. A[i] \in AuthorizationRow /\ A[i].replayed = FALSE
    BY DEF AuthorizationsOK, Ordered
  <1>3. r \in AuthorizationRow /\ receipt_to_dict(r) = A[i] /\ A[i].request = r.request
    BY <1>1, <1>2, AuthorizationRowFacts
  <1> QED BY <1>2, <1>3 DEF Stored, Replays

LEMMA StoredFormConsumption ==
    ASSUME NEW A, NEW C, ConsumptionsOK(A, C), NEW r, NEW q, Replays(C, r, q)
    PROVE  /\ r \in ConsumptionRow /\ receipt_to_dict(r) \in ConsumptionRow
           /\ Stored(C, receipt_to_dict(r), q)
           /\ r.authorization_sequence = receipt_to_dict(r).authorization_sequence
  <1>1. PICK i \in DOMAIN C : r \in {C[i], [C[i] EXCEPT !.replayed = TRUE]}
    BY DEF Replays
  <1>2. C[i] \in ConsumptionRow /\ C[i].replayed = FALSE
    BY DEF ConsumptionsOK, Ordered
  <1>3. /\ r \in ConsumptionRow /\ receipt_to_dict(r) = C[i] /\ C[i].request = r.request
        /\ r.authorization_sequence = C[i].authorization_sequence
    BY <1>1, <1>2, ConsumptionRowFacts
  <1> QED BY <1>2, <1>3 DEF Stored, Replays

\* A stored row may be given back with either flag.
LEMMA GivenBack ==
    ASSUME NEW A, AuthorizationsOK(A), NEW r, NEW q, Stored(A, r, q), NEW b \in BOOLEAN
    PROVE  LET x == [r EXCEPT !.replayed = b]
           IN  x \in AuthorizationRow /\ x # None /\ Replays(A, x, q)
  <1>1. PICK i \in DOMAIN A : r = A[i]
    BY DEF Stored
  <1>2. A[i] \in AuthorizationRow /\ A[i].replayed = FALSE
    BY DEF AuthorizationsOK, Ordered
  <1>3. /\ [A[i] EXCEPT !.replayed = b] \in AuthorizationRow
        /\ [A[i] EXCEPT !.replayed = b].request = A[i].request
        /\ b = FALSE => [A[i] EXCEPT !.replayed = b] = A[i]
    BY <1>2, AuthorizationRowFacts
  <1>4. [A[i] EXCEPT !.replayed = b] # None
    BY <1>3, AuthorityAssumption
  <1> QED BY <1>1, <1>3, <1>4 DEF Stored, Replays

LEMMA GivenBackConsumption ==
    ASSUME NEW A, NEW C, ConsumptionsOK(A, C), NEW r, NEW q, Stored(C, r, q), NEW b \in BOOLEAN
    PROVE  LET x == [r EXCEPT !.replayed = b]
           IN  x \in ConsumptionRow /\ x # None /\ Replays(C, x, q)
  <1>1. PICK i \in DOMAIN C : r = C[i]
    BY DEF Stored
  <1>2. C[i] \in ConsumptionRow /\ C[i].replayed = FALSE
    BY DEF ConsumptionsOK, Ordered
  <1>3. /\ [C[i] EXCEPT !.replayed = b] \in ConsumptionRow
        /\ [C[i] EXCEPT !.replayed = b].request = C[i].request
        /\ b = FALSE => [C[i] EXCEPT !.replayed = b] = C[i]
    BY <1>2, ConsumptionRowFacts
  <1>4. [C[i] EXCEPT !.replayed = b] # None
    BY <1>3, AuthorityAssumption
  <1> QED BY <1>1, <1>3, <1>4 DEF Stored, Replays

\* What was said of shorter tables still holds.
LEMMA StillStored ==
    ASSUME NEW S, NEW T, Longer(S, T)
    PROVE  /\ \A r, q : Stored(S, r, q) => Stored(T, r, q)
           /\ \A r, q : Replays(S, r, q) => Replays(T, r, q)
  <1>1. \A i \in DOMAIN S : i \in DOMAIN T /\ T[i] = S[i]
    BY DEF Longer
  <1> QED BY <1>1 DEF Stored, Replays

LEMMA StillOK ==
    ASSUME NEW A, NEW A2, Longer(A, A2), NEW C, NEW C2, Longer(C, C2)
    PROVE  /\ \A k, r : RecordOK(k, r, A, C) => RecordOK(k, r, A2, C2)
           /\ \A l, O : LocalOK(l, O, A, C) => LocalOK(l, O, A2, C2)
  <1>1. ASSUME NEW k, NEW r, RecordOK(k, r, A, C)
        PROVE  RecordOK(k, r, A2, C2)
    BY <1>1, StillStored DEF RecordOK
  <1>2. ASSUME NEW l, NEW O, LocalOK(l, O, A, C)
        PROVE  LocalOK(l, O, A2, C2)
    BY <1>2, StillStored DEF LocalOK
  <1> QED BY <1>1, <1>2

-----------------------------------------------------------------------------
(* The authority's two transactions.                                       *)
TablesOK(A, C) == AuthorizationsOK(A) /\ ConsumptionsOK(A, C)

\* A row added to a table whose ids it does not repeat.
LEMMA RowAdded ==
    ASSUME NEW X, NEW T \in Seq(X), Ordered(T), NEW row \in X,
           row.sequence = Len(T) + 1, row.replayed = FALSE, Recorded(T, row.request.id) = {}
    PROVE  LET U == Append(T, row) IN
           /\ U \in Seq(X) /\ Ordered(U) /\ Longer(T, U)
           /\ DOMAIN U = DOMAIN T \cup {Len(T) + 1} /\ U[Len(T) + 1] = row
           /\ Row(U, row.request.id) = row /\ Stored(U, row, row.request)
  <1> DEFINE n == Len(T)
             U == Append(T, row)
  <1>1. /\ n \in Nat /\ DOMAIN T = 1 .. n
        /\ U \in Seq(X) /\ Len(U) = n + 1 /\ DOMAIN U = 1 .. n + 1
        /\ \A i \in 1 .. n : U[i] = T[i]
        /\ U[n + 1] = row
    OBVIOUS
  <1> HIDE DEF U
  <1>2. Longer(T, U)
    BY <1>1 DEF Longer
  <1> HIDE DEF n
  <1>3. \A i \in 1 .. n : T[i].request.id # row.request.id
    BY <1>1 DEF Recorded
  <1>4. Ordered(U)
    BY <1>1, <1>3 DEF Ordered, n
  <1>5. Row(U, row.request.id) = row
    BY <1>1, <1>4, RowIs
  <1>6. Stored(U, row, row.request)
    BY <1>1 DEF Stored
  <1>7. DOMAIN U = DOMAIN T \cup {n + 1}
    BY <1>1
  <1> QED BY <1>1, <1>2, <1>4, <1>5, <1>6, <1>7 DEF n, U

LEMMA AuthorizationAdded ==
    ASSUME NEW A, NEW C, TablesOK(A, C), NEW row \in AuthorizationRow,
           row.sequence = Len(A) + 1, row.replayed = FALSE, Recorded(A, row.request.id) = {},
           row.decision = "AUTHORIZED" => Admissible(row)
    PROVE  LET U == Append(A, row) IN
           /\ TablesOK(U, C) /\ Longer(A, U)
           /\ Row(U, row.request.id) = row /\ Stored(U, row, row.request)
  <1> DEFINE U == Append(A, row)
  <1>1. A \in Seq(AuthorizationRow) /\ Ordered(A)
    BY DEF TablesOK, AuthorizationsOK
  <1>2. /\ U \in Seq(AuthorizationRow) /\ Ordered(U) /\ Longer(A, U)
        /\ DOMAIN U = DOMAIN A \cup {Len(A) + 1} /\ U[Len(A) + 1] = row
        /\ Row(U, row.request.id) = row /\ Stored(U, row, row.request)
    BY <1>1, RowAdded
  <1> HIDE DEF U
  <1>3. \A i \in DOMAIN A : i \in DOMAIN U /\ U[i] = A[i]
    BY <1>2 DEF Longer
  <1>4. AuthorizationsOK(U)
    BY <1>2, <1>3 DEF TablesOK, AuthorizationsOK
  <1>5. ConsumptionsOK(U, C)
    BY <1>3 DEF TablesOK, ConsumptionsOK
  <1> QED BY <1>2, <1>4, <1>5 DEF TablesOK, U

LEMMA ConsumptionAdded ==
    ASSUME NEW A, NEW C, TablesOK(A, C), NEW row \in ConsumptionRow,
           row.sequence = Len(C) + 1, row.replayed = FALSE, Recorded(C, row.request.id) = {},
           NEW a, Stored(A, a, row.request), Consumes(row, a)
    PROVE  LET U == Append(C, row) IN
           /\ TablesOK(A, U) /\ Longer(C, U)
           /\ Row(U, row.request.id) = row /\ Stored(U, row, row.request)
  <1> DEFINE U == Append(C, row)
  <1>1. C \in Seq(ConsumptionRow) /\ Ordered(C)
    BY DEF TablesOK, ConsumptionsOK
  <1>2. /\ U \in Seq(ConsumptionRow) /\ Ordered(U) /\ Longer(C, U)
        /\ DOMAIN U = DOMAIN C \cup {Len(C) + 1} /\ U[Len(C) + 1] = row
        /\ Row(U, row.request.id) = row /\ Stored(U, row, row.request)
    BY <1>1, RowAdded
  <1> HIDE DEF U
  <1>3. \A i \in DOMAIN C : i \in DOMAIN U /\ U[i] = C[i]
    BY <1>2 DEF Longer
  <1>4. ConsumptionsOK(A, U)
    BY <1>2, <1>3 DEF TablesOK, ConsumptionsOK, Stored
  <1> QED BY <1>2, <1>4 DEF TablesOK, U

\* Two snapshots with one fingerprint have the same content but for the signature.
LEMMA FingerprintBinds ==
    ASSUME NEW s \in Snapshots, NEW t \in Snapshots, Fingerprint[s] = Fingerprint[t]
    PROVE  /\ Trust[s].revoked = Trust[t].revoked /\ Trust[s].mandates = Trust[t].mandates
           /\ Trust[s].issuer_keys = Trust[t].issuer_keys
  <1> DEFINE Bytes(x) == bound_snapshot_bytes(Trust[x])
  <1>1. /\ Bytes(Fingerprint[s]) = Bytes(s) /\ Bytes(Fingerprint[t]) = Bytes(t)
    BY DEF Fingerprint
  <1>2. bound_snapshot_bytes(Trust[s]) = bound_snapshot_bytes(Trust[t])
    BY <1>1
  <1> QED BY <1>2 DEF bound_snapshot_bytes, TrustState

\* What _evaluate accepts is admissible under the checkpoint in force.
LEMMA EvaluateFacts ==
    ASSUME NEW q \in Requests, NEW f \in Snapshots, NEW c, NEW s \in Snapshots, NEW now,
           Evaluate(q, BoundFinding(f, q.claim, q.prior, q.scope), c, s, now),
           NEW row, row.request = q, row.checkpoint = checkpoint
    PROVE  Admissible(row)
  <1> DEFINE g == BoundFinding(f, q.claim, q.prior, q.scope)
             t == q.snapshot
             v == verified_bound_preflight(c, q.prior, q.scope, now, s, checkpoint.revision)
             issuer == Evidence[c].issuer
  <1>1. /\ checkpoint = TrustCheckpoint(t) /\ TrustCheckpoint(s) = TrustCheckpoint(t)
        /\ revalidate_bound(g, c, q.prior, q.scope, now, s, checkpoint.revision)[1] = "ADMISSIBLE"
    BY DEF Evaluate
  <1>2. t \in Snapshots
    BY AuthorityAssumption
  <1>3. Fingerprint[s] = Fingerprint[t]
    BY <1>1 DEF TrustCheckpoint
  <1>4. v[1] = "ADMISSIBLE" /\ revalidate(g, s, c, q.prior, q.scope)
    <2> HIDE DEF v, g
    <2>1. revalidate_bound(g, c, q.prior, q.scope, now, s, checkpoint.revision) =
            IF v[1] # "ADMISSIBLE" THEN <<v[1], v[2]>>
            ELSE IF ~revalidate(g, s, c, q.prior, q.scope) \/ g.snapshot # v[3].snapshot
                 THEN <<"HOLD", "TRUST_OR_CLAIM_CHANGED">>
            ELSE <<"ADMISSIBLE", "BOUND_PREFLIGHT_VALID_NOT_COMMITTED">>
      BY DEF revalidate_bound, v
    <2> QED BY <1>1, <2>1
  <1>5. c = q.claim
    BY <1>4 DEF revalidate, BoundFinding
  <1>6. /\ issuer \notin Trust[s].revoked /\ <<issuer, q.scope>> \in Trust[s].mandates
        /\ \E k \in Trust[s].issuer_keys : k[1] = issuer
    <2>1. v[1] = "ADMISSIBLE"
      BY <1>4
    <2> QED BY <2>1 DEF verified_bound_preflight, Binds
  <1>7. /\ Trust[s].revoked = Trust[t].revoked /\ Trust[s].mandates = Trust[t].mandates
        /\ Trust[s].issuer_keys = Trust[t].issuer_keys
    BY <1>2, <1>3, FingerprintBinds
  <1> QED BY <1>1, <1>5, <1>6, <1>7 DEF Admissible

-----------------------------------------------------------------------------
(* The inductive invariant of the gate.                                    *)
RotationIds == {x[1] : x \in Rotations}

WorldOK == quarantine \in BOOLEAN /\ faults \in 0 .. MaxFaults

GateInv ==
    /\ StoreInv(RotationIds) /\ WorldOK /\ TablesOK(authorizations, consumptions)
    /\ ops \in [Ops -> Records] /\ loc \in [Workers -> Locals]
    /\ provided \in [Ops -> Seq(Payloads)]
    /\ \A k \in Ops : RecordOK(k, ops[k], authorizations, consumptions)
    /\ \A w \in Workers : LocalOK(loc[w], ops, authorizations, consumptions)
    /\ ProviderOK(ops, loc, provided)

\* The values of a record are set once, and it leaves RESERVED for good.
Kept(r, s) ==
    /\ r.request # None => s.request = r.request
    /\ r.receipt # None => s.receipt = r.receipt
    /\ r.claim # None => s.claim = r.claim
    /\ r.consumption # None => s.consumption = r.consumption
    /\ r.state # "RESERVED" => s.state = r.state

\* So what a worker read of the registry stays true.
LEMMA StillLocal ==
    ASSUME NEW O, NEW O2, \A k \in Ops : Kept(O[k], O2[k]),
           NEW A, NEW C, NEW l, LocalOK(l, O, A, C)
    PROVE  LocalOK(l, O2, A, C)
  <1>1. l.pc # "idle" => Kept(O[l.op], O2[l.op])
    BY DEF LocalOK
  <1>2. l.pc \in WorkerPCs
    BY DEF LocalOK, Locals
  <1>3. l.pc \in {"authorization", "consumption"} =>
          /\ AuthorizationHeld(O[l.op]) => AuthorizationHeld(O2[l.op])
          /\ ConsumptionHeld(O[l.op]) => ConsumptionHeld(O2[l.op])
    BY <1>1 DEF Kept, AuthorizationHeld, ConsumptionHeld
  <1> QED BY <1>1, <1>2, <1>3 DEF LocalOK, Kept, Consuming

\* What a step has to show of what it writes, the provider apart.
LEMMA WriteStep ==
    ASSUME GateInv, StoreInv(RotationIds)', WorldOK', TablesOK(authorizations, consumptions)',
           Longer(authorizations, authorizations'), Longer(consumptions, consumptions'),
           \/ ops' = ops
           \/ \E k \in Ops : \E r : /\ ops' = [ops EXCEPT ![k] = r] /\ Kept(ops[k], r)
                                    /\ RecordOK(k, r, authorizations', consumptions'),
           \/ loc' = loc
           \/ \E w \in Workers : \E l : /\ loc' = [loc EXCEPT ![w] = l]
                                        /\ LocalOK(l, ops', authorizations', consumptions'),
           provided' \in [Ops -> Seq(Payloads)]
    PROVE  /\ ProviderOK(ops, loc, provided)' => GateInv'
           /\ \A k \in Ops : ops[k].state # "RESERVED" => ops'[k].state = ops[k].state
  <1> DEFINE A == authorizations'
             C == consumptions'
  <1>0. /\ ops \in [Ops -> Records] /\ loc \in [Workers -> Locals]
        /\ \A k \in Ops : RecordOK(k, ops[k], A, C)
        /\ \A w \in Workers : LocalOK(loc[w], ops, A, C)
    BY StillOK DEF GateInv
  <1>1. /\ ops' \in [Ops -> Records] /\ \A k \in Ops : Kept(ops[k], ops'[k])
        /\ \A k \in Ops : RecordOK(k, ops'[k], A, C)
    <2>1. CASE ops' = ops
      BY <1>0, <2>1 DEF Kept
    <2>2. CASE ops' # ops
      <3>0. PICK k \in Ops : \E r : /\ ops' = [ops EXCEPT ![k] = r] /\ Kept(ops[k], r)
                                    /\ RecordOK(k, r, A, C)
        BY <2>2
      <3>1. PICK r : /\ ops' = [ops EXCEPT ![k] = r] /\ Kept(ops[k], r)
                     /\ RecordOK(k, r, A, C)
        BY <3>0
      <3>2. r \in Records
        BY <3>1 DEF RecordOK
      <3>3. \A j \in Ops : ops'[j] = IF j = k THEN r ELSE ops[j]
        BY <1>0, <3>1
      <3>4. \A j \in Ops : Kept(ops[j], ops[j])
        BY DEF Kept
      <3> QED BY <1>0, <3>1, <3>2, <3>3, <3>4
    <2> QED BY <2>1, <2>2
  <1>2. \A w \in Workers : LocalOK(loc[w], ops', A, C)
    BY <1>0, <1>1, StillLocal
  <1>3. loc' \in [Workers -> Locals] /\ \A w \in Workers : LocalOK(loc'[w], ops', A, C)
    <2>1. CASE loc' = loc
      BY <1>0, <1>2, <2>1
    <2>2. CASE loc' # loc
      <3>0. PICK w \in Workers : \E l : loc' = [loc EXCEPT ![w] = l] /\ LocalOK(l, ops', A, C)
        BY <2>2
      <3>1. PICK l : loc' = [loc EXCEPT ![w] = l] /\ LocalOK(l, ops', A, C)
        BY <3>0
      <3>2. l \in Locals
        BY <3>1 DEF LocalOK
      <3>3. \A v \in Workers : loc'[v] = IF v = w THEN l ELSE loc[v]
        BY <1>0, <3>1
      <3> QED BY <1>0, <1>2, <3>1, <3>2, <3>3
    <2> QED BY <2>1, <2>2
  <1>4. \A k \in Ops : ops[k].state # "RESERVED" => ops'[k].state = ops[k].state
    BY <1>1 DEF Kept
  <1> QED BY <1>1, <1>3, <1>4 DEF GateInv

\* The same for a step that neither enters nor makes the provider call.
LEMMA GateStep ==
    ASSUME GateInv, StoreInv(RotationIds)', WorldOK', TablesOK(authorizations, consumptions)',
           Longer(authorizations, authorizations'), Longer(consumptions, consumptions'),
           \/ ops' = ops
           \/ \E k \in Ops : \E r : /\ ops' = [ops EXCEPT ![k] = r] /\ Kept(ops[k], r)
                                    /\ RecordOK(k, r, authorizations', consumptions'),
           \/ loc' = loc
           \/ \E w \in Workers : \E l : /\ loc' = [loc EXCEPT ![w] = l] /\ l.pc # "provider"
                                        /\ LocalOK(l, ops', authorizations', consumptions'),
           provided' = provided
    PROVE  GateInv'
  <1>0. /\ loc \in [Workers -> Locals] /\ provided \in [Ops -> Seq(Payloads)]
        /\ ProviderOK(ops, loc, provided)
    BY DEF GateInv
  <1>1. /\ ProviderOK(ops, loc, provided)' => GateInv'
        /\ \A k \in Ops : ops[k].state # "RESERVED" => ops'[k].state = ops[k].state
    BY <1>0, WriteStep
  <1>2. \A w \in Workers : loc'[w] = loc[w] \/ loc'[w].pc # "provider"
    BY <1>0
  <1>3. ProviderOK(ops', loc', provided')
    BY <1>0, <1>1, <1>2 DEF ProviderOK
  <1> QED BY <1>1, <1>3

\* A worker without a call holds nothing.
LEMMA IdleOK ==
    ASSUME NEW O, NEW A, NEW C
    PROVE  LocalOK(Idle, O, A, C) /\ Idle.pc # "provider"
  BY DEF LocalOK, Idle, Locals, WorkerPCs, Consuming

\* A step that leaves the authority's database alone.
LEMMA Untouched ==
    ASSUME GateInv, UNCHANGED <<store, tables>>
    PROVE  /\ StoreInv(RotationIds)' /\ TablesOK(authorizations, consumptions)'
           /\ Longer(authorizations, authorizations') /\ Longer(consumptions, consumptions')
           /\ authorizations' = authorizations /\ consumptions' = consumptions
  <1>0. /\ checkpoint' = checkpoint /\ requests' = requests
        /\ authorizations' = authorizations /\ consumptions' = consumptions
    BY DEF store, tables
  <1>1. StoreInv(RotationIds)'
    BY <1>0 DEF GateInv, StoreInv, UniqueIds, Opens, ValidRequestRows
  <1>2. Longer(authorizations, authorizations) /\ Longer(consumptions, consumptions)
    BY DEF GateInv, TablesOK, AuthorizationsOK, ConsumptionsOK, Longer
  <1> QED BY <1>0, <1>1, <1>2 DEF GateInv

LEMMA WorldStep ==
    ASSUME WorldOK, UNCHANGED world \/ Fault
    PROVE  WorldOK'
  BY GateAssumption DEF WorldOK, world, Fault

\* What holds of a worker and of the record it works on.
LEMMA WorkerFacts ==
    ASSUME GateInv, NEW w \in Workers
    PROVE  /\ loc \in [Workers -> Locals] /\ ops \in [Ops -> Records] /\ WorldOK
           /\ TablesOK(authorizations, consumptions)
           /\ loc[w] \in Locals /\ LocalOK(loc[w], ops, authorizations, consumptions)
           /\ loc[w].pc # "idle" =>
                /\ loc[w].op \in Ops /\ ops[loc[w].op] \in Records
                /\ RecordOK(loc[w].op, ops[loc[w].op], authorizations, consumptions)
  BY DEF GateInv, LocalOK

\* A worker that stops, whatever it held.
LEMMA ReturnStep ==
    ASSUME GateInv, NEW w \in Workers, Return(w), UNCHANGED <<store, tables, ops, provided>>,
           UNCHANGED world \/ Fault
    PROVE  GateInv'
  <1>1. WorldOK'
    BY WorldStep DEF GateInv
  <1>2. LocalOK(Idle, ops', authorizations', consumptions') /\ Idle.pc # "provider"
    BY IdleOK
  <1>3. loc' = [loc EXCEPT ![w] = Idle]
    BY DEF Return
  <1> QED BY <1>1, <1>2, <1>3, Untouched, GateStep

\* A worker that only moves on, with nothing new to show.
LEMMA GotoStep ==
    ASSUME GateInv, NEW w \in Workers, NEW p \in WorkerPCs, Goto(w, p),
           UNCHANGED <<store, tables, ops, provided>>, UNCHANGED world \/ Fault,
           \/ loc[w].pc = "authorize" /\ p = "lookup"
           \/ loc[w].pc \in {"find", "consume"} /\ p \in {"consume", "find_again"}
    PROVE  GateInv'
  <1> DEFINE l == [loc[w] EXCEPT !.pc = p]
  <1>0. /\ loc[w] \in Locals /\ LocalOK(loc[w], ops, authorizations, consumptions)
        /\ loc \in [Workers -> Locals]
    BY WorkerFacts
  <1>1. /\ l \in Locals /\ l.pc = p /\ l.op = loc[w].op /\ l.request = loc[w].request
        /\ l.receipt = loc[w].receipt /\ l.payload = loc[w].payload
    BY <1>0 DEF Locals
  <1>2. loc' = [loc EXCEPT ![w] = l]
    BY <1>0 DEF Goto
  <1> HIDE DEF l
  <1>3. LocalOK(l, ops, authorizations, consumptions)
    BY <1>0, <1>1 DEF LocalOK, Consuming
  <1>4. WorldOK'
    BY WorldStep DEF GateInv
  <1>5. l.pc # "provider" /\ ops' = ops
    BY <1>1
  <1> QED BY <1>2, <1>3, <1>4, <1>5, Untouched, GateStep

\* A worker that answers HOLD, with its reason, or TRUST_UNKNOWN.
LEMMA GiveStatusStep ==
    ASSUME GateInv, NEW w \in Workers, NEW phase \in {"authorization", "consumption"},
           NEW s \in {"HOLD", "TRUST_UNKNOWN"}, GiveStatus(w, phase, s),
           UNCHANGED <<store, tables, ops, provided>>, UNCHANGED world \/ Fault,
           loc[w].pc # "idle",
           s = "HOLD" => IF phase = "authorization" THEN AuthorizationHeld(ops[loc[w].op])
                                                    ELSE ConsumptionHeld(ops[loc[w].op])
    PROVE  GateInv'
  <1> DEFINE l == [loc[w] EXCEPT !.pc = phase, !.status = s]
  <1>0. loc[w] \in Locals /\ loc[w].op \in Ops /\ loc \in [Workers -> Locals]
    BY WorkerFacts
  <1>1. l \in Locals /\ l.pc = phase /\ l.op = loc[w].op /\ l.status = s
    BY <1>0 DEF Locals, WorkerPCs, Statuses
  <1>2. loc' = [loc EXCEPT ![w] = l]
    BY <1>0 DEF GiveStatus
  <1> HIDE DEF l
  <1>3. LocalOK(l, ops, authorizations, consumptions)
    BY <1>0, <1>1 DEF LocalOK, Consuming, Statuses
  <1>4. WorldOK'
    BY WorldStep DEF GateInv
  <1>5. l.pc # "provider" /\ ops' = ops
    BY <1>1
  <1> QED BY <1>2, <1>3, <1>4, <1>5, Untouched, GateStep

LEMMA RecordGateStatusStep ==
    ASSUME GateInv, NEW w \in Workers, RecordGateStatus(w)
    PROVE  GateInv'
  <1> DEFINE k == loc[w].op
             s == loc[w].status
             x == IF loc[w].pc = "authorization" THEN [ops[k] EXCEPT !.authorization_status = s]
                                                 ELSE [ops[k] EXCEPT !.consumption_status = s]
  <1>0. /\ loc[w].pc \in {"authorization", "consumption"} /\ ops' = SetStatus(ops, w)
        /\ loc' = [loc EXCEPT ![w] = Idle]
        /\ UNCHANGED <<store, tables, provided, world>>
    BY DEF RecordGateStatus, Return
  <1>1. /\ ops \in [Ops -> Records] /\ k \in Ops /\ ops[k] \in Records
        /\ RecordOK(k, ops[k], authorizations, consumptions)
        /\ LocalOK(loc[w], ops, authorizations, consumptions)
    BY <1>0, WorkerFacts
  <1>2. /\ s \in Statuses
        /\ loc[w].pc = "authorization" /\ s = "HOLD" => AuthorizationHeld(ops[k])
        /\ loc[w].pc = "consumption" /\ s = "HOLD" => ConsumptionHeld(ops[k])
    BY <1>0, <1>1 DEF LocalOK
  <1>3. ops' = [ops EXCEPT ![k] = x]
    BY <1>0, <1>1 DEF SetStatus, Records
  <1>4. /\ x \in Records /\ x.state = ops[k].state /\ x.request = ops[k].request
        /\ x.receipt = ops[k].receipt /\ x.claim = ops[k].claim
        /\ x.consumption = ops[k].consumption
        /\ x.authorization_status # ops[k].authorization_status =>
              loc[w].pc = "authorization" /\ x.authorization_status = s
        /\ x.consumption_status # ops[k].consumption_status =>
              loc[w].pc = "consumption" /\ x.consumption_status = s
    BY <1>0, <1>1, <1>2 DEF Records
  <1> HIDE DEF x
  <1>5. Kept(ops[k], x)
    BY <1>4 DEF Kept
  <1>6. RecordOK(k, x, authorizations, consumptions)
    BY <1>1, <1>2, <1>4 DEF RecordOK, AuthorizationHeld, ConsumptionHeld
  <1>7. WorldOK'
    BY <1>0, WorldStep DEF GateInv
  <1>8. LocalOK(Idle, ops', authorizations', consumptions') /\ Idle.pc # "provider"
    BY IdleOK
  <1> QED BY <1>0, <1>1, <1>3, <1>5, <1>6, <1>7, <1>8, Untouched, GateStep

LEMMA AuthorizeStartStep ==
    ASSUME GateInv, NEW w \in Workers, NEW k \in Ops, NEW q \in Requests, AuthorizeStart(w, k, q)
    PROVE  GateInv'
  <1> DEFINE l == [Idle EXCEPT !.pc = "request", !.op = k, !.request = q]
  <1>0. /\ commit_request_matches_record(q, k) /\ loc' = [loc EXCEPT ![w] = l]
        /\ UNCHANGED <<store, tables, ops, provided, world>>
    BY DEF AuthorizeStart
  <1>1. l \in Locals /\ l.pc = "request" /\ l.op = k /\ l.request = q
    BY DEF Idle, Locals, WorkerPCs
  <1> HIDE DEF l
  <1>2. LocalOK(l, ops, authorizations, consumptions) /\ l.pc # "provider"
    BY <1>0, <1>1, AuthorityAssumption DEF LocalOK, Consuming
  <1>3. WorldOK'
    BY <1>0, WorldStep DEF GateInv
  <1>4. ops' = ops
    BY <1>0
  <1> QED BY <1>0, <1>2, <1>3, <1>4, Untouched, GateStep

LEMMA DispatchStartStep ==
    ASSUME GateInv, NEW w \in Workers, NEW k \in Ops, NEW p \in Payloads, DispatchStart(w, k, p)
    PROVE  GateInv'
  <1> DEFINE l == [Idle EXCEPT !.pc = "claim", !.op = k, !.payload = p]
  <1>0. /\ p = PayloadOf[k] /\ loc' = [loc EXCEPT ![w] = l]
        /\ UNCHANGED <<store, tables, ops, provided, world>>
    BY DEF DispatchStart
  <1>1. l \in Locals /\ l.pc = "claim" /\ l.op = k /\ l.payload = p
    BY DEF Idle, Locals, WorkerPCs
  <1> HIDE DEF l
  <1>2. LocalOK(l, ops, authorizations, consumptions) /\ l.pc # "provider"
    BY <1>0, <1>1 DEF LocalOK, Consuming
  <1>3. WorldOK'
    BY <1>0, WorldStep DEF GateInv
  <1>4. ops' = ops
    BY <1>0
  <1> QED BY <1>0, <1>2, <1>3, <1>4, Untouched, GateStep

LEMMA RecordRequestStep ==
    ASSUME GateInv, NEW w \in Workers, RecordRequest(w)
    PROVE  GateInv'
  <1> DEFINE k == loc[w].op
             q == loc[w].request
             l == [loc[w] EXCEPT !.pc = "authorize"]
             x == [ops[k] EXCEPT !.request = q, !.authorization_status = "TRUST_COMMITTING"]
  <1>0. loc[w].pc = "request" /\ UNCHANGED <<store, tables, provided, world>>
    BY DEF RecordRequest
  <1>1. /\ ops \in [Ops -> Records] /\ loc \in [Workers -> Locals] /\ loc[w] \in Locals
        /\ k \in Ops /\ ops[k] \in Records
        /\ RecordOK(k, ops[k], authorizations, consumptions)
        /\ LocalOK(loc[w], ops, authorizations, consumptions)
    BY <1>0, WorkerFacts
  <1>2. q \in Requests /\ q # None /\ commit_request_matches_record(q, k)
    BY <1>0, <1>1 DEF LocalOK, Locals
  <1>3. CASE Settable(ops[k], "request", q)
    <2>1. /\ ops' = SetValue(ops, k, "request", q, "authorization_status", "TRUST_COMMITTING")
          /\ Goto(w, "authorize")
      BY <1>3 DEF RecordRequest
    <2>2. ops' = [ops EXCEPT ![k] = x]
      BY <1>1, <2>1 DEF SetValue, Records
    <2>3. /\ x \in Records /\ x.state = ops[k].state /\ x.request = q /\ x.receipt = ops[k].receipt
          /\ x.claim = ops[k].claim /\ x.consumption = ops[k].consumption
          /\ x.authorization_status = "TRUST_COMMITTING"
          /\ x.consumption_status = ops[k].consumption_status
      BY <1>1, <1>2 DEF Records, Statuses
    <2>4. loc' = [loc EXCEPT ![w] = l]
      BY <1>1, <2>1 DEF Goto
    <2>5. l \in Locals /\ l.pc = "authorize" /\ l.op = k /\ l.request = q
      BY <1>1 DEF Locals, WorkerPCs
    <2>6. ops'[k] = x
      BY <1>1, <2>2
    <2> HIDE DEF x, l
    <2>7. ops[k].request = q \/ ops[k].request = None
      BY <1>3 DEF Settable
    <2>8. Kept(ops[k], x)
      BY <2>3, <2>7 DEF Kept
    <2>9. RecordOK(k, x, authorizations, consumptions)
      BY <1>1, <1>2, <2>3, <2>7 DEF RecordOK, AuthorizationHeld, ConsumptionHeld
    <2>10. LocalOK(l, ops', authorizations, consumptions) /\ l.pc # "provider"
      BY <1>1, <1>2, <2>3, <2>5, <2>6 DEF LocalOK, Consuming
    <2>11. WorldOK'
      BY <1>0, WorldStep DEF GateInv
    <2> QED BY <1>0, <1>1, <2>2, <2>4, <2>8, <2>9, <2>10, <2>11, Untouched, GateStep
  <1>4. CASE ~Settable(ops[k], "request", q)
    <2>1. Return(w) /\ UNCHANGED ops
      BY <1>4 DEF RecordRequest
    <2> QED BY <1>0, <2>1, ReturnStep
  <1> QED BY <1>3, <1>4

LEMMA AuthorizeFailsStep ==
    ASSUME GateInv, NEW w \in Workers, AuthorizeFails(w)
    PROVE  GateInv'
  <1>1. /\ loc[w].pc = "authorize" /\ Goto(w, "lookup") /\ (UNCHANGED world \/ Fault)
        /\ UNCHANGED <<store, tables, ops, provided>>
    BY DEF AuthorizeFails
  <1> QED BY <1>1, GotoStep DEF WorkerPCs

\* The authorize transaction.
LEMMA AuthorizeKeeps ==
    ASSUME GateInv, NEW CONSTANT q \in Requests, NEW CONSTANT f \in Snapshots, NEW CONSTANT c,
           NEW CONSTANT s \in Snapshots, NEW CONSTANT now,
           authorize(q, BoundFinding(f, q.claim, q.prior, q.scope), c, s, now), UNCHANGED store,
           ~RequestConflict(authorizations, q)
    PROVE  /\ StoreInv(RotationIds)' /\ TablesOK(authorizations, consumptions)'
           /\ Longer(authorizations, authorizations') /\ Longer(consumptions, consumptions')
           /\ Stored(authorizations', Row(authorizations', q.id), q)
  <1> DEFINE g == BoundFinding(f, q.claim, q.prior, q.scope)
  <1>1. CASE Recorded(authorizations, q.id) # {}
    <2>1. UNCHANGED <<store, tables>>
      BY <1>1 DEF authorize
    <2>2. Stored(authorizations, Row(authorizations, q.id), q)
      BY <1>1, RecordedRow DEF GateInv, TablesOK, AuthorizationsOK
    <2> QED BY <2>1, <2>2, Untouched
  <1>2. CASE Recorded(authorizations, q.id) = {}
    <2> DEFINE d == IF Evaluate(q, g, c, s, now) THEN "AUTHORIZED" ELSE "REJECTED"
               row == AuthorizationBody(q, d)
    <2>0. authorizations' = Append(authorizations, row) /\ consumptions' = consumptions
      BY <1>2 DEF authorize
    <2>1. /\ row.request = q /\ row.sequence = Len(authorizations) + 1 /\ row.replayed = FALSE
          /\ row.decision = d /\ row.checkpoint = checkpoint
      BY DEF AuthorizationBody
    <2>2. row \in AuthorizationRow
      BY DEF AuthorizationBody, AuthorizationRow, GateInv, StoreInv, TablesOK, AuthorizationsOK
    <2> HIDE DEF row
    <2>3. row.decision = "AUTHORIZED" => Admissible(row)
      BY <2>1, EvaluateFacts
    <2>4. TablesOK(authorizations, consumptions)
      BY DEF GateInv
    <2>5. /\ TablesOK(authorizations', consumptions) /\ Longer(authorizations, authorizations')
          /\ Row(authorizations', q.id) = row /\ Stored(authorizations', row, q)
      BY <1>2, <2>0, <2>1, <2>2, <2>3, <2>4, AuthorizationAdded
    <2>6. StoreInv(RotationIds)'
      BY DEF store, GateInv, StoreInv, UniqueIds, Opens, ValidRequestRows
    <2>7. Longer(consumptions, consumptions)
      BY <2>4 DEF TablesOK, ConsumptionsOK, Longer
    <2> QED BY <2>0, <2>5, <2>6, <2>7
  <1> QED BY <1>1, <1>2

\* The receipt a worker takes from the authority, ready to be bound.
LEMMA ReceiptTaken ==
    ASSUME NEW A, AuthorizationsOK(A), NEW C, NEW r, NEW b \in BOOLEAN,
           NEW l \in Locals, l.pc \in {"authorize", "lookup"}, LocalOK(l, ops, A, C),
           Stored(A, r, l.request)
    PROVE  LET m == [l EXCEPT !.pc = "bind", !.receipt = [r EXCEPT !.replayed = b]]
           IN  LocalOK(m, ops, A, C) /\ m.pc # "provider"
  <1> DEFINE y == [r EXCEPT !.replayed = b]
             m == [l EXCEPT !.pc = "bind", !.receipt = y]
  <1>1. y \in AuthorizationRow /\ y # None /\ Replays(A, y, l.request)
    BY GivenBack
  <1> HIDE DEF y
  <1>2. m \in Locals /\ m.pc = "bind" /\ m.op = l.op /\ m.request = l.request /\ m.receipt = y
    BY <1>1 DEF Locals, WorkerPCs
  <1> HIDE DEF m
  <1>3. LocalOK(m, ops, A, C) /\ m.pc # "provider"
    BY <1>1, <1>2 DEF LocalOK, Consuming
  <1> QED BY <1>3 DEF m, y

LEMMA AuthorizeStep ==
    ASSUME GateInv, NEW w \in Workers, NEW f \in Snapshots, NEW c \in Claims,
           NEW s \in Snapshots, NEW now \in Times, Authorize(w, f, c, s, now)
    PROVE  GateInv'
  <1> SUFFICES ASSUME NEW CONSTANT q, q = loc[w].request
               PROVE  GateInv'
    OBVIOUS
  <1> DEFINE row == Row(authorizations', q.id)
             b == Recorded(authorizations, q.id) # {}
             m == [loc[w] EXCEPT !.pc = "bind", !.receipt = [row EXCEPT !.replayed = b]]
  <1>0. /\ loc[w].pc = "authorize" /\ ~RequestConflict(authorizations, q)
        /\ authorize(q, BoundFinding(f, q.claim, q.prior, q.scope), c, s, now)
        /\ \/ /\ loc' = [loc EXCEPT ![w].pc = "bind", ![w].receipt = [row EXCEPT !.replayed = b]]
              /\ UNCHANGED world
           \/ Goto(w, "lookup") /\ Fault
        /\ UNCHANGED <<store, ops, provided>>
    BY DEF Authorize
  <1>1. /\ loc \in [Workers -> Locals] /\ loc[w] \in Locals
        /\ LocalOK(loc[w], ops, authorizations, consumptions)
    BY WorkerFacts
  <1>2. q \in Requests
    BY <1>0, <1>1 DEF LocalOK, Locals
  <1>3. /\ StoreInv(RotationIds)' /\ TablesOK(authorizations, consumptions)'
        /\ Longer(authorizations, authorizations') /\ Longer(consumptions, consumptions')
        /\ Stored(authorizations', row, q)
    BY <1>0, <1>2, AuthorizeKeeps
  <1>4. WorldOK' /\ ops' = ops /\ provided' = provided
    BY <1>0, WorldStep DEF GateInv
  <1>5. LocalOK(loc[w], ops, authorizations', consumptions')
    BY <1>1, <1>3, StillOK
  <1>6. CASE loc' = [loc EXCEPT ![w].pc = "bind", ![w].receipt = [row EXCEPT !.replayed = b]]
    <2>1. loc' = [loc EXCEPT ![w] = m]
      BY <1>1, <1>6
    <2>2. LocalOK(m, ops, authorizations', consumptions') /\ m.pc # "provider"
      <3>1. AuthorizationsOK(authorizations') /\ b \in BOOLEAN
        BY <1>3 DEF TablesOK
      <3> HIDE DEF row, b
      <3> QED BY <1>0, <1>1, <1>3, <1>5, <3>1, ReceiptTaken
    <2> HIDE DEF m
    <2> QED BY <1>3, <1>4, <2>1, <2>2, GateStep
  <1>7. CASE Goto(w, "lookup")
    <2> DEFINE l == [loc[w] EXCEPT !.pc = "lookup"]
    <2>1. loc' = [loc EXCEPT ![w] = l]
      BY <1>1, <1>7 DEF Goto
    <2>2. l \in Locals /\ l.pc = "lookup" /\ l.op = loc[w].op /\ l.request = loc[w].request
      BY <1>1 DEF Locals, WorkerPCs
    <2> HIDE DEF l
    <2>3. LocalOK(l, ops, authorizations', consumptions') /\ l.pc # "provider"
      BY <1>0, <1>5, <2>2 DEF LocalOK, Consuming
    <2> QED BY <1>3, <1>4, <2>1, <2>3, GateStep
  <1> QED BY <1>0, <1>6, <1>7

LEMMA LookupAuthorizationStep ==
    ASSUME GateInv, NEW w \in Workers, LookupAuthorization(w)
    PROVE  GateInv'
  <1> DEFINE q == loc[w].request
             found == Recorded(authorizations, q.id) # {} /\ ~RequestConflict(authorizations, q)
             row == Row(authorizations, q.id)
             m == [loc[w] EXCEPT !.pc = "bind", !.receipt = [row EXCEPT !.replayed = TRUE]]
  <1>0. /\ loc[w].pc = "lookup" /\ UNCHANGED <<store, tables, ops, provided>>
        /\ \/ /\ found
              /\ loc' = [loc EXCEPT ![w].pc = "bind", ![w].receipt = [row EXCEPT !.replayed = TRUE]]
              /\ UNCHANGED world
           \/ /\ UNCHANGED world \/ Fault
              /\ GiveStatus(w, "authorization", "TRUST_UNKNOWN")
    BY DEF LookupAuthorization
  <1>1. /\ loc \in [Workers -> Locals] /\ loc[w] \in Locals
        /\ LocalOK(loc[w], ops, authorizations, consumptions)
        /\ AuthorizationsOK(authorizations) /\ Ordered(authorizations)
    BY WorkerFacts DEF TablesOK, AuthorizationsOK
  <1>2. CASE /\ found /\ UNCHANGED world
             /\ loc' = [loc EXCEPT ![w].pc = "bind", ![w].receipt = [row EXCEPT !.replayed = TRUE]]
    <2>1. Stored(authorizations, row, q)
      BY <1>1, <1>2, RecordedRow
    <2>2. loc' = [loc EXCEPT ![w] = m]
      BY <1>1, <1>2
    <2>3. LocalOK(m, ops, authorizations, consumptions) /\ m.pc # "provider"
      <3> HIDE DEF row
      <3> QED BY <1>0, <1>1, <2>1, ReceiptTaken
    <2> HIDE DEF m
    <2>4. WorldOK' /\ ops' = ops /\ provided' = provided
      BY <1>0, <1>2, WorldStep DEF GateInv
    <2> QED BY <1>0, <2>2, <2>3, <2>4, Untouched, GateStep
  <1>3. CASE (UNCHANGED world \/ Fault) /\ GiveStatus(w, "authorization", "TRUST_UNKNOWN")
    BY <1>0, <1>3, GiveStatusStep
  <1> QED BY <1>0, <1>2, <1>3

LEMMA BindReceiptStep ==
    ASSUME GateInv, NEW w \in Workers, BindReceipt(w)
    PROVE  GateInv'
  <1> DEFINE k == loc[w].op
             q == loc[w].request
             r == receipt_to_dict(loc[w].receipt)
             s == IF r.decision = "AUTHORIZED" THEN "TRUST_COMMITTED" ELSE "HOLD"
             x == [ops[k] EXCEPT !.receipt = r, !.authorization_status = s]
             l == IF r.decision = "AUTHORIZED" THEN Idle
                  ELSE [loc[w] EXCEPT !.pc = "authorization", !.status = "HOLD"]
  <1>0. loc[w].pc = "bind" /\ UNCHANGED <<store, tables, provided, world>>
    BY DEF BindReceipt
  <1>1. /\ ops \in [Ops -> Records] /\ loc \in [Workers -> Locals] /\ loc[w] \in Locals
        /\ k \in Ops /\ ops[k] \in Records
        /\ RecordOK(k, ops[k], authorizations, consumptions)
        /\ LocalOK(loc[w], ops, authorizations, consumptions)
        /\ AuthorizationsOK(authorizations) /\ Ordered(authorizations)
    BY <1>0, WorkerFacts DEF TablesOK, AuthorizationsOK
  <1>2. q # None /\ q = ops[k].request /\ Replays(authorizations, loc[w].receipt, q)
    BY <1>0, <1>1 DEF LocalOK
  <1>3. /\ r \in AuthorizationRow /\ Stored(authorizations, r, q)
        /\ verify_authorization_receipt(loc[w].receipt, q)
    BY <1>1, <1>2, StoredForm DEF verify_authorization_receipt, Replays
  <1>4. ops[k].receipt # None => ops[k].receipt = r
    BY <1>1, <1>2, <1>3, SameRow DEF RecordOK
  <1>5. r # None /\ r.decision \in {"AUTHORIZED", "REJECTED"}
    BY <1>3, AuthorityAssumption DEF AuthorizationRow
  <1>w. WorldOK'
    BY <1>0, WorldStep DEF GateInv
  <1> HIDE DEF r
  <1>6. CASE Settable(ops[k], "receipt", r)
    <2>1. /\ ops' = SetReceipt(ops, k, r)
          /\ IF r.decision = "AUTHORIZED" THEN Return(w) ELSE GiveStatus(w, "authorization", "HOLD")
      BY <1>3, <1>6 DEF BindReceipt, r
    <2>2. ops' = [ops EXCEPT ![k] = x]
      BY <1>1, <2>1 DEF SetReceipt, SetValue, Records
    <2>3. /\ x \in Records /\ x.state = ops[k].state /\ x.request = ops[k].request /\ x.receipt = r
          /\ x.claim = ops[k].claim /\ x.consumption = ops[k].consumption
          /\ x.authorization_status = s /\ x.consumption_status = ops[k].consumption_status
      BY <1>1, <1>3 DEF Records, Statuses
    <2>4. loc' = [loc EXCEPT ![w] = l]
      BY <1>1, <2>1 DEF Return, GiveStatus
    <2>5. r.decision # "AUTHORIZED" =>
            l \in Locals /\ l.pc = "authorization" /\ l.op = k /\ l.status = "HOLD"
      BY <1>1 DEF Locals, WorkerPCs, Statuses
    <2>6. r.decision = "AUTHORIZED" => l = Idle
      OBVIOUS
    <2>7. ops'[k] = x
      BY <1>1, <2>2
    <2> HIDE DEF x, l
    <2>8. Kept(ops[k], x)
      BY <1>4, <2>3 DEF Kept
    <2>9. RecordOK(k, x, authorizations, consumptions)
      BY <1>1, <1>2, <1>3, <1>4, <1>5, <2>3 DEF RecordOK, AuthorizationHeld, ConsumptionHeld
    <2>10. LocalOK(l, ops', authorizations, consumptions) /\ l.pc # "provider"
      <3>1. CASE r.decision = "AUTHORIZED"
        BY <2>6, <3>1, IdleOK
      <3>2. CASE r.decision # "AUTHORIZED"
        <4>1. AuthorizationHeld(ops'[k])
          BY <1>5, <2>3, <2>7, <3>2 DEF AuthorizationHeld
        <4> QED BY <1>1, <2>5, <3>2, <4>1 DEF LocalOK, Consuming, Statuses
      <3> QED BY <3>1, <3>2
    <2> QED BY <1>0, <1>1, <1>w, <2>2, <2>4, <2>8, <2>9, <2>10, Untouched, GateStep
  <1>7. CASE ~Settable(ops[k], "receipt", r)
    <2>1. GiveStatus(w, "authorization", "HOLD") /\ UNCHANGED ops
      BY <1>7 DEF BindReceipt, r
    <2>2. AuthorizationHeld(ops[k])
      BY <1>4, <1>7 DEF AuthorizationHeld, Settable
    <2> QED BY <1>0, <2>1, <2>2, GiveStatusStep
  <1> QED BY <1>6, <1>7

LEMMA EnsureClaimStep ==
    ASSUME GateInv, NEW w \in Workers, EnsureClaim(w)
    PROVE  GateInv'
  <1> DEFINE k == loc[w].op
             q == ops[k].request
             r == ops[k].receipt
             d == <<k, q.id>>
             x == [ops[k] EXCEPT !.claim = IF @ = None THEN d ELSE @]
             l == [loc[w] EXCEPT !.pc = "find", !.request = q, !.receipt = r]
  <1>0. loc[w].pc = "claim" /\ UNCHANGED <<store, tables, provided, world>>
    BY DEF EnsureClaim
  <1>1. /\ ops \in [Ops -> Records] /\ loc \in [Workers -> Locals] /\ loc[w] \in Locals
        /\ k \in Ops /\ ops[k] \in Records
        /\ RecordOK(k, ops[k], authorizations, consumptions)
        /\ LocalOK(loc[w], ops, authorizations, consumptions)
    BY <1>0, WorkerFacts
  <1>2. CASE ops[k].state # "RESERVED" \/ q = None \/ r = None
    <2>1. Return(w) /\ UNCHANGED ops
      BY <1>2 DEF EnsureClaim
    <2> QED BY <1>0, <2>1, ReturnStep
  <1>3. CASE q # None /\ r # None
    <2>1. q \in Requests /\ r \in AuthorizationRow /\ Stored(authorizations, r, q) /\ q.op = k
      BY <1>1, <1>3 DEF RecordOK, Records, commit_request_matches_record
    <2>2. commit_request_matches_record(q, k) /\ verify_authorization_receipt(r, q)
      BY <1>1, <1>3, <2>1 DEF RecordOK, verify_authorization_receipt, Stored
    <2>3. CASE ops[k].state = "RESERVED" /\ r.decision = "AUTHORIZED"
      <3>1. /\ ops' = SetClaim(ops, k, d)
            /\ loc' = [loc EXCEPT ![w].pc = "find", ![w].request = q, ![w].receipt = r]
        BY <1>3, <2>2, <2>3 DEF EnsureClaim
      <3>2. d \in DispatchClaims /\ d # None
        BY <2>1, AuthorityAssumption DEF DispatchClaims
      <3>3. ops' = [ops EXCEPT ![k] = x]
        BY <1>1, <3>1 DEF SetClaim
      <3>4. /\ x \in Records /\ x.state = ops[k].state /\ x.request = q /\ x.receipt = r
            /\ x.claim = (IF ops[k].claim = None THEN d ELSE ops[k].claim)
            /\ x.consumption = ops[k].consumption
            /\ x.authorization_status = ops[k].authorization_status
            /\ x.consumption_status = ops[k].consumption_status
        BY <1>1, <3>2 DEF Records
      <3>5. loc' = [loc EXCEPT ![w] = l]
        BY <1>1, <3>1
      <3>6. /\ l \in Locals /\ l.pc = "find" /\ l.op = k /\ l.request = q /\ l.receipt = r
            /\ l.payload = loc[w].payload
        BY <1>1, <2>1 DEF Locals, WorkerPCs
      <3>7. ops'[k] = x
        BY <1>1, <3>3
      <3> HIDE DEF x, l, d
      <3>8. Kept(ops[k], x)
        BY <3>4 DEF Kept
      <3>9. RecordOK(k, x, authorizations, consumptions)
        BY <1>1, <1>3, <2>3, <3>4 DEF RecordOK, AuthorizationHeld, ConsumptionHeld, d
      <3>10. LocalOK(l, ops', authorizations, consumptions) /\ l.pc # "provider"
        BY <1>0, <1>1, <1>3, <3>2, <3>4, <3>6, <3>7 DEF LocalOK, Consuming
      <3>11. WorldOK'
        BY <1>0, WorldStep DEF GateInv
      <3> QED BY <1>0, <1>1, <3>3, <3>5, <3>8, <3>9, <3>10, <3>11, Untouched, GateStep
    <2>4. CASE ops[k].state = "RESERVED" /\ r.decision # "AUTHORIZED"
      <3>1. GiveStatus(w, "consumption", "HOLD") /\ UNCHANGED ops
        BY <1>3, <2>4 DEF EnsureClaim
      <3>2. ConsumptionHeld(ops[k])
        BY <1>3, <2>1, <2>4 DEF ConsumptionHeld, AuthorizationRow
      <3> QED BY <1>0, <3>1, <3>2, GiveStatusStep
    <2> QED BY <1>2, <2>3, <2>4
  <1> QED BY <1>2, <1>3

\* The consumption receipt a worker takes from the authority, ready to be attached.
LEMMA ConsumptionTaken ==
    ASSUME NEW A, NEW C, ConsumptionsOK(A, C), NEW r, NEW b \in BOOLEAN,
           NEW l \in Locals, l.pc \in Consuming, LocalOK(l, ops, A, C), Stored(C, r, l.request)
    PROVE  LET m == [l EXCEPT !.pc = "attach", !.consumption = [r EXCEPT !.replayed = b]]
           IN  LocalOK(m, ops, A, C) /\ m.pc # "provider"
  <1> DEFINE y == [r EXCEPT !.replayed = b]
             m == [l EXCEPT !.pc = "attach", !.consumption = y]
  <1>1. y \in ConsumptionRow /\ y # None /\ Replays(C, y, l.request)
    BY GivenBackConsumption
  <1> HIDE DEF y
  <1>2. /\ m \in Locals /\ m.pc = "attach" /\ m.op = l.op /\ m.request = l.request
        /\ m.receipt = l.receipt /\ m.consumption = y /\ m.payload = l.payload
    BY <1>1 DEF Locals, WorkerPCs
  <1> HIDE DEF m
  <1>3. LocalOK(m, ops, A, C) /\ m.pc # "provider"
    BY <1>1, <1>2 DEF LocalOK, Consuming
  <1> QED BY <1>3 DEF m, y

LEMMA LookupConsumptionStep ==
    ASSUME GateInv, NEW w \in Workers, LookupConsumption(w)
    PROVE  GateInv'
  <1> DEFINE q == loc[w].request
             found == Recorded(consumptions, q.id) # {} /\ ~RequestConflict(consumptions, q)
             row == Row(consumptions, q.id)
             m == [loc[w] EXCEPT !.pc = "attach", !.consumption = [row EXCEPT !.replayed = TRUE]]
  <1>0. /\ loc[w].pc \in {"find", "find_again"} /\ UNCHANGED <<store, tables, ops, provided>>
        /\ \/ /\ found /\ UNCHANGED world
              /\ loc' = [loc EXCEPT ![w].pc = "attach",
                                    ![w].consumption = [row EXCEPT !.replayed = TRUE]]
           \/ /\ loc[w].pc = "find" /\ (UNCHANGED world \/ Fault)
              /\ Goto(w, "consume") \/ Goto(w, "find_again")
           \/ (UNCHANGED world \/ Fault) /\ GiveStatus(w, "consumption", "TRUST_UNKNOWN")
    BY DEF LookupConsumption
  <1>1. /\ loc \in [Workers -> Locals] /\ loc[w] \in Locals
        /\ LocalOK(loc[w], ops, authorizations, consumptions)
        /\ ConsumptionsOK(authorizations, consumptions) /\ Ordered(consumptions)
    BY WorkerFacts DEF TablesOK, ConsumptionsOK
  <1>2. CASE /\ found /\ UNCHANGED world
             /\ loc' = [loc EXCEPT ![w].pc = "attach",
                                   ![w].consumption = [row EXCEPT !.replayed = TRUE]]
    <2>1. Stored(consumptions, row, q)
      BY <1>1, <1>2, RecordedRow
    <2>2. loc' = [loc EXCEPT ![w] = m]
      BY <1>1, <1>2
    <2>3. LocalOK(m, ops, authorizations, consumptions) /\ m.pc # "provider"
      <3> HIDE DEF row
      <3>1. loc[w].pc \in Consuming
        BY <1>0 DEF Consuming
      <3> QED BY <1>1, <2>1, <3>1, ConsumptionTaken
    <2> HIDE DEF m
    <2>4. WorldOK' /\ ops' = ops /\ provided' = provided
      BY <1>0, <1>2, WorldStep DEF GateInv
    <2> QED BY <1>0, <2>2, <2>3, <2>4, Untouched, GateStep
  <1>3. CASE /\ loc[w].pc = "find" /\ (UNCHANGED world \/ Fault)
             /\ Goto(w, "consume") \/ Goto(w, "find_again")
    BY <1>0, <1>3, GotoStep DEF WorkerPCs
  <1>4. CASE (UNCHANGED world \/ Fault) /\ GiveStatus(w, "consumption", "TRUST_UNKNOWN")
    BY <1>0, <1>4, GiveStatusStep
  <1> QED BY <1>0, <1>2, <1>3, <1>4

LEMMA ConsumeFailsStep ==
    ASSUME GateInv, NEW w \in Workers, ConsumeFails(w)
    PROVE  GateInv'
  <1>1. /\ loc[w].pc = "consume" /\ Goto(w, "find_again") /\ (UNCHANGED world \/ Fault)
        /\ UNCHANGED <<store, tables, ops, provided>>
    BY DEF ConsumeFails
  <1> QED BY <1>1, GotoStep DEF WorkerPCs

\* A consumption of a request id is one of the request that was authorised.
LEMMA ConsumedRequest ==
    ASSUME NEW A, NEW C, TablesOK(A, C), NEW q, NEW a, Stored(A, a, q), Recorded(C, q.id) # {}
    PROVE  Stored(C, Row(C, q.id), q)
  <1>1. PICK j \in DOMAIN C : C[j].request.id = q.id
    BY DEF Recorded
  <1>2. PICK i \in DOMAIN A : A[i].request = C[j].request
    BY DEF TablesOK, ConsumptionsOK, Consumes
  <1>3. PICK h \in DOMAIN A : A[h].request = q
    BY DEF Stored
  <1>4. i = h
    BY <1>1, <1>2, <1>3 DEF TablesOK, AuthorizationsOK, Ordered
  <1>5. Row(C, q.id) = C[j]
    BY <1>1, RowIs DEF TablesOK, ConsumptionsOK
  <1> QED BY <1>2, <1>3, <1>4, <1>5 DEF Stored

\* The consume transaction.
LEMMA ConsumeKeeps ==
    ASSUME GateInv, NEW CONSTANT q \in Requests, NEW CONSTANT a, Stored(authorizations, a, q),
           a.decision = "AUTHORIZED",
           NEW CONSTANT d, d = <<q.op, q.id>>, consume(q, a, d), UNCHANGED store
    PROVE  /\ StoreInv(RotationIds)' /\ TablesOK(authorizations, consumptions)'
           /\ Longer(authorizations, authorizations') /\ Longer(consumptions, consumptions')
           /\ Stored(consumptions', Row(consumptions', q.id), q)
  <1>0. TablesOK(authorizations, consumptions)
    BY DEF GateInv
  <1>1. CASE Recorded(consumptions, q.id) # {}
    <2>1. UNCHANGED <<store, tables>>
      BY <1>1 DEF consume
    <2>2. Stored(consumptions, Row(consumptions, q.id), q)
      BY <1>0, <1>1, ConsumedRequest
    <2> QED BY <2>1, <2>2, Untouched
  <1>2. CASE Recorded(consumptions, q.id) = {}
    <2> DEFINE row == ConsumptionBody(q, a, d)
    <2>0. consumptions' = Append(consumptions, row) /\ authorizations' = authorizations
      BY <1>2 DEF consume
    <2>1. /\ row.request = q /\ row.sequence = Len(consumptions) + 1 /\ row.replayed = FALSE
          /\ row.checkpoint = checkpoint /\ row.authorization_sequence = a.sequence
          /\ row.claim = d /\ row.decision = ConsumptionDecision(a)
      BY DEF ConsumptionBody
    <2>2. a \in AuthorizationRow /\ a.sequence \in Nat /\ a.request = q
      <3>1. a \in AuthorizationRow /\ a.request = q
        BY <1>0 DEF TablesOK, AuthorizationsOK, Stored
      <3> QED BY <3>1 DEF AuthorizationRow
    <2>3. ConsumptionDecision(a) \in {"CONSUMED", "REJECTED", "STALE"}
      BY DEF ConsumptionDecision
    <2>4. row \in ConsumptionRow
      <3>1. d \in DispatchClaims
        BY DEF DispatchClaims
      <3>2. Len(consumptions) + 1 \in Nat /\ checkpoint \in Checkpoints \cup {None}
        BY DEF GateInv, StoreInv, TablesOK, ConsumptionsOK
      <3> QED BY <2>2, <2>3, <3>1, <3>2 DEF ConsumptionBody, ConsumptionRow
    <2> HIDE DEF row
    <2>5. Consumes(row, a)
      BY <2>1, <2>2 DEF Consumes, ConsumptionDecision
    <2>6. /\ TablesOK(authorizations, consumptions') /\ Longer(consumptions, consumptions')
          /\ Row(consumptions', q.id) = row /\ Stored(consumptions', row, q)
      BY <1>0, <1>2, <2>0, <2>1, <2>4, <2>5, ConsumptionAdded
    <2>7. StoreInv(RotationIds)'
      BY DEF store, GateInv, StoreInv, UniqueIds, Opens, ValidRequestRows
    <2>8. Longer(authorizations, authorizations)
      BY <1>0 DEF TablesOK, AuthorizationsOK, Longer
    <2> QED BY <2>0, <2>6, <2>7, <2>8
  <1> QED BY <1>1, <1>2

LEMMA ConsumeStep ==
    ASSUME GateInv, NEW w \in Workers, Consume(w)
    PROVE  GateInv'
  <1> SUFFICES ASSUME NEW CONSTANT q, q = loc[w].request, NEW CONSTANT a, a = loc[w].receipt,
                      NEW CONSTANT d, d = ops[loc[w].op].claim
               PROVE  GateInv'
    OBVIOUS
  <1> DEFINE k == loc[w].op
             row == Row(consumptions', q.id)
             b == Recorded(consumptions, q.id) # {}
             m == [loc[w] EXCEPT !.pc = "attach", !.consumption = [row EXCEPT !.replayed = b]]
  <1>0. /\ loc[w].pc = "consume" /\ consume(q, a, d)
        /\ \/ /\ loc' = [loc EXCEPT ![w].pc = "attach",
                                    ![w].consumption = [row EXCEPT !.replayed = b]]
              /\ UNCHANGED world
           \/ Goto(w, "find_again") /\ Fault
        /\ UNCHANGED <<store, ops, provided>>
    BY DEF Consume
  <1>1. /\ loc \in [Workers -> Locals] /\ loc[w] \in Locals /\ k \in Ops
        /\ LocalOK(loc[w], ops, authorizations, consumptions)
        /\ RecordOK(k, ops[k], authorizations, consumptions)
    BY <1>0, WorkerFacts
  <1>2. /\ q \in Requests /\ q = ops[k].request /\ a = ops[k].receipt /\ a # None /\ d # None
        /\ loc[w].pc \in Consuming
    BY <1>0, <1>1 DEF LocalOK, Locals, Consuming
  <1>3. /\ Stored(authorizations, a, q) /\ a.decision = "AUTHORIZED"
        /\ d = <<q.op, q.id>>
    BY <1>1, <1>2 DEF RecordOK, commit_request_matches_record
  <1>4. /\ StoreInv(RotationIds)' /\ TablesOK(authorizations, consumptions)'
        /\ Longer(authorizations, authorizations') /\ Longer(consumptions, consumptions')
        /\ Stored(consumptions', row, q)
    BY <1>0, <1>2, <1>3, ConsumeKeeps
  <1>5. WorldOK' /\ ops' = ops /\ provided' = provided
    BY <1>0, WorldStep DEF GateInv
  <1>6. LocalOK(loc[w], ops, authorizations', consumptions')
    BY <1>1, <1>4, StillOK
  <1>7. CASE loc' = [loc EXCEPT ![w].pc = "attach", ![w].consumption = [row EXCEPT !.replayed = b]]
    <2>1. loc' = [loc EXCEPT ![w] = m]
      BY <1>1, <1>7
    <2>2. LocalOK(m, ops, authorizations', consumptions') /\ m.pc # "provider"
      <3>1. ConsumptionsOK(authorizations', consumptions') /\ b \in BOOLEAN
        BY <1>4 DEF TablesOK
      <3>2. Stored(consumptions', row, loc[w].request)
        BY <1>4
      <3>3. loc[w] \in Locals /\ loc[w].pc \in Consuming
        BY <1>1, <1>2
      <3> HIDE DEF row, b
      <3> QED BY <1>6, <3>1, <3>2, <3>3, ConsumptionTaken
    <2> HIDE DEF m
    <2> QED BY <1>4, <1>5, <2>1, <2>2, GateStep
  <1>8. CASE Goto(w, "find_again")
    <2> DEFINE l == [loc[w] EXCEPT !.pc = "find_again"]
    <2>1. loc' = [loc EXCEPT ![w] = l]
      BY <1>1, <1>8 DEF Goto
    <2>2. /\ l \in Locals /\ l.pc = "find_again" /\ l.op = k /\ l.request = q
          /\ l.receipt = a /\ l.payload = loc[w].payload
      BY <1>1 DEF Locals, WorkerPCs
    <2> HIDE DEF l
    <2>3. LocalOK(l, ops, authorizations', consumptions') /\ l.pc # "provider"
      BY <1>0, <1>6, <2>2 DEF LocalOK, Consuming
    <2> QED BY <1>4, <1>5, <2>1, <2>3, GateStep
  <1> QED BY <1>0, <1>7, <1>8

LEMMA AttachConsumptionStep ==
    ASSUME GateInv, NEW w \in Workers, AttachConsumption(w)
    PROVE  GateInv'
  <1> DEFINE k == loc[w].op
             q == loc[w].request
             a == loc[w].receipt
             r == receipt_to_dict(loc[w].consumption)
             s == IF r.decision = "CONSUMED" THEN "TRUST_CONSUMED" ELSE "HOLD"
             x == [ops[k] EXCEPT !.consumption = r, !.consumption_status = s]
             l == IF r.decision = "CONSUMED" THEN [loc[w] EXCEPT !.pc = "dispatch"]
                  ELSE [loc[w] EXCEPT !.pc = "consumption", !.status = "HOLD"]
  <1>0. loc[w].pc = "attach" /\ UNCHANGED <<store, tables, provided, world>>
    BY DEF AttachConsumption
  <1>1. /\ ops \in [Ops -> Records] /\ loc \in [Workers -> Locals] /\ loc[w] \in Locals
        /\ k \in Ops /\ ops[k] \in Records
        /\ RecordOK(k, ops[k], authorizations, consumptions)
        /\ LocalOK(loc[w], ops, authorizations, consumptions)
        /\ TablesOK(authorizations, consumptions)
    BY <1>0, WorkerFacts
  <1>2. /\ q # None /\ q = ops[k].request /\ a = ops[k].receipt /\ a # None
        /\ ops[k].claim # None /\ Replays(consumptions, loc[w].consumption, q)
        /\ loc[w].payload = PayloadOf[k]
    BY <1>0, <1>1 DEF LocalOK, Consuming
  <1>3. /\ Stored(authorizations, a, q) /\ a.decision = "AUTHORIZED"
        /\ ops[k].claim = <<q.op, q.id>>
    BY <1>1, <1>2 DEF RecordOK, commit_request_matches_record
  <1>4. /\ r \in ConsumptionRow /\ Stored(consumptions, r, q)
        /\ loc[w].consumption.authorization_sequence = r.authorization_sequence
    BY <1>1, <1>2, StoredFormConsumption DEF TablesOK
  <1> HIDE DEF r
  <1>5. Consumes(r, a)
    <2>1. PICK i \in DOMAIN authorizations : Consumes(r, authorizations[i])
      BY <1>1, <1>4 DEF TablesOK, ConsumptionsOK, Stored
    <2>2. authorizations[i] = a
      <3>1. authorizations[i].request = q
        BY <1>4, <2>1 DEF Consumes, Stored
      <3>2. Stored(authorizations, authorizations[i], q)
        BY <3>1 DEF Stored
      <3> QED BY <1>1, <1>3, <3>2, SameRow DEF TablesOK, AuthorizationsOK
    <2> QED BY <2>1, <2>2
  <1>6. verify_consumption_receipt(loc[w].consumption, q, a)
    <2>1. verify_authorization_receipt(a, q)
      BY <1>3 DEF verify_authorization_receipt, Stored
    <2> QED BY <1>2, <1>3, <1>4, <1>5, <2>1
            DEF verify_consumption_receipt, Replays, Stored, Consumes
  <1>7. r.claim = ops[k].claim /\ r.request = q
    BY <1>3, <1>4, <1>5 DEF Consumes, Stored
  <1>8. ops[k].consumption # None => ops[k].consumption = r
    BY <1>1, <1>2, <1>4, SameRow DEF RecordOK, TablesOK, ConsumptionsOK
  <1>9. r # None /\ r.decision \in {"CONSUMED", "STALE"}
    BY <1>3, <1>4, <1>5, AuthorityAssumption DEF ConsumptionRow, Consumes
  <1>w. WorldOK'
    BY <1>0, WorldStep DEF GateInv
  <1>10. CASE Settable(ops[k], "consumption", r)
    <2>1. /\ ops' = SetConsumption(ops, k, r)
          /\ IF r.decision = "CONSUMED" THEN Goto(w, "dispatch")
             ELSE GiveStatus(w, "consumption", "HOLD")
      BY <1>6, <1>7, <1>10 DEF AttachConsumption, ConsumptionSettable, r
    <2>2. ops' = [ops EXCEPT ![k] = x]
      BY <1>1, <2>1 DEF SetConsumption, SetValue, Records
    <2>3. /\ x \in Records /\ x.state = ops[k].state /\ x.request = ops[k].request
          /\ x.receipt = ops[k].receipt /\ x.claim = ops[k].claim /\ x.consumption = r
          /\ x.authorization_status = ops[k].authorization_status /\ x.consumption_status = s
      BY <1>1, <1>4 DEF Records, Statuses
    <2>4. loc' = [loc EXCEPT ![w] = l]
      BY <1>1, <2>1 DEF Goto, GiveStatus
    <2>5. /\ l \in Locals /\ l.op = k
          /\ r.decision = "CONSUMED" => l.pc = "dispatch" /\ l.payload = loc[w].payload
          /\ r.decision # "CONSUMED" => l.pc = "consumption" /\ l.status = "HOLD"
      BY <1>1 DEF Locals, WorkerPCs, Statuses
    <2>6. ops'[k] = x
      BY <1>1, <2>2
    <2> HIDE DEF x, l
    <2>7. Kept(ops[k], x)
      BY <1>8, <2>3 DEF Kept
    <2>8. RecordOK(k, x, authorizations, consumptions)
      BY <1>1, <1>2, <1>4, <1>7, <1>8, <1>9, <2>3
         DEF RecordOK, AuthorizationHeld, ConsumptionHeld
    <2>9. LocalOK(l, ops', authorizations, consumptions) /\ l.pc # "provider"
      <3>1. r.decision # "CONSUMED" => ConsumptionHeld(ops'[k])
        BY <1>9, <2>3, <2>6 DEF ConsumptionHeld
      <3> QED BY <1>1, <1>2, <2>5, <3>1 DEF LocalOK, Consuming, Statuses
    <2> QED BY <1>0, <1>1, <1>w, <2>2, <2>4, <2>7, <2>8, <2>9, Untouched, GateStep
  <1>11. CASE ~Settable(ops[k], "consumption", r)
    <2>1. GiveStatus(w, "consumption", "HOLD") /\ UNCHANGED ops
      BY <1>11 DEF AttachConsumption, ConsumptionSettable, r
    <2>2. ConsumptionHeld(ops[k])
      BY <1>2, <1>8, <1>11 DEF ConsumptionHeld, Settable
    <2> QED BY <1>0, <2>1, <2>2, GiveStatusStep
  <1> QED BY <1>10, <1>11

LEMMA ClaimDispatchStep ==
    ASSUME GateInv, NEW w \in Workers, ClaimDispatch(w)
    PROVE  GateInv'
  <1> DEFINE k == loc[w].op
             x == [ops[k] EXCEPT !.state = "DISPATCHING"]
             l == [loc[w] EXCEPT !.pc = "provider"]
             go == /\ loc[w].payload = PayloadOf[k] /\ valid_commit_consumption(ops[k], k)
                   /\ ~quarantine /\ ops[k].state = "RESERVED"
  <1>0. loc[w].pc = "dispatch" /\ UNCHANGED <<store, tables, provided, world>>
    BY DEF ClaimDispatch
  <1>1. /\ ops \in [Ops -> Records] /\ loc \in [Workers -> Locals] /\ loc[w] \in Locals
        /\ k \in Ops /\ ops[k] \in Records
        /\ RecordOK(k, ops[k], authorizations, consumptions)
        /\ LocalOK(loc[w], ops, authorizations, consumptions)
    BY <1>0, WorkerFacts
  <1>2. CASE go
    <2>1. ops' = [ops EXCEPT ![k] = x] /\ loc' = [loc EXCEPT ![w] = l]
      BY <1>1, <1>2 DEF ClaimDispatch, Goto
    <2>2. /\ x \in Records /\ x.state = "DISPATCHING" /\ x.request = ops[k].request
          /\ x.receipt = ops[k].receipt /\ x.claim = ops[k].claim
          /\ x.consumption = ops[k].consumption
          /\ x.authorization_status = ops[k].authorization_status
          /\ x.consumption_status = ops[k].consumption_status
      BY <1>1 DEF Records
    <2>3. l \in Locals /\ l.pc = "provider" /\ l.op = k /\ l.payload = loc[w].payload
      BY <1>1 DEF Locals, WorkerPCs
    <2>4. /\ ops'[k] = x /\ \A j \in Ops \ {k} : ops'[j] = ops[j]
          /\ loc'[w] = l /\ \A v \in Workers \ {w} : loc'[v] = loc[v]
      BY <1>1, <2>1
    <2> HIDE DEF x, l
    <2>5. Kept(ops[k], x)
      BY <1>2, <2>2 DEF Kept
    <2>6. RecordOK(k, x, authorizations, consumptions)
      BY <1>1, <1>2, <2>2
         DEF RecordOK, AuthorizationHeld, ConsumptionHeld, valid_commit_consumption
    <2>7. LocalOK(l, ops', authorizations, consumptions)
      BY <1>1, <1>2, <2>2, <2>3, <2>4 DEF LocalOK, Consuming
    <2>8. ProviderOK(ops, loc, provided)'
      <3>1. /\ ProviderOK(ops, loc, provided) /\ ops[k].state = "RESERVED"
            /\ \A v \in Workers : loc[v].pc = "provider" => ops[loc[v].op].state = "DISPATCHING"
        BY <1>2 DEF GateInv, LocalOK
      <3>2. provided[k] = <<>> /\ \A v \in Workers : loc[v].pc = "provider" => loc[v].op # k
        BY <1>1, <3>1 DEF ProviderOK
      <3> QED BY <1>0, <1>1, <2>2, <2>3, <2>4, <3>1, <3>2 DEF ProviderOK
    <2>9. WorldOK' /\ provided' \in [Ops -> Seq(Payloads)]
      BY <1>0, WorldStep DEF GateInv
    <2> QED BY <1>0, <1>1, <2>1, <2>5, <2>6, <2>7, <2>8, <2>9, Untouched, WriteStep
  <1>3. CASE ~go
    <2>1. Return(w) /\ UNCHANGED ops
      BY <1>3 DEF ClaimDispatch
    <2> QED BY <1>0, <2>1, ReturnStep
  <1> QED BY <1>2, <1>3

LEMMA ProviderCallStep ==
    ASSUME GateInv, NEW w \in Workers, ProviderCall(w)
    PROVE  GateInv'
  <1> DEFINE k == loc[w].op
             p == loc[w].payload
  <1>0. /\ loc[w].pc = "provider" /\ loc' = [loc EXCEPT ![w] = Idle] /\ ops' = ops
        /\ provided' = [provided EXCEPT ![k] = Append(@, p)]
        /\ UNCHANGED <<store, tables, world>>
    BY DEF ProviderCall, Return
  <1>1. /\ loc \in [Workers -> Locals] /\ k \in Ops /\ provided \in [Ops -> Seq(Payloads)]
        /\ LocalOK(loc[w], ops, authorizations, consumptions)
        /\ ProviderOK(ops, loc, provided)
    BY <1>0, WorkerFacts DEF GateInv
  <1>2. /\ p = PayloadOf[k] /\ p \in Payloads /\ ops[k].state = "DISPATCHING"
        /\ provided[k] = <<>>
    BY <1>0, <1>1, GateAssumption DEF LocalOK, ProviderOK
  <1>3. Append(provided[k], p) = <<PayloadOf[k]>> /\ Append(provided[k], p) \in Seq(Payloads)
    BY <1>2
  <1>4. /\ provided' \in [Ops -> Seq(Payloads)] /\ provided'[k] = <<PayloadOf[k]>>
        /\ \A j \in Ops \ {k} : provided'[j] = provided[j]
    BY <1>0, <1>1, <1>3
  <1>5. /\ loc'[w] = Idle /\ \A v \in Workers \ {w} : loc'[v] = loc[v]
        /\ LocalOK(Idle, ops', authorizations', consumptions') /\ Idle.pc # "provider"
    BY <1>0, <1>1, IdleOK
  <1>6. ProviderOK(ops, loc, provided)'
    <2>1. \A v \in Workers : loc'[v].pc = "provider" => v # w /\ loc[v].op # k /\ loc'[v] = loc[v]
      BY <1>0, <1>1, <1>5 DEF ProviderOK
    <2>2. \A v \in Workers : loc[v].pc = "provider" => loc[v].op \in Ops
      BY DEF GateInv, LocalOK
    <2>3. \A j \in Ops : /\ provided'[j] \in {<<>>, <<PayloadOf[j]>>}
                         /\ provided'[j] # <<>> => ops'[j].state = "DISPATCHING"
      BY <1>0, <1>1, <1>2, <1>4 DEF ProviderOK
    <2>4. ASSUME NEW v \in Workers, loc'[v].pc = "provider"
          PROVE  /\ provided'[loc'[v].op] = <<>>
                 /\ \A u \in Workers : loc'[u].pc = "provider" /\ loc'[u].op = loc'[v].op => u = v
      BY <1>1, <1>4, <2>1, <2>2, <2>4 DEF ProviderOK
    <2> QED BY <2>3, <2>4 DEF ProviderOK
  <1>7. WorldOK'
    BY <1>0, WorldStep DEF GateInv
  <1> QED BY <1>0, <1>1, <1>4, <1>5, <1>6, <1>7, Untouched, WriteStep

LEMMA AbandonStep ==
    ASSUME GateInv, NEW k \in Ops, Abandon(k)
    PROVE  GateInv'
  <1> DEFINE x == [ops[k] EXCEPT !.state = "FAILED"]
  <1>0. /\ ops[k].state = "RESERVED" /\ UNCHANGED <<store, tables, loc, provided, world>>
        /\ ops' = [ops EXCEPT ![k].state = "FAILED"]
    BY DEF Abandon
  <1>1. /\ ops \in [Ops -> Records] /\ ops[k] \in Records
        /\ RecordOK(k, ops[k], authorizations, consumptions)
    BY DEF GateInv
  <1>2. ops' = [ops EXCEPT ![k] = x]
    BY <1>0, <1>1
  <1>3. /\ x \in Records /\ x.state = "FAILED" /\ x.request = ops[k].request
        /\ x.receipt = ops[k].receipt /\ x.claim = ops[k].claim
        /\ x.consumption = ops[k].consumption
        /\ x.authorization_status = ops[k].authorization_status
        /\ x.consumption_status = ops[k].consumption_status
    BY <1>1 DEF Records
  <1> HIDE DEF x
  <1>4. Kept(ops[k], x) /\ RecordOK(k, x, authorizations, consumptions)
    BY <1>0, <1>1, <1>3 DEF Kept, RecordOK, AuthorizationHeld, ConsumptionHeld
  <1>5. WorldOK'
    BY <1>0, WorldStep DEF GateInv
  <1> QED BY <1>0, <1>2, <1>4, <1>5, Untouched, GateStep

LEMMA ElsewhereStep ==
    ASSUME GateInv, NEW q \in Requests, NEW f \in Snapshots, NEW c \in Claims,
           NEW s \in Snapshots, NEW now \in Times, Elsewhere(q, f, c, s, now)
    PROVE  GateInv'
  <1>0. /\ Recorded(authorizations, q.id) = {} /\ UNCHANGED <<store, gate, world>>
        /\ authorize(q, BoundFinding(f, q.claim, q.prior, q.scope), c, s, now)
    BY DEF Elsewhere
  <1>1. ~RequestConflict(authorizations, q)
    BY <1>0 DEF RequestConflict
  <1>2. /\ StoreInv(RotationIds)' /\ TablesOK(authorizations, consumptions)'
        /\ Longer(authorizations, authorizations') /\ Longer(consumptions, consumptions')
    BY <1>0, <1>1, AuthorizeKeeps
  <1>3. WorldOK' /\ ops' = ops /\ loc' = loc /\ provided' = provided
    BY <1>0, WorldStep DEF GateInv, gate
  <1> QED BY <1>2, <1>3, GateStep

LEMMA RotateStep ==
    ASSUME GateInv, NEW x \in Rotations, Rotate(x[1], x[2])
    PROVE  GateInv'
  <1>0. Transact(x[1], x[2]) /\ UNCHANGED <<tables, gate, world>>
    BY DEF Rotate
  <1>1. x[1] \in RotationIds /\ x[2] \in Envelopes
    BY GateAssumption DEF RotationIds
  <1>2. StoreInv(RotationIds)'
    BY <1>0, <1>1, TransactKeeps DEF GateInv
  <1>3. /\ WorldOK' /\ ops' = ops /\ loc' = loc /\ provided' = provided
        /\ authorizations' = authorizations /\ consumptions' = consumptions
    BY <1>0, WorldStep DEF GateInv, gate, tables
  <1>4. /\ Longer(authorizations, authorizations) /\ Longer(consumptions, consumptions)
        /\ TablesOK(authorizations, consumptions)
    BY DEF GateInv, TablesOK, AuthorizationsOK, ConsumptionsOK, Longer
  <1> QED BY <1>2, <1>3, <1>4, GateStep

\* The quarantine comes and goes under the workers.
LEMMA QuarantineStep ==
    ASSUME GateInv, Lock \/ Release
    PROVE  GateInv'
  <1>1. WorldOK'
    <2>1. faults \in 0 .. MaxFaults /\ MaxFaults \in Nat
      BY GateAssumption DEF GateInv, WorldOK
    <2>2. quarantine' \in BOOLEAN
      <3>1. quarantine' = TRUE \/ quarantine' = FALSE
        BY DEF Lock, Release
      <3> QED BY <3>1, Zenon
    <2>3. faults' \in 0 .. MaxFaults
      BY <2>1 DEF Lock, Release
    <2> QED BY <2>1, <2>2, <2>3 DEF WorldOK
  <1>2. UNCHANGED <<store, tables>> /\ ops' = ops /\ loc' = loc /\ provided' = provided
    BY DEF Lock, Release, gate
  <1> QED BY <1>1, <1>2, Untouched, GateStep

LEMMA ContinueStep ==
    ASSUME GateInv, NEW w \in Workers, Continue(w)
    PROVE  GateInv'
  <1>1. CASE RecordRequest(w)
    BY <1>1, RecordRequestStep
  <1>2. CASE LookupAuthorization(w)
    BY <1>2, LookupAuthorizationStep
  <1>3. CASE BindReceipt(w)
    BY <1>3, BindReceiptStep
  <1>4. CASE RecordGateStatus(w)
    BY <1>4, RecordGateStatusStep
  <1>5. CASE \E f, s \in Snapshots, c \in Claims, now \in Times : Authorize(w, f, c, s, now)
    <2>1. PICK f \in Snapshots, s \in Snapshots, c \in Claims, now \in Times :
            Authorize(w, f, c, s, now)
      BY <1>5
    <2> QED BY <2>1, AuthorizeStep
  <1>6. CASE EnsureClaim(w)
    BY <1>6, EnsureClaimStep
  <1>7. CASE LookupConsumption(w)
    BY <1>7, LookupConsumptionStep
  <1>8. CASE Consume(w)
    BY <1>8, ConsumeStep
  <1>9. CASE AttachConsumption(w)
    BY <1>9, AttachConsumptionStep
  <1>10. CASE ClaimDispatch(w)
    BY <1>10, ClaimDispatchStep
  <1>11. CASE ProviderCall(w)
    BY <1>11, ProviderCallStep
  <1>12. CASE AuthorizeFails(w)
    BY <1>12, AuthorizeFailsStep
  <1>13. CASE ConsumeFails(w)
    BY <1>13, ConsumeFailsStep
  <1> QED BY <1>1, <1>2, <1>3, <1>4, <1>5, <1>6, <1>7, <1>8, <1>9, <1>10, <1>11, <1>12, <1>13
          DEF Continue

LEMMA NextStep ==
    ASSUME GateInv, GateNext
    PROVE  GateInv'
  <1>1. ASSUME NEW w \in Workers, Work(w)
        PROVE  GateInv'
    <2>1. CASE \E k \in Ops, q \in Requests : AuthorizeStart(w, k, q)
      BY <2>1, AuthorizeStartStep
    <2>2. CASE \E k \in Ops, p \in Payloads : DispatchStart(w, k, p)
      BY <2>2, DispatchStartStep
    <2>3. CASE Continue(w)
      BY <2>3, ContinueStep
    <2>4. CASE Die(w)
      BY <2>4, ReturnStep DEF Die
    <2> QED BY <1>1, <2>1, <2>2, <2>3, <2>4 DEF Work
  <1>2. ASSUME NEW k \in Ops, Abandon(k)
        PROVE  GateInv'
    BY <1>2, AbandonStep
  <1>3. ASSUME NEW x \in Rotations, Rotate(x[1], x[2])
        PROVE  GateInv'
    BY <1>3, RotateStep
  <1>4. ASSUME NEW q \in Requests, NEW f \in Snapshots, NEW s \in Snapshots, NEW c \in Claims,
               NEW now \in Times, Elsewhere(q, f, c, s, now)
        PROVE  GateInv'
    BY <1>4, ElsewhereStep
  <1> QED BY <1>1, <1>2, <1>3, <1>4, QuarantineStep DEF GateNext

LEMMA StutterStep ==
    ASSUME GateInv, UNCHANGED gateVars
    PROVE  GateInv'
  <1>1. UNCHANGED <<store, tables, world>> /\ ops' = ops /\ loc' = loc /\ provided' = provided
    BY DEF gateVars, gate
  <1>2. WorldOK'
    BY <1>1, WorldStep DEF GateInv
  <1> QED BY <1>1, <1>2, Untouched, GateStep

LEMMA InitOK == GateInit => GateInv
  <1> SUFFICES ASSUME GateInit PROVE GateInv
    OBVIOUS
  <1>0. /\ checkpoint = None /\ requests = <<>> /\ authorizations = <<>> /\ consumptions = <<>>
        /\ ops = [k \in Ops |-> Fresh] /\ loc = [w \in Workers |-> Idle]
        /\ provided = [k \in Ops |-> <<>>]
        /\ quarantine = FALSE /\ faults = 0
    BY DEF GateInit, InitStore, InitTables
  <1>1. StoreInv(RotationIds)
    <2>1. Replayed(requests, 0) = None /\ Applied(requests, 0) = {}
      BY DEF Replayed, Applied
    <2>2. requests \in Seq(StoredRow(RotationIds)) /\ Len(requests) = 0 /\ DOMAIN requests = {}
      BY <1>0
    <2>3. \A i \in 0 .. 0 : HasLast(Applied(requests, i))
      BY <2>1 DEF HasLast
    <2> QED BY <1>0, <2>1, <2>2, <2>3 DEF StoreInv, UniqueIds, Opens, ValidRequestRows
  <1>2. WorldOK
    <2>1. quarantine \in BOOLEAN
      BY <1>0, Zenon
    <2>2. faults \in 0 .. MaxFaults
      BY <1>0, GateAssumption
    <2> QED BY <2>1, <2>2 DEF WorldOK
  <1>3. TablesOK(authorizations, consumptions)
    BY <1>0 DEF TablesOK, AuthorizationsOK, ConsumptionsOK, Ordered
  <1>4. Fresh \in Records /\ \A k : RecordOK(k, Fresh, authorizations, consumptions)
    BY DEF Fresh, Records, Statuses, RecordOK
  <1>5. Idle \in Locals /\ LocalOK(Idle, ops, authorizations, consumptions) /\ Idle.pc = "idle"
    BY IdleOK DEF LocalOK, Idle
  <1>6. provided \in [Ops -> Seq(Payloads)] /\ \A k \in Ops : provided[k] = <<>>
    BY <1>0
  <1>7. ProviderOK(ops, loc, provided)
    BY <1>0, <1>5, <1>6 DEF ProviderOK
  <1> QED BY <1>0, <1>1, <1>2, <1>3, <1>4, <1>5, <1>6, <1>7 DEF GateInv

-----------------------------------------------------------------------------
(* The inductive invariant of the commit gate: store, tables, records,     *)
(* workers and provider are as described above in every reachable state.   *)
THEOREM GateInvariant == GateSpec => []GateInv
  BY InitOK, NextStep, StutterStep, PTL DEF GateSpec

\* The tables are ones open() accepts: every row verifies as the receipt of its request.
LEMMA RowsValid ==
    ASSUME TablesOK(authorizations, consumptions)
    PROVE  ValidRows
  <1>0. /\ Ordered(authorizations) /\ Ordered(consumptions)
        /\ \A j \in DOMAIN consumptions : \E i \in DOMAIN authorizations :
              Consumes(consumptions[j], authorizations[i])
    BY DEF TablesOK, AuthorizationsOK, ConsumptionsOK
  <1>1. ASSUME NEW j \in DOMAIN consumptions
        PROVE  LET q == consumptions[j].request IN
               /\ Recorded(authorizations, q.id) # {}
               /\ verify_consumption_receipt(consumptions[j], q, Row(authorizations, q.id))
    <2>1. PICK i \in DOMAIN authorizations : Consumes(consumptions[j], authorizations[i])
      BY <1>0
    <2>2. /\ authorizations[i].request = consumptions[j].request
          /\ consumptions[j].authorization_sequence = authorizations[i].sequence
      BY <2>1 DEF Consumes
    <2>3. LET q == consumptions[j].request IN
          Recorded(authorizations, q.id) = {i} /\ Row(authorizations, q.id) = authorizations[i]
      BY <1>0, <2>2, RowIs
    <2> QED BY <2>2, <2>3 DEF verify_consumption_receipt, verify_authorization_receipt
  <1> QED BY <1>0, <1>1 DEF ValidRows, Ordered

(* GateConsistent: after any interleaving of workers, deaths, lost replies *)
(* and rotations the registry holds the authority's own rows, and open()   *)
(* accepts the authority's database.                                       *)
THEOREM GateStaysConsistent == GateSpec => []GateConsistent
  <1>1. GateInv => GateConsistent
    <2> SUFFICES ASSUME GateInv PROVE GateConsistent
      OBVIOUS
    <2>1. TypeOKStore /\ Opens
      BY StoreTyped DEF GateInv, StoreInv
    <2>2. GateTypeOK
      BY <2>1 DEF GateInv, WorldOK, TablesOK, AuthorizationsOK, ConsumptionsOK, GateTypeOK
    <2>3. TablesOpen
      BY <2>1, RowsValid DEF GateInv, TablesOpen, OpensTables
    <2>4. RegistryMirrorsAuthority
      BY DEF GateInv, RecordOK, Stored, RegistryMirrorsAuthority
    <2> QED BY <2>2, <2>3, <2>4 DEF GateConsistent
  <1> QED BY <1>1, GateInvariant, PTL

(* ProviderSeesOnlyAuthorized: what reaches the provider was authorised on *)
(* admissible evidence and consumed under the same checkpoint, for this    *)
(* operation and its claim, and the provider gets the adjudicated payload  *)
(* once.                                                                   *)
THEOREM ProviderSeesAuthorized == GateSpec => []ProviderSeesOnlyAuthorized
  <1>1. GateInv => ProviderSeesOnlyAuthorized
    <2> SUFFICES ASSUME GateInv PROVE ProviderSeesOnlyAuthorized
      OBVIOUS
    <2>0. /\ AuthorizationsOK(authorizations) /\ ConsumptionsOK(authorizations, consumptions)
          /\ \A k \in Ops : RecordOK(k, ops[k], authorizations, consumptions)
          /\ ProviderOK(ops, loc, provided)
      BY DEF GateInv, TablesOK
    <2>1. AuthorizedIsAdmissible
      BY <2>0 DEF AuthorizationsOK, Admissible, AuthorizedIsAdmissible
    <2>2. ProviderGetsBoundPayload
      BY <2>0 DEF ProviderOK, ProviderGetsBoundPayload
    <2>3. ASSUME NEW k \in Ops, ops[k].state = "DISPATCHING"
          PROVE  \E i \in DOMAIN authorizations, j \in DOMAIN consumptions :
                    LET a == authorizations[i]
                        c == consumptions[j]
                    IN  /\ a.request = ops[k].request /\ a.request.op = k
                        /\ a.decision = "AUTHORIZED"
                        /\ c.request = a.request /\ c.decision = "CONSUMED"
                        /\ c.claim = ops[k].claim
                        /\ c.authorization_sequence = i /\ c.checkpoint = a.checkpoint
      <3>1. /\ Stored(authorizations, ops[k].receipt, ops[k].request)
            /\ Stored(consumptions, ops[k].consumption, ops[k].request)
            /\ ops[k].receipt.decision = "AUTHORIZED" /\ ops[k].consumption.decision = "CONSUMED"
            /\ ops[k].consumption.claim = ops[k].claim /\ ops[k].request.op = k
        BY <2>0, <2>3 DEF RecordOK, commit_request_matches_record
      <3>2. PICK j \in DOMAIN consumptions : consumptions[j] = ops[k].consumption
        BY <3>1 DEF Stored
      <3>3. PICK i \in DOMAIN authorizations : Consumes(consumptions[j], authorizations[i])
        BY <2>0 DEF ConsumptionsOK
      <3>4. authorizations[i].request = ops[k].request /\ authorizations[i].sequence = i
        BY <2>0, <3>1, <3>2, <3>3 DEF Consumes, Stored, AuthorizationsOK, Ordered
      <3>5. /\ consumptions[j].decision = "CONSUMED" /\ authorizations[i].decision = "AUTHORIZED"
            /\ consumptions[j].checkpoint = authorizations[i].checkpoint
            /\ consumptions[j].authorization_sequence = i
            /\ consumptions[j].request = authorizations[i].request
            /\ consumptions[j].claim = ops[k].claim
        BY <3>1, <3>2, <3>3, <3>4 DEF Consumes
      <3> QED BY <3>1, <3>4, <3>5
    <2>4. DispatchedWasAuthorized
      BY <2>3 DEF DispatchedWasAuthorized
    <2> QED BY <2>1, <2>2, <2>4 DEF ProviderSeesOnlyAuthorized
  <1> QED BY <1>1, GateInvariant, PTL

(* HoldIsJustified: a RESERVED operation is only on HOLD because the       *)
(* authority refused it or its authorisation became stale; a repeated call *)
(* of what is already recorded never blocks it.                            *)
THEOREM HoldsStayJustified == GateSpec => []HoldIsJustified
  <1>1. GateInv => HoldIsJustified
    BY DEF GateInv, RecordOK, AuthorizationHeld, ConsumptionHeld, HoldIsJustified
  <1> QED BY <1>1, GateInvariant, PTL

(* DispatchedOnce: as long as the registry file stays readable, no two     *)
(* workers, retries or restarts reach the provider for one operation.      *)
THEOREM DispatchesOnce == GateSpec => []DispatchedOnce
  <1>1. GateInv => DispatchedOnce
    <2> SUFFICES ASSUME GateInv, NEW k \in Ops PROVE Len(provided[k]) <= 1
      BY DEF DispatchedOnce
    <2>1. provided[k] = <<>> \/ provided[k] = <<PayloadOf[k]>>
      BY DEF GateInv, ProviderOK
    <2>2. Len(<<>>) = 0 /\ Len(<<PayloadOf[k]>>) = 1
      OBVIOUS
    <2> DEFINE n == Len(provided[k])
    <2>3. n \in {0, 1}
      BY <2>1, <2>2, Zenon
    <2> HIDE DEF n
    <2>4. n <= 1
      BY <2>3
    <2> QED BY <2>4 DEF n
  <1> QED BY <1>1, GateInvariant, PTL
=============================================================================
