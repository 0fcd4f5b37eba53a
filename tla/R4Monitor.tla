----------------------------- MODULE R4Monitor ------------------------------
(***************************************************************************)
(* The R4 monitor: processes that each keep an operating mode, a           *)
(* trajectory window and the control nonces they have seen in memory, and  *)
(* share one hash-chained JSONL ledger.  A constructor replays the ledger; *)
(* observe and the two control transitions first change memory and then    *)
(* append; an append takes the writer lock, verifies the whole chain and   *)
(* writes one line.  Operators issue signed proofs that expire.  An append *)
(* may raise (lock timeout, I/O error), a line may be torn, a process may  *)
(* stop and be constructed again.  A digest is what was hashed.            *)
(***************************************************************************)
EXTENDS R4Trajectory, FiniteSets

CONSTANTS Monitors,     \* processes holding a TenirMonitor
          Events,       \* EventSample records
          Operators,    \* who can sign a proof
          Registered,   \* the operators in the monitors' OperatorRegistry
          Nonces,       \* control nonces; a nonce is issued once
          Overrides,    \* the constructor's mode argument (NoMode: not given)
          Bounds        \* bounds: ledger entries; raising appends and torn lines

NoMode == "None"

ASSUME MonitorAssumption ==
    /\ \A event \in Events : ValidEvent(event)
    /\ Registered \subseteq Operators
    /\ Overrides \subseteq Operating \cup {NoMode}
    /\ Bounds \subseteq [entries : Nat, faults : Nat]

VARIABLES file,     \* the ledger: chained entries, or a torn line
          mem,      \* the memory of every monitor
          issued,   \* the proofs operators have issued
          expired,  \* the nonces of the proofs whose expires_at has passed
          faults,   \* raised appends and torn lines so far
          authors,  \* history: who wrote an entry, and how much it had replayed
          synced,   \* history: what of a monitor's memory the ledger still tells
          bound     \* the member of Bounds this behaviour keeps to

vars == <<file, mem, issued, expired, faults, authors, synced, bound>>

Transitions == {"SHADOW_TO_ENFORCE", "ENFORCE_TO_SHADOW"}
TargetMode(transition) ==
    IF transition = "SHADOW_TO_ENFORCE" THEN "ENFORCE" ELSE "SHADOW_PASSIVE"

-----------------------------------------------------------------------------
(* The ledger.                                                             *)

GENESIS_HASH == << >>
Torn == [previous_hash |-> GENESIS_HASH, chain_hash |-> GENESIS_HASH,
         payload |-> [type |-> "torn"]]

compute_chain_hash(previous_hash, payload) == <<previous_hash, payload>>

\* verify_chain: every line parses, names its predecessor, and has its hash.
PreviousHash(i) == IF i = 1 THEN GENESIS_HASH ELSE file[i - 1].chain_hash
Verified ==
    \A i \in DOMAIN file :
        /\ file[i] # Torn
        /\ file[i].previous_hash = PreviousHash(i)
        /\ file[i].chain_hash = compute_chain_hash(PreviousHash(i), file[i].payload)

TipMut(m) == mem[m].last_hash

\* append continues the chain it has just verified, whoever wrote its end.
Tip(m) == PreviousHash(Len(file) + 1)

EntryOf(m, payload) ==
    [previous_hash |-> Tip(m), chain_hash |-> compute_chain_hash(Tip(m), payload),
     payload |-> payload]

-----------------------------------------------------------------------------
(* Replay.                                                                 *)

Fresh == [mode |-> "SHADOW_PASSIVE", window |-> << >>, nonces |-> {}]

ReplayEntryModeless(state, entry) ==
    LET p == entry.payload
    IN  CASE p.type = "observation" ->
               [state EXCEPT !.window = Pushed(@, compute_stability(p.event))]
          [] p.type = "control_transition" ->
               [state EXCEPT !.mode = p.to_mode, !.nonces = @ \cup {p.proof.nonce}]
          [] OTHER -> state

\* One entry of _replay_state_from_ledger; a denied attempt changes nothing.
ReplayEntry(state, entry) ==
    LET p == entry.payload
    IN  CASE p.type = "observation" ->
               [state EXCEPT !.mode = p.mode,
                             !.window = Pushed(@, compute_stability(p.event))]
          [] p.type = "control_transition" ->
               [state EXCEPT !.mode = p.to_mode, !.nonces = @ \cup {p.proof.nonce}]
          [] OTHER -> state

Replayed == FoldLeft(ReplayEntry, Fresh, file)

-----------------------------------------------------------------------------
(* Proofs of control transitions.                                          *)

Signed(claims) == [operator |-> claims.operator, over |-> claims]

canonical_payloadMut(proof) == [operator |-> proof.operator, nonce |-> proof.nonce]

\* _canonical_payload: everything but the signature is signed.  A proof's
\* validity period is told by its nonce (expired).
canonical_payload(proof) ==
    [operator |-> proof.operator, nonce |-> proof.nonce, action |-> proof.action]

issue_transition_proof(operator, action, nonce) ==
    LET claims == [operator |-> operator, action |-> action, nonce |-> nonce]
    IN  [operator |-> operator, action |-> action, nonce |-> nonce,
         signature |-> Signed(canonical_payload(claims))]

Issue(operator, action, nonce) ==
    /\ \A p \in issued : p.nonce # nonce
    /\ issued' = issued \cup {issue_transition_proof(operator, action, nonce)}
    /\ UNCHANGED <<file, mem, expired, faults, authors, synced, bound>>

verify_transition_proof(proof) ==
    /\ proof.nonce \notin expired
    /\ proof.operator \in Registered
    /\ proof.signature = Signed(canonical_payload(proof))

\* What a caller can present: a proof as issued, or one whose action field
\* no longer is the one that was signed.
Presented == issued \cup {[p EXCEPT !.action = a] : p \in issued, a \in Transitions}

FailureReason(m, expected_action, proof) ==
    CASE proof.action # expected_action -> "action"
      [] proof.action = expected_action /\ proof.nonce \in mem[m].nonces -> "nonce"
      [] proof.action = expected_action /\ proof.nonce \notin mem[m].nonces
           /\ ~verify_transition_proof(proof) -> "proof"
      [] OTHER -> "none"

-----------------------------------------------------------------------------
Stopped == [up |-> FALSE, mode |-> NoMode, window |-> << >>, nonces |-> {},
            last_hash |-> GENESIS_HASH, loaded |-> 0]

Init ==
    /\ file = << >>
    /\ mem = [m \in Monitors |-> Stopped]
    /\ issued = {} /\ expired = {} /\ faults = 0
    /\ authors = << >>
    /\ synced = [m \in Monitors |-> {}]
    /\ bound \in Bounds

\* A mode argument wins over the replayed mode, and is not ledgered.
StartMode(mode) == IF mode = NoMode THEN Replayed.mode ELSE mode

\* TenirMonitor(...): the chain must verify and is replayed.
Construct(m, mode) ==
    /\ ~mem[m].up
    /\ Verified
    /\ mem' = [mem EXCEPT ![m] =
          [up |-> TRUE, mode |-> StartMode(mode),
           window |-> Replayed.window, nonces |-> Replayed.nonces,
           last_hash |-> PreviousHash(Len(file) + 1), loaded |-> Len(file)]]
    /\ synced' = [synced EXCEPT ![m] = IF mode = NoMode THEN {"mode", "rest"} ELSE {"rest"}]
    /\ UNCHANGED <<file, issued, expired, faults, authors, bound>>

Stop(m) ==
    /\ mem[m].up
    /\ mem' = [mem EXCEPT ![m] = Stopped]
    /\ synced' = [synced EXCEPT ![m] = {}]
    /\ UNCHANGED <<file, issued, expired, faults, authors, bound>>

\* What an entry tells about its writer, and hides about everyone else.
Tells(payload) == IF payload.type = "denied" THEN {} ELSE {"mode"}
Hides(payload) == IF payload.type = "denied" THEN {} ELSE {"mode", "rest"}
Loses(payload) ==
    CASE payload.type = "observation" -> {"rest"}
      [] payload.type = "control_transition" -> {"mode", "rest"}
      [] OTHER -> {}

(* HashChainedLedger.append, once m's memory is memory: under the writer   *)
(* lock the chain is verified and one line written and synced, and even    *)
(* then fsync may raise.  Or it raises over a chain that does not verify,  *)
(* a lock timeout or a failing write, which may leave part of the line.    *)
(* Memory is never rolled back.                                            *)
AppendEntry(m, payload, memory) ==
    \/ /\ Verified /\ Len(file) < bound.entries
       /\ file' = Append(file, EntryOf(m, payload))
       /\ authors' = Append(authors, [by |-> m, loaded |-> mem[m].loaded])
       /\ synced' = [n \in Monitors |->
             IF n = m THEN synced[n] \cup Tells(payload) ELSE synced[n] \ Hides(payload)]
       /\ \/ /\ mem' = [mem EXCEPT ![m] = [memory EXCEPT !.last_hash = file'[Len(file')].chain_hash]]
             /\ UNCHANGED faults
          \/ /\ faults < bound.faults
             /\ faults' = faults + 1
             /\ mem' = [mem EXCEPT ![m] = memory]
    \/ /\ faults < bound.faults
       /\ faults' = faults + 1
       /\ file' \in {file} \cup (IF Verified THEN {Append(file, Torn)} ELSE {})
       /\ mem' = [mem EXCEPT ![m] = memory]
       /\ synced' = [synced EXCEPT ![m] = @ \ Loses(payload)]
       /\ UNCHANGED authors

\* The process dies while the line is being written.
DieWriting(m) ==
    /\ mem[m].up /\ Verified
    /\ faults < bound.faults
    /\ faults' = faults + 1
    /\ file' = Append(file, Torn)
    /\ mem' = [mem EXCEPT ![m] = Stopped]
    /\ synced' = [synced EXCEPT ![m] = {}]
    /\ UNCHANGED <<issued, expired, authors, bound>>

\* The tracker has taken the event, and the caller gets an exception: nothing
\* of the event is ledgered.
RaiseUnledgered(m, memory) ==
    /\ mem' = [mem EXCEPT ![m] = memory]
    /\ synced' = [synced EXCEPT ![m] = @ \ {"rest"}]
    /\ UNCHANGED <<file, faults, authors>>

\* The tracker is updated, the shared engine made and asked, the entry
\* appended.  Without a valid engine every call raises.
observe(m, event) ==
    LET window == Pushed(mem[m].window, compute_stability(event))
        traj   == Trajectory(window, event.option_space)
        memory == [mem[m] EXCEPT !.window = window]
    IN  /\ mem[m].up
        /\ IF EngineAccepts
             THEN AppendEntry(m, [type |-> "observation", mode |-> mem[m].mode, event |-> event,
                                  action |-> action_for_trajectory(mem[m].mode, traj),
                                  shared |-> evaluate_membrane(traj, event.option_space, mem[m].mode)],
                              memory)
             ELSE RaiseUnledgered(m, memory)
        /\ UNCHANGED <<issued, expired, bound>>

(* _authorize_transition, then the transition.  A refused proof is logged  *)
(* and changes nothing else; an accepted one uses its nonce and sets the   *)
(* mode, from whatever mode, before the entry is appended.                 *)
ControlTransition(m, expected_action, proof) ==
    LET reason == FailureReason(m, expected_action, proof)
    IN  /\ mem[m].up
        /\ IF reason # "none"
             THEN AppendEntry(m, [type |-> "denied", reason |-> reason], mem[m])
             ELSE AppendEntry(m, [type |-> "control_transition", transition |-> expected_action,
                                  to_mode |-> TargetMode(expected_action), proof |-> proof],
                              [mem[m] EXCEPT !.mode = TargetMode(expected_action),
                                             !.nonces = @ \cup {proof.nonce}])
        /\ UNCHANGED <<issued, expired, bound>>

close_the_glass(m, proof) == ControlTransition(m, "SHADOW_TO_ENFORCE", proof)
reopen_to_shadow(m, proof) == ControlTransition(m, "ENFORCE_TO_SHADOW", proof)

\* The clock passes the expires_at of a proof.
Expire(nonce) ==
    /\ nonce \notin expired
    /\ \E p \in issued : p.nonce = nonce
    /\ expired' = expired \cup {nonce}
    /\ UNCHANGED <<file, mem, issued, faults, authors, synced, bound>>

Next ==
    \/ \E o \in Operators, a \in Transitions, n \in Nonces : Issue(o, a, n)
    \/ \E m \in Monitors, mode \in Overrides : Construct(m, mode)
    \/ \E m \in Monitors : Stop(m) \/ DieWriting(m)
    \/ \E m \in Monitors, event \in Events : observe(m, event)
    \/ \E m \in Monitors, proof \in Presented : close_the_glass(m, proof)
    \/ \E m \in Monitors, proof \in Presented : reopen_to_shadow(m, proof)
    \/ \E n \in Nonces : Expire(n)

Spec == Init /\ [][Next]_vars

-----------------------------------------------------------------------------
Transitioned == {i \in DOMAIN file : file[i].payload.type = "control_transition"}

TypeOK ==
    /\ Len(file) <= bound.entries + 1
    /\ Len(authors) \in {Len(file), Len(file) - 1}
    /\ expired \subseteq Nonces /\ faults \in 0..bound.faults
    /\ \A m \in Monitors :
          /\ mem[m].up \in BOOLEAN
          /\ mem[m].mode \in Operating \cup {NoMode}
          /\ mem[m].up => mem[m].mode # NoMode
          /\ Len(mem[m].window) <= Policy.event_window
          /\ mem[m].nonces \subseteq Nonces
          /\ synced[m] \subseteq {"mode", "rest"}

(* Two processes append to one ledger file: whatever they interleave, the  *)
(* chain verifies up to a torn line, and nothing follows a torn line.      *)
ChainVerifies ==
    \A i \in DOMAIN file :
        \/ file[i] = Torn /\ i = Len(file)
        \/ /\ file[i].previous_hash = PreviousHash(i)
           /\ file[i].chain_hash = compute_chain_hash(PreviousHash(i), file[i].payload)

(* Memory is well formed and the shared file is one chain.                 *)
LedgerIsOneChain == TypeOK /\ ChainVerifies

(* "Human escalation is explicit, ledgered, and replayable": every         *)
(* transition in the ledger carries a proof that a registered operator     *)
(* issued for this very transition; no altered proof moves the mode.       *)
EscalationIsHuman ==
    \A i \in Transitioned :
        LET p == file[i].payload
        IN  p.proof \in issued /\ p.proof.action = p.transition
              /\ p.proof.operator \in Registered

(* A nonce authorises one transition.  The one exception is a monitor that *)
(* was constructed before the other process used the nonce: its memory     *)
(* cannot know; no restart and no single process accepts a proof twice.    *)
ProofReusedOnlyByStaleMonitor ==
    \A i, j \in Transitioned :
        i < j /\ file[i].payload.proof.nonce = file[j].payload.proof.nonce
          => authors[j].by # authors[i].by /\ authors[j].loaded < i

(* No transition without its own human decision, except where a stale      *)
(* process repeats one.                                                    *)
TransitionsAreHuman == EscalationIsHuman /\ ProofReusedOnlyByStaleMonitor

(* Replay is exact: while no other process has written and no append of    *)
(* its own has raised, a monitor constructed now from the ledger has the   *)
(* same window and nonces as the running one; and the same mode, once that *)
(* mode was ledgered.                                                      *)
RestartRestores ==
    \A m \in Monitors :
        /\ "rest" \in synced[m] => /\ mem[m].window = Replayed.window
                                   /\ mem[m].nonces = Replayed.nonces
        /\ "mode" \in synced[m] => mem[m].mode = Replayed.mode

(* "When R4 says allow_with_intended_block, shared engine must agree": two *)
(* engines judge every event, one on exact scores and one on rounded ones. *)
(* They disagree on blocking only where rounding carries the stability     *)
(* across the block floor.  An event the shared engine BLOCKs gets past th *)
(* R4 action only when, besides, it is above the alert floor; and no entry *)
(* of a lesser mode than SHADOW_CRITICAL blocks.                           *)
EnginesAgreeOnBlock ==
    \A i \in DOMAIN file :
        LET p == file[i].payload
            s == compute_stability(p.event)
            crosses == (s <= Policy.s_block_floor) # (Rounded(s) <= Policy.s_block_floor)
            blocked == p.action \in {"block", "block_on_alert"}
        IN  p.type = "observation" =>
              /\ (p.action \in {"block", "allow_with_intended_block"})
                   # (p.shared \in {"BLOCK", "ALLOW_WITH_INTENDED_BLOCK"}) => crosses
              /\ p.shared = "BLOCK" /\ ~blocked => crosses /\ s > Policy.s_alert_floor
              /\ blocked => p.mode \in {"SHADOW_CRITICAL", "ENFORCE"}
=============================================================================
