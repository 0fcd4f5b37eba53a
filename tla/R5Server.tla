------------------------------ MODULE R5Server ------------------------------
(***************************************************************************)
(* The hardened R5 server: one asyncio process that adjudicates events,    *)
(* takes signed mode transitions, records both in the ledger and streams   *)
(* frames to WebSocket clients.  A coroutine runs without interruption     *)
(* between awaits, so a handler up to and including its ledger append is   *)
(* one action; the Neo4j call and each broadcast that follow are awaits,   *)
(* where other handlers run.  The hub's asyncio.Lock is a FIFO queue whose *)
(* head holds it for as long as the frame is being sent to every client.   *)
(* Writes may fail or be torn, and the process may die and be restarted.   *)
(***************************************************************************)
EXTENDS R5Ledger

CONSTANTS Requests,     \* handler slots: requests being served
          Clients,      \* WebSocket clients
          Nonces,       \* oath nonces, positive numbers
          Events,       \* what is adjudicated: severity, gate and depth
          Bounds,       \* bounds: entries, oaths, faults, busy slots, connecting clients
          MaxNotes      \* bound: operator notes are sent below this sequence

ASSUME R5Assumption ==
    /\ Nonces \subseteq Nat \ {0}
    /\ Events \subseteq [severity : {"clear", "alert", "block"}, depth : 0..2,
                         gate : {"raw", "PASS", "FLAG", "HARD_VETO"}]
    /\ Bounds \subseteq [entries : Nat, oaths : Nat, faults : Nat,
                         requests : SUBSET Requests, clients : SUBSET Clients]
    /\ MaxNotes \in Nat
    /\ Requests \cap Clients = {}

VARIABLES lines,     \* the ledger file: its entries
          torn,      \* the file ends in a partial line
          up,        \* the process serves requests
          ledger,    \* DistributedLedger: entries and epochs in memory
          mode,      \* app.state.mode
          used,      \* KeyCeremony._used_nonces
          oaths,     \* signed oaths handed out: nonce and epoch
          task,      \* per handler slot: what it still has to do
          hub,       \* WebSocketHub: connections, lock queue, sequence
          client,    \* per client: its handler's place and the last frame it got
          faults,    \* failed writes and process deaths so far
          bound      \* the member of Bounds this behaviour keeps to

vars == <<lines, torn, up, ledger, mode, used, oaths, task, hub, client, faults, bound>>
disk == <<lines, torn, bound>>

Frames == {"TRAJECTORY_UPDATE", "TAU_BREACH", "WHALE_RESONANCE", "LEDGER_APPEND", "MODE_TRANSITION"}
Decisions == {"ALLOW", "ALLOW_WITH_ALERT", "ALLOW_WITH_INTENDED_BLOCK", "BLOCK", "NOT_EVALUATED"}

Idle == [pc |-> "idle", frames |-> << >>, entry |-> 0, decision |-> "NOT_EVALUATED"]
ClosedClient == [pc |-> "closed", last |-> 0]
EmptyHub == [connections |-> {}, queue |-> << >>, done |-> {}, dead |-> {}, stalled |-> {},
             sequence |-> 0]

Init ==
    /\ lines = << >> /\ torn = FALSE
    /\ up = FALSE
    /\ ledger = EmptyLedger
    /\ mode = NoMode
    /\ used = {} /\ oaths = {}
    /\ task = [r \in Requests |-> Idle]
    /\ hub = EmptyHub
    /\ client = [c \in Clients |-> ClosedClient]
    /\ faults = 0
    /\ bound \in Bounds

(***************************************************************************)
(* Start and death of the process.                                         *)
(***************************************************************************)

\* lifespan: the ledger must load, an empty one must not start above
\* SHADOW_PASSIVE, and the mode in force is the ledger's.
Start(configured) ==
    /\ ~up
    /\ ~torn /\ ChainLoads(lines)
    /\ ~(lines = << >> /\ configured \in {"SHADOW_CRITICAL", "ENFORCE"})
    /\ up' = TRUE
    /\ ledger' = LoadedLedger(lines)
    /\ used' = recover_used_nonces(lines)
    /\ mode' = recover_last_mode(lines, configured)
    /\ UNCHANGED <<disk, oaths, task, hub, client, faults>>

\* What memory holds is lost with the process.
MemoryLost ==
    /\ up' = FALSE
    /\ ledger' = EmptyLedger
    /\ mode' = NoMode
    /\ used' = {}
    /\ task' = [r \in Requests |-> Idle]
    /\ hub' = EmptyHub
    /\ client' = [c \in Clients |-> ClosedClient]

\* The process dies between two coroutine steps.
Die ==
    /\ up /\ faults < bound.faults
    /\ faults' = faults + 1
    /\ MemoryLost
    /\ UNCHANGED <<disk, oaths>>

(***************************************************************************)
(* The membrane decision, and the two handlers that append.                *)
(***************************************************************************)

\* The severity of an event is the worst condition its scores meet.
evaluate_membrane(severity, operating_mode) ==
    CASE operating_mode = "SHADOW_OFF" -> "NOT_EVALUATED"
      [] operating_mode # "SHADOW_OFF" /\ severity = "clear" -> "ALLOW"
      [] operating_mode # "SHADOW_OFF" /\ severity = "alert" -> "ALLOW_WITH_ALERT"
      [] operating_mode = "ENFORCE" /\ severity = "block" -> "BLOCK"
      [] OTHER -> "ALLOW_WITH_INTENDED_BLOCK"

\* The runtime gates of a schema 1.2 object can only make the decision
\* stricter: a veto blocks (or marks an intended block), a flag alerts.
RuntimeGates(gate, decision, operating_mode) ==
    CASE gate = "HARD_VETO" -> IF operating_mode = "ENFORCE" THEN "BLOCK"
                               ELSE "ALLOW_WITH_INTENDED_BLOCK"
      [] gate = "FLAG" /\ decision = "ALLOW" -> "ALLOW_WITH_ALERT"
      [] OTHER -> decision

\* s_score below 0.42 adds a breach frame, below 0.35 the whale frame too.
TrajectoryFrames(depth) ==
    <<"TRAJECTORY_UPDATE">> \o SubSeq(<<"TAU_BREACH", "WHALE_RESONANCE">>, 1, depth)
                            \o <<"LEDGER_APPEND">>

Observation(decision) ==
    [entry_type |-> "observation", membrane_decision |-> decision, operating_mode |-> mode,
     transition_to_mode |-> NoMode, override_nonce |-> NoOverride]

Transition(target, nonce) ==
    [entry_type |-> "control_transition", membrane_decision |-> "NOT_EVALUATED",
     operating_mode |-> target, transition_to_mode |-> target, override_nonce |-> nonce]

Room == Len(ledger.entries) < bound.entries

\* _write_entry puts the line in the file; memory follows.  After a torn line
\* the new one runs into it, and nothing of it can be read back.
Record(fields) ==
    LET entry == NextEntry(ledger, fields)
    IN  /\ lines' = IF torn THEN lines ELSE Append(lines, entry)
        /\ ledger' = Appended(ledger, entry)
        /\ UNCHANGED <<torn, bound>>

\* _write_entry raises: the file is as it was, or ends in a partial line.
WriteFails ==
    /\ faults < bound.faults
    /\ faults' = faults + 1
    /\ torn' \in {torn, TRUE}
    /\ UNCHANGED <<lines, ledger, bound>>

\* The process dies in _write_entry: the line is there, or part of it.
DieWriting(fields) ==
    /\ faults < bound.faults
    /\ faults' = faults + 1
    /\ \/ ~torn /\ lines' = Append(lines, NextEntry(ledger, fields)) /\ UNCHANGED torn
       \/ torn' = TRUE /\ UNCHANGED lines
    /\ MemoryLost
    /\ UNCHANGED bound

\* adjudicate up to and including the append.  In SHADOW_OFF it answers at
\* once and changes nothing.  Raw input meets no runtime gate, and is refused
\* in ENFORCE.
Adjudicate(r, event) ==
    LET decision == RuntimeGates(event.gate, evaluate_membrane(event.severity, mode), mode)
    IN  /\ up /\ mode # "SHADOW_OFF" /\ Room
        /\ task[r].pc = "idle"
        /\ event.gate = "raw" => mode # "ENFORCE"
        /\ \/ /\ Record(Observation(decision))
              /\ task' = [task EXCEPT ![r] =
                    [pc |-> "streaming", frames |-> TrajectoryFrames(event.depth),
                     entry |-> Len(ledger.entries) + 1, decision |-> decision]]
              /\ UNCHANGED <<up, mode, used, hub, client, faults>>
           \/ /\ WriteFails
              /\ task' = [task EXCEPT ![r] = Idle]
              /\ UNCHANGED <<up, mode, used, hub, client>>
           \/ DieWriting(Observation(decision))
        /\ UNCHANGED oaths

\* KeyCeremony.sign_oath: the signature is made with the epoch's own key.
Oath(nonce, epoch) == [nonce |-> nonce, epoch |-> epoch]

\* The sign_oath endpoint: a fresh nonce, bound to the current epoch.  The
\* n-th oath gets the n-th nonce.
SignOath(nonce) ==
    /\ up
    /\ nonce = Cardinality(oaths) + 1 /\ nonce <= bound.oaths
    /\ oaths' = oaths \cup {Oath(nonce, current_epoch(ledger).epoch_id)}
    /\ UNCHANGED <<disk, up, ledger, mode, used, task, hub, client, faults>>

\* verify_oath: the nonce is new to this process, and the key is the current
\* epoch's.
verify_oath(oath) == oath.nonce \notin used /\ oath.epoch = current_epoch(ledger).epoch_id

AdmittedMut(target) == target # mode

Admitted(target) == (target = "ENFORCE" => mode = "SHADOW_CRITICAL") /\ target # mode

ModeAfterMut(target, recorded) == target

\* The mode a transition leaves: the target, once the append has succeeded.
ModeAfter(target, recorded) == IF recorded THEN target ELSE mode

\* request_transition up to and including the assignment of the mode.  The
\* nonce is spent by the verification, whatever happens to the append.
RequestTransition(r, target, oath) ==
    /\ up /\ Room
    /\ task[r].pc = "idle"
    /\ Admitted(target)
    /\ verify_oath(oath)
    /\ \/ /\ Record(Transition(target, oath.nonce))
          /\ mode' = ModeAfter(target, TRUE)
          /\ used' = used \cup {oath.nonce}
          /\ task' = [task EXCEPT ![r] = [Idle EXCEPT !.pc = "streaming",
                                                     !.frames = <<"MODE_TRANSITION">>]]
          /\ UNCHANGED <<up, hub, client, faults>>
       \/ /\ WriteFails
          /\ mode' = ModeAfter(target, FALSE)
          /\ used' = used \cup {oath.nonce}
          /\ task' = [task EXCEPT ![r] = Idle]
          /\ UNCHANGED <<up, hub, client>>
       \/ DieWriting(Transition(target, oath.nonce))
    /\ UNCHANGED oaths

(***************************************************************************)
(* The hub.                                                                *)
(***************************************************************************)

\* A coroutine that asks for the hub's lock waits behind those before it; the
\* head of the queue holds the lock.
Asked(kind, who, sequence) ==
    Append(hub.queue, [kind |-> kind, who |-> who, sequence |-> sequence])

ReleasedMut(queue) ==
    IF Len(queue) < 3 THEN Tail(queue) ELSE <<Last(queue)>> \o SubSeq(queue, 2, Len(queue) - 1)

\* Who gets the lock when the holder leaves: asyncio.Lock is first come,
\* first served.
Released(queue) == Tail(queue)

Holds(kind, who) ==
    hub.queue # << >> /\ Head(hub.queue).kind = kind /\ Head(hub.queue).who = who

Broadcasting == hub.queue # << >> /\ Head(hub.queue).kind = "frame"

\* broadcast_*: the sequence number is taken, then the lock is asked for.
NextFrame(who) ==
    hub' = [hub EXCEPT !.sequence = @ + 1, !.queue = Asked("frame", who, hub.sequence + 1)]

Stream(r) ==
    /\ task[r].pc = "streaming" /\ task[r].frames # << >>
    /\ NextFrame(r)
    /\ task' = [task EXCEPT ![r].pc = "broadcasting", ![r].frames = Tail(@)]
    /\ UNCHANGED <<disk, up, ledger, mode, used, oaths, client, faults>>

\* An OPERATOR_NOTE of a client is broadcast by that client's handler.
OperatorNote(c) ==
    /\ client[c].pc = "open" /\ hub.sequence < MaxNotes
    /\ NextFrame(c)
    /\ client' = [client EXCEPT ![c].pc = "noting"]
    /\ UNCHANGED <<disk, up, ledger, mode, used, oaths, task, faults>>

\* A failed send is not caught, and nothing marks the client as done.
SendFrameMut(c) ==
    /\ Broadcasting
    /\ c \in hub.connections \ hub.done
    /\ client[c].pc # "gone"
    /\ client' = [client EXCEPT ![c].last = Head(hub.queue).sequence]
    /\ hub' = [hub EXCEPT !.done = @ \cup {c}, !.stalled = @ \ {c}]
    /\ UNCHANGED <<disk, up, ledger, mode, used, oaths, task, faults>>

\* One send of the fan-out: it succeeds, or raises and the client is dropped
\* when the fan-out ends.  A client that is gone cannot be sent to.
SendFrame(c) ==
    /\ Broadcasting
    /\ c \in hub.connections \ hub.done
    /\ \/ /\ client[c].pc # "gone"
          /\ client' = [client EXCEPT ![c].last = Head(hub.queue).sequence]
          /\ hub' = [hub EXCEPT !.done = @ \cup {c}, !.stalled = @ \ {c}]
       \/ /\ hub' = [hub EXCEPT !.done = @ \cup {c}, !.dead = @ \cup {c}, !.stalled = @ \ {c}]
          /\ UNCHANGED client
    /\ UNCHANGED <<disk, up, ledger, mode, used, oaths, task, faults>>

\* A send waits for a client that does not read.  It has no time limit, and
\* the coroutine that waits holds the hub's lock.
Stalls(c) ==
    /\ Broadcasting
    /\ c \in hub.connections \ (hub.done \cup hub.stalled)
    /\ hub' = [hub EXCEPT !.stalled = @ \cup {c}]
    /\ UNCHANGED <<disk, up, ledger, mode, used, oaths, task, client, faults>>

\* What the end of a fan-out leaves: dead connections go, and the lock is
\* released.
Dropped == [hub EXCEPT !.connections = @ \ hub.dead, !.queue = Released(@),
                       !.done = {}, !.dead = {}]

\* The fan-out is complete, and the coroutine that broadcast resumes.
FinishFrame ==
    /\ Broadcasting
    /\ hub.done = hub.connections
    /\ hub' = Dropped
    /\ LET who == Head(hub.queue).who
       IN  \/ /\ who \in Requests
              /\ task' = [task EXCEPT ![who].pc = "streaming"]
              /\ UNCHANGED client
           \/ /\ who \in Clients
              /\ client' = [client EXCEPT ![who].pc = "open"]
              /\ UNCHANGED task
    /\ UNCHANGED <<disk, up, ledger, mode, used, oaths, faults>>

\* The membrane decision of the response, which also sets its
\* execution_allowed and execution_disposition.
Answer(r) == task[r].decision

\* The handler has broadcast everything and answers.
Answering(r) == task[r].pc = "streaming" /\ task[r].frames = << >>

Respond(r) ==
    /\ Answering(r)
    /\ task' = [task EXCEPT ![r] = Idle]
    /\ UNCHANGED <<disk, up, ledger, mode, used, oaths, hub, client, faults>>

\* connect: accepted, the client asks for the lock to be added ...
Connect(c) ==
    /\ up /\ c \in bound.clients /\ client[c].pc = "closed" /\ c \notin hub.connections
    /\ client' = [client EXCEPT ![c] = [pc |-> "joining", last |-> 0]]
    /\ hub' = [hub EXCEPT !.queue = Asked("connect", c, 0)]
    /\ UNCHANGED <<disk, up, ledger, mode, used, oaths, task, faults>>

Join(c) ==
    /\ Holds("connect", c)
    /\ hub' = [hub EXCEPT !.connections = @ \cup {c}, !.queue = Released(@)]
    /\ client' = [client EXCEPT ![c].pc = "greeting"]
    /\ UNCHANGED <<disk, up, ledger, mode, used, oaths, task, faults>>

\* ... and is greeted outside it.  When the greeting raises, the handler ends
\* before its try block, and the connection stays until a frame fails on it.
Greet(c) ==
    /\ client[c].pc = "greeting"
    /\ \E pc \in {"open", "gone"} : client' = [client EXCEPT ![c].pc = pc]
    /\ UNCHANGED <<disk, up, ledger, mode, used, oaths, task, hub, faults>>

\* The client's socket closes: its handler asks for the lock to remove it.
Disconnect(c) ==
    /\ client[c].pc = "open"
    /\ client' = [client EXCEPT ![c].pc = "leaving"]
    /\ hub' = [hub EXCEPT !.queue = Asked("disconnect", c, 0)]
    /\ UNCHANGED <<disk, up, ledger, mode, used, oaths, task, faults>>

Leave(c) ==
    /\ Holds("disconnect", c)
    /\ hub' = [hub EXCEPT !.connections = @ \ {c}, !.queue = Released(@)]
    /\ client' = [client EXCEPT ![c] = ClosedClient]
    /\ UNCHANGED <<disk, up, ledger, mode, used, oaths, task, faults>>

\* A client whose greeting failed and that was dropped may come back.
Forget(c) ==
    /\ client[c].pc = "gone" /\ c \notin hub.connections
    /\ client' = [client EXCEPT ![c] = ClosedClient]
    /\ UNCHANGED <<disk, up, ledger, mode, used, oaths, task, hub, faults>>

HubNext ==
    \/ \E r \in Requests : Stream(r) \/ Respond(r)
    \/ FinishFrame
    \/ \E c \in Clients : SendFrame(c) \/ Join(c) \/ Leave(c)

Next ==
    \/ \E configured \in Modes : Start(configured)
    \/ Die
    \/ \E nonce \in Nonces : SignOath(nonce)
    \/ \E r \in bound.requests :
          \/ \E event \in Events : Adjudicate(r, event)
          \/ \E target \in Modes, oath \in oaths : RequestTransition(r, target, oath)
    \/ \E c \in Clients :
          OperatorNote(c) \/ Connect(c) \/ Greet(c) \/ Disconnect(c) \/ Forget(c) \/ Stalls(c)
    \/ HubNext

\* The event loop runs every coroutine that can run.  Nothing makes the send
\* to a stalled client end.
FairSpec ==
    /\ Init /\ [][Next]_vars
    /\ \A r \in Requests : WF_vars(Stream(r)) /\ WF_vars(Respond(r))
    /\ WF_vars(FinishFrame)
    /\ \A c \in Clients : /\ WF_vars(c \notin hub.stalled /\ SendFrame(c))
                         /\ WF_vars(Join(c)) /\ WF_vars(Leave(c))

-----------------------------------------------------------------------------
(***************************************************************************)
(* Properties.                                                             *)
(***************************************************************************)

\* The types of the server's state: what _load_from_disk, the handlers and
\* the hub keep in memory and on disk.
TypeOK ==
    /\ torn \in BOOLEAN /\ up \in BOOLEAN
    /\ mode \in Modes \cup {NoMode}
    /\ used \subseteq Nonces
    /\ oaths \subseteq [nonce : Nonces, epoch : Nat]
    /\ \A r \in Requests :
          /\ task[r].pc \in {"idle", "streaming", "broadcasting"}
          /\ Range(task[r].frames) \subseteq Frames
          /\ task[r].entry \in 0..Len(ledger.entries)
          /\ task[r].decision \in Decisions
    /\ hub.done \subseteq hub.connections /\ hub.dead \subseteq hub.done
    /\ hub.stalled \subseteq hub.connections \ hub.done
    /\ hub.connections \subseteq Clients
    /\ \A c \in Clients : client[c].last \in 0..hub.sequence
    /\ faults \in 0..bound.faults

\* The mode in force is the one a restart would recover from the ledger:
\* request_transition advances app.state.mode only once the signed transition
\* is recorded, also when the write fails.
ModeIsLedgered == up /\ ledger.entries # << >> => mode = recover_last_mode(ledger.entries, mode)

\* Across writes that fail, deaths and restarts, ENFORCE is entered only by a
\* recorded transition out of SHADOW_CRITICAL, and an event is recorded in
\* the mode the entry before it left in force.  An empty ledger never starts
\* in ENFORCE, whatever mode the process is configured with.
EnforceIsEarned ==
    /\ lines # << >> => lines[1].operating_mode # "ENFORCE"
    /\ \A i \in 2..Len(lines) :
          LET before == recover_last_mode(SubSeq(lines, 1, i - 1), NoMode)
          IN  /\ lines[i].operating_mode = "ENFORCE" => before \in {"SHADOW_CRITICAL", "ENFORCE"}
              /\ lines[i].entry_type = "observation" => lines[i].operating_mode = before

\* An oath moves the mode at most once: no nonce is in two recorded
\* transitions, and each transition was signed in the epoch it is recorded in
\* (verify_oath with the epoch's key and the set of used nonces).
OathUsedOnce ==
    \A i \in DOMAIN lines :
        lines[i].override_nonce # NoOverride =>
            /\ \E o \in oaths : o.nonce = lines[i].override_nonce /\ o.epoch = lines[i].epoch
            /\ \A j \in DOMAIN lines \ {i} : lines[j].override_nonce # lines[i].override_nonce

\* As long as no write was torn, what the process holds is what a restart
\* would rebuild from the file: the entries, the epochs with their sealed
\* roots, and a chain that verify_full_chain accepts.
EpochsRebuilt == up /\ ~torn => ledger = LoadedLedger(lines) /\ verify_full_chain(lines)

\* The audit path served for an entry of a sealed epoch verifies against the
\* root of that epoch, and only with that entry's digest.
ProofsVerify ==
    \A e \in DOMAIN ledger.epochs : ledger.epochs[e].sealed =>
        \A i, j \in DOMAIN ledger.epochs[e].entries :
            verify_merkle_proof(ledger.epochs[e].entries[j].entry_hash,
                                get_merkle_proof(ledger, e, i),
                                ledger.epochs[e].merkle_root)
            <=> i = j

\* An answer that cites an entry gives the decision recorded there, and a
\* refusal was recorded in ENFORCE, whatever transitions and broadcasts ran
\* while the handler was awaiting.
AnswerIsLedgered ==
    \A r \in Requests : Answering(r) /\ task[r].entry # 0 =>
        LET entry == ledger.entries[task[r].entry]
        IN  /\ entry.membrane_decision = Answer(r)
            /\ Answer(r) = "BLOCK" => entry.operating_mode = "ENFORCE"

\* Memory and answers follow the ledger at every await: the state is well
\* formed, the mode is the one a restart recovers, and no answer differs from
\* the entry it cites.
ServerFollowsLedger == TypeOK /\ ModeIsLedgered /\ AnswerIsLedgered

\* No sequence of transitions, failures and restarts reaches ENFORCE except
\* by recorded steps, each with an oath of its own.
TransitionsEarned == EnforceIsEarned /\ OathUsedOnce

\* An auditor finds the same epochs before and after a restart, and their
\* proofs verify.
EpochsProvable == EpochsRebuilt /\ ProofsVerify

\* A client that stays connected receives the frames in the order of their
\* sequence numbers and without a gap, though numbers are taken before the
\* hub's lock is held.
FramesGapless ==
    [][\A c \in Clients :
          client'[c].last # client[c].last /\ client'[c].last # 0 /\ client[c].last # 0
              => client'[c].last = client[c].last + 1]_vars

\* A request that was recorded is answered, however many frames and clients
\* the hub has to serve, unless the process dies or the send to some client
\* never ends: broadcast holds the hub's lock while it awaits ws.send_text.
RequestsAnswered ==
    []<>(hub.stalled = {}) =>
        \A r \in Requests :
            task[r].pc \in {"streaming", "broadcasting"} ~> task[r].pc = "idle"

\* What the code says of its own ledger: a file that no write has torn loads
\* again, so that the mode is recovered from it and verify_full_chain, which
\* hashes the override's signature and nonce, accepts every entry.
LedgerReloads == ~torn => ChainLoads(lines)
=============================================================================
