--------------------------- MODULE HostCheckpoint ---------------------------
(***************************************************************************)
(* A host that keeps its own trust checkpoint in a file (CheckpointStore,  *)
(* LocalAnchorCAS) and compares it with signed observations of the         *)
(* authority (ep02_authenticated_anchor.py), next to the clients that move *)
(* the authority's checkpoint.                                             *)
(***************************************************************************)
EXTENDS ExternalCAS

CONSTANTS MaxAsked,    \* bound on the anchor challenges the host draws
          MaxActive    \* bound on the processes (clients and host) that act in one behaviour

VARIABLES local,          \* the checkpoint file, None when absent
          anchor,         \* the host's last challenge, the authority's revision then, the verdict
          observations    \* the signed observations made so far, old ones included

hostVars == <<local, anchor, observations>>
allVars == <<vars, hostVars>>

HostInit ==
    /\ Init /\ local = None /\ observations = {}
    /\ anchor = [challenge |-> 0, asked |-> 0, verdict |-> "-"]

(***************************************************************************)
(* advance and compare_and_swap run under the file lock and install the    *)
(* new file by rename, so each is one step; an error after the rename      *)
(* leaves the new file and the caller in doubt.                            *)
(***************************************************************************)
LocalAdvance(s) ==
    /\ IF local = None THEN verify_bound_snapshot(s, 1)
                       ELSE validate_successor(local, s) = "ADVANCED"
    /\ local' = TrustCheckpoint(s)
    /\ UNCHANGED <<anchor, observations>>

LocalCAS(expected, s) ==
    /\ local # None /\ local = expected
    /\ validate_successor(local, s) = "ADVANCED"
    /\ local' = TrustCheckpoint(s)
    /\ UNCHANGED <<anchor, observations>>

(***************************************************************************)
(* assess_signed_anchor: the host draws a challenge, the anchor signs its  *)
(* checkpoint for it, and the host compares the two checkpoints.           *)
(***************************************************************************)
AskAnchor ==
    /\ local # None /\ anchor.challenge < MaxAsked
    /\ anchor' = [challenge |-> anchor.challenge + 1, asked |-> Revision(checkpoint), verdict |-> "-"]
    /\ UNCHANGED <<local, observations>>

(* The anchor answers each challenge once, perhaps long after it was sent. *)
SignObservation(n) ==
    /\ checkpoint # None /\ \A m \in observations : m.challenge # n
    /\ observations' = observations \cup {[checkpoint |-> checkpoint, challenge |-> n]}
    /\ UNCHANGED <<local, anchor>>

verify_anchor(m) == m.challenge = anchor.challenge

AssessAnchor(m) ==
    /\ anchor.challenge # 0
    /\ anchor' = [anchor EXCEPT !.verdict = IF verify_anchor(m) THEN assess_anchor(local, m.checkpoint)
                                            ELSE "ANCHOR_AUTHENTICATION_FAILED"]
    /\ UNCHANGED <<local, observations>>

HostNext == \/ \E s \in Snapshots : LocalAdvance(s)
            \/ \E k \in Checkpoints, s \in Snapshots : LocalCAS(k, s)
            \/ AskAnchor
            \/ \E n \in 1 .. anchor.challenge : SignObservation(n)
            \/ \E m \in observations : AssessAnchor(m)

Active == Cardinality({c \in Clients : cl[c].pc # "idle"}) + (IF local = None THEN 0 ELSE 1)

AllNext == /\ \/ Next /\ UNCHANGED hostVars
              \/ HostNext /\ UNCHANGED vars
           /\ Active' <= MaxActive

FairSpec == HostInit /\ [][AllNext]_allVars /\ Fairness

-----------------------------------------------------------------------------
(* When the host concludes that the checkpoints agree, its file is not     *)
(* behind what the authority had when the host asked: an old observation   *)
(* cannot be replayed to hide a rotation from it.                          *)
AgreementIsFresh ==
    anchor.verdict = "CHECKPOINTS_AGREE" => Revision(local) >= anchor.asked

(* No verified answer, replayed by the network or read late, shows a       *)
(* client or the host a state older than its own question.                 *)
AnswersAreFresh == LookupIsFresh /\ AgreementIsFresh

LocalRegister == INSTANCE TrustRegister WITH mark <- local

(* The file-based store is the same monotone register as the authority.    *)
LocalImplementsRegister == LocalRegister!Spec

(* Neither checkpoint store ever moves back or aside, whoever races,       *)
(* repeats or forges: both implement TrustRegister.                        *)
StoresAreRegisters == ImplementsRegister /\ LocalImplementsRegister
=============================================================================
