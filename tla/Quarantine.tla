----------------------------- MODULE Quarantine -----------------------------
(***************************************************************************)
(* The QUARANTINE_LOCK mark shared by all worker processes: the three      *)
(* files of operations/registry.py (mark, initialized sentinel, pending    *)
(* release) with set_quarantine and authorized_release_quarantine, as      *)
(* MembraneState.lock_quarantine and release_quarantine call them.         *)
(*                                                                         *)
(* gate is quarantine_guard, the file lock every read and write of the     *)
(* mark takes; mutex is MembraneState._quarantine_lock of one process.     *)
(* The trusted verifier runs with neither held.  Each durable write is one *)
(* step; it may raise before or after it took effect, and the process may  *)
(* die between two of them.  Lock ids are uuids: numbers here, never       *)
(* reused.                                                                 *)
(***************************************************************************)
EXTENDS Naturals, FiniteSets

CONSTANTS Threads, Procs, ProcOf,  \* threads, processes, process of a thread
          Incidents,               \* incident ids a caller may report
          NoIncident, NoThread,
          MaxLocks,                \* bound on lock ids
          MaxFaults                \* bound on crashes, failed writes and damage

ASSUME QuarantineAssumption ==
    /\ ProcOf \in [Threads -> Procs]
    /\ NoIncident \notin Incidents /\ NoThread \notin Threads
    /\ MaxLocks \in Nat /\ MaxFaults \in Nat

VARIABLES mark,      \* <store>.quarantine.json
          sentinel,  \* <store>.quarantine.initialized exists
          pending,   \* <store>.quarantine.release-pending exists
          gate,      \* holder of quarantine_guard
          mutex,     \* holder of each process's _quarantine_lock
          local,     \* MembraneState.quarantine of each process
          th,        \* where each thread is
          lastId,    \* history: the last lock id written to the mark
          approved,  \* history: lock ids the verifier authorised a release of
          aborted,   \* history: lock ids whose release failed half way
          acked,     \* history: the lock id last acknowledged in each process
          faults

files == <<mark, sentinel, pending>>
history == <<lastId, approved, aborted, acked>>
vars == <<files, gate, mutex, local, th, history, faults>>

(* receipt is the lock id inside release_receipt, 0 when there is none.    *)
(* "malformed" is every content the reader cannot use.                     *)
Marks == [state : {"absent", "active", "inactive", "malformed"}, id : Nat,
          incident : Incidents \cup {NoIncident}, receipt : Nat]

NoMark == [state |-> "absent", id |-> 0, incident |-> NoIncident, receipt |-> 0]

ActiveMark(id, i) == [state |-> "active", id |-> id, incident |-> i, receipt |-> 0]
InactiveMark(id, proof) ==
    [state |-> "inactive", id |-> id, incident |-> NoIncident, receipt |-> proof]

PCs == {"idle", "lock", "set", "sentinel", "mark", "ack",
        "verify", "recheck", "begin", "write", "finish", "local"}

(* incident: the argument of lock_quarantine; id: the lock id written or   *)
(* re-read; proof: the lock id the release was verified for.               *)
ThreadStates == [pc : PCs, incident : Incidents \cup {NoIncident}, id : Nat, proof : Nat]

IdleThread == [pc |-> "idle", incident |-> NoIncident, id |-> 0, proof |-> 0]

TypeOK ==
    /\ mark \in Marks
    /\ sentinel \in BOOLEAN
    /\ pending \in BOOLEAN
    /\ gate \in Threads \cup {NoThread}
    /\ mutex \in [Procs -> Threads \cup {NoThread}]
    /\ local \in [Procs -> BOOLEAN]
    /\ th \in [Threads -> ThreadStates]
    /\ lastId \in Nat
    /\ approved \subseteq Nat
    /\ aborted \subseteq Nat
    /\ acked \in [Procs -> Nat]
    /\ faults \in Nat

(* A new store, or one whose active mark was written before the sentinel   *)
(* file was introduced.                                                    *)
Init ==
    /\ \/ mark = NoMark /\ lastId = 0
       \/ mark = ActiveMark(1, NoIncident) /\ lastId = 1
    /\ sentinel = FALSE
    /\ pending = FALSE
    /\ gate = NoThread
    /\ mutex = [p \in Procs |-> NoThread]
    /\ local = [p \in Procs |-> FALSE]
    /\ th = [t \in Threads |-> IdleThread]
    /\ approved = {}
    /\ aborted = {}
    /\ acked = [p \in Procs |-> 0]
    /\ faults = 0

-----------------------------------------------------------------------------
\* Mutant of ReadMark: a missing mark is an untouched store.
ReadMarkMut ==
    CASE pending -> "corrupted"
      [] ~pending /\ mark.state = "active" -> "locked"
      [] ~pending /\ mark.state = "inactive" /\ mark.receipt = mark.id -> "clear"
      [] ~pending /\ mark.state = "absent" -> "clear"
      [] OTHER -> "corrupted"

(* _quarantine_read_locked.  A pending release, a mark that vanished after *)
(* the sentinel was written, an unusable mark, and an inactive mark        *)
(* without its own receipt are all read as active and corrupted.           *)
ReadMark ==
    CASE pending -> "corrupted"
      [] ~pending /\ mark.state = "active" -> "locked"
      [] ~pending /\ mark.state = "inactive" /\ mark.receipt = mark.id -> "clear"
      [] ~pending /\ mark.state = "absent" /\ ~sentinel -> "clear"
      [] OTHER -> "corrupted"

\* The reader also migrates a mark older than the sentinel file.
MigrateSentinel == sentinel' = (sentinel \/ (~pending /\ mark.state # "absent"))

At(t, pc) == th[t].pc = pc
Goto(t, pc) == th' = [th EXCEPT ![t].pc = pc]

\* The method returns or raises; the locks it held are released.
Return(t) ==
    /\ th' = [th EXCEPT ![t] = IdleThread]
    /\ gate' = IF gate = t THEN NoThread ELSE gate
    /\ mutex' = [mutex EXCEPT ![ProcOf[t]] = IF @ = t THEN NoThread ELSE @]

\* quarantine_is_active, as every guarded admission or dispatch calls it.
QuarantineIsActive ==
    /\ gate = NoThread
    /\ MigrateSentinel
    /\ UNCHANGED <<mark, pending, gate, mutex, local, th, history, faults>>

-----------------------------------------------------------------------------
InLock(t) == th[t].pc \in {"lock", "set", "sentinel", "mark"}

\* MembraneState.lock_quarantine: the process mutex, then set_quarantine.
LockCall(t, i) ==
    /\ At(t, "idle")
    /\ lastId + Cardinality({u \in Threads : InLock(u)}) < MaxLocks
    /\ th' = [th EXCEPT ![t].pc = "lock", ![t].incident = i]
    /\ UNCHANGED <<files, gate, mutex, local, history, faults>>

LockEnter(t) ==
    /\ At(t, "lock")
    /\ mutex[ProcOf[t]] = NoThread
    /\ mutex' = [mutex EXCEPT ![ProcOf[t]] = t]
    /\ Goto(t, "set")
    /\ UNCHANGED <<files, gate, local, history, faults>>

(* A corrupt mark raises; the same incident, or none, is an idempotent     *)
(* reassertion; otherwise a new lock identity is written.                  *)
SetRead(t) ==
    LET again == /\ ReadMark = "locked"
                 /\ th[t].incident \in {NoIncident, mark.incident}
        fresh == ReadMark # "corrupted" /\ ~again
    IN  /\ At(t, "set")
        /\ gate = NoThread
        /\ MigrateSentinel
        /\ CASE ReadMark = "corrupted" -> Return(t)
             [] again -> /\ th' = [th EXCEPT ![t].pc = "ack", ![t].id = mark.id]
                         /\ UNCHANGED <<gate, mutex>>
             [] fresh -> /\ th' = [th EXCEPT ![t].pc = "sentinel", ![t].id = lastId + 1]
                         /\ gate' = t
                         /\ UNCHANGED mutex
        /\ UNCHANGED <<mark, pending, local, history, faults>>

\* The sentinel is on disk before the first mark.
SetSentinel(t) ==
    /\ At(t, "sentinel")
    /\ sentinel' = TRUE
    /\ Goto(t, "mark")
    /\ UNCHANGED <<mark, pending, gate, mutex, local, history, faults>>

SetMark(t) ==
    /\ At(t, "mark")
    /\ mark' = ActiveMark(th[t].id, th[t].incident)
    /\ lastId' = th[t].id
    /\ Goto(t, "ack")
    /\ gate' = NoThread
    /\ UNCHANGED <<sentinel, pending, mutex, local, approved, aborted, acked, faults>>

\* The durable mark exists; now the process acknowledges it.
LockAck(t) ==
    /\ At(t, "ack")
    /\ local' = [local EXCEPT ![ProcOf[t]] = TRUE]
    /\ acked' = [acked EXCEPT ![ProcOf[t]] = th[t].id]
    /\ Return(t)
    /\ UNCHANGED <<files, lastId, approved, aborted, faults>>

-----------------------------------------------------------------------------
\* Mutant of ReleaseCall: the gate is kept while the verifier runs.
ReleaseCallMut(t) ==
    /\ At(t, "idle")
    /\ gate = NoThread
    /\ MigrateSentinel
    /\ ReadMark = "locked"
    /\ th' = [th EXCEPT ![t].pc = "verify", ![t].proof = mark.id]
    /\ gate' = t
    /\ UNCHANGED <<mark, pending, mutex, local, history, faults>>

\* authorized_release_quarantine reads the lock id to be released.
ReleaseCall(t) ==
    /\ At(t, "idle")
    /\ gate = NoThread
    /\ MigrateSentinel
    /\ ReadMark = "locked"
    /\ th' = [th EXCEPT ![t].pc = "verify", ![t].proof = mark.id]
    /\ UNCHANGED <<mark, pending, gate, mutex, local, history, faults>>

\* External: the verifier attests a release bound to that lock id, or not.
Verify(t) ==
    /\ At(t, "verify")
    /\ \/ /\ approved' = approved \cup {th[t].proof}
          /\ Goto(t, "recheck") /\ UNCHANGED <<gate, mutex>>
       \/ UNCHANGED approved /\ Return(t)
    /\ UNCHANGED <<files, local, lastId, aborted, acked, faults>>

\* Mutant of SameLock: a proof for any lock will do.
SameLockMut(t) == ReadMark = "locked"

SameLock(t) == ReadMark = "locked" /\ mark.id = th[t].proof

\* Under the (re-entrant) gate again: the mark must still carry the verified lock id.
ReleaseRecheck(t) ==
    /\ At(t, "recheck")
    /\ gate \in {NoThread, t}
    /\ MigrateSentinel
    /\ IF SameLock(t)
         THEN /\ th' = [th EXCEPT ![t].pc = "begin", ![t].id = mark.id]
              /\ gate' = t
              /\ UNCHANGED mutex
         ELSE Return(t)
    /\ UNCHANGED <<mark, pending, local, history, faults>>

\* Mutant of ReleaseBegin: no pending file protects the mark replacement.
ReleaseBeginMut(t) ==
    /\ At(t, "begin")
    /\ Goto(t, "write")
    /\ UNCHANGED <<files, gate, mutex, local, history, faults>>

ReleaseBegin(t) ==
    /\ At(t, "begin")
    /\ pending' = TRUE
    /\ Goto(t, "write")
    /\ UNCHANGED <<mark, sentinel, gate, mutex, local, history, faults>>

ReleaseWrite(t) ==
    /\ At(t, "write")
    /\ mark' = InactiveMark(th[t].id, th[t].proof)
    /\ sentinel' = TRUE
    /\ Goto(t, "finish")
    /\ UNCHANGED <<pending, gate, mutex, local, history, faults>>

\* Unlinking the pending file is the commit point of the release.
ReleaseFinish(t) ==
    /\ At(t, "finish")
    /\ pending' = FALSE
    /\ Goto(t, "local")
    /\ gate' = NoThread
    /\ UNCHANGED <<mark, sentinel, mutex, local, history, faults>>

\* Mutant of ReleaseLocal: the process forgets the lock without looking again.
ReleaseLocalMut(t) ==
    /\ At(t, "local")
    /\ mutex[ProcOf[t]] = NoThread
    /\ local' = [local EXCEPT ![ProcOf[t]] = FALSE]
    /\ Return(t)
    /\ UNCHANGED <<files, history, faults>>

(* release_quarantine clears the flag of the process under its mutex, and  *)
(* only if no newer lock has been set meanwhile.                           *)
ReleaseLocal(t) ==
    /\ At(t, "local")
    /\ mutex[ProcOf[t]] = NoThread
    /\ gate = NoThread
    /\ MigrateSentinel
    /\ local' = [local EXCEPT ![ProcOf[t]] = IF ReadMark = "clear" THEN FALSE ELSE @]
    /\ Return(t)
    /\ UNCHANGED <<mark, pending, history, faults>>

-----------------------------------------------------------------------------
(* A durable write raises, before or after it took effect (a failing fsync *)
(* leaves the new file in place), and the method gives up.                 *)
WriteFails(t) ==
    /\ faults < MaxFaults
    /\ faults' = faults + 1
    /\ \/ /\ At(t, "sentinel")
          /\ sentinel' \in {sentinel, TRUE}
          /\ UNCHANGED <<mark, pending, lastId, aborted>>
       \/ /\ At(t, "mark")
          /\ \/ UNCHANGED <<mark, lastId>>
             \/ mark' = ActiveMark(th[t].id, th[t].incident) /\ lastId' = th[t].id
          /\ UNCHANGED <<sentinel, pending, aborted>>
       \/ /\ At(t, "begin")
          /\ pending' \in BOOLEAN
          /\ UNCHANGED <<mark, sentinel, lastId, aborted>>
       \/ /\ At(t, "write")
          /\ mark' \in {mark, InactiveMark(th[t].id, th[t].proof)}
          /\ aborted' = aborted \cup {th[t].id}
          /\ UNCHANGED <<sentinel, pending, lastId>>
       \/ /\ At(t, "finish")
          /\ \/ aborted' = aborted \cup {th[t].id} /\ UNCHANGED pending
             \/ pending' = FALSE /\ UNCHANGED aborted
          /\ UNCHANGED <<mark, sentinel, lastId>>
    /\ Return(t)
    /\ UNCHANGED <<local, approved, acked>>

\* A process dies; its memory and its locks are gone, the files stay.
Crash(p) ==
    LET Mine == {t \in Threads : ProcOf[t] = p}
    IN  /\ faults < MaxFaults
        /\ faults' = faults + 1
        /\ aborted' = aborted \cup
             {th[t].id : t \in {u \in Mine : th[u].pc \in {"write", "finish"}}}
        /\ th' = [t \in Threads |-> IF t \in Mine THEN IdleThread ELSE th[t]]
        /\ gate' = IF gate \in Mine THEN NoThread ELSE gate
        /\ mutex' = [mutex EXCEPT ![p] = NoThread]
        /\ local' = [local EXCEPT ![p] = FALSE]
        /\ acked' = [acked EXCEPT ![p] = 0]
        /\ UNCHANGED <<files, lastId, approved>>

(* External: the mark file is lost, truncated, or reduced to an inactive   *)
(* mark without a receipt.  A mark that predates the sentinel and is lost  *)
(* before its first read cannot be told from an untouched store.           *)
DamageMark ==
    /\ faults < MaxFaults
    /\ faults' = faults + 1
    /\ sentinel
    /\ mark' \in {NoMark, [NoMark EXCEPT !.state = "malformed"],
                  [mark EXCEPT !.state = "inactive", !.receipt = 0]}
    /\ mark'.state = "inactive" => mark.id # 0
    /\ UNCHANGED <<sentinel, pending, gate, mutex, local, th, history>>

-----------------------------------------------------------------------------
Locking(t) == LockEnter(t) \/ SetRead(t) \/ SetSentinel(t) \/ SetMark(t) \/ LockAck(t)
Releasing(t) == \/ ReleaseRecheck(t) \/ ReleaseBegin(t) \/ ReleaseWrite(t)
                \/ ReleaseFinish(t) \/ ReleaseLocal(t)

Next ==
    \/ QuarantineIsActive
    \/ \E t \in Threads, i \in Incidents \cup {NoIncident} : LockCall(t, i)
    \/ \E t \in Threads : Locking(t)
    \/ \E t \in Threads : ReleaseCall(t)
    \/ \E t \in Threads : Verify(t)
    \/ \E t \in Threads : Releasing(t)
    \/ \E t \in Threads : WriteFails(t)
    \/ \E p \in Procs : Crash(p)
    \/ DamageMark

Spec == Init /\ [][Next]_vars

(* Methods under way go on and neither lock starves a waiter, but the      *)
(* verifier, external and possibly slow, may never answer.                 *)
FairSpec ==
    /\ Spec
    /\ \A t \in Threads : SF_vars(Locking(t)) /\ SF_vars(Releasing(t))

-----------------------------------------------------------------------------
(* Fail closed: admission reads an open mark only if no lock was ever      *)
(* written or the verifier authorised the release of the last one,         *)
(* whatever crashed, failed or was damaged in between.                     *)
FailClosed == ReadMark = "clear" => lastId = 0 \/ lastId \in approved

(* A release that crashed or raised before its commit point has not opened *)
(* admission, although the inactive mark may already be on disk.           *)
AbortedStaysClosed == ReadMark = "clear" => lastId \notin aborted

(* A lock acknowledged in this process and still in force is known to it:  *)
(* the tail of an older release does not clear the flag of a newer lock.   *)
LocalFlagSound ==
    \A p \in Procs : ReadMark = "locked" /\ acked[p] = mark.id => local[p]

(* A mark is made inactive only on a proof for the very lock it carries: a *)
(* proof obtained for an earlier incident does not release a renewed one.  *)
ProofMatchesLock ==
    [][mark' # mark /\ mark'.receipt # 0 => mark'.id = mark'.receipt /\ mark'.id \in approved]_vars

(* "Other workers must retain access to emergency locking": a call of      *)
(* lock_quarantine returns even if a verifier never does.                  *)
EmergencyLockReturns ==
    \A t \in Threads : At(t, "lock") ~> At(t, "idle")
=============================================================================
