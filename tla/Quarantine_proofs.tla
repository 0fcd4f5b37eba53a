------------------------- MODULE Quarantine_proofs -------------------------
(***************************************************************************)
(* Proofs about Quarantine, for any number of processes, threads, lock     *)
(* renewals, crashes, failed writes and damaged marks.                     *)
(***************************************************************************)
EXTENDS Quarantine, TLAPS

\* The sentinel is on disk, or the mark still is the one written before it existed.
SentinelKept == lastId # 0 => sentinel \/ mark.state = "active"

(* An active mark carries the last lock id; a receipt in the mark proves   *)
(* the authorised release of that very id.                                 *)
MarkCurrent ==
    /\ mark.state = "active" => mark.id = lastId /\ lastId # 0
    /\ mark.state = "inactive" => mark.id # 0
    /\ mark.receipt # 0 => /\ mark.state = "inactive"
                           /\ mark.receipt = lastId /\ mark.id = lastId
                           /\ lastId \in approved

Setting == {"sentinel", "mark"}
Ending == {"begin", "write", "finish"}

(* What a thread knows at each step.  The gate is what keeps the id read   *)
(* by one thread equal to lastId while it writes.                          *)
ThreadOK(t) ==
    /\ th[t].pc \in Setting => gate = t /\ th[t].id = lastId + 1
    /\ th[t].pc = "mark" => sentinel
    /\ th[t].pc \in Ending =>
         /\ gate = t /\ sentinel
         /\ th[t].id = lastId /\ th[t].proof = lastId
         /\ lastId \in approved /\ lastId # 0
    /\ th[t].pc \in {"write", "finish"} => pending
    /\ th[t].pc = "recheck" => th[t].proof \in approved
    /\ th[t].pc = "ack" => th[t].id <= lastId

ThreadsOK == \A t \in Threads : ThreadOK(t)

(* A release that was given up leaves the pending file, and then nobody    *)
(* writes the mark again.                                                  *)
AbortsPending ==
    /\ \A x \in aborted : x <= lastId
    /\ lastId \in aborted => /\ pending
                             /\ \A t \in Threads : th[t].pc \notin Setting \cup Ending

LocalOK ==
    \A p \in Procs : /\ acked[p] <= lastId
                     /\ local[p] \/ acked[p] # lastId \/ mark.state # "active"

IInv ==
    /\ TypeOK
    /\ SentinelKept
    /\ MarkCurrent
    /\ ThreadsOK
    /\ AbortsPending
    /\ LocalOK

-----------------------------------------------------------------------------
\* What the reader's answers mean.
LEMMA ReadFacts ==
    ASSUME TypeOK
    PROVE  /\ ReadMark = "locked" <=> ~pending /\ mark.state = "active"
           /\ ReadMark = "clear" <=>
                /\ ~pending
                /\ \/ mark.state = "inactive" /\ mark.receipt = mark.id
                   \/ mark.state = "absent" /\ ~sentinel
  BY DEF TypeOK, ReadMark, Marks

\* An admission that reads "clear" is justified.
LEMMA Justified ==
    ASSUME IInv
    PROVE  FailClosed /\ AbortedStaysClosed /\ LocalFlagSound
  <1> USE DEF IInv
  <1>1. FailClosed BY ReadFacts DEF FailClosed, SentinelKept, MarkCurrent
  <1>2. AbortedStaysClosed BY ReadFacts DEF AbortedStaysClosed, AbortsPending
  <1>3. LocalFlagSound BY ReadFacts DEF LocalFlagSound, LocalOK, MarkCurrent
  <1> QED BY <1>1, <1>2, <1>3

LEMMA InitIInv == Init => IInv
  <1> SUFFICES ASSUME Init PROVE IInv OBVIOUS
  <1> USE QuarantineAssumption
  <1>1. TypeOK
    <2>1. mark \in Marks /\ lastId \in Nat
      BY DEF Init, NoMark, ActiveMark, Marks
    <2>2. th \in [Threads -> ThreadStates]
      BY DEF Init, IdleThread, ThreadStates, PCs
    <2> QED BY <2>1, <2>2 DEF Init, TypeOK
  <1>2. SentinelKept /\ MarkCurrent
    BY DEF Init, SentinelKept, MarkCurrent, NoMark, ActiveMark
  <1>3. ThreadsOK /\ AbortsPending
    BY DEF Init, ThreadsOK, ThreadOK, AbortsPending, IdleThread, Setting, Ending
  <1>4. LocalOK
    BY DEF Init, LocalOK, NoMark, ActiveMark
  <1> QED BY <1>1, <1>2, <1>3, <1>4 DEF IInv

-----------------------------------------------------------------------------
\* Type correctness is preserved by every step.
LEMMA NextTypeOK == TypeOK /\ [Next]_vars => TypeOK'
  <1> SUFFICES ASSUME TypeOK, [Next]_vars PROVE TypeOK' OBVIOUS
  <1> USE QuarantineAssumption DEF TypeOK, files, history
  <1>0. \A t \in Threads : /\ th[t].id \in Nat /\ th[t].proof \in Nat
                           /\ th[t].incident \in Incidents \cup {NoIncident}
                           /\ ProcOf[t] \in Procs
    BY DEF ThreadStates
  <1>1. IdleThread \in ThreadStates BY DEF IdleThread, ThreadStates, PCs
  <1>2. \A t \in Threads, pc \in PCs : [th EXCEPT ![t].pc = pc] \in [Threads -> ThreadStates]
    BY DEF ThreadStates
  <1>3. mark.id \in Nat BY DEF Marks
  <1>4. ASSUME NEW t \in Threads, Return(t)
        PROVE  /\ th' \in [Threads -> ThreadStates]
               /\ gate' \in Threads \cup {NoThread}
               /\ mutex' \in [Procs -> Threads \cup {NoThread}]
    BY <1>0, <1>1, <1>4 DEF Return
  <1>5. CASE QuarantineIsActive
    BY <1>5 DEF QuarantineIsActive, MigrateSentinel
  <1>6. ASSUME NEW t \in Threads, NEW i \in Incidents \cup {NoIncident}, LockCall(t, i)
        PROVE  TypeOK'
    BY <1>6 DEF LockCall, ThreadStates, PCs
  <1>7. ASSUME NEW t \in Threads, LockEnter(t) PROVE TypeOK'
    BY <1>0, <1>2, <1>7 DEF LockEnter, Goto, PCs
  <1>8. ASSUME NEW t \in Threads, SetRead(t) PROVE TypeOK'
    <2>1. sentinel' \in BOOLEAN BY <1>8 DEF SetRead, MigrateSentinel
    <2>2. \/ Return(t)
          \/ /\ th' = [th EXCEPT ![t].pc = "ack", ![t].id = mark.id]
             /\ UNCHANGED <<gate, mutex>>
          \/ /\ th' = [th EXCEPT ![t].pc = "sentinel", ![t].id = lastId + 1]
             /\ gate' = t /\ UNCHANGED mutex
      BY <1>8 DEF SetRead
    <2>3. /\ th' \in [Threads -> ThreadStates]
          /\ gate' \in Threads \cup {NoThread}
          /\ mutex' \in [Procs -> Threads \cup {NoThread}]
      BY <2>2, <1>3, <1>4 DEF ThreadStates, PCs
    <2> QED BY <1>8, <2>1, <2>3 DEF SetRead
  <1>9. ASSUME NEW t \in Threads, SetSentinel(t) PROVE TypeOK'
    BY <1>2, <1>9 DEF SetSentinel, Goto, PCs
  <1>10. ASSUME NEW t \in Threads, SetMark(t) PROVE TypeOK'
    BY <1>0, <1>2, <1>10 DEF SetMark, Goto, PCs, ActiveMark, Marks
  <1>11. ASSUME NEW t \in Threads, LockAck(t) PROVE TypeOK'
    BY <1>0, <1>4, <1>11 DEF LockAck
  <1>12. ASSUME NEW t \in Threads, ReleaseCall(t) PROVE TypeOK'
    BY <1>3, <1>12 DEF ReleaseCall, MigrateSentinel, ThreadStates, PCs
  <1>13. ASSUME NEW t \in Threads, Verify(t) PROVE TypeOK'
    <2>1. CASE approved' = approved \cup {th[t].proof} /\ Goto(t, "recheck")
                 /\ UNCHANGED <<gate, mutex>>
      <3>1. approved' \subseteq Nat BY <1>0, <2>1
      <3>2. th' \in [Threads -> ThreadStates] BY <1>2, <2>1 DEF Goto, PCs
      <3> QED BY <1>13, <2>1, <3>1, <3>2 DEF Verify
    <2>2. CASE UNCHANGED approved /\ Return(t)
      BY <1>4, <1>13, <2>2 DEF Verify
    <2> QED BY <1>13, <2>1, <2>2 DEF Verify
  <1>14. ASSUME NEW t \in Threads, ReleaseRecheck(t) PROVE TypeOK'
    BY <1>3, <1>4, <1>14 DEF ReleaseRecheck, MigrateSentinel, ThreadStates, PCs
  <1>15. ASSUME NEW t \in Threads, ReleaseBegin(t) PROVE TypeOK'
    BY <1>2, <1>15 DEF ReleaseBegin, Goto, PCs
  <1>16. ASSUME NEW t \in Threads, ReleaseWrite(t) PROVE TypeOK'
    BY <1>0, <1>2, <1>16 DEF ReleaseWrite, Goto, PCs, InactiveMark, Marks
  <1>17. ASSUME NEW t \in Threads, ReleaseFinish(t) PROVE TypeOK'
    BY <1>2, <1>17 DEF ReleaseFinish, Goto, PCs
  <1>18. ASSUME NEW t \in Threads, ReleaseLocal(t) PROVE TypeOK'
    BY <1>0, <1>4, <1>18 DEF ReleaseLocal, MigrateSentinel
  <1>19. ASSUME NEW t \in Threads, WriteFails(t) PROVE TypeOK'
    <2>1. ActiveMark(th[t].id, th[t].incident) \in Marks
      BY <1>0 DEF ActiveMark, Marks
    <2>2. InactiveMark(th[t].id, th[t].proof) \in Marks
      BY <1>0 DEF InactiveMark, Marks
    <2>3. Return(t) BY <1>19 DEF WriteFails
    <2>4. faults' \in Nat BY <1>19 DEF WriteFails
    <2>5. mark' \in Marks BY <1>19, <2>1, <2>2 DEF WriteFails
    <2>6. sentinel' \in BOOLEAN /\ pending' \in BOOLEAN BY <1>19 DEF WriteFails
    <2>7. lastId' \in Nat /\ aborted' \subseteq Nat BY <1>0, <1>19 DEF WriteFails
    <2> QED BY <1>4, <1>19, <2>3, <2>4, <2>5, <2>6, <2>7 DEF WriteFails
  <1>20. ASSUME NEW p \in Procs, Crash(p) PROVE TypeOK'
    <2>1. aborted' \subseteq Nat BY <1>0, <1>20 DEF Crash
    <2>2. th' \in [Threads -> ThreadStates] BY <1>1, <1>20 DEF Crash
    <2>3. /\ gate' \in Threads \cup {NoThread}
          /\ mutex' \in [Procs -> Threads \cup {NoThread}]
          /\ local' \in [Procs -> BOOLEAN] /\ acked' \in [Procs -> Nat] /\ faults' \in Nat
      BY <1>20 DEF Crash
    <2> QED BY <1>20, <2>1, <2>2, <2>3 DEF Crash
  <1>21. CASE DamageMark
    <2>1. mark' \in Marks
      <3>1. NoMark \in Marks /\ [NoMark EXCEPT !.state = "malformed"] \in Marks
        BY DEF NoMark, Marks
      <3>2. [mark EXCEPT !.state = "inactive", !.receipt = 0] \in Marks BY DEF Marks
      <3> QED BY <1>21, <3>1, <3>2 DEF DamageMark
    <2> QED BY <1>21, <2>1 DEF DamageMark
  <1>22. CASE UNCHANGED vars
    BY <1>22 DEF vars
  <1> QED
    BY <1>5, <1>6, <1>7, <1>8, <1>9, <1>10, <1>11, <1>12, <1>13, <1>14, <1>15, <1>16,
       <1>17, <1>18, <1>19, <1>20, <1>21, <1>22
    DEF Next, Locking, Releasing

-----------------------------------------------------------------------------
(* A step of thread t leaves what another thread u knows intact if it      *)
(* respects u's possession of the gate.                                    *)
Respects(t) ==
    /\ \A u \in Threads \ {t} : th'[u] = th[u] /\ (gate = u => gate' = u)
    /\ lastId <= lastId'
    /\ approved \subseteq approved'
    /\ sentinel => sentinel'
    /\ gate \in {t, NoThread} \/ (lastId' = lastId /\ pending' = pending)

LEMMA OthersOK ==
    ASSUME TypeOK, TypeOK', ThreadsOK, NEW t \in Threads, Respects(t), ThreadOK(t)'
    PROVE  ThreadsOK'
  <1> SUFFICES ASSUME NEW u \in Threads, u # t PROVE ThreadOK(u)'
    BY DEF ThreadsOK
  <1>1. /\ th'[u] = th[u] /\ (gate = u => gate' = u /\ lastId' = lastId /\ pending' = pending)
        /\ lastId <= lastId' /\ approved \subseteq approved' /\ (sentinel => sentinel')
        /\ lastId \in Nat /\ lastId' \in Nat /\ th[u].id \in Nat
    BY QuarantineAssumption DEF Respects, TypeOK, ThreadStates
  <1>2. ThreadOK(u) BY DEF ThreadsOK
  <1> QED BY <1>1, <1>2 DEF ThreadOK, Setting, Ending

\* A thread that returns is idle and knows nothing.
LEMMA Returns ==
    ASSUME TypeOK, NEW t \in Threads, Return(t)
    PROVE  /\ th'[t] = IdleThread
           /\ \A u \in Threads \ {t} : th'[u] = th[u] /\ (gate = u => gate' = u)
           /\ ThreadOK(t)'
  <1>1. th'[t] = IdleThread BY DEF Return, TypeOK
  <1>2. \A u \in Threads \ {t} : th'[u] = th[u] /\ (gate = u => gate' = u)
    BY DEF Return, TypeOK
  <1>3. ThreadOK(t)' BY <1>1 DEF ThreadOK, IdleThread, Setting, Ending
  <1> QED BY <1>1, <1>2, <1>3

\* The part of the invariant beyond the types.
Known == SentinelKept /\ MarkCurrent /\ ThreadsOK /\ AbortsPending /\ LocalOK

\* The steps of lock_quarantine.
LEMMA LockingKnown ==
    ASSUME TypeOK, Known, TypeOK', NEW t \in Threads, Locking(t)
    PROVE  Known'
  <1> USE QuarantineAssumption
  <1> USE DEF files, history
  <1>0. /\ ProcOf[t] \in Procs /\ th[t] \in ThreadStates /\ lastId \in Nat
        /\ t # NoThread /\ mark \in Marks
    BY DEF TypeOK
  <1>1. ASSUME LockEnter(t) PROVE Known'
    <2>1. ThreadsOK'
      <3>1. Respects(t) BY <1>0, <1>1 DEF LockEnter, Goto, Respects, TypeOK
      <3>2. ThreadOK(t)' BY <1>1 DEF LockEnter, Goto, TypeOK, ThreadOK, Setting, Ending
      <3> QED BY <3>1, <3>2, OthersOK DEF Known
    <2>2. AbortsPending'
      BY <1>1 DEF LockEnter, Goto, TypeOK, Known, AbortsPending, Setting, Ending
    <2> QED BY <1>1, <2>1, <2>2 DEF LockEnter, Known, SentinelKept, MarkCurrent, LocalOK
  <1>2. ASSUME SetRead(t) PROVE Known'
    <2>1. gate = NoThread /\ (sentinel => sentinel') /\ mark.id \in Nat
          /\ UNCHANGED <<mark, pending, local, history>>
      BY <1>0, <1>2 DEF SetRead, MigrateSentinel, Marks
    <2>2. \/ Return(t)
          \/ /\ th' = [th EXCEPT ![t].pc = "ack", ![t].id = mark.id]
             /\ mark.state = "active" /\ gate' = gate
          \/ /\ th' = [th EXCEPT ![t].pc = "sentinel", ![t].id = lastId + 1]
             /\ ~pending /\ gate' = t
      BY <1>2, ReadFacts DEF SetRead, TypeOK, ReadMark
    <2>3. ThreadsOK'
      <3>1. ThreadOK(t)'
        <4>1. CASE Return(t) BY <4>1, Returns
        <4>2. CASE /\ th' = [th EXCEPT ![t].pc = "ack", ![t].id = mark.id]
                   /\ mark.state = "active"
          <5>1. th'[t].pc = "ack" /\ th'[t].id = lastId
            BY <4>2, <1>0 DEF TypeOK, ThreadStates, Known, MarkCurrent
          <5> QED BY <5>1, <2>1, <1>0 DEF ThreadOK, Setting, Ending
        <4>3. CASE /\ th' = [th EXCEPT ![t].pc = "sentinel", ![t].id = lastId + 1]
                   /\ gate' = t
          <5>1. th'[t].pc = "sentinel" /\ th'[t].id = lastId + 1
            BY <4>3 DEF TypeOK, ThreadStates
          <5> QED BY <4>3, <5>1, <2>1 DEF ThreadOK, Setting, Ending
        <4> QED BY <2>2, <4>1, <4>2, <4>3
      <3>2. Respects(t)
        BY <1>0, <2>1, <2>2, Returns DEF Respects, TypeOK
      <3> QED BY <3>1, <3>2, OthersOK DEF Known
    <2>4. AbortsPending'
      <3>1. \A u \in Threads : u # t => th'[u] = th[u]
        BY <2>2, Returns DEF TypeOK
      <3>2. ~pending \/ th'[t].pc \in {"ack", "idle"}
        BY <2>2, Returns DEF TypeOK, IdleThread, ThreadStates
      <3> QED BY <2>1, <3>1, <3>2 DEF Known, AbortsPending, Setting, Ending
    <2> QED BY <2>1, <2>3, <2>4 DEF Known, SentinelKept, MarkCurrent, LocalOK
  <1>3. ASSUME SetSentinel(t) PROVE Known'
    <2>1. ThreadOK(t) BY DEF Known, ThreadsOK
    <2>2. ThreadsOK'
      <3>1. Respects(t) BY <1>0, <1>3 DEF SetSentinel, Goto, Respects, TypeOK
      <3>2. ThreadOK(t)'
        BY <1>3, <2>1 DEF SetSentinel, At, Goto, TypeOK, ThreadOK, Setting, Ending
      <3> QED BY <3>1, <3>2, OthersOK DEF Known
    <2>3. AbortsPending'
      BY <1>3 DEF SetSentinel, At, Goto, TypeOK, Known, AbortsPending, Setting, Ending
    <2> QED BY <1>3, <2>2, <2>3 DEF SetSentinel, Known, SentinelKept, MarkCurrent, LocalOK
  <1>4. ASSUME SetMark(t) PROVE Known'
    <2>1. /\ gate = t /\ th[t].id = lastId + 1 /\ sentinel
          /\ lastId' = lastId + 1 /\ sentinel' = sentinel /\ pending' = pending
          /\ aborted' = aborted /\ approved' = approved /\ gate' = NoThread
          /\ local' = local /\ acked' = acked
          /\ th' = [th EXCEPT ![t].pc = "ack"]
      BY <1>4 DEF SetMark, At, Goto, Known, ThreadsOK, ThreadOK, Setting
    <2>2. mark'.state = "active" /\ mark'.id = lastId' /\ mark'.receipt = 0
      BY <1>4 DEF SetMark, ActiveMark
    <2>3. ThreadsOK'
      <3>1. Respects(t) BY <1>0, <2>1 DEF Respects, TypeOK
      <3>2. ThreadOK(t)' BY <1>0, <2>1 DEF TypeOK, ThreadOK, Setting, Ending
      <3> QED BY <3>1, <3>2, OthersOK DEF Known
    <2>4. AbortsPending'
      <3>1. \A x \in aborted : x <= lastId /\ x \in Nat BY DEF Known, AbortsPending, TypeOK
      <3>2. lastId + 1 \notin aborted BY <1>0, <3>1
      <3>3. \A x \in aborted : x <= lastId + 1 BY <1>0, <3>1
      <3> QED BY <2>1, <3>2, <3>3 DEF AbortsPending
    <2>5. LocalOK'
      <3>1. \A p \in Procs : acked[p] \in Nat /\ acked[p] <= lastId
        BY DEF Known, LocalOK, TypeOK
      <3> QED BY <1>0, <2>1, <3>1 DEF LocalOK
    <2>6. SentinelKept' /\ MarkCurrent'
      BY <1>0, <2>1, <2>2 DEF SentinelKept, MarkCurrent
    <2> QED BY <2>3, <2>4, <2>5, <2>6 DEF Known
  <1>5. ASSUME LockAck(t) PROVE Known'
    <2>1. Return(t) /\ UNCHANGED <<files, lastId, approved, aborted>> BY <1>5 DEF LockAck
    <2>2. th[t].id <= lastId BY <1>5 DEF LockAck, At, Known, ThreadsOK, ThreadOK
    <2>3. ThreadsOK'
      <3>1. Respects(t) BY <1>0, <2>1, Returns DEF Respects, TypeOK
      <3> QED BY <2>1, <3>1, Returns, OthersOK DEF Known
    <2>4. AbortsPending'
      BY <2>1, Returns DEF Known, AbortsPending, IdleThread, Setting, Ending, TypeOK
    <2>5. LocalOK'
      BY <1>0, <1>5, <2>1, <2>2 DEF LockAck, Known, LocalOK, TypeOK
    <2> QED BY <2>1, <2>3, <2>4, <2>5 DEF Known, SentinelKept, MarkCurrent
  <1> QED BY <1>1, <1>2, <1>3, <1>4, <1>5 DEF Locking

\* The steps of release_quarantine after the verifier.
LEMMA ReleasingKnown ==
    ASSUME TypeOK, Known, TypeOK', NEW t \in Threads, Releasing(t)
    PROVE  Known'
  <1> USE QuarantineAssumption
  <1> USE DEF files, history
  <1>0. /\ ProcOf[t] \in Procs /\ th[t] \in ThreadStates /\ lastId \in Nat
        /\ t # NoThread /\ mark \in Marks /\ th \in [Threads -> ThreadStates]
    BY DEF TypeOK
  <1>00. ThreadOK(t) BY DEF Known, ThreadsOK
  <1>1. ASSUME ReleaseRecheck(t) PROVE Known'
    <2>1. /\ gate \in {NoThread, t} /\ (sentinel => sentinel')
          /\ UNCHANGED <<mark, pending, local, history>>
          /\ th[t].pc = "recheck"
      BY <1>1 DEF ReleaseRecheck, MigrateSentinel, At
    <2>2. \/ Return(t)
          \/ /\ th' = [th EXCEPT ![t].pc = "begin", ![t].id = mark.id]
             /\ ~pending /\ mark.state = "active" /\ mark.id = th[t].proof /\ gate' = t
             /\ sentinel'
      BY <1>1, ReadFacts DEF ReleaseRecheck, SameLock, MigrateSentinel
    <2>3. ThreadOK(t)'
      <3>1. CASE Return(t) BY <3>1, Returns
      <3>2. CASE /\ th' = [th EXCEPT ![t].pc = "begin", ![t].id = mark.id]
                 /\ mark.state = "active" /\ mark.id = th[t].proof /\ gate' = t
                 /\ sentinel'
        <4>1. th'[t].pc = "begin" /\ th'[t].id = lastId /\ th'[t].proof = lastId
          BY <3>2, <1>0 DEF ThreadStates, Known, MarkCurrent
        <4>2. lastId \in approved /\ lastId # 0
          BY <1>00, <2>1, <3>2 DEF ThreadOK, Known, MarkCurrent
        <4> QED BY <2>1, <3>2, <4>1, <4>2 DEF ThreadOK, Setting, Ending
      <3> QED BY <2>2, <3>1, <3>2
    <2>4. Respects(t) BY <1>0, <2>1, <2>2, Returns DEF Respects
    <2>5. ThreadsOK' BY <2>3, <2>4, OthersOK DEF Known
    <2>6. AbortsPending'
      <3>1. \A u \in Threads : u # t => th'[u] = th[u] BY <2>2, Returns, <1>0
      <3>2. ~pending \/ th'[t].pc = "idle" BY <2>2, Returns DEF IdleThread
      <3> QED BY <2>1, <3>1, <3>2 DEF Known, AbortsPending, Setting, Ending
    <2> QED BY <2>1, <2>5, <2>6 DEF Known, SentinelKept, MarkCurrent, LocalOK
  <1>2. ASSUME ReleaseBegin(t) PROVE Known'
    <2>1. /\ gate = t /\ th[t].pc = "begin" /\ th' = [th EXCEPT ![t].pc = "write"]
          /\ pending' = TRUE /\ UNCHANGED <<mark, sentinel, gate, mutex, local, history>>
      BY <1>2, <1>00 DEF ReleaseBegin, At, Goto, ThreadOK, Ending
    <2>2. ThreadOK(t)' BY <1>0, <1>00, <2>1 DEF ThreadOK, Setting, Ending, ThreadStates
    <2>3. Respects(t) BY <1>0, <2>1 DEF Respects
    <2>4. ThreadsOK' BY <2>2, <2>3, OthersOK DEF Known
    <2>5. AbortsPending'
      BY <1>0, <2>1 DEF Known, AbortsPending, Setting, Ending
    <2> QED BY <2>1, <2>4, <2>5 DEF Known, SentinelKept, MarkCurrent, LocalOK
  <1>3. ASSUME ReleaseWrite(t) PROVE Known'
    <2>1. /\ gate = t /\ th[t].pc = "write" /\ th' = [th EXCEPT ![t].pc = "finish"]
          /\ mark' = InactiveMark(lastId, lastId)
          /\ lastId \in approved /\ lastId # 0
          /\ sentinel' = TRUE /\ UNCHANGED <<pending, gate, mutex, local, history>>
      BY <1>3, <1>00 DEF ReleaseWrite, At, Goto, ThreadOK, Ending
    <2>2. ThreadOK(t)' BY <1>0, <1>00, <2>1 DEF ThreadOK, Setting, Ending, ThreadStates
    <2>3. Respects(t) BY <1>0, <2>1 DEF Respects
    <2>4. ThreadsOK' BY <2>2, <2>3, OthersOK DEF Known
    <2>5. AbortsPending'
      BY <1>0, <2>1 DEF Known, AbortsPending, Setting, Ending
    <2>6. SentinelKept' /\ MarkCurrent'
      BY <2>1 DEF SentinelKept, MarkCurrent, InactiveMark
    <2>7. LocalOK' BY <2>1 DEF Known, LocalOK, InactiveMark
    <2> QED BY <2>4, <2>5, <2>6, <2>7 DEF Known
  <1>4. ASSUME ReleaseFinish(t) PROVE Known'
    <2>1. /\ gate = t /\ th[t].pc = "finish" /\ th' = [th EXCEPT ![t].pc = "local"]
          /\ pending' = FALSE /\ gate' = NoThread
          /\ UNCHANGED <<mark, sentinel, mutex, local, history>>
      BY <1>4, <1>00 DEF ReleaseFinish, At, Goto, ThreadOK, Ending
    <2>2. ThreadOK(t)' BY <1>0, <2>1 DEF ThreadOK, Setting, Ending, ThreadStates
    <2>3. Respects(t) BY <1>0, <2>1 DEF Respects
    <2>4. ThreadsOK' BY <2>2, <2>3, OthersOK DEF Known
    <2>5. AbortsPending'
      BY <1>0, <2>1 DEF Known, AbortsPending, Setting, Ending
    <2> QED BY <2>1, <2>4, <2>5 DEF Known, SentinelKept, MarkCurrent, LocalOK
  <1>5. ASSUME ReleaseLocal(t) PROVE Known'
    <2>1. /\ Return(t) /\ (sentinel => sentinel') /\ UNCHANGED <<mark, pending, history>>
          /\ local' = [local EXCEPT ![ProcOf[t]] = IF ReadMark = "clear" THEN FALSE ELSE @]
      BY <1>5 DEF ReleaseLocal, MigrateSentinel
    <2>2. Respects(t) BY <1>0, <2>1, Returns DEF Respects
    <2>3. ThreadsOK' BY <2>1, <2>2, Returns, OthersOK DEF Known
    <2>4. AbortsPending'
      BY <2>1, Returns DEF Known, AbortsPending, IdleThread, Setting, Ending
    <2>5. LocalOK'
      <3>1. ReadMark = "clear" => mark.state # "active" BY ReadFacts
      <3>2. \A p \in Procs : local'[p] = local[p] \/ mark.state # "active"
        BY <1>0, <2>1, <3>1 DEF TypeOK
      <3> QED BY <2>1, <3>2 DEF Known, LocalOK
    <2> QED BY <2>1, <2>3, <2>4, <2>5 DEF Known, SentinelKept, MarkCurrent
  <1> QED BY <1>1, <1>2, <1>3, <1>4, <1>5 DEF Releasing

\* The calls, the reads and the verifier.
LEMMA CallingKnown ==
    ASSUME TypeOK, Known, TypeOK', NEW t \in Threads,
           \/ QuarantineIsActive \/ ReleaseCall(t) \/ Verify(t)
           \/ \E i \in Incidents \cup {NoIncident} : LockCall(t, i)
    PROVE  Known'
  <1> USE QuarantineAssumption
  <1> USE DEF files, history
  <1>0. /\ th[t] \in ThreadStates /\ lastId \in Nat /\ t # NoThread
        /\ th \in [Threads -> ThreadStates]
    BY DEF TypeOK
  <1> DEFINE Kept ==
               /\ sentinel => sentinel'
               /\ UNCHANGED <<mark, pending, local, lastId, aborted, acked>>
               /\ approved \subseteq approved'
             Moved ==
               /\ \A u \in Threads \ {t} : th'[u] = th[u] /\ (gate = u => gate' = u)
               /\ \/ th'[t] = th[t] /\ (gate = t => gate' = t)
                  \/ th'[t].pc \in {"idle", "lock", "verify"}
                  \/ th'[t].pc = "recheck" /\ th'[t].proof \in approved'
  <1>a. ASSUME QuarantineIsActive PROVE Kept /\ Moved
    <2>1. Kept BY <1>a DEF QuarantineIsActive, MigrateSentinel
    <2>2. Moved BY <1>a DEF QuarantineIsActive
    <2> QED BY <2>1, <2>2
  <1>b. ASSUME ReleaseCall(t) PROVE Kept /\ Moved
    <2>1. Kept BY <1>b DEF ReleaseCall, MigrateSentinel
    <2>2. Moved BY <1>0, <1>b DEF ReleaseCall, ThreadStates
    <2> QED BY <2>1, <2>2
  <1>c. ASSUME Verify(t) PROVE Kept /\ Moved
    <2>1. Kept BY <1>c DEF Verify
    <2>2. ASSUME approved' = approved \cup {th[t].proof}, Goto(t, "recheck"), gate' = gate
          PROVE  Moved
      BY <1>0, <2>2 DEF Goto, ThreadStates
    <2>3. ASSUME Return(t) PROVE Moved
      BY <2>3, Returns DEF IdleThread
    <2>4. Moved BY <1>c, <2>2, <2>3 DEF Verify
    <2> QED BY <2>1, <2>4
  <1>d. ASSUME NEW i \in Incidents \cup {NoIncident}, LockCall(t, i) PROVE Kept /\ Moved
    <2>1. Kept BY <1>d DEF LockCall
    <2>2. Moved BY <1>0, <1>d DEF LockCall, ThreadStates
    <2> QED BY <2>1, <2>2
  <1>1. Kept BY <1>a, <1>b, <1>c, <1>d
  <1>2. Moved BY <1>a, <1>b, <1>c, <1>d
  <1>3. Respects(t) BY <1>0, <1>1, <1>2 DEF Respects
  <1>4. ThreadOK(t)'
    BY <1>0, <1>1, <1>2 DEF Known, ThreadsOK, ThreadOK, Setting, Ending
  <1>5. ThreadsOK' BY <1>3, <1>4, OthersOK DEF Known
  <1>6. AbortsPending' BY <1>1, <1>2 DEF Known, AbortsPending, Setting, Ending
  <1> QED BY <1>1, <1>5, <1>6 DEF Known, SentinelKept, MarkCurrent, LocalOK

\* A failed write.
LEMMA FailingKnown ==
    ASSUME TypeOK, Known, TypeOK', NEW t \in Threads, WriteFails(t)
    PROVE  Known'
  <1> USE QuarantineAssumption
  <1> USE DEF files, history
  <1>0. /\ lastId \in Nat /\ t # NoThread /\ th \in [Threads -> ThreadStates]
        /\ Return(t) /\ ThreadOK(t) /\ UNCHANGED <<local, approved, acked>>
    BY DEF TypeOK, WriteFails, Known, ThreadsOK
  <1>1. /\ gate = t /\ th[t].pc \in Setting \cup Ending
        /\ \A u \in Threads : u # t => th[u].pc \notin Setting \cup Ending
    BY <1>0 DEF WriteFails, At, Known, ThreadsOK, ThreadOK, Setting, Ending
  <1>2. \A u \in Threads : th'[u].pc \notin Setting \cup Ending
    BY <1>0, <1>1, Returns DEF IdleThread, Setting, Ending
  <1>3. CASE th[t].pc = "mark" /\ mark' = ActiveMark(th[t].id, th[t].incident)
             /\ lastId' = th[t].id /\ UNCHANGED <<sentinel, pending, aborted>>
    <2>1. lastId' = lastId + 1 /\ sentinel
      BY <1>0, <1>3 DEF ThreadOK, Setting
    <2>2. Respects(t) BY <1>0, <1>1, <1>3, <2>1, Returns DEF Respects
    <2>3. ThreadsOK' BY <1>0, <2>2, Returns, OthersOK DEF Known
    <2>4. AbortsPending'
      <3>1. \A x \in aborted : x <= lastId /\ x \in Nat BY DEF Known, AbortsPending, TypeOK
      <3>2. lastId + 1 \notin aborted BY <1>0, <3>1
      <3>3. \A x \in aborted : x <= lastId + 1 BY <1>0, <3>1
      <3> QED BY <1>3, <2>1, <3>2, <3>3 DEF AbortsPending
    <2>5. LocalOK'
      <3>1. \A p \in Procs : acked[p] \in Nat /\ acked[p] <= lastId
        BY DEF Known, LocalOK, TypeOK
      <3> QED BY <1>0, <2>1, <3>1 DEF LocalOK
    <2>6. SentinelKept' /\ MarkCurrent'
      BY <1>0, <1>3, <2>1 DEF SentinelKept, MarkCurrent, ActiveMark
    <2> QED BY <2>3, <2>4, <2>5, <2>6 DEF Known
  <1>4. CASE /\ lastId' = lastId /\ (sentinel => sentinel')
             /\ \/ mark' = mark
                \/ th[t].pc = "write" /\ mark' = InactiveMark(th[t].id, th[t].proof)
             /\ \/ aborted' = aborted /\ lastId \notin aborted
                \/ aborted' = aborted \cup {lastId} /\ pending'
    <2>1. Respects(t) BY <1>0, <1>1, <1>4, Returns DEF Respects
    <2>2. ThreadsOK' BY <1>0, <2>1, Returns, OthersOK DEF Known
    <2>3. AbortsPending' BY <1>0, <1>2, <1>4 DEF Known, AbortsPending
    <2>4. CASE mark' = mark
      BY <1>0, <1>4, <2>2, <2>3, <2>4 DEF Known, SentinelKept, MarkCurrent, LocalOK
    <2>5. CASE th[t].pc = "write" /\ mark' = InactiveMark(th[t].id, th[t].proof)
      <3>1. /\ sentinel /\ th[t].id = lastId /\ th[t].proof = lastId
            /\ lastId \in approved /\ lastId # 0
        BY <1>0, <2>5 DEF ThreadOK, Ending
      <3>2. SentinelKept' /\ MarkCurrent'
        BY <1>0, <1>4, <2>5, <3>1 DEF SentinelKept, MarkCurrent, InactiveMark
      <3>3. LocalOK' BY <1>0, <1>4, <2>5 DEF Known, LocalOK, InactiveMark
      <3> QED BY <2>2, <2>3, <3>2, <3>3 DEF Known
    <2> QED BY <1>4, <2>4, <2>5
  <1>5. lastId \notin aborted BY <1>1 DEF Known, AbortsPending
  <1>6. th[t].pc \in Ending => th[t].id = lastId /\ (th[t].pc # "begin" => pending)
    BY <1>0 DEF ThreadOK, Ending
  <1>7. CASE th[t].pc = "sentinel"
    <2>1. UNCHANGED <<mark, lastId, aborted>> /\ sentinel' \in {sentinel, TRUE}
      BY <1>7 DEF WriteFails, At
    <2>2. sentinel => sentinel'
      BY <2>1
    <2> QED BY <1>4, <1>5, <2>1, <2>2
  <1>8. CASE th[t].pc = "mark"
    BY <1>3, <1>4, <1>5, <1>8 DEF WriteFails, At
  <1>9. CASE th[t].pc = "begin"
    BY <1>4, <1>5, <1>9 DEF WriteFails, At
  <1>10. CASE th[t].pc = "write"
    BY <1>4, <1>5, <1>6, <1>10 DEF WriteFails, At, Ending
  <1>11. CASE th[t].pc = "finish"
    <2>1. /\ UNCHANGED <<mark, sentinel, lastId>>
          /\ \/ aborted' = aborted \cup {th[t].id} /\ UNCHANGED pending
             \/ aborted' = aborted
      BY <1>11 DEF WriteFails, At
    <2>2. th[t].id = lastId /\ pending
      BY <1>6, <1>11 DEF Ending
    <2> QED BY <1>4, <1>5, <2>1, <2>2
  <1> QED
    BY <1>1, <1>7, <1>8, <1>9, <1>10, <1>11 DEF Setting, Ending

\* A crash.
LEMMA CrashKnown ==
    ASSUME TypeOK, Known, TypeOK', NEW p \in Procs, Crash(p)
    PROVE  Known'
  <1> USE QuarantineAssumption
  <1> USE DEF files, history
  <1>0. /\ lastId \in Nat /\ th \in [Threads -> ThreadStates]
        /\ UNCHANGED <<mark, sentinel, pending, lastId, approved>>
    BY DEF TypeOK, Crash
  <1>1. \A t \in Threads : IF ProcOf[t] = p THEN th'[t] = IdleThread ELSE th'[t] = th[t]
    BY DEF Crash
  <1>2. \A t \in Threads : ProcOf[t] # p /\ gate = t => gate' = t
    BY DEF Crash
  <1>3. ThreadsOK'
    BY <1>0, <1>1, <1>2 DEF Known, ThreadsOK, ThreadOK, IdleThread, Setting, Ending
  <1>4. AbortsPending'
    <2>1. CASE aborted' = aborted
      BY <1>0, <1>1, <2>1 DEF Known, AbortsPending, IdleThread, Setting, Ending
    <2>2. CASE aborted' # aborted
      <3>1. PICK t \in Threads : ProcOf[t] = p /\ th[t].pc \in {"write", "finish"}
        BY <2>2 DEF Crash
      <3>2. gate = t /\ pending /\ th[t].id = lastId
        BY <3>1 DEF Known, ThreadsOK, ThreadOK, Ending
      <3>3. \A u \in Threads : th'[u].pc \notin Setting \cup Ending
        BY <1>1, <3>1, <3>2 DEF Known, ThreadsOK, ThreadOK, IdleThread, Setting, Ending
      <3>4. \A x \in aborted' : x \in aborted \/ x = lastId
        BY DEF Crash, Known, ThreadsOK, ThreadOK, Ending
      <3> QED BY <1>0, <3>2, <3>3, <3>4 DEF Known, AbortsPending
    <2> QED BY <2>1, <2>2
  <1>5. LocalOK'
    BY <1>0 DEF Crash, Known, LocalOK, MarkCurrent, TypeOK
  <1> QED BY <1>0, <1>3, <1>4, <1>5 DEF Known, SentinelKept, MarkCurrent

\* Damage to the mark file.
LEMMA DamageKnown ==
    ASSUME TypeOK, Known, DamageMark
    PROVE  Known'
  <1> USE DEF history
  <1>1. /\ sentinel /\ UNCHANGED <<sentinel, pending, gate, local, th, history>>
        /\ mark'.receipt = 0 /\ mark'.state # "active"
        /\ mark'.state = "inactive" => mark'.id # 0
    <2>1. /\ sentinel /\ UNCHANGED <<sentinel, pending, gate, local, th, history>>
          /\ mark'.state = "inactive" => mark.id # 0
      BY DEF DamageMark
    <2>2. mark' \in {NoMark, [NoMark EXCEPT !.state = "malformed"],
                     [mark EXCEPT !.state = "inactive", !.receipt = 0]}
      BY DEF DamageMark
    <2>3. CASE mark' = NoMark BY <2>1, <2>3 DEF NoMark
    <2>4. CASE mark' = [NoMark EXCEPT !.state = "malformed"] BY <2>1, <2>4 DEF NoMark
    <2>5. CASE mark' = [mark EXCEPT !.state = "inactive", !.receipt = 0]
      <3>1. mark'.receipt = 0 /\ mark'.state = "inactive" /\ mark'.id = mark.id
        BY <2>5 DEF TypeOK, Marks
      <3> QED BY <2>1, <3>1
    <2> QED BY <2>2, <2>3, <2>4, <2>5
  <1> QED
    BY <1>1 DEF Known, SentinelKept, MarkCurrent, ThreadsOK, ThreadOK, AbortsPending, LocalOK

-----------------------------------------------------------------------------
LEMMA NextIInv == IInv /\ [Next]_vars => IInv'
  <1> SUFFICES ASSUME IInv, [Next]_vars PROVE IInv' OBVIOUS
  <1>1. TypeOK /\ Known /\ TypeOK' BY NextTypeOK DEF IInv, Known
  <1>2. ASSUME NEW t \in Threads,
               \/ Locking(t) \/ Releasing(t) \/ WriteFails(t)
               \/ QuarantineIsActive \/ ReleaseCall(t) \/ Verify(t)
               \/ \E i \in Incidents \cup {NoIncident} : LockCall(t, i)
        PROVE  Known'
    BY <1>1, <1>2, LockingKnown, ReleasingKnown, FailingKnown, CallingKnown
  <1>3. CASE QuarantineIsActive
    <2>1. /\ UNCHANGED <<mark, pending, gate, local, th, history>> /\ (sentinel => sentinel')
      BY <1>3 DEF QuarantineIsActive, MigrateSentinel
    <2> QED
      BY <1>1, <2>1
      DEF IInv, Known, SentinelKept, MarkCurrent, ThreadsOK, ThreadOK, AbortsPending, LocalOK, history
  <1>4. ASSUME NEW p \in Procs, Crash(p) PROVE Known' BY <1>1, <1>4, CrashKnown
  <1>5. CASE DamageMark BY <1>1, <1>5, DamageKnown DEF IInv, Known
  <1>6. CASE UNCHANGED vars
    BY <1>1, <1>6
    DEF IInv, Known, SentinelKept, MarkCurrent, ThreadsOK, ThreadOK, AbortsPending, LocalOK,
        vars, files, history
  <1> QED BY <1>1, <1>2, <1>3, <1>4, <1>5, <1>6 DEF Next, IInv, Known

(* The inductive invariant.                                                *)
THEOREM InductiveInvariant == Spec => []IInv
  BY InitIInv, NextIInv, PTL DEF Spec

(* Type correctness of the quarantine protocol.                            *)
THEOREM TypeCorrect == Spec => []TypeOK
  BY InductiveInvariant, PTL DEF IInv

(* Fail closed, whatever crashes, fails or is damaged.                     *)
THEOREM AdmissionFailsClosed == Spec => []FailClosed
  <1>1. IInv => FailClosed BY Justified
  <1> QED BY <1>1, InductiveInvariant, PTL

(* A release given up before its commit point never opens admission.       *)
THEOREM AbortedReleaseStaysClosed == Spec => []AbortedStaysClosed
  <1>1. IInv => AbortedStaysClosed BY Justified
  <1> QED BY <1>1, InductiveInvariant, PTL

(* The local flag of a process survives the release of an older lock.      *)
THEOREM LocalFlagIsSound == Spec => []LocalFlagSound
  <1>1. IInv => LocalFlagSound BY Justified
  <1> QED BY <1>1, InductiveInvariant, PTL

(* A mark is made inactive only on a proof for the lock it carries.        *)
THEOREM ProofsMatchLocks == Spec => ProofMatchesLock
  <1> DEFINE Matches == mark' # mark /\ mark'.receipt # 0
                          => mark'.id = mark'.receipt /\ mark'.id \in approved
  <1>1. IInv /\ IInv' /\ [Next]_vars => [Matches]_vars
    <2> SUFFICES ASSUME IInv, IInv', [Next]_vars, mark' # mark, mark'.receipt # 0
                 PROVE  mark'.id = mark'.receipt /\ mark'.id \in approved
      OBVIOUS
    <2>1. mark'.id = mark'.receipt /\ mark'.id = lastId' /\ lastId' \in approved'
      BY DEF IInv, MarkCurrent
    <2>2. approved' = approved
      BY DEF Next, Locking, Releasing, QuarantineIsActive, LockCall, LockEnter, SetRead,
             SetSentinel, SetMark, LockAck, ReleaseCall, Verify, ReleaseRecheck, ReleaseBegin,
             ReleaseWrite, ReleaseFinish, ReleaseLocal, WriteFails, Crash, DamageMark, vars,
             files, history
    <2> QED BY <2>1, <2>2
  <1> QED BY <1>1, InductiveInvariant, PTL DEF Spec, ProofMatchesLock
=============================================================================
