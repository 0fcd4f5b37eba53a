-------------------------- MODULE R4Monitor_proofs --------------------------
(***************************************************************************)
(* Proofs about the R4 monitor, for any number of processes, operators,    *)
(* events and nonces, any policy that validates and a ledger of any        *)
(* length.  What a constructor replays is a fold over the ledger, so the   *)
(* first part shows how a fold grows with its sequence.  R4Inv relates the *)
(* file to its replay, the replay to the memory of each monitor, and the   *)
(* nonces in the file to what each monitor has read or written itself.     *)
(***************************************************************************)
EXTENDS R4Monitor, SequenceTheorems, WellFoundedInduction, NaturalsInduction, TLAPS

\* A set of naturals with zero and closed under successor is all of them.
LEMMA NaturalsFromZero ==
    ASSUME NEW S \in SUBSET Nat, 0 \in S, \A n \in S : n + 1 \in S
    PROVE  S = Nat
  <1> DEFINE T == Nat \ S
             Less == {ss \in Nat \X Nat : ss[1] < ss[2]}
  <1> SUFFICES ASSUME T # {} PROVE FALSE
    OBVIOUS
  <1>1. IsWellFoundedOn(Less, Nat)
    BY NatLessThanWellFounded DEF OpToRel
  <1>2. PICK n \in T : \A m \in T : ~ <<m, n>> \in Less
    BY <1>1, WFMin
  <1>3. \A m \in T : ~ (m < n)
    BY <1>2
  <1>4. n \in Nat /\ n # 0
    BY <1>2
  <1>5. n - 1 \in Nat /\ n - 1 \notin T
    BY <1>3, <1>4
  <1> QED BY <1>4, <1>5

\* The element above all others is the one Max chooses.
LEMMA MaxIs ==
    ASSUME NEW S \in SUBSET Int, NEW x \in S, \A y \in S : x >= y
    PROVE  Max(S) = x
  <1>1. Max(S) \in S /\ \A y \in S : Max(S) >= y
    BY DEF Max
  <1> HIDE DEF Max
  <1>2. Max(S) >= x /\ x >= Max(S) /\ Max(S) \in Int /\ x \in Int
    BY <1>1
  <1> QED BY <1>2

-----------------------------------------------------------------------------
(* Replay.  The fold over a file is a recursion over the sets of positions *)
(* in it, which always takes the last.                                     *)
Solves(g, s, n) ==
    g = [S \in SUBSET (1 .. n) |->
           IF S = {} THEN Fresh ELSE ReplayEntry(g[S \ {Max(S)}], s[Max(S)])]

Solution(s, n) == CHOOSE g : Solves(g, s, n)

\* The recursion has a solution, however long the file.
LEMMA SolutionExists ==
    ASSUME NEW s, NEW n \in Nat
    PROVE  Solves(Solution(s, n), s, n)
  <1> DEFINE N == {k \in Nat : \E g : Solves(g, s, k)}
  <1>1. 0 \in N
    <2> DEFINE g == [S \in SUBSET (1 .. 0) |-> Fresh]
    <2>1. \A S \in SUBSET (1 .. 0) : S = {}
      OBVIOUS
    <2>2. Solves(g, s, 0)
      BY <2>1 DEF Solves
    <2> QED BY <2>2
  <1>2. ASSUME NEW k \in N PROVE k + 1 \in N
    <2>0. k \in Nat
      OBVIOUS
    <2>1. PICK g : Solves(g, s, k)
      OBVIOUS
    <2> HIDE DEF N
    <2>2. \A S \in SUBSET (1 .. k) :
             g[S] = IF S = {} THEN Fresh ELSE ReplayEntry(g[S \ {Max(S)}], s[Max(S)])
      BY <2>1 DEF Solves
    <2> DEFINE h == [S \in SUBSET (1 .. k + 1) |->
                       IF k + 1 \in S THEN ReplayEntry(g[S \ {k + 1}], s[k + 1]) ELSE g[S]]
    <2>3. ASSUME NEW S \in SUBSET (1 .. k + 1)
          PROVE  h[S] = IF S = {} THEN Fresh ELSE ReplayEntry(h[S \ {Max(S)}], s[Max(S)])
      <3>1. CASE k + 1 \in S
        <4>0. S \in SUBSET Int /\ \A y \in S : k + 1 >= y
          BY <2>0
        <4>1. Max(S) = k + 1
          BY <3>1, <4>0, MaxIs
        <4>2. S \ {k + 1} \in SUBSET (1 .. k + 1) /\ k + 1 \notin S \ {k + 1} /\ S # {}
          BY <3>1
        <4>3. h[S \ {k + 1}] = g[S \ {k + 1}]
          BY <4>2
        <4> QED BY <3>1, <4>1, <4>2, <4>3
      <3>2. CASE k + 1 \notin S
        <4>0. \A y \in S : y \in 1 .. k
          BY <2>0, <3>2
        <4>1. S \in SUBSET (1 .. k) /\ S \ {Max(S)} \in SUBSET (1 .. k + 1)
          BY <4>0
        <4>2. h[S] = g[S] /\ h[S \ {Max(S)}] = g[S \ {Max(S)}]
          BY <3>2, <4>1
        <4> QED BY <2>2, <4>1, <4>2
      <3> QED BY <3>1, <3>2
    <2>4. Solves(h, s, k + 1)
      <3>1. h = [S \in SUBSET (1 .. k + 1) |-> h[S]]
        OBVIOUS
      <3> HIDE DEF h
      <3> QED BY <2>3, <3>1 DEF Solves
    <2> HIDE DEF h
    <2>5. \E f : Solves(f, s, k + 1)
      BY <2>4
    <2> QED BY <2>0, <2>5 DEF N
  <1>3. N = Nat
    <2>1. N \in SUBSET Nat
      OBVIOUS
    <2> HIDE DEF N
    <2> QED BY <1>1, <1>2, <2>1, NaturalsFromZero
  <1>4. \E g : Solves(g, s, n)
    BY <1>3
  <1> QED BY <1>4 DEF Solution

\* One step of the recursion, on the positions up to k.
LEMMA SolutionStep ==
    ASSUME NEW s, NEW n \in Nat, NEW k \in 0 .. n
    PROVE  Solution(s, n)[1 .. k] =
              IF k = 0 THEN Fresh ELSE ReplayEntry(Solution(s, n)[1 .. (k - 1)], s[k])
  <1> DEFINE g == Solution(s, n)
  <1>1. Solves(g, s, n)
    BY SolutionExists
  <1> HIDE DEF g
  <1>2. 1 .. k \in SUBSET (1 .. n)
    OBVIOUS
  <1>3. g[1 .. k] = IF 1 .. k = {} THEN Fresh
                    ELSE ReplayEntry(g[(1 .. k) \ {Max(1 .. k)}], s[Max(1 .. k)])
    BY <1>1, <1>2 DEF Solves
  <1>4. CASE k = 0
    <2>1. 1 .. k = {}
      BY <1>4
    <2> QED BY <1>3, <1>4, <2>1 DEF g
  <1>5. CASE k # 0
    <2>1. 1 .. k \in SUBSET Int /\ k \in 1 .. k /\ \A i \in 1 .. k : k >= i
      BY <1>5
    <2>2. Max(1 .. k) = k
      BY <2>1, MaxIs
    <2>3. (1 .. k) \ {k} = 1 .. (k - 1)
      BY <1>5
    <2>4. 1 .. k # {}
      BY <2>1
    <2> QED BY <1>3, <1>5, <2>2, <2>3, <2>4 DEF g
  <1> QED BY <1>4, <1>5

\* Files that agree on the first n entries have the same replay of them.
LEMMA SolutionPrefix ==
    ASSUME NEW s, NEW t, NEW n \in Nat, NEW m \in Nat, n <= m,
           \A i \in 1 .. n : t[i] = s[i]
    PROVE  Solution(t, m)[1 .. n] = Solution(s, n)[1 .. n]
  <1> DEFINE K == {k \in Nat : k <= n => Solution(t, m)[1 .. k] = Solution(s, n)[1 .. k]}
  <1>1. 0 \in K
    BY SolutionStep
  <1>2. ASSUME NEW k \in K PROVE k + 1 \in K
    <2>1. CASE k + 1 <= n
      <3>1. k + 1 \in 0 .. m /\ k + 1 \in 0 .. n /\ k + 1 # 0 /\ (k + 1) - 1 = k /\ k + 1 \in 1 .. n
        BY <2>1
      <3>2. /\ Solution(t, m)[1 .. (k + 1)] = ReplayEntry(Solution(t, m)[1 .. k], t[k + 1])
            /\ Solution(s, n)[1 .. (k + 1)] = ReplayEntry(Solution(s, n)[1 .. k], s[k + 1])
        BY <3>1, SolutionStep
      <3>3. Solution(t, m)[1 .. k] = Solution(s, n)[1 .. k]
        BY <2>1
      <3> QED BY <3>1, <3>2, <3>3
    <2> QED BY <2>1
  <1>3. K = Nat
    <2>1. K \in SUBSET Nat
      OBVIOUS
    <2> HIDE DEF K
    <2> QED BY <1>1, <1>2, <2>1, NaturalsFromZero
  <1>4. n \in K
    BY <1>3
  <1> QED BY <1>4

ReplayOf(s) == FoldLeft(ReplayEntry, Fresh, s)

LEMMA ReplayIsSolution ==
    ASSUME NEW s, NEW n \in Nat, DOMAIN s = 1 .. n
    PROVE  ReplayOf(s) = Solution(s, n)[1 .. n]
  BY DEF ReplayOf, FoldLeft, MapThenFoldSet, Solution, Solves

\* Replaying nothing leaves the fresh state ...
LEMMA ReplayNothing == ReplayOf(<< >>) = Fresh
  <1>1. DOMAIN << >> = 1 .. 0 /\ 0 \in Nat /\ 0 \in 0 .. 0
    OBVIOUS
  <1> QED BY <1>1, ReplayIsSolution, SolutionStep

\* ... and one more entry is one more step.
LEMMA ReplayOneMore ==
    ASSUME NEW s, NEW t, NEW n \in Nat, DOMAIN s = 1 .. n, DOMAIN t = 1 .. n + 1,
           \A i \in 1 .. n : t[i] = s[i]
    PROVE  ReplayOf(t) = ReplayEntry(ReplayOf(s), t[n + 1])
  <1>1. ReplayOf(s) = Solution(s, n)[1 .. n] /\ ReplayOf(t) = Solution(t, n + 1)[1 .. n + 1]
    BY ReplayIsSolution
  <1>2. n + 1 \in 0 .. n + 1 /\ n + 1 # 0 /\ (n + 1) - 1 = n
    OBVIOUS
  <1>3. Solution(t, n + 1)[1 .. n + 1] = ReplayEntry(Solution(t, n + 1)[1 .. n], t[n + 1])
    <2>1. n + 1 \in Nat
      OBVIOUS
    <2>2. Solution(t, n + 1)[1 .. (n + 1)] =
            IF n + 1 = 0 THEN Fresh ELSE ReplayEntry(Solution(t, n + 1)[1 .. ((n + 1) - 1)], t[n + 1])
      BY <1>2, <2>1, SolutionStep
    <2> QED BY <1>2, <2>2
  <1>4. Solution(t, n + 1)[1 .. n] = Solution(s, n)[1 .. n]
    BY SolutionPrefix
  <1> QED BY <1>1, <1>3, <1>4
-----------------------------------------------------------------------------
(* The inductive invariant, in parts.                                      *)
IsSeq(s) == \E S : s \in Seq(S)

Untorn == \A i \in DOMAIN file : file[i] # Torn

CountsOK ==
    /\ bound \in Bounds
    /\ faults \in 0 .. bound.faults
    /\ expired \subseteq Nonces
    /\ Len(file) <= bound.entries + 1
    /\ Untorn => Len(file) <= bound.entries

\* Every proof in circulation is one an operator issued.
IssuedOK ==
    \A p \in issued : \E o \in Operators, a \in Transitions, n \in Nonces :
        p = issue_transition_proof(o, a, n)

\* How the action and the shared decision of one event relate, given its
\* stability s.
Agree(action, shared, mode, s) ==
    LET crosses == (s <= Policy.s_block_floor) # (Rounded(s) <= Policy.s_block_floor)
        blocked == action \in {"block", "block_on_alert"}
    IN  /\ (action \in {"block", "allow_with_intended_block"})
             # (shared \in {"BLOCK", "ALLOW_WITH_INTENDED_BLOCK"}) => crosses
        /\ shared = "BLOCK" /\ ~blocked => crosses /\ s > Policy.s_alert_floor
        /\ blocked => mode \in {"SHADOW_CRITICAL", "ENFORCE"}

Judged(p) == Agree(p.action, p.shared, p.mode, compute_stability(p.event))

PayloadOK(p, proofs) ==
    \/ /\ p.type = "observation" /\ p.mode \in Operating /\ p.event \in Events
       /\ Judged(p)
    \/ /\ p.type = "control_transition" /\ p.to_mode \in Operating
       /\ p.proof \in proofs /\ p.proof.action = p.transition
       /\ p.proof.operator \in Registered
    \/ p.type = "denied"

LedgerOK ==
    /\ IsSeq(file)
    /\ \A i \in DOMAIN file :
          \/ file[i] = Torn /\ i = Len(file)
          \/ /\ file[i].previous_hash = PreviousHash(i)
             /\ file[i].chain_hash = compute_chain_hash(PreviousHash(i), file[i].payload)
             /\ PayloadOK(file[i].payload, issued)

\* A torn line has no author.
AuthorsOK ==
    /\ IsSeq(authors)
    /\ Len(authors) = IF Untorn THEN Len(file) ELSE Len(file) - 1

Windows == {w \in Seq(Int) : Len(w) <= Policy.event_window}

Memory(H) ==
    [up : BOOLEAN, mode : Operating \cup {NoMode}, window : Windows,
     nonces : SUBSET Nonces, last_hash : H, loaded : Nat]

MemOK ==
    /\ \E H : mem \in [Monitors -> Memory(H)]
    /\ \A m \in Monitors :
          /\ mem[m].up => mem[m].mode # NoMode
          /\ mem[m].loaded <= Len(file)
    /\ synced \in [Monitors -> SUBSET {"mode", "rest"}]

\* A replay knows the nonce of every transition in the file ...
ReplayOK ==
    /\ Replayed \in [mode : Operating, window : Windows, nonces : SUBSET Nonces]
    /\ \A i \in Transitioned : file[i].payload.proof.nonce \in Replayed.nonces

\* ... and a monitor of those it replayed and of those it wrote.
Known ==
    \A m \in Monitors : mem[m].up =>
        \A i \in Transitioned :
            i <= mem[m].loaded \/ authors[i].by = m
              => file[i].payload.proof.nonce \in mem[m].nonces

R4Inv ==
    /\ CountsOK /\ IssuedOK /\ LedgerOK /\ AuthorsOK /\ MemOK /\ ReplayOK
    /\ Known /\ ProofReusedOnlyByStaleMonitor /\ RestartRestores

-----------------------------------------------------------------------------
LEMMA AppendIs ==
    ASSUME NEW s, IsSeq(s), NEW e
    PROVE  /\ Len(s) \in Nat /\ DOMAIN s = 1 .. Len(s)
           /\ IsSeq(Append(s, e))
           /\ Len(Append(s, e)) = Len(s) + 1
           /\ DOMAIN Append(s, e) = 1 .. Len(s) + 1
           /\ \A i \in 1 .. Len(s) : Append(s, e)[i] = s[i]
           /\ Append(s, e)[Len(s) + 1] = e
  <1>1. PICK S : s \in Seq(S)
    BY DEF IsSeq
  <1> DEFINE T == S \cup {e}
  <1>2. s \in Seq(T) /\ e \in T
    BY <1>1
  <1> HIDE DEF T
  <1>3. Append(s, e) \in Seq(T)
    BY <1>2
  <1> QED BY <1>2, <1>3 DEF IsSeq

LEMMA SeqIs ==
    ASSUME NEW s, IsSeq(s)
    PROVE  Len(s) \in Nat /\ DOMAIN s = 1 .. Len(s)
  BY AppendIs

LEMMA EmptyIs == IsSeq(<< >>) /\ Len(<< >>) = 0 /\ DOMAIN << >> = {}
  <1>1. << >> \in Seq({})
    OBVIOUS
  <1> QED BY <1>1 DEF IsSeq

LEMMA ReplayedIs == Replayed = ReplayOf(file) /\ Replayed' = ReplayOf(file')
  BY DEF Replayed, ReplayOf

\* The stability of an event is a number.
LEMMA StabilityIs ==
    ASSUME NEW event \in Events
    PROVE  compute_stability(event) \in Int
  <1>1. event.pressure \in Nat /\ event.velocity \in Nat /\ event.capacity \in Nat
    BY MonitorAssumption DEF ValidEvent
  <1>2. 100 * event.pressure * event.velocity + 1 \in Nat \ {0}
    BY <1>1
  <1> QED BY <1>1, <1>2 DEF compute_stability

\* The window keeps the newest event and never outgrows event_window.
LEMMA PushedIs ==
    ASSUME NEW w \in Windows, NEW x \in Int
    PROVE  /\ Pushed(w, x) \in Windows
           /\ Len(Pushed(w, x)) >= 1
           /\ Last(Pushed(w, x)) = x
  <1> DEFINE all == Append(w, x)
             k == Policy.event_window
             low == Len(all) - k + 1
             first == Max({1, low})
  <1>1. /\ all \in Seq(Int) /\ Len(all) = Len(w) + 1 /\ Len(w) \in Nat
        /\ all[Len(all)] = x /\ k \in Int /\ k >= 3 /\ Len(w) <= k
    BY PolicyAssumption DEF Windows, PolicyBundle, ValidPolicy
  <1>2. Pushed(w, x) = SubSeq(all, first, Len(all))
    BY DEF Pushed
  <1> HIDE DEF all, k, first
  <1>3. first \in 1 .. Len(all) /\ Len(all) - first + 1 <= k
    <2>1. {1, low} \in SUBSET Int
      BY <1>1
    <2>2. CASE low >= 1
      <3>1. first = low
        <4>1. low \in {1, low} /\ \A y \in {1, low} : low >= y
          BY <1>1, <2>2
        <4> HIDE DEF low
        <4>2. Max({1, low}) = low
          BY <2>1, <4>1, MaxIs
        <4> QED BY <4>2 DEF first
      <3> QED BY <1>1, <2>2, <3>1
    <2>3. CASE low < 1
      <3>1. first = 1
        <4>1. 1 \in {1, low} /\ \A y \in {1, low} : 1 >= y
          BY <1>1, <2>3
        <4> HIDE DEF low
        <4>2. Max({1, low}) = 1
          BY <2>1, <4>1, MaxIs
        <4> QED BY <4>2 DEF first
      <3> QED BY <1>1, <2>3, <3>1
    <2> QED BY <1>1, <2>2, <2>3
  <1>4. /\ SubSeq(all, first, Len(all)) \in Seq(Int)
        /\ Len(SubSeq(all, first, Len(all))) = Len(all) - first + 1
        /\ SubSeq(all, first, Len(all))[Len(all) - first + 1] = all[Len(all)]
    BY <1>1, <1>3
  <1> QED BY <1>1, <1>2, <1>3, <1>4 DEF Windows, Last, k

-----------------------------------------------------------------------------
(* The two engines.                                                        *)

\* Whatever the two engines see, what tells them apart is on which side of
\* the block floor the exact and the rounded stability lie.
LEMMA EnginesAgree ==
    ASSUME NEW mode \in Operating, NEW window, NEW option, Last(window) \in Int
    PROVE  LET traj == Trajectory(window, option)
           IN  Agree(action_for_trajectory(mode, traj), evaluate_membrane(traj, option, mode), mode,
                     Last(window))
  <1> DEFINE traj == Trajectory(window, option)
             s == Last(window)
             action == action_for_trajectory(mode, traj)
             shared == evaluate_membrane(traj, option, mode)
             within(n) == traj.projected # Never /\ traj.projected <= n
             opt(f) == option # NoOption /\ option <= f
             other == \/ within(Max({1, Policy.reaction_budget_events \div 2}))
                      \/ opt(Policy.option_space_block_floor)
             exact == s <= Policy.s_block_floor
             round == Rounded(s) <= Policy.s_block_floor
  <1>1. /\ traj.stability = s /\ traj.alert \in BOOLEAN /\ traj.intended_block \in BOOLEAN
        /\ s <= Policy.s_alert_floor => traj.alert
        /\ traj.intended_block <=> exact \/ other
    BY DEF Trajectory
  <1>2. Rounded(s) <= Policy.tau_floor => round
    <2>1. s \in Int /\ Policy.unit \in Nat \ {0}
      BY PolicyAssumption DEF PolicyBundle
    <2>2. Rounded(s) \in Int
      BY <2>1 DEF Rounded
    <2> HIDE DEF s
    <2> QED BY <2>2, PolicyAssumption DEF PolicyBundle, ValidPolicy
  <1>3. /\ shared = "BLOCK" => mode = "ENFORCE" /\ (round \/ other)
        /\ mode # "SHADOW_OFF" =>
              (shared \in {"BLOCK", "ALLOW_WITH_INTENDED_BLOCK"} <=> round \/ other)
        /\ mode = "SHADOW_OFF" => shared = "NOT_EVALUATED"
    <2> HIDE DEF traj, s
    <2> QED BY <1>1, <1>2 DEF evaluate_membrane, Operating
  <1> HIDE DEF other, shared
  <1>4. /\ mode # "SHADOW_OFF" =>
              (action \in {"block", "allow_with_intended_block"} <=> traj.intended_block)
        /\ mode = "SHADOW_OFF" => action = "allow"
        /\ mode = "ENFORCE" /\ (traj.alert \/ traj.intended_block)
              => action \in {"block", "block_on_alert"}
        /\ action \in {"block", "block_on_alert"} => mode \in {"SHADOW_CRITICAL", "ENFORCE"}
    <2> HIDE DEF traj
    <2> QED BY <1>1 DEF action_for_trajectory, Operating
  <1> HIDE DEF traj, action
  <1>5. s \in Int /\ Policy.s_alert_floor \in Int
    BY PolicyAssumption DEF PolicyBundle
  <1> HIDE DEF s
  <1>6. (action \in {"block", "allow_with_intended_block"})
             # (shared \in {"BLOCK", "ALLOW_WITH_INTENDED_BLOCK"}) => exact # round
    BY <1>1, <1>3, <1>4
  <1>7. shared = "BLOCK" /\ action \notin {"block", "block_on_alert"}
             => exact # round /\ s > Policy.s_alert_floor
    BY <1>1, <1>3, <1>4, <1>5
  <1> HIDE DEF exact, round
  <1>8. Agree(action, shared, mode, s)
    BY <1>4, <1>6, <1>7 DEF Agree, exact, round
  <1> QED BY <1>8 DEF traj, action, shared, s

-----------------------------------------------------------------------------
(* What append does to the file.                                           *)

\* The chain verifies exactly when no line is torn.
LEMMA VerifiedIs == ASSUME LedgerOK PROVE Verified <=> Untorn
  BY DEF LedgerOK, Verified, Untorn

\* A line that parses is not a torn one.
LEMMA TornIs == Torn.payload.type = "torn"
  BY DEF Torn

LEMMA Grown ==
    ASSUME LedgerOK, NEW e, file' = Append(file, e)
    PROVE  /\ IsSeq(file') /\ Len(file) \in Nat /\ Len(file') = Len(file) + 1
           /\ DOMAIN file = 1 .. Len(file)
           /\ DOMAIN file' = 1 .. Len(file) + 1
           /\ \A i \in 1 .. Len(file) : file'[i] = file[i]
           /\ file'[Len(file) + 1] = e
           /\ \A i \in 1 .. Len(file) + 1 : PreviousHash(i)' = PreviousHash(i)
           /\ Replayed' = ReplayEntry(Replayed, e)
  <1>1. IsSeq(file)
    BY DEF LedgerOK
  <1>2. /\ IsSeq(file') /\ Len(file) \in Nat /\ Len(file') = Len(file) + 1
        /\ DOMAIN file = 1 .. Len(file)
        /\ DOMAIN file' = 1 .. Len(file) + 1
        /\ \A i \in 1 .. Len(file) : file'[i] = file[i]
        /\ file'[Len(file) + 1] = e
    BY <1>1, AppendIs
  <1>3. ASSUME NEW i \in 1 .. Len(file) + 1 PROVE PreviousHash(i)' = PreviousHash(i)
    <2>1. CASE i = 1
      BY <2>1 DEF PreviousHash
    <2>2. CASE i # 1
      <3>1. i - 1 \in 1 .. Len(file)
        BY <1>2, <2>2
      <3> QED BY <1>2, <2>2, <3>1 DEF PreviousHash
    <2> QED BY <2>1, <2>2
  <1>4. Replayed' = ReplayEntry(Replayed, e)
    <2>1. ReplayOf(file') = ReplayEntry(ReplayOf(file), e)
      BY <1>2, ReplayOneMore
    <2> QED BY <2>1, ReplayedIs
  <1> QED BY <1>2, <1>3, <1>4

\* A verified chain grows by one whole line, or by a torn one.
LEMMA LedgerGrows ==
    ASSUME LedgerOK, Untorn, UNCHANGED issued, NEW m, NEW payload,
           file' = Append(file, EntryOf(m, payload)) /\ PayloadOK(payload, issued)
    PROVE  LedgerOK' /\ Untorn' /\ file'[Len(file) + 1].payload = payload
  <1> DEFINE k == Len(file) + 1
             e == EntryOf(m, payload)
  <1>1. /\ IsSeq(file') /\ Len(file) \in Nat
        /\ DOMAIN file = 1 .. Len(file) /\ DOMAIN file' = 1 .. k
        /\ \A i \in 1 .. Len(file) : file'[i] = file[i]
        /\ file'[k] = e
        /\ \A i \in 1 .. k : PreviousHash(i)' = PreviousHash(i)
    BY Grown
  <1>2. /\ e.previous_hash = PreviousHash(k) /\ e.payload = payload
        /\ e.chain_hash = compute_chain_hash(PreviousHash(k), payload)
    BY DEF EntryOf, Tip
  <1>3. e # Torn
    BY <1>2, TornIs DEF PayloadOK
  <1> HIDE DEF e
  <1>4. ASSUME NEW i \in DOMAIN file'
        PROVE  /\ file'[i] # Torn
               /\ file'[i].previous_hash = PreviousHash(i)'
               /\ file'[i].chain_hash = compute_chain_hash(PreviousHash(i)', file'[i].payload)
               /\ PayloadOK(file'[i].payload, issued')
    <2>1. CASE i = k
      <3>1. PayloadOK(payload, issued')
        OBVIOUS
      <3>2. PreviousHash(i)' = PreviousHash(i)
        BY <1>1
      <3> QED BY <1>1, <1>2, <1>3, <2>1, <3>1, <3>2
    <2>2. CASE i # k
      <3>1. i \in DOMAIN file /\ file'[i] = file[i] /\ PreviousHash(i)' = PreviousHash(i)
        BY <1>1, <2>2
      <3>2. /\ file[i] # Torn /\ PayloadOK(file[i].payload, issued)
            /\ file[i].previous_hash = PreviousHash(i)
            /\ file[i].chain_hash = compute_chain_hash(PreviousHash(i), file[i].payload)
        BY <3>1 DEF LedgerOK, Untorn
      <3>3. PayloadOK(file[i].payload, issued')
        BY <3>2
      <3> QED BY <3>1, <3>2, <3>3
    <2> QED BY <2>1, <2>2
  <1>5. LedgerOK'
    BY <1>1, <1>4 DEF LedgerOK
  <1>6. Untorn'
    BY <1>4 DEF Untorn
  <1> QED BY <1>1, <1>2, <1>5, <1>6

LEMMA LedgerTears ==
    ASSUME LedgerOK, Untorn, UNCHANGED issued, file' = Append(file, Torn)
    PROVE  LedgerOK' /\ ~Untorn'
  <1> DEFINE k == Len(file) + 1
  <1>1. /\ IsSeq(file') /\ Len(file) \in Nat /\ Len(file') = k
        /\ DOMAIN file = 1 .. Len(file) /\ DOMAIN file' = 1 .. k
        /\ \A i \in 1 .. Len(file) : file'[i] = file[i]
        /\ file'[k] = Torn
        /\ \A i \in 1 .. k : PreviousHash(i)' = PreviousHash(i)
    BY Grown
  <1>2. ASSUME NEW i \in DOMAIN file', i # k
        PROVE  /\ file'[i].previous_hash = PreviousHash(i)'
               /\ file'[i].chain_hash = compute_chain_hash(PreviousHash(i)', file'[i].payload)
               /\ PayloadOK(file'[i].payload, issued')
    <2>1. i \in DOMAIN file /\ file'[i] = file[i] /\ PreviousHash(i)' = PreviousHash(i)
      BY <1>1, <1>2
    <2>2. /\ file[i] # Torn /\ PayloadOK(file[i].payload, issued)
          /\ file[i].previous_hash = PreviousHash(i)
          /\ file[i].chain_hash = compute_chain_hash(PreviousHash(i), file[i].payload)
      BY <2>1 DEF LedgerOK, Untorn
    <2>3. PayloadOK(file[i].payload, issued')
      BY <2>2
    <2> QED BY <2>1, <2>2, <2>3
  <1>3. LedgerOK'
    BY <1>1, <1>2 DEF LedgerOK
  <1>4. k \in DOMAIN file'
    BY <1>1
  <1> QED BY <1>1, <1>3, <1>4 DEF Untorn

-----------------------------------------------------------------------------
(* What the handlers give to append: a payload, and a memory that already  *)
(* has the change the payload tells of.                                    *)
Writes(m, payload, memory) ==
    \/ /\ payload.type = "observation" /\ payload.mode = mem[m].mode
       /\ payload.event \in Events
       /\ Judged(payload)
       /\ memory = [mem[m] EXCEPT !.window = Pushed(mem[m].window, compute_stability(payload.event))]
    \/ /\ payload.type = "control_transition" /\ payload.to_mode \in Operating
       /\ payload.proof \in issued /\ payload.proof.action = payload.transition
       /\ payload.proof.operator \in Registered
       /\ payload.proof.nonce \in Nonces \ mem[m].nonces
       /\ memory = [mem[m] EXCEPT !.mode = payload.to_mode,
                                  !.nonces = mem[m].nonces \cup {payload.proof.nonce}]
    \/ /\ payload.type = "denied"
       /\ memory = mem[m]

Handled(m) ==
    /\ mem[m].up
    /\ UNCHANGED <<issued, expired, bound>>
    /\ \E payload, memory : Writes(m, payload, memory) /\ AppendEntry(m, payload, memory)

LEMMA MemoryTyped ==
    ASSUME MemOK, NEW m \in Monitors
    PROVE  /\ mem[m].mode \in Operating \cup {NoMode}
           /\ mem[m].window \in Windows /\ mem[m].nonces \subseteq Nonces
           /\ mem[m].loaded \in Nat /\ mem[m].up \in BOOLEAN
           /\ mem[m].up => mem[m].mode \in Operating
  <1>1. PICK H : mem \in [Monitors -> Memory(H)]
    BY DEF MemOK
  <1>2. mem[m] \in Memory(H)
    BY <1>1
  <1>3. mem[m].up => mem[m].mode # NoMode
    BY DEF MemOK
  <1> QED BY <1>2, <1>3 DEF Memory

LEMMA ObserveIs ==
    ASSUME R4Inv, NEW m \in Monitors, NEW event \in Events, observe(m, event), EngineAccepts
    PROVE  Handled(m)
  <1> DEFINE window  == Pushed(mem[m].window, compute_stability(event))
             traj    == Trajectory(window, event.option_space)
             payload == [type |-> "observation", mode |-> mem[m].mode, event |-> event,
                         action |-> action_for_trajectory(mem[m].mode, traj),
                         shared |-> evaluate_membrane(traj, event.option_space, mem[m].mode)]
             memory  == [mem[m] EXCEPT !.window = window]
  <1>1. mem[m].up /\ AppendEntry(m, payload, memory) /\ UNCHANGED <<issued, expired, bound>>
    BY DEF observe
  <1>2. mem[m].mode \in Operating /\ mem[m].window \in Windows
    BY <1>1, MemoryTyped DEF R4Inv
  <1>3. Last(window) \in Int
    BY <1>2, StabilityIs, PushedIs
  <1>4. Judged(payload)
    <2>1. Last(window) = compute_stability(event)
      BY <1>2, StabilityIs, PushedIs
    <2> DEFINE s == compute_stability(event)
    <2> HIDE DEF window
    <2>2. Agree(action_for_trajectory(mem[m].mode, traj),
                evaluate_membrane(traj, event.option_space, mem[m].mode), mem[m].mode, s)
      BY <1>2, <1>3, <2>1, EnginesAgree
    <2>3. /\ payload.action = action_for_trajectory(mem[m].mode, traj)
          /\ payload.shared = evaluate_membrane(traj, event.option_space, mem[m].mode)
          /\ payload.mode = mem[m].mode /\ payload.event = event
      OBVIOUS
    <2> HIDE DEF traj, payload
    <2> QED BY <2>2, <2>3 DEF Judged
  <1> HIDE DEF traj
  <1>5. Writes(m, payload, memory)
    <2>1. payload.type = "observation" /\ payload.mode = mem[m].mode /\ payload.event = event
      OBVIOUS
    <2> HIDE DEF payload
    <2> QED BY <1>4, <2>1 DEF Writes
  <1> HIDE DEF payload, memory
  <1> QED BY <1>1, <1>5 DEF Handled

\* An altered proof does not verify: its signature is over another action.
LEMMA AuthorisedIs ==
    ASSUME IssuedOK, NEW proof \in Presented, verify_transition_proof(proof)
    PROVE  proof \in issued /\ proof.operator \in Registered /\ proof.nonce \in Nonces
  <1>1. PICK p \in issued : p = proof \/ \E a \in Transitions : proof = [p EXCEPT !.action = a]
    BY DEF Presented
  <1>2. PICK o \in Operators, b \in Transitions, n \in Nonces :
          p = [operator |-> o, action |-> b, nonce |-> n,
               signature |-> [operator |-> o, over |-> [operator |-> o, nonce |-> n, action |-> b]]]
    BY DEF IssuedOK, issue_transition_proof, Signed, canonical_payload
  <1>3. proof.operator \in Registered /\ proof.signature = Signed(canonical_payload(proof))
    BY DEF verify_transition_proof
  <1>4. CASE p = proof
    BY <1>2, <1>3, <1>4
  <1>5. ASSUME NEW a \in Transitions, proof = [p EXCEPT !.action = a]
        PROVE  proof = p
    <2>1. proof = [operator |-> o, action |-> a, nonce |-> n,
                   signature |-> [operator |-> o, over |-> [operator |-> o, nonce |-> n, action |-> b]]]
      BY <1>2, <1>5
    <2>2. proof.signature.over.action = b
      BY <2>1
    <2>3. Signed(canonical_payload(proof)).over.action = a
      BY <2>1 DEF Signed, canonical_payload
    <2>4. a = b
      BY <1>3, <2>2, <2>3
    <2> QED BY <1>2, <2>1, <2>4
  <1>6. proof = p
    BY <1>1, <1>4, <1>5
  <1> QED BY <1>2, <1>3, <1>6

LEMMA ControlIs ==
    ASSUME R4Inv, NEW m \in Monitors, NEW action \in Transitions, NEW proof \in Presented,
           ControlTransition(m, action, proof)
    PROVE  Handled(m)
  <1> DEFINE reason == FailureReason(m, action, proof)
  <1>1. mem[m].up /\ UNCHANGED <<issued, expired, bound>>
    BY DEF ControlTransition
  <1>2. CASE reason # "none"
    <2> DEFINE payload == [type |-> "denied", reason |-> reason]
    <2>1. AppendEntry(m, payload, mem[m])
      BY <1>2 DEF ControlTransition
    <2>2. payload.type = "denied"
      OBVIOUS
    <2> HIDE DEF payload
    <2>3. Writes(m, payload, mem[m])
      BY <2>2 DEF Writes
    <2> QED BY <1>1, <2>1, <2>3 DEF Handled
  <1>3. CASE reason = "none"
    <2> DEFINE payload == [type |-> "control_transition", transition |-> action,
                           to_mode |-> TargetMode(action), proof |-> proof]
               memory == [mem[m] EXCEPT !.mode = TargetMode(action),
                                        !.nonces = mem[m].nonces \cup {proof.nonce}]
    <2>1. AppendEntry(m, payload, memory)
      BY <1>3 DEF ControlTransition
    <2>2. /\ proof.action = action /\ proof.nonce \notin mem[m].nonces
          /\ verify_transition_proof(proof)
      BY <1>3 DEF FailureReason
    <2>3. proof \in issued /\ proof.operator \in Registered /\ proof.nonce \in Nonces
      BY <2>2, AuthorisedIs DEF R4Inv
    <2>4. /\ payload.type = "control_transition" /\ payload.transition = action
          /\ payload.to_mode = TargetMode(action) /\ payload.proof = proof
      OBVIOUS
    <2>5. TargetMode(action) \in Operating
      BY DEF TargetMode, Operating
    <2> HIDE DEF payload
    <2>6. Writes(m, payload, memory)
      BY <2>2, <2>3, <2>4, <2>5 DEF Writes
    <2> HIDE DEF memory
    <2> QED BY <1>1, <2>1, <2>6 DEF Handled
  <1> QED BY <1>2, <1>3

-----------------------------------------------------------------------------
(* One append, part by part.  Whether it is written, lost or torn, the     *)
(* writer's memory has moved on.                                           *)
Written(m, payload) ==
    /\ Untorn /\ Len(file) < bound.entries
    /\ file' = Append(file, EntryOf(m, payload))
    /\ authors' = Append(authors, [by |-> m, loaded |-> mem[m].loaded])
    /\ synced' = [n \in Monitors |->
          IF n = m THEN synced[n] \cup Tells(payload) ELSE synced[n] \ Hides(payload)]

Raised(m, payload) ==
    /\ file' = file \/ (Untorn /\ file' = Append(file, Torn))
    /\ synced' = [synced EXCEPT ![m] = synced[m] \ Loses(payload)]
    /\ UNCHANGED authors

LEMMA Outcomes ==
    ASSUME LedgerOK, NEW m, NEW payload, NEW memory, AppendEntry(m, payload, memory)
    PROVE  Written(m, payload) \/ Raised(m, payload)
  BY VerifiedIs DEF AppendEntry, Written, Raised

Remembers(m, memory) ==
    /\ \E H : mem' \in [Monitors -> Memory(H)]
    /\ \A n \in Monitors \ {m} : mem'[n] = mem[n]
    /\ mem'[m].up /\ mem'[m].loaded = mem[m].loaded
    /\ mem'[m].mode = memory.mode /\ memory.mode \in Operating
    /\ mem'[m].window = memory.window /\ mem'[m].nonces = memory.nonces
    /\ mem[m].nonces \subseteq memory.nonces

LEMMA MemoryStep ==
    ASSUME R4Inv, NEW m \in Monitors, mem[m].up, NEW payload, NEW memory,
           Writes(m, payload, memory), AppendEntry(m, payload, memory)
    PROVE  Remembers(m, memory)
  <1>1. PICK H : mem \in [Monitors -> Memory(H)]
    BY DEF R4Inv, MemOK
  <1>2. /\ mem[m] \in Memory(H) /\ mem[m].up = TRUE
        /\ mem[m].mode \in Operating /\ mem[m].window \in Windows
    <2>1. mem[m].mode \in Operating /\ mem[m].window \in Windows /\ mem[m].up \in BOOLEAN
      BY MemoryTyped DEF R4Inv
    <2> QED BY <1>1, <2>1
  <1>3. /\ memory \in Memory(H) /\ memory.up = TRUE /\ memory.mode \in Operating
        /\ memory.loaded = mem[m].loaded /\ mem[m].nonces \subseteq memory.nonces
    <2>1. CASE payload.type = "observation"
      <3> DEFINE w == Pushed(mem[m].window, compute_stability(payload.event))
      <3>1. payload.event \in Events /\ memory = [mem[m] EXCEPT !.window = w]
        BY <2>1 DEF Writes
      <3>2. w \in Windows
        BY <1>2, <3>1, StabilityIs, PushedIs
      <3> HIDE DEF w
      <3> QED BY <1>2, <3>1, <3>2 DEF Memory
    <2>2. CASE payload.type = "control_transition"
      <3>1. /\ payload.to_mode \in Operating /\ payload.proof.nonce \in Nonces
            /\ memory = [mem[m] EXCEPT !.mode = payload.to_mode,
                                       !.nonces = mem[m].nonces \cup {payload.proof.nonce}]
        BY <2>2 DEF Writes
      <3> QED BY <1>2, <3>1 DEF Memory
    <2>3. CASE payload.type = "denied"
      <3>1. memory = mem[m]
        BY <2>3 DEF Writes
      <3> QED BY <1>2, <3>1
    <2> QED BY <2>1, <2>2, <2>3 DEF Writes
  <1>4. PICK h : mem' = [mem EXCEPT ![m] = [memory EXCEPT !.last_hash = h]] \/ mem' = [mem EXCEPT ![m] = memory]
    BY DEF AppendEntry
  <1> DEFINE G == H \cup {h}
  <1>5. /\ mem \in [Monitors -> Memory(G)]
        /\ [memory EXCEPT !.last_hash = h] \in Memory(G) /\ memory \in Memory(G)
        /\ [memory EXCEPT !.last_hash = h].up = TRUE
        /\ [memory EXCEPT !.last_hash = h].mode = memory.mode
        /\ [memory EXCEPT !.last_hash = h].window = memory.window
        /\ [memory EXCEPT !.last_hash = h].nonces = memory.nonces
        /\ [memory EXCEPT !.last_hash = h].loaded = memory.loaded
    <2>1. H \subseteq G /\ h \in G
      OBVIOUS
    <2> HIDE DEF G
    <2>2. Memory(H) \subseteq Memory(G)
      BY <2>1 DEF Memory
    <2>3. mem \in [Monitors -> Memory(G)] /\ memory \in Memory(G)
      BY <1>1, <1>3, <2>2
    <2> QED BY <1>3, <2>1, <2>3 DEF Memory
  <1> HIDE DEF G
  <1>6. mem' \in [Monitors -> Memory(G)]
    BY <1>4, <1>5
  <1>7. /\ \A n \in Monitors \ {m} : mem'[n] = mem[n]
        /\ mem'[m].up = TRUE /\ mem'[m].loaded = memory.loaded
        /\ mem'[m].mode = memory.mode
        /\ mem'[m].window = memory.window /\ mem'[m].nonces = memory.nonces
    BY <1>1, <1>3, <1>4, <1>5
  <1> QED BY <1>3, <1>6, <1>7 DEF Remembers

\* What is written is well formed.
LEMMA PayloadIs ==
    ASSUME R4Inv, NEW m \in Monitors, mem[m].up, NEW payload, NEW memory,
           Writes(m, payload, memory)
    PROVE  PayloadOK(payload, issued)
  <1>1. mem[m].mode \in Operating
    BY MemoryTyped DEF R4Inv
  <1> QED BY <1>1 DEF Writes, PayloadOK

LEMMA LedgerStep ==
    ASSUME R4Inv, NEW m \in Monitors, mem[m].up, NEW payload, NEW memory,
           Writes(m, payload, memory), UNCHANGED issued,
           Written(m, payload) \/ Raised(m, payload)
    PROVE  LedgerOK'
  <1>1. CASE Written(m, payload)
    BY <1>1, PayloadIs, LedgerGrows DEF R4Inv, Written
  <1>2. CASE Raised(m, payload)
    <2>1. CASE file' = file
      BY <2>1 DEF R4Inv, LedgerOK, PreviousHash
    <2>2. CASE Untorn /\ file' = Append(file, Torn)
      BY <2>2, LedgerTears DEF R4Inv
    <2> QED BY <1>2, <2>1, <2>2 DEF Raised
  <1> QED BY <1>1, <1>2

LEMMA CountsStep ==
    ASSUME R4Inv, NEW m \in Monitors, mem[m].up, NEW payload, NEW memory,
           Writes(m, payload, memory), AppendEntry(m, payload, memory),
           UNCHANGED <<issued, expired, bound>>
    PROVE  CountsOK' /\ AuthorsOK'
  <1>1. /\ bound \in Bounds /\ bound.entries \in Nat /\ bound.faults \in Nat
        /\ faults \in 0 .. bound.faults
        /\ Untorn => Len(file) <= bound.entries
        /\ Len(file) <= bound.entries + 1
    <2>1. bound \in [entries : Nat, faults : Nat]
      BY MonitorAssumption DEF R4Inv, CountsOK
    <2> QED BY <2>1 DEF R4Inv, CountsOK
  <1>2. faults' \in 0 .. bound.faults
    BY <1>1 DEF AppendEntry
  <1>3. LedgerOK /\ IsSeq(file) /\ IsSeq(authors)
    BY DEF R4Inv, LedgerOK, AuthorsOK
  <1>4. CASE Written(m, payload)
    <2>1. Untorn'
      BY <1>3, <1>4, PayloadIs, LedgerGrows DEF Written
    <2>2. /\ Len(file) \in Nat /\ Len(authors) = Len(file)
          /\ Len(file') = Len(file) + 1 /\ Len(authors') = Len(authors) + 1 /\ IsSeq(authors')
      BY <1>3, <1>4, AppendIs DEF Written, R4Inv, AuthorsOK
    <2> QED BY <1>1, <1>2, <1>4, <2>1, <2>2 DEF Written, CountsOK, AuthorsOK, R4Inv
  <1>5. CASE Raised(m, payload)
    <2>1. CASE file' = file
      BY <1>1, <1>2, <1>5, <2>1 DEF Raised, CountsOK, AuthorsOK, R4Inv, Untorn
    <2>2. CASE Untorn /\ file' = Append(file, Torn)
      <3>1. ~Untorn'
        BY <1>3, <2>2, LedgerTears
      <3>2. Len(file) \in Nat /\ Len(authors) = Len(file) /\ Len(file') = Len(file) + 1
        BY <1>3, <2>2, AppendIs DEF R4Inv, AuthorsOK
      <3> QED BY <1>1, <1>2, <1>5, <2>2, <3>1, <3>2 DEF Raised, CountsOK, AuthorsOK, R4Inv
    <2> QED BY <1>5, <2>1, <2>2 DEF Raised
  <1> QED BY <1>3, <1>4, <1>5, Outcomes

\* A torn line is no transition and replays to nothing.
LEMMA TornReplayed ==
    ASSUME LedgerOK, file' = Append(file, Torn)
    PROVE  /\ Replayed' = Replayed /\ Transitioned' = Transitioned
           /\ \A i \in Transitioned : file'[i] = file[i]
  <1>1. /\ DOMAIN file = 1 .. Len(file) /\ DOMAIN file' = 1 .. Len(file) + 1 /\ Len(file) \in Nat
        /\ \A i \in 1 .. Len(file) : file'[i] = file[i]
        /\ file'[Len(file) + 1] = Torn /\ Replayed' = ReplayEntry(Replayed, Torn)
    BY Grown
  <1>2. ReplayEntry(Replayed, Torn) = Replayed
    BY TornIs DEF ReplayEntry
  <1>3. Transitioned' = Transitioned
    BY <1>1, TornIs DEF Transitioned
  <1>4. Transitioned \subseteq 1 .. Len(file)
    BY <1>1 DEF Transitioned
  <1> QED BY <1>1, <1>2, <1>3, <1>4

LEMMA ReplayStep ==
    ASSUME R4Inv, NEW m \in Monitors, mem[m].up, NEW payload, NEW memory,
           Writes(m, payload, memory), UNCHANGED issued,
           Written(m, payload) \/ Raised(m, payload)
    PROVE  ReplayOK'
  <1>1. /\ LedgerOK /\ \A i \in Transitioned : file[i].payload.proof.nonce \in Replayed.nonces
        /\ Replayed \in [mode : Operating, window : Windows, nonces : SUBSET Nonces]
    BY DEF R4Inv, ReplayOK
  <1>2. CASE Written(m, payload)
    <2> DEFINE e == EntryOf(m, payload)
               k == Len(file) + 1
    <2>1. /\ DOMAIN file = 1 .. Len(file) /\ DOMAIN file' = 1 .. k /\ Len(file) \in Nat
          /\ \A i \in 1 .. Len(file) : file'[i] = file[i]
          /\ file'[k] = e /\ Replayed' = ReplayEntry(Replayed, e)
      BY <1>1, <1>2, Grown DEF Written
    <2>2. e.payload = payload
      BY DEF EntryOf
    <2> HIDE DEF e
    <2>3. /\ Replayed' \in [mode : Operating, window : Windows, nonces : SUBSET Nonces]
          /\ Replayed.nonces \subseteq Replayed'.nonces
          /\ payload.type = "control_transition" => payload.proof.nonce \in Replayed'.nonces
      <3>1. mem[m].mode \in Operating
        BY MemoryTyped DEF R4Inv
      <3>2. CASE payload.type = "observation"
        <4> DEFINE w == Pushed(Replayed.window, compute_stability(payload.event))
        <4>1. payload.event \in Events /\ payload.mode \in Operating
          BY <3>1, <3>2 DEF Writes
        <4>2. w \in Windows
          BY <1>1, <4>1, StabilityIs, PushedIs
        <4>3. Replayed' = [Replayed EXCEPT !.mode = payload.mode, !.window = w]
          BY <2>1, <2>2, <3>2 DEF ReplayEntry
        <4> HIDE DEF w
        <4> QED BY <1>1, <3>2, <4>1, <4>2, <4>3
      <3>3. CASE payload.type = "control_transition"
        <4>1. payload.to_mode \in Operating /\ payload.proof.nonce \in Nonces
          BY <3>3 DEF Writes
        <4>2. Replayed' = [Replayed EXCEPT !.mode = payload.to_mode,
                                           !.nonces = Replayed.nonces \cup {payload.proof.nonce}]
          BY <2>1, <2>2, <3>3 DEF ReplayEntry
        <4> QED BY <1>1, <4>1, <4>2
      <3>4. CASE payload.type = "denied"
        <4>1. Replayed' = Replayed
          BY <2>1, <2>2, <3>4 DEF ReplayEntry
        <4> QED BY <1>1, <3>4, <4>1
      <3> QED BY <3>2, <3>3, <3>4 DEF Writes
    <2>4. ASSUME NEW i \in Transitioned' PROVE file'[i].payload.proof.nonce \in Replayed'.nonces
      <3>1. i \in DOMAIN file' /\ file'[i].payload.type = "control_transition"
        BY DEF Transitioned
      <3>2. CASE i = k
        BY <2>1, <2>2, <2>3, <3>1, <3>2
      <3>3. CASE i # k
        <4>1. i \in Transitioned /\ file'[i] = file[i]
          BY <2>1, <3>1, <3>3 DEF Transitioned
        <4> QED BY <1>1, <2>3, <4>1
      <3> QED BY <3>2, <3>3
    <2> QED BY <2>3, <2>4 DEF ReplayOK
  <1>3. CASE Raised(m, payload)
    <2>1. CASE file' = file
      BY <1>1, <2>1 DEF ReplayOK, Replayed, Transitioned
    <2>2. CASE Untorn /\ file' = Append(file, Torn)
      <3>1. Replayed' = Replayed /\ Transitioned' = Transitioned
            /\ \A i \in Transitioned : file'[i] = file[i]
        BY <1>1, <2>2, TornReplayed
      <3> QED BY <1>1, <3>1 DEF ReplayOK
    <2> QED BY <1>3, <2>1, <2>2 DEF Raised
  <1> QED BY <1>2, <1>3

LEMMA KnownStep ==
    ASSUME R4Inv, NEW m \in Monitors, mem[m].up, NEW payload, NEW memory,
           Writes(m, payload, memory), UNCHANGED issued, Remembers(m, memory),
           Written(m, payload) \/ Raised(m, payload)
    PROVE  Known' /\ ProofReusedOnlyByStaleMonitor'
  <1>1. /\ LedgerOK /\ Known /\ ProofReusedOnlyByStaleMonitor
        /\ IsSeq(authors) /\ Len(authors) = IF Untorn THEN Len(file) ELSE Len(file) - 1
        /\ \A n \in Monitors : mem[n].loaded \in Nat /\ mem[n].loaded <= Len(file)
    BY MemoryTyped DEF R4Inv, AuthorsOK, MemOK
  <1>2. /\ \A n \in Monitors : mem'[n].loaded = mem[n].loaded
        /\ \A n \in Monitors : mem'[n].up => mem[n].up /\ mem[n].nonces \subseteq mem'[n].nonces
        /\ mem'[m].nonces = memory.nonces
    BY DEF Remembers
  <1>3. CASE Written(m, payload)
    <2> DEFINE k == Len(file) + 1
    <2>1. /\ DOMAIN file = 1 .. Len(file) /\ DOMAIN file' = 1 .. k /\ Len(file) \in Nat
          /\ \A i \in 1 .. Len(file) : file'[i] = file[i]
          /\ file'[k].payload = payload
      BY <1>1, <1>3, Grown, PayloadIs, LedgerGrows DEF Written
    <2>2. /\ Len(authors) = Len(file)
          /\ \A i \in 1 .. Len(file) : authors'[i] = authors[i]
          /\ authors'[k] = [by |-> m, loaded |-> mem[m].loaded]
      BY <1>1, <1>3, AppendIs DEF Written
    <2>3. \A i \in Transitioned' :
             \/ i \in Transitioned /\ i \in 1 .. Len(file) /\ file'[i] = file[i] /\ authors'[i] = authors[i]
             \/ i = k /\ payload.type = "control_transition"
      BY <2>1, <2>2 DEF Transitioned
    <2>4. payload.type = "control_transition"
            => /\ payload.proof.nonce \notin mem[m].nonces
               /\ payload.proof.nonce \in memory.nonces
      <3>1. MemOK
        BY DEF R4Inv
      <3> SUFFICES ASSUME payload.type = "control_transition"
                   PROVE  payload.proof.nonce \notin mem[m].nonces /\ payload.proof.nonce \in memory.nonces
        OBVIOUS
      <3>2. /\ payload.proof.nonce \notin mem[m].nonces
            /\ memory = [mem[m] EXCEPT !.mode = payload.to_mode,
                                       !.nonces = mem[m].nonces \cup {payload.proof.nonce}]
        BY DEF Writes
      <3>3. PICK H : mem \in [Monitors -> Memory(H)]
        BY <3>1 DEF MemOK
      <3>4. mem[m] \in Memory(H)
        BY <3>3
      <3> QED BY <3>2, <3>4 DEF Memory
    <2>5. Known'
      <3> SUFFICES ASSUME NEW n \in Monitors, mem'[n].up, NEW i \in Transitioned',
                          i <= mem'[n].loaded \/ authors'[i].by = n
                   PROVE  file'[i].payload.proof.nonce \in mem'[n].nonces
        BY DEF Known
      <3>1. CASE i = k
        <4>0. mem[n].loaded \in Nat /\ mem[n].loaded <= Len(file) /\ Len(file) \in Nat
          BY <1>1, <2>1
        <4>1. ~(k <= mem[n].loaded)
          BY <4>0
        <4>2. n = m
          BY <1>2, <2>2, <3>1, <4>1
        <4>3. payload.type = "control_transition"
          BY <2>1, <3>1 DEF Transitioned
        <4> QED BY <1>2, <2>1, <2>4, <3>1, <4>2, <4>3
      <3>2. CASE i # k
        <4>1. i \in Transitioned /\ file'[i] = file[i] /\ authors'[i] = authors[i]
          BY <2>3, <3>2
        <4>2. file[i].payload.proof.nonce \in mem[n].nonces
          BY <1>1, <1>2, <4>1 DEF Known
        <4> QED BY <1>2, <4>1, <4>2
      <3> QED BY <3>1, <3>2
    <2>6. ProofReusedOnlyByStaleMonitor'
      <3> SUFFICES ASSUME NEW i \in Transitioned', NEW j \in Transitioned', i < j,
                          file'[i].payload.proof.nonce = file'[j].payload.proof.nonce
                   PROVE  authors'[j].by # authors'[i].by /\ authors'[j].loaded < i
        BY DEF ProofReusedOnlyByStaleMonitor
      <3>1. i \in 1 .. k /\ j \in 1 .. k /\ i # k
        BY <2>1 DEF Transitioned
      <3>2. i \in Transitioned /\ file'[i] = file[i] /\ authors'[i] = authors[i]
        BY <2>3, <3>1
      <3>3. CASE j # k
        <4>1. j \in Transitioned /\ file'[j] = file[j] /\ authors'[j] = authors[j]
          BY <2>3, <3>3
        <4> QED BY <1>1, <3>2, <4>1 DEF ProofReusedOnlyByStaleMonitor
      <3>4. CASE j = k
        <4>1. payload.type = "control_transition"
          BY <2>1, <3>4 DEF Transitioned
        <4>2. file[i].payload.proof.nonce \notin mem[m].nonces
          BY <2>1, <2>4, <3>2, <3>4, <4>1
        <4>3. ~(i <= mem[m].loaded) /\ authors[i].by # m
          BY <1>1, <3>2, <4>2 DEF Known
        <4>4. mem[m].loaded \in Nat
          BY <1>1
        <4>6. i \in Nat
          BY <2>1, <3>1
        <4>5. authors'[j].by = m /\ authors'[j].loaded = mem[m].loaded
          BY <2>2, <3>4
        <4> QED BY <3>2, <4>3, <4>4, <4>5, <4>6
      <3> QED BY <3>3, <3>4
    <2> QED BY <2>5, <2>6
  <1>4. CASE Raised(m, payload)
    <2>1. /\ Transitioned' = Transitioned /\ authors' = authors
          /\ \A i \in Transitioned : file'[i] = file[i]
      <3>1. CASE file' = file
        BY <1>4, <3>1 DEF Raised, Transitioned
      <3>2. CASE Untorn /\ file' = Append(file, Torn)
        BY <1>1, <1>4, <3>2, TornReplayed DEF Raised
      <3> QED BY <1>4, <3>1, <3>2 DEF Raised
    <2>2. Known'
      BY <1>1, <1>2, <2>1 DEF Known
    <2>3. ProofReusedOnlyByStaleMonitor'
      BY <1>1, <2>1 DEF ProofReusedOnlyByStaleMonitor
    <2> QED BY <2>2, <2>3
  <1> QED BY <1>3, <1>4

\* The history variable says what a restart would restore.
LEMMA RestartStep ==
    ASSUME R4Inv, NEW m \in Monitors, mem[m].up, NEW payload, NEW memory,
           Writes(m, payload, memory), UNCHANGED issued, Remembers(m, memory),
           Written(m, payload) \/ Raised(m, payload)
    PROVE  RestartRestores' /\ synced' \in [Monitors -> SUBSET {"mode", "rest"}]
  <1>1. /\ LedgerOK /\ RestartRestores /\ synced \in [Monitors -> SUBSET {"mode", "rest"}]
        /\ Replayed \in [mode : Operating, window : Windows, nonces : SUBSET Nonces]
    BY DEF R4Inv, MemOK, ReplayOK
  <1>2. /\ \A n \in Monitors \ {m} : mem'[n] = mem[n]
        /\ mem'[m].mode = memory.mode /\ mem'[m].window = memory.window
        /\ mem'[m].nonces = memory.nonces
    BY DEF Remembers
  <1>3. PICK H : mem[m] \in Memory(H)
    BY DEF R4Inv, MemOK
  <1>4. CASE Written(m, payload)
    <2> DEFINE e == EntryOf(m, payload)
    <2>1. Replayed' = ReplayEntry(Replayed, e)
      BY <1>1, <1>4, Grown DEF Written
    <2>2. e.payload = payload
      BY DEF EntryOf
    <2> HIDE DEF e
    <2>3. synced' = [n \in Monitors |->
             IF n = m THEN synced[n] \cup Tells(payload) ELSE synced[n] \ Hides(payload)]
      BY <1>4 DEF Written
    <2>4. CASE payload.type = "observation"
      <3>1. Replayed' = [Replayed EXCEPT !.mode = payload.mode,
                            !.window = Pushed(Replayed.window, compute_stability(payload.event))]
        BY <2>1, <2>2, <2>4 DEF ReplayEntry
      <3>2. /\ payload.mode = mem[m].mode
            /\ memory = [mem[m] EXCEPT !.window = Pushed(mem[m].window, compute_stability(payload.event))]
        BY <2>4 DEF Writes
      <3>3. /\ memory.mode = payload.mode /\ memory.nonces = mem[m].nonces
            /\ memory.window = Pushed(mem[m].window, compute_stability(payload.event))
        BY <1>3, <3>2 DEF Memory
      <3>4. /\ Replayed'.mode = payload.mode /\ Replayed'.nonces = Replayed.nonces
            /\ Replayed'.window = Pushed(Replayed.window, compute_stability(payload.event))
        BY <1>1, <3>1
      <3>5. Tells(payload) = {"mode"} /\ Hides(payload) = {"mode", "rest"}
        BY <2>4 DEF Tells, Hides
      <3> QED BY <1>1, <1>2, <2>3, <3>3, <3>4, <3>5 DEF RestartRestores
    <2>5. CASE payload.type = "control_transition"
      <3>1. Replayed' = [Replayed EXCEPT !.mode = payload.to_mode,
                            !.nonces = Replayed.nonces \cup {payload.proof.nonce}]
        BY <2>1, <2>2, <2>5 DEF ReplayEntry
      <3>2. memory = [mem[m] EXCEPT !.mode = payload.to_mode,
                                    !.nonces = mem[m].nonces \cup {payload.proof.nonce}]
        BY <2>5 DEF Writes
      <3>3. /\ memory.mode = payload.to_mode /\ memory.window = mem[m].window
            /\ memory.nonces = mem[m].nonces \cup {payload.proof.nonce}
        BY <1>3, <3>2 DEF Memory
      <3>4. /\ Replayed'.mode = payload.to_mode /\ Replayed'.window = Replayed.window
            /\ Replayed'.nonces = Replayed.nonces \cup {payload.proof.nonce}
        BY <1>1, <3>1
      <3>5. Tells(payload) = {"mode"} /\ Hides(payload) = {"mode", "rest"}
        BY <2>5 DEF Tells, Hides
      <3> QED BY <1>1, <1>2, <2>3, <3>3, <3>4, <3>5 DEF RestartRestores
    <2>6. CASE payload.type = "denied"
      <3>1. Replayed' = Replayed
        BY <2>1, <2>2, <2>6 DEF ReplayEntry
      <3>2. memory = mem[m]
        BY <2>6 DEF Writes
      <3>3. Tells(payload) = {} /\ Hides(payload) = {}
        BY <2>6 DEF Tells, Hides
      <3> QED BY <1>1, <1>2, <2>3, <3>1, <3>2, <3>3 DEF RestartRestores
    <2> QED BY <2>4, <2>5, <2>6 DEF Writes
  <1>5. CASE Raised(m, payload)
    <2>1. Replayed' = Replayed
      <3>1. CASE file' = file
        BY <3>1 DEF Replayed
      <3> QED BY <1>1, <1>5, <3>1, TornReplayed DEF Raised
    <2>2. synced' = [synced EXCEPT ![m] = synced[m] \ Loses(payload)]
      BY <1>5 DEF Raised
    <2>3. CASE payload.type = "observation"
      <3>1. memory = [mem[m] EXCEPT !.window = Pushed(mem[m].window, compute_stability(payload.event))]
        BY <2>3 DEF Writes
      <3>2. memory.mode = mem[m].mode
        BY <1>3, <3>1 DEF Memory
      <3>3. Loses(payload) = {"rest"}
        BY <2>3 DEF Loses
      <3> QED BY <1>1, <1>2, <2>1, <2>2, <3>2, <3>3 DEF RestartRestores
    <2>4. CASE payload.type = "control_transition"
      <3>1. Loses(payload) = {"mode", "rest"}
        BY <2>4 DEF Loses
      <3> QED BY <1>1, <1>2, <2>1, <2>2, <3>1 DEF RestartRestores
    <2>5. CASE payload.type = "denied"
      <3>1. memory = mem[m] /\ Loses(payload) = {}
        BY <2>5 DEF Writes, Loses
      <3> QED BY <1>1, <1>2, <2>1, <2>2, <3>1 DEF RestartRestores
    <2> QED BY <2>3, <2>4, <2>5 DEF Writes
  <1> QED BY <1>4, <1>5

\* Every handler that appends preserves the invariant.
LEMMA HandledStep ==
    ASSUME R4Inv, NEW m \in Monitors, Handled(m)
    PROVE  R4Inv'
  <1>1. mem[m].up /\ UNCHANGED issued /\ UNCHANGED <<issued, expired, bound>>
    BY DEF Handled
  <1>2. PICK payload, memory : Writes(m, payload, memory) /\ AppendEntry(m, payload, memory)
    BY DEF Handled
  <1>3. Written(m, payload) \/ Raised(m, payload)
    BY <1>2, Outcomes DEF R4Inv
  <1>4. Remembers(m, memory)
    BY <1>1, <1>2, MemoryStep
  <1>5. CountsOK' /\ AuthorsOK'
    BY <1>1, <1>2, CountsStep
  <1>6. LedgerOK' /\ ReplayOK'
    BY <1>1, <1>2, <1>3, LedgerStep, ReplayStep
  <1>7. /\ Known' /\ ProofReusedOnlyByStaleMonitor'
        /\ RestartRestores' /\ synced' \in [Monitors -> SUBSET {"mode", "rest"}]
    BY <1>1, <1>2, <1>3, <1>4, KnownStep, RestartStep
  <1>8. IssuedOK'
    BY <1>1 DEF R4Inv, IssuedOK
  <1>9. MemOK'
    <2>1. Len(file) \in Nat /\ Len(file') \in Nat /\ Len(file) <= Len(file')
      <3>1. IsSeq(file)
        BY DEF R4Inv, LedgerOK
      <3>2. Len(file) \in Nat /\ \A e : Len(Append(file, e)) = Len(file) + 1
        BY <3>1, AppendIs
      <3> QED BY <1>3, <3>2 DEF Written, Raised
    <2>2. ASSUME NEW n \in Monitors
          PROVE  (mem'[n].up => mem'[n].mode # NoMode) /\ mem'[n].loaded <= Len(file')
      <3>1. mem[n].loaded \in Nat /\ mem[n].loaded <= Len(file) /\ (mem[n].up => mem[n].mode # NoMode)
        BY MemoryTyped DEF R4Inv, MemOK
      <3>2. mem'[n].loaded = mem[n].loaded /\ (mem'[n].up => mem'[n].mode # NoMode)
        BY <1>4, <3>1 DEF Remembers, Operating, NoMode
      <3> QED BY <2>1, <3>1, <3>2
    <2>3. \E H : mem' \in [Monitors -> Memory(H)]
      BY <1>4 DEF Remembers
    <2> QED BY <1>7, <2>2, <2>3 DEF MemOK
  <1> QED BY <1>5, <1>6, <1>7, <1>8, <1>9 DEF R4Inv

-----------------------------------------------------------------------------
LEMMA InitHolds == ASSUME Init PROVE R4Inv
  <1>1. /\ file = << >> /\ authors = << >> /\ IsSeq(<< >>) /\ Len(<< >>) = 0
        /\ DOMAIN << >> = {}
    BY EmptyIs DEF Init
  <1>2. bound \in Bounds /\ bound.entries \in Nat /\ bound.faults \in Nat
    <2>1. bound \in [entries : Nat, faults : Nat]
      BY MonitorAssumption DEF Init
    <2> QED BY <2>1 DEF Init
  <1>3. Untorn /\ Transitioned = {}
    BY <1>1 DEF Untorn, Transitioned
  <1>4. CountsOK
    BY <1>1, <1>2 DEF CountsOK, Init
  <1>5. IssuedOK
    BY DEF IssuedOK, Init
  <1>6. LedgerOK /\ AuthorsOK
    BY <1>1, <1>3 DEF LedgerOK, AuthorsOK
  <1>7. << >> \in Windows
    BY PolicyAssumption DEF Windows, PolicyBundle, ValidPolicy
  <1>8. MemOK
    <2>1. Stopped \in Memory({GENESIS_HASH}) /\ Stopped.up = FALSE /\ Stopped.loaded = 0
      BY <1>7 DEF Stopped, Memory
    <2> HIDE DEF Stopped
    <2>2. mem \in [Monitors -> Memory({GENESIS_HASH})]
      BY <2>1 DEF Init
    <2>3. \A m \in Monitors : mem[m] = Stopped
      BY DEF Init
    <2>4. synced \in [Monitors -> SUBSET {"mode", "rest"}]
      BY DEF Init
    <2> QED BY <1>1, <2>1, <2>2, <2>3, <2>4 DEF MemOK
  <1>9. ReplayOK
    <2>1. Replayed = Fresh
      BY <1>1, ReplayedIs, ReplayNothing
    <2>2. Fresh \in [mode : Operating, window : Windows, nonces : SUBSET Nonces]
      BY <1>7 DEF Fresh, Operating
    <2> QED BY <1>3, <2>1, <2>2 DEF ReplayOK
  <1>10. Known /\ ProofReusedOnlyByStaleMonitor /\ RestartRestores
    BY <1>3 DEF Known, ProofReusedOnlyByStaleMonitor, RestartRestores, Init
  <1> QED BY <1>4, <1>5, <1>6, <1>8, <1>9, <1>10 DEF R4Inv

\* Steps that do not touch the file.
LEMMA FileKept ==
    ASSUME R4Inv, UNCHANGED <<file, authors, bound>>, issued \subseteq issued'
    PROVE  /\ LedgerOK' /\ AuthorsOK' /\ ReplayOK' /\ ProofReusedOnlyByStaleMonitor'
           /\ Replayed' = Replayed /\ Transitioned' = Transitioned
  <1>1. \A p : PayloadOK(p, issued) => PayloadOK(p, issued')
    BY DEF PayloadOK
  <1>2. LedgerOK'
    BY <1>1 DEF R4Inv, LedgerOK, PreviousHash
  <1>3. AuthorsOK'
    BY DEF R4Inv, AuthorsOK, Untorn
  <1>4. Replayed' = Replayed /\ Transitioned' = Transitioned
    BY DEF Replayed, Transitioned
  <1>5. ReplayOK'
    BY <1>4 DEF R4Inv, ReplayOK
  <1>6. ProofReusedOnlyByStaleMonitor'
    BY <1>4 DEF R4Inv, ProofReusedOnlyByStaleMonitor
  <1> QED BY <1>2, <1>3, <1>4, <1>5, <1>6

LEMMA CountsKept ==
    ASSUME R4Inv, UNCHANGED <<file, bound, faults>>, expired' \subseteq Nonces
    PROVE  CountsOK'
  BY DEF R4Inv, CountsOK, Untorn

LEMMA MemoryKept ==
    ASSUME R4Inv, UNCHANGED <<file, mem, synced, authors>>
    PROVE  MemOK' /\ Known' /\ RestartRestores'
  BY DEF R4Inv, MemOK, Known, RestartRestores, Transitioned, Replayed

LEMMA IssueStep ==
    ASSUME R4Inv, NEW o \in Operators, NEW a \in Transitions, NEW n \in Nonces, Issue(o, a, n)
    PROVE  R4Inv'
  <1>1. /\ issued' = issued \cup {issue_transition_proof(o, a, n)}
        /\ UNCHANGED <<file, mem, expired, faults, authors, synced, bound>>
        /\ issued \subseteq issued'
    BY DEF Issue
  <1>2. IssuedOK'
    BY <1>1 DEF R4Inv, IssuedOK
  <1>3. CountsOK'
    BY <1>1, CountsKept DEF R4Inv, CountsOK
  <1> QED BY <1>1, <1>2, <1>3, FileKept, MemoryKept DEF R4Inv

LEMMA ExpireStep ==
    ASSUME R4Inv, NEW n \in Nonces, Expire(n)
    PROVE  R4Inv'
  <1>1. /\ expired' = expired \cup {n}
        /\ UNCHANGED <<file, mem, issued, faults, authors, synced, bound>>
    BY DEF Expire
  <1>2. IssuedOK'
    BY <1>1 DEF R4Inv, IssuedOK
  <1>3. CountsOK'
    BY <1>1, CountsKept DEF R4Inv, CountsOK
  <1> QED BY <1>1, <1>2, <1>3, FileKept, MemoryKept DEF R4Inv

\* A constructor or a stop replaces the memory of one monitor.
LEMMA ReplacedStep ==
    ASSUME R4Inv, NEW m \in Monitors, NEW x, NEW S \in SUBSET {"mode", "rest"},
           mem' = [mem EXCEPT ![m] = x], synced' = [synced EXCEPT ![m] = S],
           x \in Memory({x.last_hash}), x.up => x.mode # NoMode, x.loaded <= Len(file),
           x.up => \A i \in Transitioned : file[i].payload.proof.nonce \in x.nonces,
           "rest" \in S => x.window = Replayed.window /\ x.nonces = Replayed.nonces,
           "mode" \in S => x.mode = Replayed.mode,
           Replayed' = Replayed, Transitioned' = Transitioned,
           \A i \in Transitioned : file'[i] = file[i],
           UNCHANGED authors, Len(file) <= Len(file'), Len(file') \in Nat
    PROVE  MemOK' /\ Known' /\ RestartRestores'
  <1>1. PICK H : mem \in [Monitors -> Memory(H)]
    BY DEF R4Inv, MemOK
  <1>2. synced \in [Monitors -> SUBSET {"mode", "rest"}]
    BY DEF R4Inv, MemOK
  <1>3. mem'[m] = x /\ synced'[m] = S /\ \A n \in Monitors \ {m} : mem'[n] = mem[n] /\ synced'[n] = synced[n]
    BY <1>1, <1>2
  <1>4. synced' \in [Monitors -> SUBSET {"mode", "rest"}]
    BY <1>2
  <1>5. \E G : mem' \in [Monitors -> Memory(G)]
    <2> DEFINE G == H \cup {x.last_hash}
    <2>1. H \subseteq G /\ {x.last_hash} \subseteq G
      OBVIOUS
    <2> HIDE DEF G
    <2>2. Memory(H) \subseteq Memory(G) /\ Memory({x.last_hash}) \subseteq Memory(G)
      BY <2>1 DEF Memory
    <2>3. mem \in [Monitors -> Memory(G)] /\ x \in Memory(G)
      BY <1>1, <2>2
    <2>4. mem' \in [Monitors -> Memory(G)]
      BY <2>3
    <2> QED BY <2>4
  <1>6. x.loaded \in Nat /\ Len(file) \in Nat
    BY SeqIs DEF Memory, R4Inv, LedgerOK
  <1>7. ASSUME NEW n \in Monitors
        PROVE  (mem'[n].up => mem'[n].mode # NoMode) /\ mem'[n].loaded <= Len(file')
    <2>1. CASE n = m
      BY <1>3, <1>6, <2>1
    <2>2. CASE n # m
      <3>1. /\ mem[n].loaded \in Nat /\ mem[n].loaded <= Len(file)
            /\ mem[n].up => mem[n].mode # NoMode
        BY MemoryTyped DEF R4Inv, MemOK
      <3> QED BY <1>3, <1>6, <2>2, <3>1
    <2> QED BY <2>1, <2>2
  <1>8. Known'
    BY <1>3 DEF R4Inv, Known
  <1>9. RestartRestores'
    BY <1>3 DEF R4Inv, RestartRestores
  <1> QED BY <1>4, <1>5, <1>7, <1>8, <1>9 DEF MemOK

LEMMA StoppedIs ==
    /\ Stopped \in Memory({Stopped.last_hash}) /\ Stopped.up = FALSE /\ Stopped.loaded = 0
  <1>1. << >> \in Windows
    BY PolicyAssumption DEF Windows, PolicyBundle, ValidPolicy
  <1> QED BY <1>1 DEF Stopped, Memory

LEMMA ConstructStep ==
    ASSUME R4Inv, NEW m \in Monitors, NEW mode \in Overrides, Construct(m, mode)
    PROVE  R4Inv'
  <1> DEFINE x == [up |-> TRUE, mode |-> StartMode(mode),
                   window |-> Replayed.window, nonces |-> Replayed.nonces,
                   last_hash |-> PreviousHash(Len(file) + 1), loaded |-> Len(file)]
             S == IF mode = NoMode THEN {"mode", "rest"} ELSE {"rest"}
  <1>1. /\ mem' = [mem EXCEPT ![m] = x] /\ synced' = [synced EXCEPT ![m] = S]
        /\ UNCHANGED <<file, issued, expired, faults, authors, bound>>
    BY DEF Construct
  <1>2. /\ Replayed \in [mode : Operating, window : Windows, nonces : SUBSET Nonces]
        /\ \A i \in Transitioned : file[i].payload.proof.nonce \in Replayed.nonces
        /\ Len(file) \in Nat
    BY SeqIs DEF R4Inv, ReplayOK, LedgerOK
  <1>3. StartMode(mode) \in Operating /\ (mode = NoMode => StartMode(mode) = Replayed.mode)
    BY <1>2, MonitorAssumption DEF StartMode
  <1>4. /\ x \in Memory({x.last_hash}) /\ x.mode = StartMode(mode) /\ x.mode # NoMode
        /\ x.loaded = Len(file) /\ x.nonces = Replayed.nonces /\ x.window = Replayed.window
    BY <1>2, <1>3 DEF Memory, Operating, NoMode
  <1>5. S \in SUBSET {"mode", "rest"} /\ ("mode" \in S => mode = NoMode)
    OBVIOUS
  <1> HIDE DEF x, S
  <1>6. MemOK' /\ Known' /\ RestartRestores'
    <2>1. /\ Replayed' = Replayed /\ Transitioned' = Transitioned /\ UNCHANGED authors
          /\ \A i \in Transitioned : file'[i] = file[i]
          /\ Len(file) <= Len(file') /\ Len(file') \in Nat
      BY <1>1, <1>2 DEF Replayed, Transitioned
    <2> QED BY <1>1, <1>2, <1>3, <1>4, <1>5, <2>1, ReplacedStep
  <1>7. CountsOK'
    BY <1>1, CountsKept DEF R4Inv, CountsOK
  <1>8. IssuedOK'
    BY <1>1 DEF R4Inv, IssuedOK
  <1> QED BY <1>1, <1>6, <1>7, <1>8, FileKept DEF R4Inv

LEMMA StopStep ==
    ASSUME R4Inv, NEW m \in Monitors, Stop(m)
    PROVE  R4Inv'
  <1>1. /\ mem' = [mem EXCEPT ![m] = Stopped] /\ synced' = [synced EXCEPT ![m] = {}]
        /\ UNCHANGED <<file, issued, expired, faults, authors, bound>>
    BY DEF Stop
  <1>2. Len(file) \in Nat
    BY SeqIs DEF R4Inv, LedgerOK
  <1>3. MemOK' /\ Known' /\ RestartRestores'
    <2>1. /\ Replayed' = Replayed /\ Transitioned' = Transitioned /\ UNCHANGED authors
          /\ \A i \in Transitioned : file'[i] = file[i]
          /\ Len(file) <= Len(file') /\ Len(file') \in Nat
      BY <1>1, <1>2 DEF Replayed, Transitioned
    <2>2. /\ Stopped \in Memory({Stopped.last_hash}) /\ Stopped.up = FALSE
          /\ Stopped.loaded <= Len(file)
      BY <1>2, StoppedIs
    <2> HIDE DEF Stopped
    <2> QED BY <1>1, <2>1, <2>2, ReplacedStep
  <1>4. CountsOK'
    BY <1>1, CountsKept DEF R4Inv, CountsOK
  <1>5. IssuedOK'
    BY <1>1 DEF R4Inv, IssuedOK
  <1> QED BY <1>1, <1>3, <1>4, <1>5, FileKept DEF R4Inv

LEMMA DieStep ==
    ASSUME R4Inv, NEW m \in Monitors, DieWriting(m)
    PROVE  R4Inv'
  <1>1. /\ mem' = [mem EXCEPT ![m] = Stopped] /\ synced' = [synced EXCEPT ![m] = {}]
        /\ file' = Append(file, Torn) /\ faults < bound.faults /\ faults' = faults + 1
        /\ UNCHANGED <<issued, expired, authors, bound>>
    BY DEF DieWriting
  <1>2. LedgerOK /\ Untorn /\ IsSeq(file)
    BY VerifiedIs DEF DieWriting, R4Inv, LedgerOK
  <1>3. LedgerOK' /\ ~Untorn'
    BY <1>1, <1>2, LedgerTears
  <1>4. Len(file) \in Nat /\ Len(file') = Len(file) + 1
    BY <1>1, <1>2, AppendIs
  <1>5. /\ Replayed' = Replayed /\ Transitioned' = Transitioned
        /\ \A i \in Transitioned : file'[i] = file[i]
    BY <1>1, <1>2, TornReplayed
  <1>6. MemOK' /\ Known' /\ RestartRestores'
    <2>1. /\ Stopped \in Memory({Stopped.last_hash}) /\ Stopped.up = FALSE
          /\ Stopped.loaded <= Len(file) /\ Len(file) <= Len(file') /\ Len(file') \in Nat
      BY <1>4, StoppedIs
    <2> HIDE DEF Stopped
    <2> QED BY <1>1, <1>5, <2>1, ReplacedStep
  <1>7. CountsOK'
    <2>1. bound.faults \in Nat /\ bound.entries \in Nat /\ faults \in 0 .. bound.faults
      <3>1. bound \in [entries : Nat, faults : Nat]
        BY MonitorAssumption DEF R4Inv, CountsOK
      <3> QED BY <3>1 DEF R4Inv, CountsOK
    <2> QED BY <1>1, <1>2, <1>3, <1>4, <2>1 DEF R4Inv, CountsOK
  <1>8. AuthorsOK'
    BY <1>1, <1>2, <1>3, <1>4 DEF R4Inv, AuthorsOK
  <1>9. IssuedOK'
    BY <1>1 DEF R4Inv, IssuedOK
  <1>10. ReplayOK' /\ ProofReusedOnlyByStaleMonitor'
    BY <1>1, <1>5 DEF R4Inv, ReplayOK, ProofReusedOnlyByStaleMonitor
  <1> QED BY <1>3, <1>6, <1>7, <1>8, <1>9, <1>10 DEF R4Inv

\* Without a valid engine, observe leaves the event in the window alone.
LEMMA UnledgeredStep ==
    ASSUME R4Inv, NEW m \in Monitors, NEW event \in Events, observe(m, event), ~EngineAccepts
    PROVE  R4Inv'
  <1> DEFINE w == Pushed(mem[m].window, compute_stability(event))
             x == [mem[m] EXCEPT !.window = w]
  <1>1. /\ mem' = [mem EXCEPT ![m] = x]
        /\ synced' = [synced EXCEPT ![m] = synced[m] \ {"rest"}]
        /\ UNCHANGED <<file, issued, expired, faults, authors, bound>>
    BY DEF observe, RaiseUnledgered
  <1>2. w \in Windows
    BY MemoryTyped, StabilityIs, PushedIs DEF R4Inv
  <1>3. PICK H : mem \in [Monitors -> Memory(H)]
    BY DEF R4Inv, MemOK
  <1> HIDE DEF w
  <1>4. /\ x \in Memory(H) /\ x.up = mem[m].up /\ x.mode = mem[m].mode
        /\ x.loaded = mem[m].loaded /\ x.nonces = mem[m].nonces
    BY <1>2, <1>3 DEF Memory
  <1> HIDE DEF x
  <1>5. /\ mem' \in [Monitors -> Memory(H)]
        /\ \A n \in Monitors : /\ mem'[n].up = mem[n].up /\ mem'[n].mode = mem[n].mode
                               /\ mem'[n].loaded = mem[n].loaded /\ mem'[n].nonces = mem[n].nonces
                               /\ n # m => mem'[n].window = mem[n].window
    BY <1>1, <1>3, <1>4
  <1>6. /\ synced' \in [Monitors -> SUBSET {"mode", "rest"}]
        /\ "rest" \notin synced'[m] /\ \A n \in Monitors : synced'[n] \subseteq synced[n]
    BY <1>1 DEF R4Inv, MemOK
  <1>7. MemOK'
    BY <1>1, <1>5, <1>6 DEF R4Inv, MemOK
  <1>8. Known'
    BY <1>1, <1>5 DEF R4Inv, Known, Transitioned
  <1>9. RestartRestores'
    <2>1. Replayed' = Replayed
      BY <1>1 DEF Replayed
    <2> QED BY <1>5, <1>6, <2>1 DEF R4Inv, RestartRestores
  <1>10. CountsOK' /\ IssuedOK'
    BY <1>1 DEF R4Inv, CountsOK, IssuedOK, Untorn
  <1> QED BY <1>1, <1>7, <1>8, <1>9, <1>10, FileKept DEF R4Inv

\* Every step preserves the inductive invariant.
THEOREM MonitorInvariant == Spec => []R4Inv
  <1>1. Init => R4Inv
    BY InitHolds
  <1>2. R4Inv /\ [Next]_vars => R4Inv'
    <2> SUFFICES ASSUME R4Inv, [Next]_vars PROVE R4Inv'
      OBVIOUS
    <2>1. ASSUME NEW o \in Operators, NEW a \in Transitions, NEW n \in Nonces, Issue(o, a, n)
          PROVE  R4Inv'
      BY <2>1, IssueStep
    <2>2. ASSUME NEW m \in Monitors, NEW mode \in Overrides, Construct(m, mode) PROVE R4Inv'
      BY <2>2, ConstructStep
    <2>3. ASSUME NEW m \in Monitors, Stop(m) \/ DieWriting(m) PROVE R4Inv'
      BY <2>3, StopStep, DieStep
    <2>4. ASSUME NEW m \in Monitors, NEW event \in Events, observe(m, event) PROVE R4Inv'
      BY <2>4, ObserveIs, HandledStep, UnledgeredStep
    <2>5. ASSUME NEW m \in Monitors, NEW proof \in Presented, close_the_glass(m, proof)
          PROVE  R4Inv'
      <3>1. ControlTransition(m, "SHADOW_TO_ENFORCE", proof) /\ "SHADOW_TO_ENFORCE" \in Transitions
        BY <2>5 DEF close_the_glass, Transitions
      <3> QED BY <3>1, ControlIs, HandledStep
    <2>6. ASSUME NEW m \in Monitors, NEW proof \in Presented, reopen_to_shadow(m, proof)
          PROVE  R4Inv'
      <3>1. ControlTransition(m, "ENFORCE_TO_SHADOW", proof) /\ "ENFORCE_TO_SHADOW" \in Transitions
        BY <2>6 DEF reopen_to_shadow, Transitions
      <3> QED BY <3>1, ControlIs, HandledStep
    <2>7. ASSUME NEW n \in Nonces, Expire(n) PROVE R4Inv'
      BY <2>7, ExpireStep
    <2>8. CASE UNCHANGED vars
      <3>1. UNCHANGED <<file, mem, issued, expired, faults, authors, synced, bound>>
        BY <2>8 DEF vars
      <3>2. CountsOK' /\ IssuedOK'
        BY <3>1 DEF R4Inv, CountsOK, IssuedOK, Untorn
      <3> QED BY <3>1, <3>2, FileKept, MemoryKept DEF R4Inv
    <2> QED BY <2>1, <2>2, <2>3, <2>4, <2>5, <2>6, <2>7, <2>8 DEF Next
  <1> QED BY <1>1, <1>2, PTL DEF Spec

(* Whatever the monitors interleave and wherever an append fails, memory   *)
(* stays well formed and the shared file is one hash chain with at most a  *)
(* torn last line.                                                         *)
THEOREM OneChain == Spec => []LedgerIsOneChain
  <1>1. R4Inv => LedgerIsOneChain
    <2> SUFFICES ASSUME R4Inv PROVE LedgerIsOneChain
      OBVIOUS
    <2>1. ChainVerifies
      BY DEF R4Inv, LedgerOK, ChainVerifies
    <2>2. \A m \in Monitors :
            /\ mem[m].up \in BOOLEAN /\ mem[m].mode \in Operating \cup {NoMode}
            /\ mem[m].up => mem[m].mode # NoMode
            /\ Len(mem[m].window) <= Policy.event_window
            /\ mem[m].nonces \subseteq Nonces /\ synced[m] \subseteq {"mode", "rest"}
      BY MemoryTyped DEF R4Inv, MemOK, Windows
    <2>3. Len(authors) \in {Len(file), Len(file) - 1}
      BY DEF R4Inv, AuthorsOK
    <2>4. TypeOK
      BY <2>2, <2>3 DEF R4Inv, CountsOK, TypeOK
    <2> QED BY <2>1, <2>4 DEF LedgerIsOneChain
  <1> QED BY <1>1, MonitorInvariant, PTL

(* Every ledgered transition carries a proof that a registered operator    *)
(* issued for it, and a nonce is used again only by a monitor constructed  *)
(* before another process used it.                                         *)
THEOREM HumanTransitions == Spec => []TransitionsAreHuman
  <1>1. R4Inv => TransitionsAreHuman
    <2> SUFFICES ASSUME R4Inv PROVE TransitionsAreHuman
      OBVIOUS
    <2>1. EscalationIsHuman
      <3> SUFFICES ASSUME NEW i \in DOMAIN file, file[i].payload.type = "control_transition"
                   PROVE  /\ file[i].payload.proof \in issued
                          /\ file[i].payload.proof.action = file[i].payload.transition
                          /\ file[i].payload.proof.operator \in Registered
        BY DEF EscalationIsHuman, Transitioned
      <3>1. PayloadOK(file[i].payload, issued)
        BY TornIs DEF R4Inv, LedgerOK
      <3> QED BY <3>1 DEF PayloadOK
    <2> QED BY <2>1 DEF TransitionsAreHuman, R4Inv
  <1> QED BY <1>1, MonitorInvariant, PTL

(* A monitor constructed now from the ledger has the window, the nonces    *)
(* and the mode of the running one, as far as the ledger still tells them. *)
THEOREM RestartIsExact == Spec => []RestartRestores
  <1>1. R4Inv => RestartRestores
    BY DEF R4Inv
  <1> QED BY <1>1, MonitorInvariant, PTL

(* For every policy that validates, the shared engine and the R4 action    *)
(* disagree on blocking only where rounding carries the stability across   *)
(* the block floor, and a BLOCK gets past the R4 action only for an event  *)
(* that is above the alert floor as well.                                  *)
THEOREM BlockingIsShared == Spec => []EnginesAgreeOnBlock
  <1>1. R4Inv => EnginesAgreeOnBlock
    <2> SUFFICES ASSUME R4Inv, NEW i \in DOMAIN file, file[i].payload.type = "observation"
                 PROVE  Judged(file[i].payload)
      BY DEF EnginesAgreeOnBlock, Judged, Agree
    <2>1. PayloadOK(file[i].payload, issued)
      BY TornIs DEF R4Inv, LedgerOK
    <2> QED BY <2>1 DEF PayloadOK
  <1> QED BY <1>1, MonitorInvariant, PTL
=============================================================================
