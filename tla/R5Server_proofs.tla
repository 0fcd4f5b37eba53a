-------------------------- MODULE R5Server_proofs ---------------------------
(***************************************************************************)
(* Theorems about the hardened R5 server and its ledger, for every epoch   *)
(* size, set of requests, clients, nonces and events.                      *)
(*                                                                         *)
(* The ledger's operators are recursive functions and folds.  What they    *)
(* compute is proved by induction over the set of the lengths for which it *)
(* holds (NaturalsFromZero): EntriesOf, Places, build_merkle_tree and the  *)
(* fold of verify_merkle_proof each get a lemma with their recursion, and  *)
(* the rest of the module uses only those.  AuditPathsVerify is about      *)
(* Merkle trees alone; Shape(s, cur) says which files append leaves behind *)
(* and AppendedIs that a restart rebuilds from them what memory held.      *)
(*                                                                         *)
(* R5Inv has three parts: CoreInv (file, memory, mode, nonces and oaths),  *)
(* TaskInv (what each handler will answer) and HubInv (the lock's queue,   *)
(* the fan-out under way, and what each client still has to be sent).      *)
(***************************************************************************)
EXTENDS R5Server, SequenceTheorems, WellFoundedInduction, NaturalsInduction, TLAPS

\* A set of naturals with zero and closed under successor is all of them.
LEMMA NaturalsFromZero ==
    ASSUME NEW S \in SUBSET Nat, 0 \in S, \A n \in S : n + 1 \in S
    PROVE  S = Nat
  <1> DEFINE T == Nat \ S
             Less == {ss \in Nat \X Nat : ss[1] < ss[2]}
  <1> SUFFICES ASSUME T # {} PROVE FALSE
    OBVIOUS
  <1>1. IsWellFoundedOn(Less, Nat)
    BY NatLessThanWellFounded DEF OpToRel
  <1>2. PICK n \in T : \A m \in T : ~ <<m, n>> \in Less
    BY <1>1, WFMin
  <1>3. \A m \in T : ~ (m < n)
    BY <1>2
  <1>4. n \in Nat /\ n # 0
    BY <1>2
  <1>5. n - 1 \in Nat /\ n - 1 \notin T
    BY <1>3, <1>4
  <1> QED BY <1>4, <1>5

IsSeq(s) == \E S : s \in Seq(S)

LEMMA AppendIs ==
    ASSUME NEW s, IsSeq(s), NEW e
    PROVE  /\ Len(s) \in Nat /\ DOMAIN s = 1 .. Len(s)
           /\ IsSeq(Append(s, e))
           /\ Len(Append(s, e)) = Len(s) + 1
           /\ DOMAIN Append(s, e) = 1 .. Len(s) + 1
           /\ \A i \in 1 .. Len(s) : Append(s, e)[i] = s[i]
           /\ Append(s, e)[Len(s) + 1] = e
  <1>1. PICK S : s \in Seq(S)
    BY DEF IsSeq
  <1> DEFINE T == S \cup {e}
  <1>2. s \in Seq(T) /\ e \in T
    BY <1>1
  <1> HIDE DEF T
  <1>3. Append(s, e) \in Seq(T)
    BY <1>2
  <1> QED BY <1>2, <1>3 DEF IsSeq

LEMMA SeqIs ==
    ASSUME NEW s, IsSeq(s)
    PROVE  Len(s) \in Nat /\ DOMAIN s = 1 .. Len(s)
  BY AppendIs

LEMMA EmptyIs == IsSeq(<< >>) /\ Len(<< >>) = 0 /\ DOMAIN << >> = {}
  <1>1. << >> \in Seq({})
    OBVIOUS
  <1> QED BY <1>1 DEF IsSeq

\* A function on 1..n is a sequence of length n.
LEMMA TableIs ==
    ASSUME NEW n \in Nat, NEW s, s = [i \in 1 .. n |-> s[i]]
    PROVE  IsSeq(s) /\ Len(s) = n /\ DOMAIN s = 1 .. n
  <1> DEFINE S == {s[i] : i \in 1 .. n}
  <1>1. s \in [1 .. n -> S]
    OBVIOUS
  <1> HIDE DEF S
  <1>2. s \in Seq(S)
    BY <1>1
  <1>3. Len(s) = n
    BY <1>1, <1>2
  <1> QED BY <1>1, <1>2, <1>3 DEF IsSeq

\* Sequences with the same elements are equal.
LEMMA SameSeq ==
    ASSUME NEW s, NEW t, IsSeq(s), IsSeq(t), Len(s) = Len(t),
           \A i \in 1 .. Len(s) : s[i] = t[i]
    PROVE  s = t
  <1>1. PICK S : s \in Seq(S)
    BY DEF IsSeq
  <1>2. PICK T : t \in Seq(T)
    BY DEF IsSeq
  <1> DEFINE U == S \cup T
  <1>3. s \in Seq(U) /\ t \in Seq(U)
    BY <1>1, <1>2
  <1> HIDE DEF U
  <1>4. s = [i \in 1 .. Len(s) |-> s[i]] /\ t = [i \in 1 .. Len(t) |-> t[i]]
    BY <1>3
  <1> QED BY <1>4

-----------------------------------------------------------------------------
(* The entries of an epoch.                                                *)
Groups(f, s, id, n) ==
    f = [k \in 0 .. n |->
           IF k = 0 THEN << >>
           ELSE IF s[k].epoch = id THEN Append(f[k - 1], s[k]) ELSE f[k - 1]]

Grouped(s, id, n) == CHOOSE f : Groups(f, s, id, n)

LEMMA GroupsExists ==
    ASSUME NEW s, NEW id, NEW n \in Nat
    PROVE  Groups(Grouped(s, id, n), s, id, n)
  <1> DEFINE N == {k \in Nat : \E f : Groups(f, s, id, k)}
  <1>1. 0 \in N
    <2> DEFINE f == [k \in 0 .. 0 |-> << >>]
    <2>1. Groups(f, s, id, 0)
      BY DEF Groups
    <2> QED BY <2>1
  <1>2. ASSUME NEW k \in N PROVE k + 1 \in N
    <2>1. PICK f : Groups(f, s, id, k)
      OBVIOUS
    <2>2. k \in Nat
      OBVIOUS
    <2> HIDE DEF N
    <2> DEFINE g == [i \in 0 .. k + 1 |->
                       IF i <= k THEN f[i]
                       ELSE IF s[i].epoch = id THEN Append(f[k], s[i]) ELSE f[k]]
    <2>3. \A i \in 0 .. k :
            f[i] = IF i = 0 THEN << >>
                   ELSE IF s[i].epoch = id THEN Append(f[i - 1], s[i]) ELSE f[i - 1]
      BY <2>1 DEF Groups
    <2>4. ASSUME NEW i \in 0 .. k + 1
          PROVE  g[i] = IF i = 0 THEN << >>
                        ELSE IF s[i].epoch = id THEN Append(g[i - 1], s[i]) ELSE g[i - 1]
      <3>1. CASE i = 0
        BY <2>2, <2>3, <3>1
      <3>2. CASE i # 0
        <4>1. i - 1 \in 0 .. k /\ i - 1 \in 0 .. k + 1 /\ i - 1 <= k
          BY <2>2, <3>2
        <4>2. g[i - 1] = f[i - 1]
          BY <4>1
        <4>3. CASE i <= k
          BY <2>2, <2>3, <3>2, <4>2, <4>3
        <4>4. CASE ~(i <= k)
          <5>1. i - 1 = k
            BY <2>2, <4>4
          <5> QED BY <3>2, <4>2, <4>4, <5>1
        <4> QED BY <4>3, <4>4
      <3> QED BY <3>1, <3>2
    <2>5. Groups(g, s, id, k + 1)
      <3>1. g = [i \in 0 .. k + 1 |-> g[i]]
        OBVIOUS
      <3> HIDE DEF g
      <3> QED BY <2>4, <3>1 DEF Groups
    <2> HIDE DEF g
    <2>6. \E h : Groups(h, s, id, k + 1)
      BY <2>5
    <2> QED BY <2>2, <2>6 DEF N
  <1>3. N = Nat
    <2>1. N \in SUBSET Nat
      OBVIOUS
    <2> HIDE DEF N
    <2> QED BY <1>1, <1>2, <2>1, NaturalsFromZero
  <1>4. \E f : Groups(f, s, id, n)
    BY <1>3
  <1> QED BY <1>4 DEF Grouped

LEMMA GroupedStep ==
    ASSUME NEW s, NEW id, NEW n \in Nat, NEW k \in 0 .. n
    PROVE  Grouped(s, id, n)[k] =
             IF k = 0 THEN << >>
             ELSE IF s[k].epoch = id THEN Append(Grouped(s, id, n)[k - 1], s[k])
                                     ELSE Grouped(s, id, n)[k - 1]
  <1> DEFINE f == Grouped(s, id, n)
  <1>1. Groups(f, s, id, n)
    BY GroupsExists
  <1> HIDE DEF f
  <1>2. f[k] = IF k = 0 THEN << >>
               ELSE IF s[k].epoch = id THEN Append(f[k - 1], s[k]) ELSE f[k - 1]
    BY <1>1 DEF Groups
  <1> QED BY <1>2 DEF f

LEMMA GroupedPrefix ==
    ASSUME NEW s, NEW t, NEW id, NEW n \in Nat, NEW m \in Nat, n <= m,
           \A i \in 1 .. n : t[i] = s[i]
    PROVE  Grouped(t, id, m)[n] = Grouped(s, id, n)[n]
  <1> DEFINE K == {k \in Nat : k <= n => Grouped(t, id, m)[k] = Grouped(s, id, n)[k]}
  <1>1. 0 \in K
    BY GroupedStep
  <1>2. ASSUME NEW k \in K PROVE k + 1 \in K
    <2>1. CASE k + 1 <= n
      <3>1. k + 1 \in 0 .. m /\ k + 1 \in 0 .. n /\ k + 1 # 0 /\ (k + 1) - 1 = k /\ k + 1 \in 1 .. n
        BY <2>1
      <3>2. /\ Grouped(t, id, m)[k + 1] =
                  IF t[k + 1].epoch = id THEN Append(Grouped(t, id, m)[k], t[k + 1])
                                         ELSE Grouped(t, id, m)[k]
            /\ Grouped(s, id, n)[k + 1] =
                  IF s[k + 1].epoch = id THEN Append(Grouped(s, id, n)[k], s[k + 1])
                                         ELSE Grouped(s, id, n)[k]
        BY <3>1, GroupedStep
      <3>3. Grouped(t, id, m)[k] = Grouped(s, id, n)[k]
        BY <2>1
      <3>4. t[k + 1] = s[k + 1]
        BY <3>1
      <3>5. Grouped(t, id, m)[k + 1] = Grouped(s, id, n)[k + 1]
        BY <3>2, <3>3, <3>4
      <3> QED BY <3>1, <3>5
    <2> QED BY <2>1
  <1>3. K = Nat
    <2>1. K \in SUBSET Nat
      OBVIOUS
    <2> HIDE DEF K
    <2> QED BY <1>1, <1>2, <2>1, NaturalsFromZero
  <1>4. n \in K
    BY <1>3
  <1> QED BY <1>4

LEMMA EntriesOfIs ==
    ASSUME NEW s, NEW id
    PROVE  EntriesOf(s, id) = Grouped(s, id, Len(s))[Len(s)]
  BY DEF EntriesOf, Grouped, Groups

\* An empty file has no entries of any epoch ...
LEMMA EntriesOfNothing == \A id : EntriesOf(<< >>, id) = << >>
  <1>1. Len(<< >>) = 0 /\ 0 \in Nat /\ 0 \in 0 .. 0
    OBVIOUS
  <1> QED BY <1>1, EntriesOfIs, GroupedStep

\* ... and one more entry is one more of its own epoch.
LEMMA EntriesOfMore ==
    ASSUME NEW s, IsSeq(s), NEW e, NEW id
    PROVE  EntriesOf(Append(s, e), id) =
             IF e.epoch = id THEN Append(EntriesOf(s, id), e) ELSE EntriesOf(s, id)
  <1> DEFINE t == Append(s, e)
             n == Len(s)
  <1>1. n \in Nat /\ Len(t) = n + 1 /\ t[n + 1] = e /\ \A i \in 1 .. n : t[i] = s[i]
    BY AppendIs
  <1> HIDE DEF t, n
  <1>2. EntriesOf(t, id) = Grouped(t, id, n + 1)[n + 1]
    BY <1>1, EntriesOfIs
  <1>3. EntriesOf(s, id) = Grouped(s, id, n)[n]
    BY EntriesOfIs DEF n
  <1>4. n + 1 \in Nat /\ n + 1 \in 0 .. n + 1 /\ n + 1 # 0 /\ (n + 1) - 1 = n /\ n <= n + 1
    BY <1>1
  <1>5. Grouped(t, id, n + 1)[n + 1] =
          IF t[n + 1].epoch = id THEN Append(Grouped(t, id, n + 1)[n], t[n + 1])
                                 ELSE Grouped(t, id, n + 1)[n]
    BY <1>4, GroupedStep
  <1>6. Grouped(t, id, n + 1)[n] = Grouped(s, id, n)[n]
    BY <1>1, <1>4, GroupedPrefix
  <1> QED BY <1>1, <1>2, <1>3, <1>5, <1>6 DEF t

\* The element above all others is the one Max chooses.
LEMMA MaxIs ==
    ASSUME NEW S \in SUBSET Int, NEW x \in S, \A y \in S : x >= y
    PROVE  Max(S) = x
  <1>1. Max(S) \in S /\ \A y \in S : Max(S) >= y
    BY DEF Max
  <1> HIDE DEF Max
  <1>2. Max(S) >= x /\ x >= Max(S) /\ Max(S) \in Int /\ x \in Int
    BY <1>1
  <1> QED BY <1>2

-----------------------------------------------------------------------------
(* An audit path.  The fold that verifies it is a recursion over the sets  *)
(* of its positions, which always takes the last.                          *)
Climbs(g, a, s, n) ==
    g = [S \in SUBSET (1 .. n) |->
           IF S = {} THEN a ELSE AuditStep(g[S \ {Max(S)}], s[Max(S)])]

Climb(a, s, n) == CHOOSE g : Climbs(g, a, s, n)

\* The recursion has a solution, however long the file.
LEMMA ClimbExists ==
    ASSUME NEW a, NEW s, NEW n \in Nat
    PROVE  Climbs(Climb(a, s, n), a, s, n)
  <1> DEFINE N == {k \in Nat : \E g : Climbs(g, a, s, k)}
  <1>1. 0 \in N
    <2> DEFINE g == [S \in SUBSET (1 .. 0) |-> a]
    <2>1. \A S \in SUBSET (1 .. 0) : S = {}
      OBVIOUS
    <2>2. Climbs(g, a, s, 0)
      BY <2>1 DEF Climbs
    <2> QED BY <2>2
  <1>2. ASSUME NEW k \in N PROVE k + 1 \in N
    <2>0. k \in Nat
      OBVIOUS
    <2>1. PICK g : Climbs(g, a, s, k)
      OBVIOUS
    <2> HIDE DEF N
    <2>2. \A S \in SUBSET (1 .. k) :
             g[S] = IF S = {} THEN a ELSE AuditStep(g[S \ {Max(S)}], s[Max(S)])
      BY <2>1 DEF Climbs
    <2> DEFINE h == [S \in SUBSET (1 .. k + 1) |->
                       IF k + 1 \in S THEN AuditStep(g[S \ {k + 1}], s[k + 1]) ELSE g[S]]
    <2>3. ASSUME NEW S \in SUBSET (1 .. k + 1)
          PROVE  h[S] = IF S = {} THEN a ELSE AuditStep(h[S \ {Max(S)}], s[Max(S)])
      <3>1. CASE k + 1 \in S
        <4>0. S \in SUBSET Int /\ \A y \in S : k + 1 >= y
          BY <2>0
        <4>1. Max(S) = k + 1
          BY <3>1, <4>0, MaxIs
        <4>2. S \ {k + 1} \in SUBSET (1 .. k + 1) /\ k + 1 \notin S \ {k + 1} /\ S # {}
          BY <3>1
        <4>3. h[S \ {k + 1}] = g[S \ {k + 1}]
          BY <4>2
        <4> QED BY <3>1, <4>1, <4>2, <4>3
      <3>2. CASE k + 1 \notin S
        <4>0. \A y \in S : y \in 1 .. k
          BY <2>0, <3>2
        <4>1. S \in SUBSET (1 .. k) /\ S \ {Max(S)} \in SUBSET (1 .. k + 1)
          BY <4>0
        <4>2. h[S] = g[S] /\ h[S \ {Max(S)}] = g[S \ {Max(S)}]
          BY <3>2, <4>1
        <4> QED BY <2>2, <4>1, <4>2
      <3> QED BY <3>1, <3>2
    <2>4. Climbs(h, a, s, k + 1)
      <3>1. h = [S \in SUBSET (1 .. k + 1) |-> h[S]]
        OBVIOUS
      <3> HIDE DEF h
      <3> QED BY <2>3, <3>1 DEF Climbs
    <2> HIDE DEF h
    <2>5. \E f : Climbs(f, a, s, k + 1)
      BY <2>4
    <2> QED BY <2>0, <2>5 DEF N
  <1>3. N = Nat
    <2>1. N \in SUBSET Nat
      OBVIOUS
    <2> HIDE DEF N
    <2> QED BY <1>1, <1>2, <2>1, NaturalsFromZero
  <1>4. \E g : Climbs(g, a, s, n)
    BY <1>3
  <1> QED BY <1>4 DEF Climb

\* One step of the recursion, on the positions up to k.
LEMMA ClimbStep ==
    ASSUME NEW a, NEW s, NEW n \in Nat, NEW k \in 0 .. n
    PROVE  Climb(a, s, n)[1 .. k] =
              IF k = 0 THEN a ELSE AuditStep(Climb(a, s, n)[1 .. (k - 1)], s[k])
  <1> DEFINE g == Climb(a, s, n)
  <1>1. Climbs(g, a, s, n)
    BY ClimbExists
  <1> HIDE DEF g
  <1>2. 1 .. k \in SUBSET (1 .. n)
    OBVIOUS
  <1>3. g[1 .. k] = IF 1 .. k = {} THEN a
                    ELSE AuditStep(g[(1 .. k) \ {Max(1 .. k)}], s[Max(1 .. k)])
    BY <1>1, <1>2 DEF Climbs
  <1>4. CASE k = 0
    <2>1. 1 .. k = {}
      BY <1>4
    <2> QED BY <1>3, <1>4, <2>1 DEF g
  <1>5. CASE k # 0
    <2>1. 1 .. k \in SUBSET Int /\ k \in 1 .. k /\ \A i \in 1 .. k : k >= i
      BY <1>5
    <2>2. Max(1 .. k) = k
      BY <2>1, MaxIs
    <2>3. (1 .. k) \ {k} = 1 .. (k - 1)
      BY <1>5
    <2>4. 1 .. k # {}
      BY <2>1
    <2> QED BY <1>3, <1>5, <2>2, <2>3, <2>4 DEF g
  <1> QED BY <1>4, <1>5

LEMMA FoldIsClimb ==
    ASSUME NEW a, NEW s, NEW n \in Nat, DOMAIN s = 1 .. n
    PROVE  FoldLeft(AuditStep, a, s) = Climb(a, s, n)[1 .. n]
  BY DEF FoldLeft, MapThenFoldSet, Climb, Climbs

-----------------------------------------------------------------------------
(* Where a path crosses the levels.                                        *)
Halves(f, index, n) ==
    f = [k \in 1 .. n |-> IF k = 1 THEN index ELSE f[k - 1] \div 2]

Halved(index, n) == CHOOSE f : Halves(f, index, n)

LEMMA HalvedExists ==
    ASSUME NEW index, NEW n \in Nat
    PROVE  Halves(Halved(index, n), index, n)
  <1> DEFINE N == {k \in Nat : \E f : Halves(f, index, k)}
  <1>1. 0 \in N
    <2> DEFINE f == [k \in 1 .. 0 |-> index]
    <2>1. Halves(f, index, 0)
      BY DEF Halves
    <2> QED BY <2>1
  <1>2. ASSUME NEW k \in N PROVE k + 1 \in N
    <2>1. PICK f : Halves(f, index, k)
      OBVIOUS
    <2>2. k \in Nat
      OBVIOUS
    <2> HIDE DEF N
    <2> DEFINE g == [i \in 1 .. k + 1 |->
                       IF i <= k THEN f[i] ELSE IF i = 1 THEN index ELSE f[k] \div 2]
    <2>3. \A i \in 1 .. k : f[i] = IF i = 1 THEN index ELSE f[i - 1] \div 2
      BY <2>1 DEF Halves
    <2>4. ASSUME NEW i \in 1 .. k + 1
          PROVE  g[i] = IF i = 1 THEN index ELSE g[i - 1] \div 2
      <3>1. CASE i = 1
        BY <2>2, <2>3, <3>1
      <3>2. CASE i # 1
        <4>1. i - 1 \in 1 .. k /\ i - 1 \in 1 .. k + 1 /\ i - 1 <= k
          BY <2>2, <3>2
        <4>2. g[i - 1] = f[i - 1]
          BY <4>1
        <4>3. CASE i <= k
          <5>1. i \in 1 .. k /\ g[i] = f[i]
            BY <2>2, <4>3
          <5> HIDE DEF g
          <5> QED BY <2>3, <3>2, <4>2, <5>1
        <4>4. CASE ~(i <= k)
          <5>1. i - 1 = k
            BY <2>2, <4>4
          <5>2. g[i] = f[k] \div 2
            BY <3>2, <4>4
          <5> HIDE DEF g
          <5> QED BY <3>2, <4>2, <5>1, <5>2
        <4> QED BY <4>3, <4>4
      <3> QED BY <3>1, <3>2
    <2>5. Halves(g, index, k + 1)
      <3>1. g = [i \in 1 .. k + 1 |-> g[i]]
        OBVIOUS
      <3> HIDE DEF g
      <3> QED BY <2>4, <3>1 DEF Halves
    <2> HIDE DEF g
    <2>6. \E h : Halves(h, index, k + 1)
      BY <2>5
    <2> QED BY <2>2, <2>6 DEF N
  <1>3. N = Nat
    <2>1. N \in SUBSET Nat
      OBVIOUS
    <2> HIDE DEF N
    <2> QED BY <1>1, <1>2, <2>1, NaturalsFromZero
  <1>4. \E f : Halves(f, index, n)
    BY <1>3
  <1> QED BY <1>4 DEF Halved

LEMMA HalvedStep ==
    ASSUME NEW index, NEW n \in Nat, NEW k \in 1 .. n
    PROVE  Halved(index, n)[k] = IF k = 1 THEN index ELSE Halved(index, n)[k - 1] \div 2
  <1> DEFINE f == Halved(index, n)
  <1>1. Halves(f, index, n)
    BY HalvedExists
  <1> HIDE DEF f
  <1>2. f[k] = IF k = 1 THEN index ELSE f[k - 1] \div 2
    BY <1>1 DEF Halves
  <1> QED BY <1>2 DEF f

LEMMA PlacesIs ==
    ASSUME NEW index \in Nat, NEW n \in Nat
    PROVE  /\ n >= 1 => Places(index, n)[1] = index
           /\ \A k \in 1 .. n : k + 1 <= n => Places(index, n)[k + 1] = Places(index, n)[k] \div 2
  <1>1. Places(index, n) = Halved(index, n)
    BY DEF Places, Halved, Halves
  <1>2. n >= 1 => Halved(index, n)[1] = index
    <2> SUFFICES ASSUME n >= 1 PROVE Halved(index, n)[1] = index
      OBVIOUS
    <2>1. 1 \in 1 .. n
      OBVIOUS
    <2> QED BY <2>1, HalvedStep
  <1>3. ASSUME NEW k \in 1 .. n, k + 1 <= n
        PROVE  Halved(index, n)[k + 1] = Halved(index, n)[k] \div 2
    <2>1. k + 1 \in 1 .. n /\ k + 1 # 1 /\ (k + 1) - 1 = k
      BY <1>3
    <2> QED BY <2>1, HalvedStep
  <1> QED BY <1>1, <1>2, <1>3

-----------------------------------------------------------------------------
(* The levels of a tree.                                                   *)
Taller(built) ==
    IF Len(Last(built)) = 1 THEN built ELSE Append(built, NextLevel(Last(built)))

Raises(f, leaves, n) ==
    f = [k \in 1 .. n |-> IF k = 1 THEN <<leaves>> ELSE Taller(f[k - 1])]

Raised(leaves, n) == CHOOSE f : Raises(f, leaves, n)

LEMMA RaisedExists ==
    ASSUME NEW leaves, NEW n \in Nat
    PROVE  Raises(Raised(leaves, n), leaves, n)
  <1> DEFINE N == {k \in Nat : \E f : Raises(f, leaves, k)}
  <1>1. 0 \in N
    <2> DEFINE f == [k \in 1 .. 0 |-> <<leaves>>]
    <2>1. Raises(f, leaves, 0)
      BY DEF Raises
    <2> QED BY <2>1
  <1>2. ASSUME NEW k \in N PROVE k + 1 \in N
    <2>1. PICK f : Raises(f, leaves, k)
      OBVIOUS
    <2>2. k \in Nat
      OBVIOUS
    <2> HIDE DEF N
    <2> DEFINE g == [i \in 1 .. k + 1 |->
                       IF i <= k THEN f[i] ELSE IF i = 1 THEN <<leaves>> ELSE Taller(f[k])]
    <2>3. \A i \in 1 .. k : f[i] = IF i = 1 THEN <<leaves>> ELSE Taller(f[i - 1])
      BY <2>1 DEF Raises
    <2>4. ASSUME NEW i \in 1 .. k + 1
          PROVE  g[i] = IF i = 1 THEN <<leaves>> ELSE Taller(g[i - 1])
      <3>1. CASE i = 1
        BY <2>2, <2>3, <3>1
      <3>2. CASE i # 1
        <4>1. i - 1 \in 1 .. k /\ i - 1 \in 1 .. k + 1 /\ i - 1 <= k
          BY <2>2, <3>2
        <4>2. g[i - 1] = f[i - 1]
          BY <4>1
        <4>3. CASE i <= k
          <5>1. i \in 1 .. k /\ g[i] = f[i]
            BY <2>2, <4>3
          <5> HIDE DEF g
          <5> QED BY <2>3, <3>2, <4>2, <5>1
        <4>4. CASE ~(i <= k)
          <5>1. i - 1 = k
            BY <2>2, <4>4
          <5>2. g[i] = Taller(f[k])
            BY <3>2, <4>4
          <5> HIDE DEF g
          <5> QED BY <3>2, <4>2, <5>1, <5>2
        <4> QED BY <4>3, <4>4
      <3> QED BY <3>1, <3>2
    <2>5. Raises(g, leaves, k + 1)
      <3>1. g = [i \in 1 .. k + 1 |-> g[i]]
        OBVIOUS
      <3> HIDE DEF g
      <3> QED BY <2>4, <3>1 DEF Raises
    <2> HIDE DEF g
    <2>6. \E h : Raises(h, leaves, k + 1)
      BY <2>5
    <2> QED BY <2>2, <2>6 DEF N
  <1>3. N = Nat
    <2>1. N \in SUBSET Nat
      OBVIOUS
    <2> HIDE DEF N
    <2> QED BY <1>1, <1>2, <2>1, NaturalsFromZero
  <1>4. \E f : Raises(f, leaves, n)
    BY <1>3
  <1> QED BY <1>4 DEF Raised

LEMMA RaisedStep ==
    ASSUME NEW leaves, NEW n \in Nat, NEW k \in 1 .. n
    PROVE  Raised(leaves, n)[k] = IF k = 1 THEN <<leaves>> ELSE Taller(Raised(leaves, n)[k - 1])
  <1> DEFINE f == Raised(leaves, n)
  <1>1. Raises(f, leaves, n)
    BY RaisedExists
  <1> HIDE DEF f
  <1>2. f[k] = IF k = 1 THEN <<leaves>> ELSE Taller(f[k - 1])
    BY <1>1 DEF Raises
  <1> QED BY <1>2 DEF f

LEMMA TreeIs ==
    ASSUME NEW leaves
    PROVE  build_merkle_tree(leaves) = Raised(leaves, Len(leaves))[Len(leaves)]
  BY DEF build_merkle_tree, Raised, Raises, Taller

\* A completed level: as the level, with its last node once more if it was odd.
LEMMA EvenIs ==
    ASSUME NEW level, IsSeq(level), Len(level) >= 1
    PROVE  /\ Len(Even(level)) = 2 * ((Len(level) + 1) \div 2)
           /\ \A i \in 1 .. Len(Even(level)) :
                Even(level)[i] = level[IF i <= Len(level) THEN i ELSE Len(level)]
  <1>1. Len(level) \in Nat /\ Len(level) >= 1
    BY SeqIs
  <1>2. CASE Len(level) % 2 = 1
    <2>1. Even(level) = Append(level, level[Len(level)])
      BY <1>2 DEF Even, Last
    <2>2. /\ Len(Even(level)) = Len(level) + 1
          /\ \A i \in 1 .. Len(level) : Even(level)[i] = level[i]
          /\ Even(level)[Len(level) + 1] = level[Len(level)]
      BY <2>1, AppendIs
    <2>3. Len(level) + 1 = 2 * ((Len(level) + 1) \div 2)
      BY <1>1, <1>2
    <2> QED BY <1>1, <2>2, <2>3
  <1>3. CASE Len(level) % 2 # 1
    <2>1. Even(level) = level
      BY <1>3 DEF Even
    <2>2. Len(level) = 2 * ((Len(level) + 1) \div 2)
      BY <1>1, <1>3
    <2> QED BY <1>1, <2>1, <2>2
  <1> QED BY <1>2, <1>3

\* The level above has half as many nodes, each the pair of two neighbours.
LEMMA NextLevelIs ==
    ASSUME NEW level, IsSeq(level), Len(level) >= 1
    PROVE  /\ IsSeq(NextLevel(level)) /\ Len(NextLevel(level)) = (Len(level) + 1) \div 2
           /\ \A m \in 1 .. ((Len(level) + 1) \div 2) :
                NextLevel(level)[m] =
                  <<level[2 * m - 1], level[IF 2 * m <= Len(level) THEN 2 * m ELSE Len(level)]>>
  <1> DEFINE n == Len(level)
             h == (n + 1) \div 2
             full == Even(level)
  <1>1. n \in Nat /\ n >= 1 /\ h \in Nat /\ 2 * h <= n + 1 /\ 2 * h >= n
    BY SeqIs
  <1>2. /\ Len(full) = 2 * h
        /\ \A i \in 1 .. 2 * h : full[i] = level[IF i <= n THEN i ELSE n]
    BY EvenIs
  <1>3. NextLevel(level) = [i \in 1 .. (Len(full) \div 2) |-> <<full[2 * i - 1], full[2 * i]>>]
    BY DEF NextLevel, merkle_pair
  <1> HIDE DEF full, n, h
  <1>4. Len(full) \div 2 = h
    BY <1>1, <1>2
  <1>5. NextLevel(level) = [i \in 1 .. h |-> NextLevel(level)[i]]
    BY <1>3, <1>4
  <1>6. IsSeq(NextLevel(level)) /\ Len(NextLevel(level)) = h
    BY <1>1, <1>5, TableIs
  <1>7. ASSUME NEW m \in 1 .. h
        PROVE  NextLevel(level)[m] = <<level[2 * m - 1], level[IF 2 * m <= n THEN 2 * m ELSE n]>>
    <2>1. 2 * m - 1 \in 1 .. 2 * h /\ 2 * m \in 1 .. 2 * h /\ 2 * m - 1 <= n
      BY <1>1
    <2>2. full[2 * m - 1] = level[2 * m - 1] /\ full[2 * m] = level[IF 2 * m <= n THEN 2 * m ELSE n]
      BY <1>2, <2>1
    <2>3. NextLevel(level)[m] = <<full[2 * m - 1], full[2 * m]>>
      BY <1>3, <1>4
    <2> QED BY <2>2, <2>3
  <1> QED BY <1>6, <1>7 DEF n, h

IsTower(T, leaves) ==
    /\ IsSeq(T) /\ Len(T) >= 1 /\ T[1] = leaves
    /\ \A k \in 1 .. Len(T) : IsSeq(T[k]) /\ Len(T[k]) >= 1
    /\ \A k \in 1 .. Len(T) - 1 : T[k + 1] = NextLevel(T[k])

LEMMA TowerGrows ==
    ASSUME NEW T, NEW leaves, IsTower(T, leaves)
    PROVE  /\ IsTower(Taller(T), leaves)
           /\ Len(Last(Taller(T))) = 1 \/ Len(Last(Taller(T))) < Len(Last(T))
  <1> DEFINE n == Len(T)
             top == T[n]
  <1>1. IsSeq(T) /\ n \in Nat /\ n >= 1 /\ IsSeq(top) /\ Len(top) \in Nat /\ Len(top) >= 1 /\ Last(T) = top
    <2>1. IsSeq(T) /\ n \in Nat /\ n >= 1
      BY SeqIs DEF IsTower
    <2>2. IsSeq(top) /\ Len(top) >= 1
      BY <2>1 DEF IsTower
    <2> QED BY <2>1, <2>2, SeqIs DEF Last
  <1>2. CASE Len(top) = 1
    BY <1>1, <1>2 DEF Taller
  <1>3. CASE Len(top) # 1
    <2> DEFINE next == NextLevel(top)
               U == Append(T, next)
    <2>1. IsSeq(next) /\ Len(next) = (Len(top) + 1) \div 2
      BY <1>1, NextLevelIs
    <2>2. Len(next) >= 1 /\ Len(next) < Len(top)
      <3> DEFINE L == Len(top)
      <3>0. L \in Nat /\ L >= 1 /\ L # 1
        BY <1>1, <1>3
      <3>1. Len(next) = (L + 1) \div 2
        BY <2>1
      <3> HIDE DEF L, next
      <3>2. (L + 1) \div 2 >= 1 /\ (L + 1) \div 2 < L
        BY <3>0
      <3> QED BY <3>1, <3>2 DEF L
    <2>3. /\ IsSeq(U) /\ Len(U) = n + 1 /\ U[n + 1] = next
          /\ \A i \in 1 .. n : U[i] = T[i]
      BY <1>1, AppendIs
    <2>4. Taller(T) = U
      BY <1>1, <1>3 DEF Taller
    <2>5. next = NextLevel(T[n])
      OBVIOUS
    <2> HIDE DEF next, U
    <2>6. \A k \in 1 .. n : IsSeq(T[k]) /\ Len(T[k]) >= 1
      BY DEF IsTower
    <2>7. \A k \in 1 .. n - 1 : T[k + 1] = NextLevel(T[k])
      BY DEF IsTower
    <2>8. T[1] = leaves
      BY DEF IsTower
    <2> HIDE DEF n
    <2>9. ASSUME NEW k \in 1 .. Len(U) PROVE IsSeq(U[k]) /\ Len(U[k]) >= 1
      <3>1. CASE k = n + 1
        BY <2>1, <2>2, <2>3, <3>1
      <3>2. CASE k # n + 1
        <4>1. k \in 1 .. n
          BY <1>1, <2>3, <3>2
        <4> QED BY <2>3, <2>6, <4>1
      <3> QED BY <3>1, <3>2
    <2>10. ASSUME NEW k \in 1 .. Len(U) - 1 PROVE U[k + 1] = NextLevel(U[k])
      <3>1. k \in 1 .. n /\ U[k] = T[k]
        BY <1>1, <2>3
      <3>2. CASE k = n
        BY <2>3, <2>5, <3>1, <3>2
      <3>3. CASE k # n
        <4>1. k \in 1 .. n - 1 /\ k + 1 \in 1 .. n
          BY <1>1, <3>1, <3>3
        <4> QED BY <2>3, <2>7, <3>1, <4>1
      <3> QED BY <3>2, <3>3
    <2>11. IsTower(U, leaves)
      BY <1>1, <2>3, <2>8, <2>9, <2>10 DEF IsTower
    <2>12. Last(U) = next
      BY <2>3 DEF Last
    <2> QED BY <1>1, <2>2, <2>4, <2>11, <2>12
  <1> QED BY <1>2, <1>3

\* build_merkle_tree raises a tower whose last level is the root alone.
LEMMA TreeBuilt ==
    ASSUME NEW leaves, IsSeq(leaves), Len(leaves) >= 1
    PROVE  LET T == build_merkle_tree(leaves)
           IN  IsTower(T, leaves) /\ Len(T[Len(T)]) = 1
  <1> DEFINE n == Len(leaves)
             T(k) == Raised(leaves, n)[k]
             K == {k \in Nat : k + 1 <= n =>
                      /\ IsTower(T(k + 1), leaves)
                      /\ Len(Last(T(k + 1))) = 1 \/ Len(Last(T(k + 1))) + k <= n}
  <1>1. n \in Nat /\ n >= 1
    BY SeqIs
  <1>2. 0 \in K
    <2>1. 1 \in 1 .. n
      BY <1>1
    <2>2. T(1) = <<leaves>>
      BY <1>1, <2>1, RaisedStep
    <2> DEFINE U == <<leaves>>
    <2>3. U \in Seq({leaves}) /\ Len(U) = 1 /\ U[1] = leaves
      OBVIOUS
    <2> HIDE DEF U, n
    <2>4. IsTower(U, leaves) /\ Last(U) = leaves
      BY <2>3 DEF IsTower, Last, IsSeq
    <2>5. IsTower(T(1), leaves) /\ Len(Last(T(1))) = n
      BY <2>2, <2>4 DEF U, n
    <2> QED BY <1>1, <2>5
  <1>3. ASSUME NEW k \in K PROVE k + 1 \in K
    <2>1. k \in Nat
      OBVIOUS
    <2> SUFFICES ASSUME (k + 1) + 1 <= n
                 PROVE  /\ IsTower(T((k + 1) + 1), leaves)
                        /\ \/ Len(Last(T((k + 1) + 1))) = 1
                           \/ Len(Last(T((k + 1) + 1))) + (k + 1) <= n
      BY <2>1
    <2>2. /\ IsTower(T(k + 1), leaves)
          /\ Len(Last(T(k + 1))) = 1 \/ Len(Last(T(k + 1))) + k <= n
      BY <1>1, <2>1
    <2> HIDE DEF K
    <2>3. (k + 1) + 1 \in 1 .. n /\ (k + 1) + 1 # 1 /\ ((k + 1) + 1) - 1 = k + 1
      BY <1>1, <2>1
    <2>4. T((k + 1) + 1) = Taller(T(k + 1))
      <3> DEFINE j == (k + 1) + 1
      <3>1. j \in 1 .. n /\ j # 1 /\ j - 1 = k + 1
        BY <2>3
      <3> HIDE DEF j
      <3>2. Raised(leaves, n)[j] = IF j = 1 THEN <<leaves>> ELSE Taller(Raised(leaves, n)[j - 1])
        <4> HIDE DEF n
        <4> QED BY <1>1, <3>1, RaisedStep
      <3>3. Raised(leaves, n)[j] = Taller(Raised(leaves, n)[k + 1])
        BY <3>1, <3>2
      <3> QED BY <3>3 DEF j
    <2> DEFINE A == T(k + 1)
               B == T((k + 1) + 1)
    <2>5. /\ IsTower(B, leaves)
          /\ Len(Last(B)) = 1 \/ Len(Last(B)) < Len(Last(A))
      BY <2>2, <2>4, TowerGrows
    <2> HIDE DEF T, n
    <2>6. Len(Last(A)) \in Nat /\ Len(Last(B)) \in Nat /\ Len(Last(B)) >= 1
      <3>1. ASSUME NEW U, IsTower(U, leaves) PROVE Len(Last(U)) \in Nat /\ Len(Last(U)) >= 1
        <4>1. IsSeq(U) /\ Len(U) \in Nat /\ Len(U) >= 1
          BY <3>1, SeqIs DEF IsTower
        <4>2. IsSeq(U[Len(U)]) /\ Len(U[Len(U)]) >= 1
          BY <3>1, <4>1 DEF IsTower
        <4> QED BY <4>2, SeqIs DEF Last
      <3> QED BY <2>2, <2>5, <3>1
    <2> HIDE DEF A, B
    <2>7. Len(Last(B)) = 1 \/ Len(Last(B)) + (k + 1) <= n
      <3>1. CASE Len(Last(A)) = 1
        BY <2>5, <2>6, <3>1
      <3>2. CASE Len(Last(A)) + k <= n
        BY <1>1, <2>1, <2>5, <2>6, <3>2
      <3> QED BY <2>2, <3>1, <3>2 DEF A
    <2> QED BY <2>5, <2>7 DEF B
  <1>4. K = Nat
    <2>1. K \in SUBSET Nat
      OBVIOUS
    <2> HIDE DEF K
    <2> QED BY <1>2, <1>3, <2>1, NaturalsFromZero
  <1>5. n - 1 \in Nat /\ (n - 1) + 1 = n /\ n <= n
    BY <1>1
  <1>6. n - 1 \in K
    BY <1>4, <1>5
  <1>7. /\ IsTower(T(n), leaves)
        /\ Len(Last(T(n))) = 1 \/ Len(Last(T(n))) + (n - 1) <= n
    <2> HIDE DEF n, T
    <2> QED BY <1>5, <1>6
  <1>8. T(n) = build_merkle_tree(leaves)
    BY TreeIs
  <1> DEFINE B == build_merkle_tree(leaves)
  <1>9. IsTower(B, leaves) /\ (Len(Last(B)) = 1 \/ Len(Last(B)) + (n - 1) <= n)
    BY <1>7, <1>8
  <1> HIDE DEF B, n, T, K
  <1>10. Len(B) \in Nat /\ Len(B) >= 1 /\ Last(B) = B[Len(B)]
    BY <1>9, SeqIs DEF IsTower, Last
  <1>11. Len(B[Len(B)]) \in Nat /\ Len(B[Len(B)]) >= 1
    BY <1>9, <1>10, SeqIs DEF IsTower
  <1>12. Len(B[Len(B)]) = 1
    <2> DEFINE L == Len(B[Len(B)])
    <2>1. L \in Nat /\ L >= 1 /\ (L = 1 \/ L + (n - 1) <= n)
      BY <1>9, <1>10, <1>11
    <2> HIDE DEF L
    <2>2. L = 1
      BY <1>1, <2>1
    <2> QED BY <2>2 DEF L
  <1> QED BY <1>9, <1>12 DEF B

-----------------------------------------------------------------------------
(* The audit path of a leaf leads to the root, and from no other leaf.     *)

LEMMA PlacesFit ==
    ASSUME NEW T, NEW leaves, IsTower(T, leaves), NEW index \in 0 .. Len(leaves) - 1
    PROVE  \A k \in 1 .. Len(T) : Places(index, Len(T))[k] \in 0 .. Len(T[k]) - 1
  <1> DEFINE n == Len(T)
             at(k) == Places(index, n)[k]
             K == {k \in Nat : k + 1 <= n => at(k + 1) \in 0 .. Len(T[k + 1]) - 1}
  <1>1. n \in Nat /\ n >= 1 /\ IsSeq(T) /\ T[1] = leaves /\ index \in Nat
    <2>1. IsSeq(T) /\ T[1] = leaves
      BY DEF IsTower
    <2> QED BY <2>1, SeqIs DEF IsTower
  <1>2. 0 \in K
    <2>1. at(1) = index
      BY <1>1, PlacesIs
    <2> QED BY <1>1, <2>1
  <1>3. ASSUME NEW k \in K PROVE k + 1 \in K
    <2> DEFINE j == k + 1
    <2>1. k \in Nat
      OBVIOUS
    <2> SUFFICES ASSUME j + 1 <= n PROVE at(j + 1) \in 0 .. Len(T[j + 1]) - 1
      BY <2>1
    <2>2. at(j) \in 0 .. Len(T[j]) - 1
      BY <1>1, <2>1
    <2> HIDE DEF K
    <2>3. j \in 1 .. n /\ j \in 1 .. n - 1 /\ j + 1 <= n
      BY <1>1, <2>1
    <2> HIDE DEF j
    <2>4. at(j + 1) = at(j) \div 2
      BY <1>1, <2>3, PlacesIs
    <2>5. IsSeq(T[j]) /\ Len(T[j]) >= 1 /\ T[j + 1] = NextLevel(T[j])
      BY <2>3 DEF IsTower
    <2>6. Len(T[j + 1]) = (Len(T[j]) + 1) \div 2 /\ Len(T[j]) \in Nat
      BY <2>5, NextLevelIs, SeqIs
    <2> DEFINE a == at(j)
               L == Len(T[j])
    <2>7. a \in 0 .. L - 1 /\ L \in Nat /\ L >= 1
      BY <2>2, <2>5, <2>6
    <2> HIDE DEF a, L
    <2>8. a \div 2 \in 0 .. ((L + 1) \div 2) - 1
      BY <2>7
    <2> QED BY <2>4, <2>6, <2>8 DEF a, L
  <1>4. K = Nat
    <2>1. K \in SUBSET Nat
      OBVIOUS
    <2> HIDE DEF K
    <2> QED BY <1>2, <1>3, <2>1, NaturalsFromZero
  <1>5. ASSUME NEW k \in 1 .. n PROVE at(k) \in 0 .. Len(T[k]) - 1
    <2>1. k - 1 \in Nat /\ (k - 1) + 1 = k /\ k <= n
      BY <1>1
    <2>2. k - 1 \in K
      BY <1>4, <2>1
    <2> HIDE DEF n
    <2> QED BY <2>1, <2>2
  <1> QED BY <1>5

\* One step of the path goes from a node to the node above it.
LEMMA AuditStepIs ==
    ASSUME NEW level, IsSeq(level), Len(level) >= 1, NEW a \in 0 .. Len(level) - 1,
           NEW other, other = IF a % 2 = 0 THEN a + 1 ELSE a - 1,
           NEW step, step = [direction |-> IF a % 2 = 0 THEN "right" ELSE "left",
                             hash |-> level[(IF other < Len(level) THEN other ELSE a) + 1]]
    PROVE  AuditStep(level[a + 1], step) = NextLevel(level)[(a \div 2) + 1]
  <1> DEFINE L == Len(level)
             m == (a \div 2) + 1
  <1>1. L \in Nat /\ L >= 1 /\ a \in Nat /\ a < L
    BY SeqIs
  <1>2. m \in 1 .. ((L + 1) \div 2)
    <2> HIDE DEF L
    <2> QED BY <1>1
  <1>3. NextLevel(level)[m] = <<level[2 * m - 1], level[IF 2 * m <= L THEN 2 * m ELSE L]>>
    BY <1>2, NextLevelIs
  <1>4. CASE a % 2 = 0
    <2>1. 2 * m - 1 = a + 1 /\ 2 * m = a + 2
      BY <1>1, <1>4
    <2>2. step.direction = "right" /\ step.hash = level[(IF a + 1 < L THEN a + 1 ELSE a) + 1]
      BY <1>4
    <2>3. AuditStep(level[a + 1], step) = <<level[a + 1], step.hash>>
      BY <2>2 DEF AuditStep, merkle_pair
    <2> HIDE DEF L, m
    <2>4. (IF a + 1 < L THEN a + 1 ELSE a) + 1 = IF 2 * m <= L THEN 2 * m ELSE L
      BY <1>1, <2>1
    <2>5. step.hash = level[IF 2 * m <= L THEN 2 * m ELSE L]
      BY <2>2, <2>4
    <2>6. NextLevel(level)[m] = <<level[a + 1], step.hash>>
      BY <1>3, <2>1, <2>5
    <2> QED BY <2>3, <2>6 DEF m
  <1>5. CASE a % 2 # 0
    <2>1. 2 * m - 1 = a /\ 2 * m = a + 1 /\ a - 1 < L /\ (a - 1) + 1 = a
      BY <1>1, <1>5
    <2>2. step.direction = "left" /\ step.hash = level[(IF a - 1 < L THEN a - 1 ELSE a) + 1]
      BY <1>5
    <2>3. AuditStep(level[a + 1], step) = <<step.hash, level[a + 1]>>
      BY <2>2 DEF AuditStep, merkle_pair
    <2> HIDE DEF L, m
    <2>4. step.hash = level[a]
      BY <2>1, <2>2
    <2>5. (IF 2 * m <= L THEN 2 * m ELSE L) = a + 1
      BY <1>1, <2>1
    <2>6. NextLevel(level)[m] = <<level[a], level[a + 1]>>
      BY <1>3, <2>1, <2>5
    <2> QED BY <2>3, <2>4, <2>6 DEF m
  <1> QED BY <1>4, <1>5

LEMMA AuditClimbs ==
    ASSUME NEW T, NEW leaves, IsTower(T, leaves), Len(T[Len(T)]) = 1,
           NEW index \in 0 .. Len(leaves) - 1
    PROVE  FoldLeft(AuditStep, leaves[index + 1], merkle_proof(index, T)) = T[Len(T)][1]
  <1> DEFINE n == Len(T)
             d == n - 1
             leaf == leaves[index + 1]
             path == merkle_proof(index, T)
             at(k) == Places(index, n)[k]
             C(k) == Climb(leaf, path, d)[1 .. k]
             K == {k \in Nat : k <= d => C(k) = T[k + 1][at(k + 1) + 1]}
  <1>1. n \in Nat /\ n >= 1 /\ d \in Nat /\ IsSeq(T) /\ T[1] = leaves /\ index \in Nat
    <2>1. IsSeq(T) /\ T[1] = leaves
      BY DEF IsTower
    <2> QED BY <2>1, SeqIs DEF IsTower
  <1>2. DOMAIN path = 1 .. d
    BY DEF merkle_proof
  <1>3. 0 \in K
    <2>1. at(1) = index
      BY <1>1, PlacesIs
    <2>2. 0 \in 0 .. d
      BY <1>1
    <2>3. C(0) = leaf
      <3> HIDE DEF d, leaf, path
      <3> QED BY <1>1, <2>2, ClimbStep
    <2> HIDE DEF C, at
    <2> QED BY <1>1, <2>1, <2>3
  <1>4. ASSUME NEW k \in K PROVE k + 1 \in K
    <2> DEFINE j == k + 1
    <2>1. k \in Nat
      OBVIOUS
    <2> SUFFICES ASSUME j <= d PROVE C(j) = T[j + 1][at(j + 1) + 1]
      BY <2>1
    <2>2. C(k) = T[k + 1][at(k + 1) + 1]
      <3> HIDE DEF C, at, d
      <3> QED BY <1>1, <2>1
    <2> HIDE DEF K
    <2>3. j \in 0 .. d /\ j # 0 /\ j - 1 = k /\ j \in 1 .. n - 1 /\ j \in 1 .. n /\ j + 1 <= n
      BY <1>1, <2>1
    <2>4. C(k) = T[j][at(j) + 1]
      BY <2>2
    <2> HIDE DEF j
    <2>5. C(j) = AuditStep(C(k), path[j])
      <3> HIDE DEF d, leaf, path
      <3>1. Climb(leaf, path, d)[1 .. j] =
              IF j = 0 THEN leaf ELSE AuditStep(Climb(leaf, path, d)[1 .. (j - 1)], path[j])
        BY <1>1, <2>3, ClimbStep
      <3> QED BY <2>3, <3>1
    <2>6. at(j + 1) = at(j) \div 2 /\ at(j) \in 0 .. Len(T[j]) - 1
      BY <1>1, <2>3, PlacesIs, PlacesFit
    <2> DEFINE a == at(j)
               level == T[j]
               other == IF a % 2 = 0 THEN a + 1 ELSE a - 1
               step == [direction |-> IF a % 2 = 0 THEN "right" ELSE "left",
                        hash |-> level[(IF other < Len(level) THEN other ELSE a) + 1]]
    <2>7. path[j] = step
      BY <2>3 DEF merkle_proof
    <2>8. IsSeq(level) /\ Len(level) >= 1 /\ T[j + 1] = NextLevel(level)
      BY <2>3 DEF IsTower
    <2>9. AuditStep(level[a + 1], step) = NextLevel(level)[(a \div 2) + 1]
      <3>1. a \in 0 .. Len(level) - 1
        BY <2>6
      <3> HIDE DEF a, level
      <3> QED BY <2>8, <3>1, AuditStepIs
    <2> HIDE DEF step, other, C, path
    <2> QED BY <2>4, <2>5, <2>6, <2>7, <2>8, <2>9
  <1>5. K = Nat
    <2>1. K \in SUBSET Nat
      OBVIOUS
    <2> HIDE DEF K
    <2> QED BY <1>3, <1>4, <2>1, NaturalsFromZero
  <1>6. C(d) = T[d + 1][at(d + 1) + 1]
    <2>1. d \in K
      BY <1>1, <1>5
    <2> HIDE DEF C, at, d
    <2> QED BY <1>1, <2>1
  <1>7. d + 1 = n /\ n \in 1 .. n
    BY <1>1
  <1>8. at(n) = 0
    <2>1. at(n) \in 0 .. Len(T[n]) - 1
      BY <1>7, PlacesFit
    <2> QED BY <2>1
  <1>9. FoldLeft(AuditStep, leaf, path) = C(d)
    <2> HIDE DEF leaf, path, d
    <2> QED BY <1>1, <1>2, FoldIsClimb
  <1>10. C(d) = T[n][1]
    <2> HIDE DEF C, d, n, at
    <2> QED BY <1>6, <1>7, <1>8
  <1> QED BY <1>9, <1>10

\* Pairs are injective, so from another leaf the path ends elsewhere.
LEMMA AuditInjective ==
    ASSUME NEW a, NEW b, a # b, NEW path, NEW d \in Nat, DOMAIN path = 1 .. d
    PROVE  FoldLeft(AuditStep, a, path) # FoldLeft(AuditStep, b, path)
  <1> DEFINE K == {k \in Nat : k <= d => Climb(a, path, d)[1 .. k] # Climb(b, path, d)[1 .. k]}
  <1>1. 0 \in K
    <2>1. 0 \in 0 .. d
      OBVIOUS
    <2> QED BY <2>1, ClimbStep
  <1>2. ASSUME NEW k \in K PROVE k + 1 \in K
    <2> DEFINE j == k + 1
    <2>1. k \in Nat
      OBVIOUS
    <2> SUFFICES ASSUME j <= d PROVE Climb(a, path, d)[1 .. j] # Climb(b, path, d)[1 .. j]
      BY <2>1
    <2>2. Climb(a, path, d)[1 .. k] # Climb(b, path, d)[1 .. k]
      BY <2>1
    <2> HIDE DEF K
    <2>3. j \in 0 .. d /\ j # 0 /\ j - 1 = k
      BY <2>1
    <2> HIDE DEF j
    <2>4. /\ Climb(a, path, d)[1 .. j] =
               IF j = 0 THEN a ELSE AuditStep(Climb(a, path, d)[1 .. (j - 1)], path[j])
          /\ Climb(b, path, d)[1 .. j] =
               IF j = 0 THEN b ELSE AuditStep(Climb(b, path, d)[1 .. (j - 1)], path[j])
      BY <2>3, ClimbStep
    <2>5. \A x, y, step : x # y => AuditStep(x, step) # AuditStep(y, step)
      BY DEF AuditStep, merkle_pair
    <2> QED BY <2>2, <2>3, <2>4, <2>5
  <1>3. K = Nat
    <2>1. K \in SUBSET Nat
      OBVIOUS
    <2> HIDE DEF K
    <2> QED BY <1>1, <1>2, <2>1, NaturalsFromZero
  <1>4. d \in K
    BY <1>3
  <1>5. /\ FoldLeft(AuditStep, a, path) = Climb(a, path, d)[1 .. d]
        /\ FoldLeft(AuditStep, b, path) = Climb(b, path, d)[1 .. d]
    BY FoldIsClimb
  <1> QED BY <1>4, <1>5

(* Over any two or more leaves without a repetition, the audit path of one *)
(* leaf verifies against the root with that leaf and with no other: the    *)
(* last leaf of an odd level too, which merkle_proof pairs with itself.    *)
THEOREM AuditPathsVerify ==
    ASSUME NEW leaves, IsSeq(leaves), Len(leaves) >= 2,
           NEW i \in 1 .. Len(leaves), NEW j \in 1 .. Len(leaves),
           leaves[i] = leaves[j] => i = j
    PROVE  LET levels == build_merkle_tree(leaves)
           IN  verify_merkle_proof(leaves[j], merkle_proof(i - 1, levels), MerkleRoot(levels))
                 <=> i = j
  <1> DEFINE T == build_merkle_tree(leaves)
             path == merkle_proof(i - 1, T)
             d == Len(T) - 1
  <1>1. Len(leaves) \in Nat /\ Len(leaves) >= 1
    BY SeqIs
  <1>2. IsTower(T, leaves) /\ Len(T[Len(T)]) = 1
    BY <1>1, TreeBuilt
  <1> HIDE DEF T
  <1>3. i - 1 \in 0 .. Len(leaves) - 1 /\ (i - 1) + 1 = i
    BY <1>1
  <1>4. FoldLeft(AuditStep, leaves[i], path) = T[Len(T)][1]
    <2>1. FoldLeft(AuditStep, leaves[(i - 1) + 1], path) = T[Len(T)][1]
      BY <1>2, <1>3, AuditClimbs
    <2> QED BY <1>3, <2>1
  <1>5. d \in Nat /\ DOMAIN path = 1 .. d
    BY <1>2, SeqIs DEF IsTower, merkle_proof
  <1> HIDE DEF path, d
  <1>6. leaves[i] # leaves[j]
          => FoldLeft(AuditStep, leaves[i], path) # FoldLeft(AuditStep, leaves[j], path)
    BY <1>5, AuditInjective
  <1>7. verify_merkle_proof(leaves[j], path, MerkleRoot(T))
          <=> FoldLeft(AuditStep, leaves[j], path) = T[Len(T)][1]
    BY DEF verify_merkle_proof, MerkleRoot, Last
  <1>8. verify_merkle_proof(leaves[j], path, MerkleRoot(T)) <=> i = j
    BY <1>4, <1>6, <1>7
  <1> QED BY <1>8 DEF T, path

-----------------------------------------------------------------------------
(* Epochs.  A file in which cur is the open epoch: every epoch before it   *)
(* is full, it is not, and no entry belongs to a later one.                *)
GroupOK(g, n) ==
    /\ IsSeq(g)
    /\ \A a \in 1 .. Len(g) :
          /\ g[a].entry_id \in 1 .. n
          /\ g[a].entry_hash = compute_entry_hash(g[a].entry_id, g[a].override_nonce, g[a].override_nonce)
    /\ \A a, b \in 1 .. Len(g) : a < b => g[a].entry_id < g[b].entry_id

Shape(s, cur) ==
    /\ IsSeq(s) /\ cur \in Nat
    /\ \A i \in 1 .. Len(s) : s[i].epoch \in 0 .. cur /\ s[i].epoch <= s[Len(s)].epoch
    /\ s # << >> => s[Len(s)].epoch = IF EntriesOf(s, cur) = << >> THEN cur - 1 ELSE cur
    /\ \A id \in Nat : GroupOK(EntriesOf(s, id), Len(s))
    /\ \A id \in Nat : id < cur => Len(EntriesOf(s, id)) = EPOCH_SIZE
    /\ Len(EntriesOf(s, cur)) < EPOCH_SIZE
    /\ \A id \in Nat : id > cur => EntriesOf(s, id) = << >>

EpochRecord(id, entries, sealed, root) ==
    [epoch_id |-> id, entries |-> entries, sealed |-> sealed, merkle_root |-> root]

Unsealed == FALSE
RawEpoch(id, entries) == EpochRecord(id, entries, Unsealed, << >>)

EpochOf(s, id) ==
    IF is_full(RawEpoch(id, EntriesOf(s, id))) THEN seal(RawEpoch(id, EntriesOf(s, id)))
    ELSE RawEpoch(id, EntriesOf(s, id))

EpochTable(s, cur) == [n \in 1 .. cur + 1 |-> EpochOf(s, n - 1)]

LEMMA EntriesReplaced ==
    ASSUME NEW a, NEW b, NEW c, NEW d, NEW y
    PROVE  [EpochRecord(a, b, c, d) EXCEPT !.entries = y] = EpochRecord(a, y, c, d)
  BY DEF EpochRecord

LEMMA RawIs ==
    ASSUME NEW id, NEW x
    PROVE  /\ [MerkleEpoch(id) EXCEPT !.entries = x] = RawEpoch(id, x)
           /\ MerkleEpoch(id) = RawEpoch(id, << >>)
           /\ is_full(RawEpoch(id, x)) <=> Len(x) >= EPOCH_SIZE
           /\ RawEpoch(id, x).entries = x /\ RawEpoch(id, x).epoch_id = id
           /\ RawEpoch(id, x).sealed = FALSE
           /\ \A y : [RawEpoch(id, x) EXCEPT !.entries = y] = RawEpoch(id, y)
  <1>1. MerkleEpoch(id) = RawEpoch(id, << >>)
    BY DEF MerkleEpoch, RawEpoch, EpochRecord, Unsealed
  <1>2. ASSUME NEW z, NEW y PROVE [RawEpoch(id, z) EXCEPT !.entries = y] = RawEpoch(id, y)
    BY EntriesReplaced DEF RawEpoch
  <1>3. [MerkleEpoch(id) EXCEPT !.entries = x] = RawEpoch(id, x)
    BY <1>1, <1>2
  <1>4. RawEpoch(id, x).entries = x /\ RawEpoch(id, x).epoch_id = id
    BY DEF RawEpoch, EpochRecord
  <1>5. is_full(RawEpoch(id, x)) <=> Len(x) >= EPOCH_SIZE
    BY <1>4 DEF is_full
  <1>6. RawEpoch(id, x).sealed = FALSE
    BY DEF RawEpoch, EpochRecord, Unsealed
  <1> QED BY <1>1, <1>2, <1>3, <1>4, <1>5, <1>6

LEMMA RawFull == \A id, x : is_full(RawEpoch(id, x)) <=> Len(x) >= EPOCH_SIZE
  BY RawIs

LEMMA RawJoins ==
    ASSUME NEW id, NEW x, NEW e
    PROVE  [RawEpoch(id, x) EXCEPT !.entries = Append(@, e)] = RawEpoch(id, Append(x, e))
  BY DEF RawEpoch, EpochRecord

LEMMA EmptyShape == Shape(<< >>, 0)
  <1>1. \A id : EntriesOf(<< >>, id) = << >>
    BY EntriesOfNothing
  <1>2. GroupOK(<< >>, 0)
    BY EmptyIs DEF GroupOK
  <1> QED BY <1>1, <1>2, EmptyIs, EpochSizeAssumption DEF Shape

LEMMA SeqEmpty == ASSUME NEW s, IsSeq(s) PROVE s = << >> <=> Len(s) = 0
  <1>1. Len(s) = 0 => s = << >>
    BY EmptyIs, SameSeq
  <1> QED BY <1>1, EmptyIs

\* What _load_from_disk rebuilds is one epoch for each id up to the open one.
LEMMA RebuiltIs ==
    ASSUME NEW s, NEW cur, Shape(s, cur)
    PROVE  RebuiltEpochs(s) = EpochTable(s, cur)
  <1>1. EPOCH_SIZE \in Nat /\ EPOCH_SIZE >= 2 /\ cur \in Nat /\ IsSeq(s)
    BY EpochSizeAssumption DEF Shape
  <1>2. CASE s = << >>
    <2>1. \A id : EntriesOf(s, id) = << >>
      BY <1>2, EntriesOfNothing
    <2>2. cur = 0
      <3> SUFFICES ASSUME cur # 0 PROVE FALSE
        OBVIOUS
      <3>1. 0 < cur
        BY <1>1
      <3>2. Len(EntriesOf(s, 0)) = EPOCH_SIZE
        BY <3>1 DEF Shape
      <3> QED BY <1>1, <2>1, <3>2, EmptyIs
    <2>3. EpochOf(s, 0) = MerkleEpoch(0)
      <3>1. ~(Len(<< >>) >= EPOCH_SIZE)
        BY <1>1, EmptyIs
      <3> QED BY <2>1, <3>1, RawIs DEF EpochOf
    <2>4. RebuiltEpochs(s) = <<MerkleEpoch(0)>>
      BY <1>2 DEF RebuiltEpochs
    <2>5. EpochTable(s, cur) = [n \in 1 .. 1 |-> EpochOf(s, n - 1)]
      BY <2>2 DEF EpochTable
    <2> DEFINE e == MerkleEpoch(0)
    <2>6. [n \in 1 .. 1 |-> EpochOf(s, n - 1)] = [n \in 1 .. 1 |-> e]
      BY <2>3
    <2> HIDE DEF e
    <2>7. [n \in 1 .. 1 |-> e] = <<e>>
      OBVIOUS
    <2> QED BY <2>4, <2>5, <2>6, <2>7 DEF e
  <1>3. CASE s # << >>
    <2> DEFINE L == s[Len(s)].epoch
               E == {s[i].epoch : i \in DOMAIN s}
               top == CHOOSE m \in E : \A i \in DOMAIN s : s[i].epoch <= m
               all == [n \in 1 .. (top + 1) |-> EpochOf(s, n - 1)]
    <2>1. Len(s) \in 1 .. Len(s) /\ DOMAIN s = 1 .. Len(s) /\ Len(s) \in Nat
      BY <1>1, <1>3, SeqIs, SeqEmpty
    <2>2. /\ L = IF EntriesOf(s, cur) = << >> THEN cur - 1 ELSE cur
          /\ \A i \in DOMAIN s : s[i].epoch \in 0 .. cur /\ s[i].epoch <= L
      BY <1>3, <2>1 DEF Shape
    <2>3. L \in Nat /\ L \in E
      BY <1>1, <2>1, <2>2
    <2>4. top = L
      <3> HIDE DEF L
      <3>1. \A m \in E : m \in Nat /\ (m # L => \E i \in DOMAIN s : ~(s[i].epoch <= m))
        <4> SUFFICES ASSUME NEW i \in DOMAIN s
                     PROVE  /\ s[i].epoch \in Nat
                            /\ s[i].epoch # L => \E j \in DOMAIN s : ~(s[j].epoch <= s[i].epoch)
          OBVIOUS
        <4>1. s[i].epoch \in Nat /\ s[i].epoch <= L
          BY <1>1, <2>2
        <4>2. s[i].epoch # L => ~(L <= s[i].epoch)
          BY <2>3, <4>1
        <4>3. L = s[Len(s)].epoch /\ Len(s) \in DOMAIN s
          BY <2>1 DEF L
        <4> QED BY <4>1, <4>2, <4>3
      <3>2. \A i \in DOMAIN s : s[i].epoch <= L
        BY <2>2
      <3> HIDE DEF E
      <3> QED BY <2>3, <3>1, <3>2
    <2>5. RebuiltEpochs(s) = IF is_full(Last(all)) THEN Append(all, MerkleEpoch(top + 1)) ELSE all
      <3> DEFINE R(id) == LET epoch == [MerkleEpoch(id) EXCEPT !.entries = EntriesOf(s, id)]
                          IN  IF is_full(epoch) THEN seal(epoch) ELSE epoch
                 built == [n \in 1 .. (top + 1) |-> R(n - 1)]
      <3>1. \A id : EpochOf(s, id) = R(id)
        BY RawIs DEF EpochOf
      <3>2. RebuiltEpochs(s) =
              IF is_full(Last(built)) THEN Append(built, MerkleEpoch(top + 1)) ELSE built
        BY <1>3 DEF RebuiltEpochs
      <3> HIDE DEF R, top
      <3>3. built = all
        BY <3>1
      <3> HIDE DEF built
      <3> QED BY <3>2, <3>3
    <2> HIDE DEF top, E, L
    <2>6. all = EpochTable(s, L)
      BY <2>4 DEF EpochTable
    <2> HIDE DEF all
    <2> DEFINE A == EpochTable(s, L)
    <2>7. IsSeq(A) /\ Len(A) = L + 1 /\ \A n \in 1 .. L + 1 : A[n] = EpochOf(s, n - 1)
      <3>1. L + 1 \in Nat /\ A = [n \in 1 .. L + 1 |-> A[n]]
        BY <2>3 DEF EpochTable
      <3>2. \A n \in 1 .. L + 1 : A[n] = EpochOf(s, n - 1)
        BY DEF EpochTable
      <3> HIDE DEF A
      <3> QED BY <3>1, <3>2, TableIs
    <2>8. Last(A) = EpochOf(s, L)
      <3>1. L + 1 \in 1 .. L + 1 /\ (L + 1) - 1 = L
        BY <2>3
      <3> HIDE DEF A
      <3> QED BY <2>7, <3>1 DEF Last
    <2>9. is_full(EpochOf(s, L)) <=> Len(EntriesOf(s, L)) >= EPOCH_SIZE
      <3> DEFINE g == EntriesOf(s, L)
      <3>1. is_full(seal(RawEpoch(L, g))) <=> Len(g) >= EPOCH_SIZE
        BY DEF seal, RawEpoch, EpochRecord, is_full
      <3> HIDE DEF g
      <3> QED BY <3>1, RawIs DEF EpochOf, g
    <2>10. CASE EntriesOf(s, cur) = << >>
      <3>1. L = cur - 1 /\ L < cur /\ L + 1 = cur
        BY <1>1, <2>2, <2>3, <2>10
      <3>2. Len(EntriesOf(s, L)) = EPOCH_SIZE
        BY <2>3, <3>1 DEF Shape
      <3>3. RebuiltEpochs(s) = Append(A, MerkleEpoch(cur))
        BY <1>1, <2>4, <2>5, <2>6, <2>8, <2>9, <3>1, <3>2
      <3>4. EpochOf(s, cur) = MerkleEpoch(cur)
        <4>1. ~(Len(<< >>) >= EPOCH_SIZE)
          BY <1>1, EmptyIs
        <4> QED BY <2>10, <4>1, RawIs DEF EpochOf
      <3> DEFINE B == Append(A, MerkleEpoch(cur))
                 C == EpochTable(s, cur)
      <3>5. /\ IsSeq(B) /\ Len(B) = cur + 1 /\ B[cur + 1] = MerkleEpoch(cur)
            /\ \A i \in 1 .. cur : B[i] = EpochOf(s, i - 1)
        <4> HIDE DEF A
        <4> QED BY <2>7, <3>1, AppendIs
      <3>6. IsSeq(C) /\ Len(C) = cur + 1 /\ \A n \in 1 .. cur + 1 : C[n] = EpochOf(s, n - 1)
        <4>1. cur + 1 \in Nat /\ C = [n \in 1 .. cur + 1 |-> C[n]]
          BY <1>1 DEF EpochTable
        <4>2. \A n \in 1 .. cur + 1 : C[n] = EpochOf(s, n - 1)
          BY DEF EpochTable
        <4> HIDE DEF C
        <4> QED BY <4>1, <4>2, TableIs
      <3> HIDE DEF B, C
      <3>7. ASSUME NEW i \in 1 .. Len(B) PROVE B[i] = C[i]
        <4>1. CASE i = cur + 1
          <5>1. i - 1 = cur /\ i \in 1 .. cur + 1
            BY <1>1, <4>1
          <5> QED BY <3>4, <3>5, <3>6, <4>1, <5>1
        <4>2. CASE i # cur + 1
          <5>1. i \in 1 .. cur /\ i \in 1 .. cur + 1
            BY <1>1, <3>5, <4>2
          <5> QED BY <3>5, <3>6, <5>1
        <4> QED BY <4>1, <4>2
      <3>8. B = C
        BY <3>5, <3>6, <3>7, SameSeq
      <3> QED BY <3>3, <3>8 DEF B, C
    <2>11. CASE EntriesOf(s, cur) # << >>
      <3>1. L = cur
        BY <2>2, <2>11
      <3>2. ~(Len(EntriesOf(s, L)) >= EPOCH_SIZE)
        <4>1. Len(EntriesOf(s, cur)) < EPOCH_SIZE /\ IsSeq(EntriesOf(s, cur))
          BY <1>1 DEF Shape, GroupOK
        <4>2. Len(EntriesOf(s, cur)) \in Nat
          BY <4>1, SeqIs
        <4> QED BY <1>1, <3>1, <4>1, <4>2
      <3> QED BY <2>5, <2>6, <2>8, <2>9, <3>1, <3>2
    <2> QED BY <2>10, <2>11
  <1> QED BY <1>2, <1>3

LEMMA GroupGrows ==
    ASSUME NEW g, NEW n \in Nat, GroupOK(g, n), NEW e, e.entry_id = n + 1,
           e.entry_hash = compute_entry_hash(e.entry_id, e.override_nonce, e.override_nonce)
    PROVE  GroupOK(g, n + 1) /\ GroupOK(Append(g, e), n + 1)
  <1> DEFINE h == Append(g, e)
             m == Len(g)
  <1>1. /\ m \in Nat /\ IsSeq(h) /\ Len(h) = m + 1 /\ h[m + 1] = e
        /\ \A i \in 1 .. m : h[i] = g[i]
    BY AppendIs DEF GroupOK
  <1>2. \A a \in 1 .. m :
          /\ g[a].entry_id \in 1 .. n
          /\ g[a].entry_hash = compute_entry_hash(g[a].entry_id, g[a].override_nonce, g[a].override_nonce)
    BY DEF GroupOK
  <1>3. \A a, b \in 1 .. m : a < b => g[a].entry_id < g[b].entry_id
    BY DEF GroupOK
  <1>4. GroupOK(g, n + 1)
    BY DEF GroupOK
  <1> HIDE DEF h, m
  <1>5. ASSUME NEW a \in 1 .. Len(h)
        PROVE  /\ h[a].entry_id \in 1 .. n + 1
               /\ h[a].entry_hash = compute_entry_hash(h[a].entry_id, h[a].override_nonce, h[a].override_nonce)
    <2>1. CASE a = m + 1
      BY <1>1, <2>1
    <2>2. CASE a # m + 1
      <3>1. a \in 1 .. m /\ h[a] = g[a]
        BY <1>1, <2>2
      <3> QED BY <1>2, <3>1
    <2> QED BY <2>1, <2>2
  <1>6. ASSUME NEW a \in 1 .. Len(h), NEW b \in 1 .. Len(h), a < b
        PROVE  h[a].entry_id < h[b].entry_id
    <2>1. a \in 1 .. m /\ h[a] = g[a]
      BY <1>1, <1>6
    <2>2. CASE b = m + 1
      <3>1. g[a].entry_id \in 1 .. n
        BY <1>2, <2>1
      <3> QED BY <1>1, <2>1, <2>2, <3>1
    <2>3. CASE b # m + 1
      <3>1. b \in 1 .. m /\ h[b] = g[b]
        BY <1>1, <2>3
      <3> QED BY <1>3, <1>6, <2>1, <3>1
    <2> QED BY <2>2, <2>3
  <1>7. GroupOK(h, n + 1)
    BY <1>1, <1>5, <1>6 DEF GroupOK
  <1> QED BY <1>4, <1>7 DEF h

OpenAfter(s, cur) == IF Len(EntriesOf(s, cur)) + 1 >= EPOCH_SIZE THEN cur + 1 ELSE cur

\* An entry joins the open epoch, which is followed by a new one once full.
LEMMA ShapeGrows ==
    ASSUME NEW s, NEW cur, Shape(s, cur), NEW e, e.epoch = cur, e.entry_id = Len(s) + 1,
           e.entry_hash = compute_entry_hash(e.entry_id, e.override_nonce, e.override_nonce)
    PROVE  Shape(Append(s, e), OpenAfter(s, cur))
  <1> DEFINE t == Append(s, e)
             n == Len(s)
             g == EntriesOf(s, cur)
             nxt == OpenAfter(s, cur)
  <1>1. /\ cur \in Nat /\ EPOCH_SIZE \in Nat /\ EPOCH_SIZE >= 2 /\ IsSeq(s) /\ IsSeq(g)
        /\ Len(g) < EPOCH_SIZE
    BY EpochSizeAssumption DEF Shape, GroupOK
  <1>2. /\ n \in Nat /\ IsSeq(t) /\ Len(t) = n + 1 /\ t[n + 1] = e
        /\ \A i \in 1 .. n : t[i] = s[i]
    BY <1>1, AppendIs
  <1>3. Len(g) \in Nat /\ IsSeq(Append(g, e)) /\ Len(Append(g, e)) = Len(g) + 1
    BY <1>1, AppendIs
  <1>4. /\ EntriesOf(t, cur) = Append(g, e)
        /\ \A id : id # cur => EntriesOf(t, id) = EntriesOf(s, id)
    BY <1>1, EntriesOfMore
  <1>5. /\ \A i \in 1 .. n : s[i].epoch \in 0 .. cur
        /\ \A id \in Nat : GroupOK(EntriesOf(s, id), n)
        /\ \A id \in Nat : id < cur => Len(EntriesOf(s, id)) = EPOCH_SIZE
        /\ \A id \in Nat : id > cur => EntriesOf(s, id) = << >>
    BY DEF Shape
  <1>6. nxt \in {cur, cur + 1} /\ (nxt = cur + 1 <=> Len(g) + 1 >= EPOCH_SIZE)
    BY <1>1 DEF OpenAfter
  <1> HIDE DEF t, n, nxt, g
  <1>7. ASSUME NEW i \in 1 .. Len(t)
        PROVE  t[i].epoch \in 0 .. nxt /\ t[i].epoch <= t[Len(t)].epoch
    <2>1. CASE i = n + 1
      BY <1>1, <1>2, <1>6, <2>1
    <2>2. CASE i # n + 1
      <3>1. i \in 1 .. n /\ t[i] = s[i]
        BY <1>2, <2>2
      <3>2. t[i].epoch \in 0 .. cur
        BY <1>5, <3>1
      <3> QED BY <1>1, <1>2, <1>6, <3>2
    <2> QED BY <2>1, <2>2
  <1>8. \A id \in Nat : GroupOK(EntriesOf(t, id), n + 1)
    <2> SUFFICES ASSUME NEW id \in Nat PROVE GroupOK(EntriesOf(t, id), n + 1)
      OBVIOUS
    <2>1. GroupOK(EntriesOf(s, id), n)
      BY <1>5
    <2>2. GroupOK(EntriesOf(s, id), n + 1) /\ GroupOK(Append(EntriesOf(s, id), e), n + 1)
      BY <1>2, <2>1, GroupGrows DEF n
    <2> QED BY <1>4, <2>2 DEF g
  <1>9. \A id \in Nat : id < nxt => Len(EntriesOf(t, id)) = EPOCH_SIZE
    <2> SUFFICES ASSUME NEW id \in Nat, id < nxt PROVE Len(EntriesOf(t, id)) = EPOCH_SIZE
      OBVIOUS
    <2>1. CASE id = cur
      <3>1. Len(g) + 1 >= EPOCH_SIZE
        BY <1>1, <1>6, <2>1
      <3> QED BY <1>1, <1>3, <1>4, <2>1, <3>1
    <2>2. CASE id # cur
      <3>1. id < cur
        BY <1>1, <1>6, <2>2
      <3> QED BY <1>4, <1>5, <2>2, <3>1
    <2> QED BY <2>1, <2>2
  <1>10. Len(EntriesOf(t, nxt)) < EPOCH_SIZE
         /\ t[Len(t)].epoch = IF EntriesOf(t, nxt) = << >> THEN nxt - 1 ELSE nxt
    <2>1. CASE nxt = cur
      <3>1. ~(Len(g) + 1 >= EPOCH_SIZE)
        BY <1>1, <1>6, <2>1
      <3>2. Append(g, e) # << >>
        BY <1>3, EmptyIs
      <3> QED BY <1>1, <1>2, <1>3, <1>4, <2>1, <3>1, <3>2
    <2>2. CASE nxt = cur + 1
      <3>1. EntriesOf(t, nxt) = << >>
        BY <1>1, <1>4, <1>5, <2>2
      <3> QED BY <1>1, <1>2, <2>2, <3>1, EmptyIs
    <2> QED BY <1>6, <2>1, <2>2
  <1>11. \A id \in Nat : id > nxt => EntriesOf(t, id) = << >>
    <2> SUFFICES ASSUME NEW id \in Nat, id > nxt PROVE EntriesOf(t, id) = << >>
      OBVIOUS
    <2>1. id > cur /\ id # cur
      BY <1>1, <1>6
    <2> QED BY <1>4, <1>5, <2>1
  <1>12. nxt \in Nat
    BY <1>1, <1>6
  <1>13. Shape(t, nxt)
    BY <1>2, <1>7, <1>8, <1>9, <1>10, <1>11, <1>12 DEF Shape
  <1> QED BY <1>13 DEF t, nxt

LEMMA TableOf ==
    ASSUME NEW s, NEW cur \in Nat
    PROVE  /\ IsSeq(EpochTable(s, cur)) /\ Len(EpochTable(s, cur)) = cur + 1
           /\ \A n \in 1 .. cur + 1 : EpochTable(s, cur)[n] = EpochOf(s, n - 1)
  <1> DEFINE C == EpochTable(s, cur)
  <1>1. cur + 1 \in Nat /\ C = [n \in 1 .. cur + 1 |-> C[n]]
    BY DEF EpochTable
  <1>2. \A n \in 1 .. cur + 1 : C[n] = EpochOf(s, n - 1)
    BY DEF EpochTable
  <1> HIDE DEF C
  <1>3. IsSeq(C) /\ Len(C) = cur + 1
    BY <1>1, TableIs
  <1> QED BY <1>2, <1>3 DEF C

\* The open epoch of a loaded ledger.
LEMMA CurrentIs ==
    ASSUME NEW s, NEW cur, Shape(s, cur)
    PROVE  current_epoch(LoadedLedger(s)) = RawEpoch(cur, EntriesOf(s, cur))
  <1>1. cur \in Nat /\ EPOCH_SIZE \in Nat /\ Len(EntriesOf(s, cur)) < EPOCH_SIZE
        /\ Len(EntriesOf(s, cur)) \in Nat
    BY EpochSizeAssumption, SeqIs DEF Shape, GroupOK
  <1>2. LoadedLedger(s).epochs = EpochTable(s, cur)
    BY RebuiltIs DEF LoadedLedger
  <1>3. Last(EpochTable(s, cur)) = EpochOf(s, cur)
    <2>1. cur + 1 \in 1 .. cur + 1 /\ (cur + 1) - 1 = cur
      BY <1>1
    <2> QED BY <1>1, <2>1, TableOf DEF Last
  <1>4. EpochOf(s, cur) = RawEpoch(cur, EntriesOf(s, cur))
    <2> DEFINE g == EntriesOf(s, cur)
    <2>1. ~(Len(g) >= EPOCH_SIZE)
      BY <1>1
    <2> HIDE DEF g
    <2>2. ~is_full(RawEpoch(cur, g))
      BY <2>1, RawFull
    <2> QED BY <2>2 DEF EpochOf, g
  <1> QED BY <1>2, <1>3, <1>4 DEF current_epoch

(* What append does in memory is what a restart rebuilds from the longer   *)
(* file, sealed roots included.                                            *)
LEMMA AppendedIs ==
    ASSUME NEW s, NEW cur, Shape(s, cur), NEW e, e.epoch = cur, e.entry_id = Len(s) + 1,
           e.entry_hash = compute_entry_hash(e.entry_id, e.override_nonce, e.override_nonce)
    PROVE  Appended(LoadedLedger(s), e) = LoadedLedger(Append(s, e))
  <1> DEFINE t == Append(s, e)
             g == EntriesOf(s, cur)
             nxt == OpenAfter(s, cur)
             old == EpochTable(s, cur)
             new == EpochTable(t, nxt)
             raw == RawEpoch(cur, Append(g, e))
             before == Front(old)
  <1>1. /\ cur \in Nat /\ EPOCH_SIZE \in Nat /\ EPOCH_SIZE >= 2 /\ IsSeq(s) /\ IsSeq(g)
        /\ Len(g) < EPOCH_SIZE
    BY EpochSizeAssumption DEF Shape, GroupOK
  <1>2. Shape(t, nxt) /\ nxt \in Nat
    BY ShapeGrows DEF Shape
  <1>3. LoadedLedger(s) = [entries |-> s, epochs |-> old]
        /\ LoadedLedger(t) = [entries |-> t, epochs |-> new]
    BY <1>2, RebuiltIs DEF LoadedLedger
  <1>4. /\ EntriesOf(t, cur) = Append(g, e)
        /\ \A id : id # cur => EntriesOf(t, id) = EntriesOf(s, id)
    BY <1>1, EntriesOfMore
  <1>5. [current_epoch(LoadedLedger(s)) EXCEPT !.entries = Append(@, e)] = raw
    <2>1. current_epoch(LoadedLedger(s)) = RawEpoch(cur, g)
      BY CurrentIs
    <2> HIDE DEF g
    <2> QED BY <2>1, RawJoins
  <1>6. raw.epoch_id = cur /\ (is_full(raw) <=> Len(g) + 1 >= EPOCH_SIZE)
    <2>1. Len(Append(g, e)) = Len(g) + 1
      BY <1>1, AppendIs
    <2> HIDE DEF g
    <2>2. raw.epoch_id = cur
      BY DEF RawEpoch, EpochRecord
    <2> QED BY <2>1, <2>2, RawFull
  <1>7. EpochOf(t, cur) = IF is_full(raw) THEN seal(raw) ELSE raw
    BY <1>4 DEF EpochOf
  <1>8. nxt = IF is_full(raw) THEN cur + 1 ELSE cur
    BY <1>6 DEF OpenAfter
  <1>9. Appended(LoadedLedger(s), e) =
          [entries |-> t,
           epochs |-> IF is_full(raw) THEN before \o <<seal(raw), MerkleEpoch(cur + 1)>>
                      ELSE Append(before, raw)]
    <2>1. LoadedLedger(s).entries = s /\ LoadedLedger(s).epochs = old
      BY <1>3
    <2> DEFINE l == LoadedLedger(s)
    <2> HIDE DEF raw, old, t
    <2>2. Append(l.entries, e) = t /\ Front(l.epochs) = before
      BY <2>1 DEF t
    <2> HIDE DEF l, before
    <2>3. Appended(l, e) =
            [entries |-> Append(l.entries, e),
             epochs |-> IF is_full([current_epoch(l) EXCEPT !.entries = Append(@, e)])
                        THEN Front(l.epochs) \o
                             <<seal([current_epoch(l) EXCEPT !.entries = Append(@, e)]),
                               MerkleEpoch([current_epoch(l) EXCEPT !.entries = Append(@, e)].epoch_id + 1)>>
                        ELSE Append(Front(l.epochs), [current_epoch(l) EXCEPT !.entries = Append(@, e)])]
      BY DEF Appended
    <2>4. [current_epoch(l) EXCEPT !.entries = Append(@, e)] = raw
      BY <1>5 DEF l
    <2> QED BY <1>6, <2>2, <2>3, <2>4, Zenon DEF l
  <1>10. /\ IsSeq(new) /\ Len(new) = nxt + 1
         /\ \A n \in 1 .. nxt + 1 : new[n] = EpochOf(t, n - 1)
    BY <1>2, TableOf
  <1>11. /\ IsSeq(before) /\ Len(before) = cur
         /\ \A n \in 1 .. cur : before[n] = EpochOf(t, n - 1)
    <2>1. /\ IsSeq(old) /\ Len(old) = cur + 1
          /\ \A n \in 1 .. cur + 1 : old[n] = EpochOf(s, n - 1)
      BY <1>1, TableOf
    <2>2. before = SubSeq(old, 1, Len(old) - 1)
      BY DEF Front
    <2> HIDE DEF old, before
    <2>3. PICK S : old \in Seq(S)
      BY <2>1 DEF IsSeq
    <2>4. Len(old) - 1 = cur
      BY <1>1, <2>1
    <2>5. before = SubSeq(old, 1, cur)
      BY <2>2, <2>4
    <2>6. before \in Seq(S) /\ Len(before) = cur /\ \A n \in 1 .. cur : before[n] = old[n]
      <3>1. 1 \in 1 .. Len(old) + 1 /\ cur \in 0 .. Len(old) /\ 0 \in Nat
        BY <1>1, <2>1
      <3> QED BY <1>1, <2>1, <2>3, <2>5, <3>1, SubSeqProperties
    <2>7. ASSUME NEW n \in 1 .. cur PROVE before[n] = EpochOf(t, n - 1)
      <3>1. n \in 1 .. cur + 1 /\ n - 1 # cur
        BY <1>1
      <3>2. EntriesOf(t, n - 1) = EntriesOf(s, n - 1)
        BY <1>4, <3>1
      <3>3. EpochOf(t, n - 1) = EpochOf(s, n - 1)
        BY <3>2 DEF EpochOf
      <3> QED BY <2>1, <2>6, <3>1, <3>3
    <2> QED BY <2>6, <2>7 DEF IsSeq
  <1> HIDE DEF old, new, before, raw, t, g, nxt
  <1>12. CASE ~is_full(raw)
    <2> DEFINE got == Append(before, raw)
    <2>1. /\ IsSeq(got) /\ Len(got) = cur + 1 /\ got[cur + 1] = raw
          /\ \A i \in 1 .. cur : got[i] = before[i]
      BY <1>11, AppendIs
    <2> HIDE DEF got
    <2>2. nxt = cur
      BY <1>8, <1>12
    <2>3. ASSUME NEW i \in 1 .. Len(got) PROVE got[i] = new[i]
      <3>1. CASE i = cur + 1
        <4>1. i - 1 = cur /\ i \in 1 .. nxt + 1
          BY <1>1, <2>2, <3>1
        <4> QED BY <1>7, <1>10, <1>12, <2>1, <3>1, <4>1
      <3>2. CASE i # cur + 1
        <4>1. i \in 1 .. cur /\ i \in 1 .. nxt + 1
          BY <1>1, <2>1, <2>2, <3>2
        <4> QED BY <1>10, <1>11, <2>1, <4>1
      <3> QED BY <3>1, <3>2
    <2>4. got = new
      BY <1>10, <2>1, <2>2, <2>3, SameSeq
    <2> QED BY <1>3, <1>9, <1>12, <2>4 DEF got, t
  <1>13. CASE is_full(raw)
    <2> DEFINE fresh == MerkleEpoch(cur + 1)
               got == before \o <<seal(raw), fresh>>
    <2>1. /\ IsSeq(got) /\ Len(got) = cur + 2 /\ got[cur + 1] = seal(raw) /\ got[cur + 2] = fresh
          /\ \A i \in 1 .. cur : got[i] = before[i]
      <3> DEFINE x == seal(raw)
      <3>1. PICK S : before \in Seq(S)
        BY <1>11 DEF IsSeq
      <3> DEFINE U == S \cup {x, fresh}
      <3>2. before \in Seq(U) /\ x \in U /\ fresh \in U
        BY <3>1
      <3> HIDE DEF x, fresh, U
      <3>3. <<x, fresh>> \in Seq(U) /\ Len(<<x, fresh>>) = 2
        BY <3>2
      <3>4. before \o <<x, fresh>> \in Seq(U) /\ Len(before \o <<x, fresh>>) = cur + 2
        BY <1>1, <1>11, <3>2, <3>3
      <3>5. \A i \in 1 .. cur + 2 : (before \o <<x, fresh>>)[i] =
              IF i <= cur THEN before[i] ELSE <<x, fresh>>[i - cur]
        BY <1>1, <1>11, <3>2, <3>3
      <3>6. (before \o <<x, fresh>>)[cur + 1] = x /\ (before \o <<x, fresh>>)[cur + 2] = fresh
        <4>1. cur + 1 \in 1 .. cur + 2 /\ ~(cur + 1 <= cur) /\ (cur + 1) - cur = 1
          BY <1>1
        <4>2. cur + 2 \in 1 .. cur + 2 /\ ~(cur + 2 <= cur) /\ (cur + 2) - cur = 2
          BY <1>1
        <4>3. <<x, fresh>>[1] = x /\ <<x, fresh>>[2] = fresh
          OBVIOUS
        <4>4. (before \o <<x, fresh>>)[cur + 1] = <<x, fresh>>[(cur + 1) - cur]
          BY <3>5, <4>1
        <4>5. (before \o <<x, fresh>>)[cur + 2] = <<x, fresh>>[(cur + 2) - cur]
          BY <3>5, <4>2
        <4> QED BY <4>1, <4>2, <4>3, <4>4, <4>5
      <3>7. \A i \in 1 .. cur : (before \o <<x, fresh>>)[i] = before[i]
        <4> SUFFICES ASSUME NEW i \in 1 .. cur PROVE (before \o <<x, fresh>>)[i] = before[i]
          OBVIOUS
        <4>1. i \in 1 .. cur + 2 /\ i <= cur
          BY <1>1
        <4> QED BY <3>5, <4>1
      <3> QED BY <3>4, <3>6, <3>7 DEF x, IsSeq
    <2>2. nxt = cur + 1
      BY <1>8, <1>13
    <2>3. EpochOf(t, cur + 1) = fresh
      <3>1. cur + 1 \in Nat /\ cur + 1 > cur /\ cur + 1 # cur
        BY <1>1
      <3>2. EntriesOf(t, cur + 1) = << >>
        BY <1>4, <3>1 DEF Shape
      <3>3. ~(Len(<< >>) >= EPOCH_SIZE)
        BY <1>1, EmptyIs
      <3> QED BY <3>2, <3>3, RawIs DEF EpochOf
    <2> HIDE DEF got, fresh
    <2>4. ASSUME NEW i \in 1 .. Len(got) PROVE got[i] = new[i]
      <3>1. CASE i = cur + 1
        <4>1. i - 1 = cur /\ i \in 1 .. nxt + 1
          BY <1>1, <2>2, <3>1
        <4> QED BY <1>7, <1>10, <1>13, <2>1, <3>1, <4>1
      <3>2. CASE i = cur + 2
        <4>1. i - 1 = cur + 1 /\ i \in 1 .. nxt + 1
          BY <1>1, <2>2, <3>2
        <4> QED BY <1>10, <2>1, <2>3, <3>2, <4>1
      <3>3. CASE i # cur + 1 /\ i # cur + 2
        <4>1. i \in 1 .. cur /\ i \in 1 .. nxt + 1
          BY <1>1, <2>1, <2>2, <3>3
        <4> QED BY <1>10, <1>11, <2>1, <4>1
      <3> QED BY <3>1, <3>2, <3>3
    <2>5. Len(new) = cur + 2
      BY <1>1, <1>10, <2>2
    <2>6. got = new
      BY <1>10, <2>1, <2>4, <2>5, SameSeq
    <2> QED BY <1>3, <1>9, <1>13, <2>6 DEF got, t, fresh
  <1> QED BY <1>12, <1>13 DEF t
-----------------------------------------------------------------------------
(* The invariant.  It is stated over parameters, so that its parts can be  *)
(* used for the values a step leaves.                                      *)
EntryOK(e) ==
    /\ e.operating_mode \in Modes
    /\ e.entry_type \in {"observation", "control_transition"}
    /\ e.entry_type = "control_transition" => e.transition_to_mode = e.operating_mode
    /\ e.override_nonce \in Nonces \cup {NoOverride}
    /\ e.override_signature = e.override_nonce
    /\ e.entry_hash = compute_entry_hash(e.entry_id, e.override_nonce, e.override_nonce)

Chained(s) ==
    \A i \in 1 .. Len(s) :
        s[i].previous_hash = IF i = 1 THEN GENESIS_HASH ELSE s[i - 1].entry_hash

EntriesOK(s) ==
    /\ IsSeq(s)
    /\ \A i \in 1 .. Len(s) : EntryOK(s[i])
    /\ Chained(s)
    /\ \E cur : Shape(s, cur)

\* What an entry says of the mode, against the entry before it.
Earned(s) ==
    /\ s # << >> => s[1].operating_mode # "ENFORCE"
    /\ \A i \in 2 .. Len(s) :
          /\ s[i].operating_mode = "ENFORCE"
               => s[i - 1].operating_mode \in {"SHADOW_CRITICAL", "ENFORCE"}
          /\ s[i].entry_type = "observation" => s[i].operating_mode = s[i - 1].operating_mode

\* Each signed entry has an oath of its own epoch, and no other entry has it.
Once(s, signed) ==
    \A i \in 1 .. Len(s) :
        s[i].override_nonce # NoOverride =>
            /\ \E o \in signed : o.nonce = s[i].override_nonce /\ o.epoch = s[i].epoch
            /\ \A j \in 1 .. Len(s) \ {i} : s[j].override_nonce # s[i].override_nonce

DiskOK(s, signed) == EntriesOK(s) /\ Earned(s) /\ Once(s, signed)

ModeOK(s, m) ==
    /\ m \in Modes
    /\ s # << >> => m = s[Len(s)].operating_mode
    /\ s = << >> => m \notin {"SHADOW_CRITICAL", "ENFORCE"}

CoreInv ==
    /\ torn \in BOOLEAN /\ up \in BOOLEAN
    /\ DiskOK(lines, oaths)
    /\ EntriesOK(ledger.entries) /\ ledger = LoadedLedger(ledger.entries)
    /\ up /\ ~torn => ledger.entries = lines
    /\ up => ModeOK(ledger.entries, mode)
    /\ up => recover_used_nonces(lines) \subseteq used
    /\ mode \in Modes \cup {NoMode}
    /\ used \subseteq Nonces
    /\ oaths \subseteq [nonce : Nonces, epoch : Nat]
    /\ bound \in Bounds /\ faults \in 0 .. bound.faults

Tasks == [pc : {"idle", "streaming", "broadcasting"}, frames : Seq(Frames),
          entry : Nat, decision : Decisions]

\* A handler that cites an entry cites one that says what it will answer.
CitesOK(t, s) ==
    /\ t.entry <= Len(s)
    /\ t.entry # 0 => /\ s[t.entry].membrane_decision = t.decision
                      /\ t.decision = "BLOCK" => s[t.entry].operating_mode = "ENFORCE"

TaskInv ==
    /\ task \in [Requests -> Tasks]
    /\ \A r \in Requests : CitesOK(task[r], ledger.entries)
    /\ ~up => \A r \in Requests : task[r] = Idle

Items == [kind : {"frame", "connect", "disconnect"}, who : Requests \cup Clients, sequence : Nat]

PCs == {"closed", "joining", "greeting", "open", "noting", "leaving", "gone"}

WaitsAs(kind) ==
    IF kind = "frame" THEN "noting" ELSE IF kind = "connect" THEN "joining" ELSE "leaving"

\* A client's handler waits for the lock at one place of the queue.
QueueOK(q, cl) ==
    /\ q \in Seq(Items)
    /\ \A k \in 1 .. Len(q) : q[k].kind # "frame" => q[k].who \in Clients
    /\ \A k \in 1 .. Len(q) : q[k].who \in Clients => cl[q[k].who].pc = WaitsAs(q[k].kind)
    /\ \A j, k \in 1 .. Len(q) : q[j].who = q[k].who /\ q[k].who \in Clients => j = k

IsFrame(q, k) == k \in 1 .. Len(q) /\ q[k].kind = "frame"

\* Frames wait in the order of their numbers, and once one waits every later
\* number does.
NumbersOK(q, n) ==
    /\ \A k : IsFrame(q, k) => q[k].sequence \in 1 .. n
    /\ \A j, k : IsFrame(q, j) /\ IsFrame(q, k) /\ j < k => q[j].sequence < q[k].sequence
    /\ \A k : IsFrame(q, k) =>
          \A m \in q[k].sequence + 1 .. n : \E j : IsFrame(q, j) /\ q[j].sequence = m

\* What is queued is what a client that has received last still has to get.
InStep(c, last, done, q, n) ==
    /\ \A k : IsFrame(q, k) =>
          IF k = 1 /\ c \in done THEN q[k].sequence = last ELSE q[k].sequence > last
    /\ \A m \in last + 1 .. n : \E k : IsFrame(q, k) /\ q[k].sequence = m

FanOutOK(cs, q, done, dead) ==
    /\ cs \subseteq Clients /\ done \subseteq cs /\ dead \subseteq done
    /\ ~IsFrame(q, 1) => done = {} /\ dead = {}

ClientsOK(cs, q, done, dead, n, cl) ==
    /\ cl \in [Clients -> [pc : PCs, last : Nat]]
    /\ \A c \in Clients : cl[c].last <= n
    /\ \A c \in Clients : cl[c].pc = "joining" => cl[c].last = 0 /\ c \notin cs
    /\ \A c \in cs \ dead : cl[c].last # 0 => InStep(c, cl[c].last, done, q, n)

HubOK(cs, q, done, dead, n, cl) ==
    /\ n \in Nat
    /\ QueueOK(q, cl)
    /\ NumbersOK(q, n)
    /\ FanOutOK(cs, q, done, dead)
    /\ ClientsOK(cs, q, done, dead, n, cl)

Hubs == [connections : SUBSET Clients, queue : Seq(Items), done : SUBSET Clients,
         dead : SUBSET Clients, stalled : SUBSET Clients, sequence : Nat]

HubInv ==
    /\ hub \in Hubs
    /\ HubOK(hub.connections, hub.queue, hub.done, hub.dead, hub.sequence, client)
    /\ ~up => hub = EmptyHub /\ \A c \in Clients : client[c].pc = "closed"

(* A send that stalls is one of the frame being sent.                      *)
StalledInv == /\ hub.stalled \subseteq hub.connections \ hub.done
              /\ hub.stalled # {} => Broadcasting

R5Inv == CoreInv /\ TaskInv /\ HubInv /\ StalledInv

-----------------------------------------------------------------------------
(* The ledger.                                                             *)
FieldsOK(f) ==
    /\ f.operating_mode \in Modes
    /\ f.entry_type \in {"observation", "control_transition"}
    /\ f.entry_type = "control_transition" => f.transition_to_mode = f.operating_mode
    /\ f.override_nonce \in Nonces \cup {NoOverride}

LEMMA LoadedIs == \A s : LoadedLedger(s).entries = s /\ LoadedLedger(s).epochs = RebuiltEpochs(s)
  BY DEF LoadedLedger

LEMMA EmptyOK == EntriesOK(<< >>) /\ EmptyLedger = LoadedLedger(<< >>)
  <1>1. \A i \in 1 .. Len(<< >>) : FALSE
    BY EmptyIs
  <1>2. EntriesOK(<< >>)
    BY <1>1, EmptyIs, EmptyShape DEF EntriesOK, Chained
  <1>3. EmptyLedger = LoadedLedger(<< >>)
    BY DEF EmptyLedger, LoadedLedger, RebuiltEpochs
  <1> QED BY <1>2, <1>3

LEMMA HeadIs ==
    ASSUME NEW s, IsSeq(s)
    PROVE  head_hash(LoadedLedger(s)) =
             IF Len(s) = 0 THEN GENESIS_HASH ELSE s[Len(s)].entry_hash
  BY SeqEmpty, LoadedIs DEF head_hash, Last

LEMMA CreatedIs ==
    ASSUME NEW id, NEW epoch, NEW previous, NEW f
    PROVE  LET e == CreateEntry(id, epoch, previous, f)
           IN  /\ e.entry_id = id /\ e.epoch = epoch.epoch_id /\ e.previous_hash = previous
               /\ e.entry_type = f.entry_type /\ e.membrane_decision = f.membrane_decision
               /\ e.operating_mode = f.operating_mode
               /\ e.transition_to_mode = f.transition_to_mode
               /\ e.override_signature = f.override_nonce /\ e.override_nonce = f.override_nonce
               /\ e.entry_hash = compute_entry_hash(id, f.override_nonce, f.override_nonce)
  BY DEF CreateEntry

\* The entry that append writes after a well-formed file, and what it leaves.
LEMMA EntriesGrow ==
    ASSUME NEW s, EntriesOK(s), NEW f, FieldsOK(f)
    PROVE  LET e == NextEntry(LoadedLedger(s), f)
           IN  /\ EntriesOK(Append(s, e))
               /\ Appended(LoadedLedger(s), e) = LoadedLedger(Append(s, e))
               /\ e.entry_type = f.entry_type /\ e.membrane_decision = f.membrane_decision
               /\ e.operating_mode = f.operating_mode /\ e.override_nonce = f.override_nonce
               /\ e.epoch = current_epoch(LoadedLedger(s)).epoch_id /\ e.epoch \in Nat
  <1> DEFINE l == LoadedLedger(s)
             e == NextEntry(l, f)
             t == Append(s, e)
             n == Len(s)
  <1>1. PICK cur : Shape(s, cur)
    BY DEF EntriesOK
  <1>2. IsSeq(s) /\ cur \in Nat
    BY <1>1 DEF EntriesOK, Shape
  <1>3. current_epoch(l).epoch_id = cur
    <2>1. current_epoch(l) = RawEpoch(cur, EntriesOf(s, cur))
      BY <1>1, CurrentIs
    <2> HIDE DEF l
    <2> QED BY <2>1 DEF RawEpoch, EpochRecord
  <1>4. l.entries = s
    BY LoadedIs
  <1>5. /\ e.entry_id = n + 1 /\ e.epoch = cur /\ e.previous_hash = head_hash(l)
        /\ e.entry_type = f.entry_type /\ e.membrane_decision = f.membrane_decision
        /\ e.operating_mode = f.operating_mode /\ e.transition_to_mode = f.transition_to_mode
        /\ e.override_signature = f.override_nonce /\ e.override_nonce = f.override_nonce
        /\ e.entry_hash = compute_entry_hash(n + 1, f.override_nonce, f.override_nonce)
    <2> HIDE DEF l
    <2> QED BY <1>3, <1>4, CreatedIs DEF NextEntry
  <1>6. head_hash(l) = IF n = 0 THEN GENESIS_HASH ELSE s[n].entry_hash
    BY <1>2, HeadIs
  <1> HIDE DEF l, e
  <1>7. EntryOK(e)
    BY <1>5 DEF FieldsOK, EntryOK
  <1>8. Appended(l, e) = LoadedLedger(t) /\ Shape(t, OpenAfter(s, cur))
    BY <1>1, <1>5, AppendedIs, ShapeGrows DEF l
  <1>9. /\ n \in Nat /\ IsSeq(t) /\ Len(t) = n + 1 /\ t[n + 1] = e
        /\ \A i \in 1 .. n : t[i] = s[i]
    BY <1>2, AppendIs
  <1> HIDE DEF t, n
  <1>10. ASSUME NEW i \in 1 .. Len(t)
         PROVE  /\ EntryOK(t[i])
                /\ t[i].previous_hash = IF i = 1 THEN GENESIS_HASH ELSE t[i - 1].entry_hash
    <2>1. CASE i = n + 1
      <3>1. i = 1 <=> n = 0
        BY <1>9, <2>1
      <3>2. i # 1 => i - 1 = n /\ n \in 1 .. n
        BY <1>9, <2>1
      <3> QED BY <1>5, <1>6, <1>7, <1>9, <2>1, <3>1, <3>2
    <2>2. CASE i # n + 1
      <3>1. i \in 1 .. n /\ (i # 1 => i - 1 \in 1 .. n)
        BY <1>9, <2>2
      <3>2. /\ EntryOK(s[i])
            /\ s[i].previous_hash = IF i = 1 THEN GENESIS_HASH ELSE s[i - 1].entry_hash
        BY <3>1 DEF EntriesOK, Chained, n
      <3> QED BY <1>9, <3>1, <3>2
    <2> QED BY <2>1, <2>2
  <1>11. EntriesOK(t)
    BY <1>8, <1>9, <1>10 DEF EntriesOK, Chained
  <1> QED BY <1>2, <1>3, <1>5, <1>8, <1>11 DEF t, l, e

\* Which nonces a file has spent.
LEMMA SpentIs ==
    ASSUME NEW s, IsSeq(s)
    PROVE  /\ \A i \in 1 .. Len(s) : s[i].override_nonce # NoOverride
                                       => s[i].override_nonce \in recover_used_nonces(s)
           /\ \A x \in recover_used_nonces(s) :
                 x # NoOverride /\ \E i \in 1 .. Len(s) : s[i].override_nonce = x
  BY SeqIs DEF recover_used_nonces

LEMMA DiskGrows ==
    ASSUME NEW s, NEW signed, DiskOK(s, signed), NEW f, FieldsOK(f), NEW m, ModeOK(s, m),
           f.operating_mode = "ENFORCE" => m \in {"SHADOW_CRITICAL", "ENFORCE"},
           f.entry_type = "observation" => f.operating_mode = m,
           f.override_nonce # NoOverride =>
               /\ f.override_nonce \notin recover_used_nonces(s)
               /\ \E o \in signed : o.nonce = f.override_nonce
                                    /\ o.epoch = current_epoch(LoadedLedger(s)).epoch_id
    PROVE  LET e == NextEntry(LoadedLedger(s), f)
           IN  /\ DiskOK(Append(s, e), signed)
               /\ recover_used_nonces(Append(s, e)) \subseteq recover_used_nonces(s) \cup {f.override_nonce}
  <1> DEFINE e == NextEntry(LoadedLedger(s), f)
             t == Append(s, e)
             n == Len(s)
  <1>1. /\ EntriesOK(t) /\ IsSeq(s)
        /\ e.entry_type = f.entry_type /\ e.operating_mode = f.operating_mode
        /\ e.override_nonce = f.override_nonce
        /\ e.epoch = current_epoch(LoadedLedger(s)).epoch_id
    BY EntriesGrow DEF DiskOK, EntriesOK
  <1> HIDE DEF e
  <1>2. /\ n \in Nat /\ IsSeq(t) /\ Len(t) = n + 1 /\ t[n + 1] = e
        /\ \A i \in 1 .. n : t[i] = s[i]
    BY <1>1, AppendIs
  <1> HIDE DEF t, n
  <1>3. ASSUME NEW i \in 1 .. Len(t) PROVE i = n + 1 \/ (i \in 1 .. n /\ t[i] = s[i])
    BY <1>2
  <1>4. Earned(t)
    <2>0. t[1].operating_mode # "ENFORCE"
      <3>1. CASE n = 0
        BY <1>1, <1>2, <3>1, SeqEmpty DEF ModeOK, n
      <3>2. CASE n # 0
        <4>1. 1 \in 1 .. n /\ t[1] = s[1] /\ s # << >>
          BY <1>1, <1>2, <3>2, SeqEmpty DEF n
        <4> QED BY <4>1 DEF DiskOK, Earned
      <3> QED BY <3>1, <3>2
    <2> SUFFICES ASSUME NEW i \in 2 .. Len(t)
                 PROVE  /\ t[i].operating_mode = "ENFORCE"
                             => t[i - 1].operating_mode \in {"SHADOW_CRITICAL", "ENFORCE"}
                        /\ t[i].entry_type = "observation"
                             => t[i].operating_mode = t[i - 1].operating_mode
      BY <2>0 DEF Earned
    <2>1. i - 1 \in 1 .. n /\ t[i - 1] = s[i - 1]
      BY <1>2
    <2>2. CASE i = n + 1
      <3>1. i - 1 = n /\ n # 0
        BY <1>2, <2>2
      <3>2. m = s[n].operating_mode
        BY <1>1, <3>1, SeqEmpty DEF ModeOK, n
      <3> QED BY <1>1, <1>2, <2>1, <2>2, <3>1, <3>2
    <2>3. CASE i # n + 1
      <3>1. i \in 2 .. n /\ i \in 1 .. n
        BY <1>2, <2>3
      <3> QED BY <1>2, <2>1, <3>1 DEF DiskOK, Earned, n
    <2> QED BY <2>2, <2>3
  <1>5. Once(t, signed)
    <2> SUFFICES ASSUME NEW i \in 1 .. Len(t), t[i].override_nonce # NoOverride
                 PROVE  /\ \E o \in signed : o.nonce = t[i].override_nonce /\ o.epoch = t[i].epoch
                        /\ \A j \in 1 .. Len(t) \ {i} : t[j].override_nonce # t[i].override_nonce
      BY DEF Once
    <2>1. /\ \A k \in 1 .. n : s[k].override_nonce # NoOverride
                                 => s[k].override_nonce \in recover_used_nonces(s)
      BY <1>1, SpentIs DEF n
    <2>2. CASE i = n + 1
      <3>1. \A j \in 1 .. Len(t) \ {i} : j \in 1 .. n /\ t[j] = s[j]
        BY <1>3, <2>2
      <3> QED BY <1>1, <1>2, <2>1, <2>2, <3>1
    <2>3. CASE i # n + 1
      <3>1. i \in 1 .. n /\ t[i] = s[i]
        BY <1>3, <2>3
      <3>2. /\ \E o \in signed : o.nonce = s[i].override_nonce /\ o.epoch = s[i].epoch
            /\ \A j \in 1 .. n \ {i} : s[j].override_nonce # s[i].override_nonce
        BY <3>1 DEF DiskOK, Once, n
      <3>3. ASSUME NEW j \in 1 .. Len(t) \ {i} PROVE t[j].override_nonce # t[i].override_nonce
        <4>1. CASE j = n + 1
          BY <1>1, <1>2, <2>1, <3>1, <4>1
        <4>2. CASE j # n + 1
          BY <1>3, <3>1, <3>2, <4>2
        <4> QED BY <4>1, <4>2
      <3> QED BY <3>1, <3>2, <3>3
    <2> QED BY <2>2, <2>3
  <1>6. recover_used_nonces(t) \subseteq recover_used_nonces(s) \cup {f.override_nonce}
    <2> SUFFICES ASSUME NEW x \in recover_used_nonces(t), x # f.override_nonce
                 PROVE  x \in recover_used_nonces(s)
      OBVIOUS
    <2>1. PICK i \in 1 .. Len(t) : t[i].override_nonce = x
      BY <1>2, SpentIs
    <2>2. x # NoOverride
      BY <1>2, SpentIs
    <2>3. i \in 1 .. n /\ t[i] = s[i]
      BY <1>1, <1>2, <1>3, <2>1
    <2> QED BY <1>1, <2>1, <2>2, <2>3, SpentIs DEF n
  <1>7. DiskOK(t, signed)
    BY <1>1, <1>4, <1>5 DEF DiskOK
  <1> QED BY <1>6, <1>7 DEF t, e

\* recover_last_mode: the mode of the last entry.
LEMMA RecoverIs ==
    ASSUME NEW s, IsSeq(s), Len(s) # 0, EntryOK(s[Len(s)]), NEW default
    PROVE  recover_last_mode(s, default) = s[Len(s)].operating_mode
  <1>1. s # << >> /\ Last(s) = s[Len(s)]
    BY SeqEmpty DEF Last
  <1> QED BY <1>1 DEF recover_last_mode, EntryOK

-----------------------------------------------------------------------------
(* The ledger, the mode and the oaths: one lemma per way to change them.   *)
AwakeVars == <<lines, torn, up, ledger, mode, used, oaths, faults, bound>>

LEMMA CoreInit == ASSUME Init PROVE CoreInv
  <1>1. DiskOK(<< >>, {})
    BY EmptyOK, EmptyIs DEF DiskOK, Earned, Once
  <1>2. ledger.entries = << >>
    BY DEF Init, EmptyLedger
  <1>3. faults \in 0 .. bound.faults
    BY R5Assumption DEF Init
  <1>4. up = FALSE /\ torn = FALSE
    BY DEF Init
  <1>5. ledger = LoadedLedger(ledger.entries) /\ EntriesOK(ledger.entries)
    BY <1>2, EmptyOK DEF Init
  <1> QED BY <1>1, <1>3, <1>4, <1>5 DEF Init, CoreInv

LEMMA CoreQuiet == ASSUME CoreInv, UNCHANGED AwakeVars PROVE CoreInv'
  BY DEF CoreInv, AwakeVars, DiskOK, EntriesOK, Earned, Once, ModeOK, Chained

LEMMA StartKeeps ==
    ASSUME CoreInv, NEW configured \in Modes, Start(configured)
    PROVE  CoreInv'
  <1>1. DiskOK(lines, oaths) /\ EntriesOK(lines) /\ IsSeq(lines)
    BY DEF CoreInv, DiskOK, EntriesOK
  <1>2. /\ up' = TRUE /\ torn' = torn /\ torn = FALSE /\ lines' = lines /\ oaths' = oaths
        /\ bound' = bound /\ faults' = faults /\ ledger' = LoadedLedger(lines)
        /\ used' = recover_used_nonces(lines) /\ mode' = recover_last_mode(lines, configured)
    BY DEF Start, disk, CoreInv
  <1>3. ledger'.entries = lines
    BY <1>2, LoadedIs
  <1>4. ModeOK(lines, mode')
    <2>1. CASE lines = << >>
      BY <1>2, <2>1 DEF ModeOK, recover_last_mode, Start
    <2>2. CASE lines # << >>
      <3>1. Len(lines) # 0 /\ Len(lines) \in 1 .. Len(lines)
        BY <1>1, <2>2, SeqEmpty, SeqIs
      <3>2. EntryOK(lines[Len(lines)])
        BY <1>1, <3>1 DEF EntriesOK
      <3> QED BY <1>1, <1>2, <3>1, <3>2, RecoverIs DEF ModeOK, EntryOK
    <2> QED BY <2>1, <2>2
  <1>5. used' \subseteq Nonces
    <2> SUFFICES ASSUME NEW x \in recover_used_nonces(lines) PROVE x \in Nonces
      BY <1>2
    <2>1. x # NoOverride /\ \E i \in 1 .. Len(lines) : lines[i].override_nonce = x
      BY <1>1, SpentIs
    <2> QED BY <1>1, <2>1 DEF EntriesOK, EntryOK
  <1>6. mode' \in Modes
    BY <1>4 DEF ModeOK
  <1>7. /\ oaths \subseteq [nonce : Nonces, epoch : Nat]
        /\ bound \in Bounds /\ faults \in 0 .. bound.faults
    BY DEF CoreInv
  <1> QED BY <1>1, <1>2, <1>3, <1>4, <1>5, <1>6, <1>7 DEF CoreInv

\* The process dies: the file may have grown by a whole line.
LEMMA DeathKeeps ==
    ASSUME CoreInv, MemoryLost, torn' \in BOOLEAN, DiskOK(lines', oaths), oaths' = oaths,
           bound' = bound, faults' \in 0 .. bound.faults
    PROVE  CoreInv'
  <1>1. up' = FALSE /\ mode' = NoMode /\ used' = {} /\ ledger' = EmptyLedger
    BY DEF MemoryLost
  <1>2. ledger'.entries = << >> /\ EntriesOK(ledger'.entries)
        /\ ledger' = LoadedLedger(ledger'.entries)
    BY <1>1, EmptyOK DEF EmptyLedger
  <1> QED BY <1>1, <1>2 DEF CoreInv

LEMMA SignKeeps ==
    ASSUME CoreInv, NEW nonce \in Nonces, SignOath(nonce)
    PROVE  CoreInv'
  <1> DEFINE epoch == current_epoch(ledger).epoch_id
  <1>1. epoch \in Nat
    <2>1. PICK cur : Shape(ledger.entries, cur)
      BY DEF CoreInv, EntriesOK
    <2>2. current_epoch(ledger) = RawEpoch(cur, EntriesOf(ledger.entries, cur))
      <3>1. ledger = LoadedLedger(ledger.entries)
        BY DEF CoreInv
      <3>2. current_epoch(LoadedLedger(ledger.entries)) = RawEpoch(cur, EntriesOf(ledger.entries, cur))
        BY <2>1, CurrentIs
      <3> QED BY <3>1, <3>2
    <2>3. epoch = cur
      BY <2>2 DEF RawEpoch, EpochRecord
    <2> QED BY <2>1, <2>3 DEF Shape
  <1>2. oaths' = oaths \cup {[nonce |-> nonce, epoch |-> epoch]}
    BY DEF SignOath, Oath
  <1> HIDE DEF epoch
  <1>3. oaths' \subseteq [nonce : Nonces, epoch : Nat]
    BY <1>1, <1>2 DEF CoreInv
  <1>4. UNCHANGED <<lines, torn, up, ledger, mode, used, faults, bound>>
    BY DEF SignOath, disk
  <1>5. DiskOK(lines, oaths')
    BY <1>2 DEF CoreInv, DiskOK, Once
  <1> QED BY <1>3, <1>4, <1>5 DEF CoreInv

\* A write fails: a spent nonce stays spent.
LEMMA FailureKeeps ==
    ASSUME CoreInv, up, WriteFails, UNCHANGED <<up, mode, oaths>>, used \subseteq used',
           used' \subseteq Nonces
    PROVE  CoreInv'
  <1>1. faults' \in 0 .. bound.faults /\ torn' \in BOOLEAN /\ (torn => torn')
    <2>1. bound.faults \in Nat
      BY R5Assumption DEF CoreInv
    <2>2. faults' \in 0 .. bound.faults
      BY <2>1 DEF WriteFails, CoreInv
    <2>3. torn' \in {torn, TRUE} /\ torn \in BOOLEAN
      BY DEF WriteFails, CoreInv
    <2>4. torn' \in BOOLEAN /\ (torn => torn')
      <3>1. CASE torn' = torn
        BY <2>3, <3>1
      <3>2. CASE torn' = TRUE
        BY <3>2
      <3> QED BY <2>3, <3>1, <3>2
    <2> QED BY <2>2, <2>4
  <1>2. UNCHANGED <<lines, ledger, bound, up, mode, oaths>>
    BY DEF WriteFails
  <1> QED BY <1>1, <1>2 DEF CoreInv

\* What a handler may ask to record.
MayRecord(f) ==
    /\ FieldsOK(f)
    /\ f.operating_mode = "ENFORCE" => mode \in {"SHADOW_CRITICAL", "ENFORCE"}
    /\ f.entry_type = "observation" => f.operating_mode = mode
    /\ f.override_nonce # NoOverride =>
          /\ f.override_nonce \notin used
          /\ \E o \in oaths : o.nonce = f.override_nonce
                              /\ o.epoch = current_epoch(ledger).epoch_id

LEMMA LineJoins ==
    ASSUME CoreInv, up, ~torn, NEW f, MayRecord(f)
    PROVE  LET e == NextEntry(ledger, f)
           IN  /\ DiskOK(Append(lines, e), oaths)
               /\ recover_used_nonces(Append(lines, e))
                    \subseteq recover_used_nonces(lines) \cup {f.override_nonce}
  <1>1. ledger = LoadedLedger(lines) /\ ModeOK(lines, mode)
    BY DEF CoreInv
  <1>2. DiskOK(lines, oaths) /\ recover_used_nonces(lines) \subseteq used
    BY DEF CoreInv
  <1> QED BY <1>1, <1>2, DiskGrows DEF MayRecord

LEMMA RecordKeeps ==
    ASSUME CoreInv, up, NEW f, MayRecord(f), Record(f), UNCHANGED <<up, oaths, faults>>,
           mode' = f.operating_mode, used \subseteq used', used' \subseteq Nonces,
           f.override_nonce # NoOverride => f.override_nonce \in used'
    PROVE  CoreInv'
  <1> DEFINE e == NextEntry(ledger, f)
             s == ledger.entries
  <1>1. ledger = LoadedLedger(s) /\ EntriesOK(s) /\ FieldsOK(f) /\ IsSeq(s)
    BY DEF CoreInv, MayRecord, EntriesOK
  <1>2. /\ lines' = (IF torn THEN lines ELSE Append(lines, e))
        /\ ledger' = Appended(ledger, e) /\ torn' = torn /\ bound' = bound
    BY DEF Record
  <1>3. /\ EntriesOK(Append(s, e)) /\ Appended(ledger, e) = LoadedLedger(Append(s, e))
        /\ e.operating_mode = f.operating_mode
    <2> DEFINE x == NextEntry(LoadedLedger(s), f)
    <2>1. /\ EntriesOK(Append(s, x)) /\ Appended(LoadedLedger(s), x) = LoadedLedger(Append(s, x))
          /\ x.operating_mode = f.operating_mode
      BY <1>1, EntriesGrow
    <2>2. x = e
      BY <1>1
    <2> HIDE DEF x, e
    <2> QED BY <1>1, <2>1, <2>2
  <1>4. ~torn => /\ DiskOK(Append(lines, e), oaths)
                 /\ recover_used_nonces(Append(lines, e))
                      \subseteq recover_used_nonces(lines) \cup {f.override_nonce}
    BY LineJoins
  <1> HIDE DEF e
  <1>5. ledger' = LoadedLedger(Append(s, e)) /\ ledger'.entries = Append(s, e)
    BY <1>2, <1>3, LoadedIs
  <1>6. DiskOK(lines', oaths') /\ recover_used_nonces(lines') \subseteq used'
    <2>1. CASE torn
      BY <1>2, <2>1 DEF CoreInv
    <2>2. CASE ~torn
      <3>1. NoOverride \notin recover_used_nonces(lines')
        BY DEF recover_used_nonces
      <3> QED BY <1>2, <1>4, <2>2, <3>1 DEF CoreInv
    <2> QED BY <2>1, <2>2
  <1>7. ModeOK(Append(s, e), mode')
    <2>1. Append(s, e)[Len(Append(s, e))] = e
      BY <1>1, AppendIs
    <2>2. Append(s, e) # << >>
      <3>1. IsSeq(Append(s, e)) /\ Len(Append(s, e)) = Len(s) + 1 /\ Len(s) \in Nat
        BY <1>1, AppendIs, SeqIs
      <3>2. Len(Append(s, e)) # 0
        BY <3>1
      <3> QED BY <3>1, <3>2, SeqEmpty
    <2> QED BY <1>3, <2>1, <2>2 DEF ModeOK, MayRecord, FieldsOK
  <1>8. ~torn => Append(s, e) = lines'
    BY <1>2 DEF CoreInv
  <1>9. mode' \in Modes
    BY <1>7 DEF ModeOK
  <1>10. /\ torn \in BOOLEAN /\ oaths \subseteq [nonce : Nonces, epoch : Nat]
         /\ bound \in Bounds /\ faults \in 0 .. bound.faults
    BY DEF CoreInv
  <1> HIDE DEF s
  <1> QED BY <1>2, <1>3, <1>5, <1>6, <1>7, <1>8, <1>9, <1>10 DEF CoreInv

LEMMA DeathWritingKeeps ==
    ASSUME CoreInv, up, NEW f, MayRecord(f), DieWriting(f), UNCHANGED oaths
    PROVE  CoreInv'
  <1>1. faults' \in 0 .. bound.faults
    <2>1. bound.faults \in Nat
      BY R5Assumption DEF CoreInv
    <2> QED BY <2>1 DEF DieWriting, CoreInv
  <1>2. DiskOK(lines', oaths) /\ torn' \in BOOLEAN
    <2>1. CASE ~torn /\ lines' = Append(lines, NextEntry(ledger, f)) /\ UNCHANGED torn
      BY <2>1, LineJoins DEF CoreInv
    <2>2. CASE torn' = TRUE /\ UNCHANGED lines
      BY <2>2 DEF CoreInv
    <2> QED BY <2>1, <2>2 DEF DieWriting
  <1> QED BY <1>1, <1>2, DeathKeeps DEF DieWriting

\* What adjudicate and request_transition ask to record.
LEMMA ObservationMay ==
    ASSUME CoreInv, up, NEW decision
    PROVE  /\ MayRecord(Observation(decision)) /\ Observation(decision).override_nonce = NoOverride
           /\ Observation(decision).operating_mode = mode
           /\ Observation(decision).membrane_decision = decision
  BY DEF CoreInv, ModeOK, MayRecord, FieldsOK, Observation, NoOverride

LEMMA TransitionMay ==
    ASSUME CoreInv, up, NEW target \in Modes, NEW oath \in oaths, Admitted(target), verify_oath(oath)
    PROVE  /\ MayRecord(Transition(target, oath.nonce))
           /\ Transition(target, oath.nonce).override_nonce = oath.nonce
           /\ Transition(target, oath.nonce).operating_mode = target
           /\ oath.nonce \in Nonces
  <1>1. oath.nonce \in Nonces /\ oath.nonce \notin used
        /\ oath.epoch = current_epoch(ledger).epoch_id
    BY DEF CoreInv, verify_oath
  <1> DEFINE f == Transition(target, oath.nonce)
  <1>2. /\ f.entry_type = "control_transition" /\ f.operating_mode = target
        /\ f.transition_to_mode = target /\ f.override_nonce = oath.nonce
    BY DEF Transition
  <1> HIDE DEF f
  <1>3. MayRecord(f)
    BY <1>1, <1>2 DEF MayRecord, FieldsOK, Admitted
  <1> QED BY <1>1, <1>2, <1>3 DEF f

LEMMA CoreAdjudicate ==
    ASSUME CoreInv, NEW r \in Requests, NEW event \in Events, Adjudicate(r, event)
    PROVE  CoreInv'
  <1> DEFINE decision == RuntimeGates(event.gate, evaluate_membrane(event.severity, mode), mode)
             f == Observation(decision)
  <1>1. up /\ oaths' = oaths
    BY DEF Adjudicate
  <1>2. MayRecord(f) /\ f.override_nonce = NoOverride /\ f.operating_mode = mode
    BY <1>1, ObservationMay
  <1>3. \/ Record(f) /\ UNCHANGED <<up, mode, used, faults>>
        \/ WriteFails /\ UNCHANGED <<up, mode, used>>
        \/ DieWriting(f)
    BY DEF Adjudicate
  <1> HIDE DEF f
  <1>4. used \subseteq Nonces
    BY DEF CoreInv
  <1>5. CASE Record(f) /\ UNCHANGED <<up, mode, used, faults>>
    BY <1>1, <1>2, <1>4, <1>5, RecordKeeps
  <1>6. CASE WriteFails /\ UNCHANGED <<up, mode, used>>
    BY <1>1, <1>4, <1>6, FailureKeeps
  <1>7. CASE DieWriting(f)
    BY <1>1, <1>2, <1>7, DeathWritingKeeps
  <1> QED BY <1>3, <1>5, <1>6, <1>7

LEMMA CoreTransition ==
    ASSUME CoreInv, NEW r \in Requests, NEW target \in Modes, NEW oath \in oaths,
           RequestTransition(r, target, oath)
    PROVE  CoreInv'
  <1> DEFINE f == Transition(target, oath.nonce)
  <1>1. up /\ oaths' = oaths /\ Admitted(target) /\ verify_oath(oath)
    BY DEF RequestTransition
  <1>2. MayRecord(f) /\ f.override_nonce = oath.nonce /\ f.operating_mode = target
        /\ oath.nonce \in Nonces
    BY <1>1, TransitionMay
  <1>3. \/ Record(f) /\ mode' = target /\ used' = used \cup {oath.nonce} /\ UNCHANGED <<up, faults>>
        \/ WriteFails /\ mode' = mode /\ used' = used \cup {oath.nonce} /\ UNCHANGED up
        \/ DieWriting(f)
    BY DEF RequestTransition, ModeAfter
  <1> HIDE DEF f
  <1>4. used \subseteq Nonces
    BY DEF CoreInv
  <1>5. CASE Record(f) /\ mode' = target /\ used' = used \cup {oath.nonce} /\ UNCHANGED <<up, faults>>
    BY <1>1, <1>2, <1>4, <1>5, RecordKeeps
  <1>6. CASE WriteFails /\ mode' = mode /\ used' = used \cup {oath.nonce} /\ UNCHANGED up
    BY <1>1, <1>2, <1>4, <1>6, FailureKeeps
  <1>7. CASE DieWriting(f)
    BY <1>1, <1>2, <1>7, DeathWritingKeeps
  <1> QED BY <1>3, <1>5, <1>6, <1>7

LEMMA CoreDie == ASSUME CoreInv, Die PROVE CoreInv'
  <1>1. faults' \in 0 .. bound.faults
    <2>1. bound.faults \in Nat
      BY R5Assumption DEF CoreInv
    <2> QED BY <2>1 DEF Die, CoreInv
  <1>2. lines' = lines /\ torn' = torn /\ bound' = bound /\ oaths' = oaths /\ MemoryLost
    BY DEF Die, disk
  <1>3. torn' \in BOOLEAN /\ DiskOK(lines', oaths)
    BY <1>2 DEF CoreInv
  <1> QED BY <1>1, <1>2, <1>3, DeathKeeps

\* The rest of the server leaves the ledger, the mode and the oaths alone.
HubStep ==
    \/ \E r \in Requests : Stream(r) \/ Respond(r)
    \/ FinishFrame
    \/ \E c \in Clients :
          \/ OperatorNote(c) \/ Connect(c) \/ Greet(c) \/ Disconnect(c) \/ Forget(c)
          \/ Stalls(c) \/ SendFrame(c) \/ Join(c) \/ Leave(c)

LEMMA HubIsQuiet == ASSUME HubStep PROVE UNCHANGED AwakeVars
  BY DEF HubStep, AwakeVars, disk, Stream, Respond, FinishFrame, OperatorNote, Connect, Greet,
         Disconnect, Forget, Stalls, SendFrame, Join, Leave

LEMMA RequestsBound == ASSUME CoreInv PROVE bound.requests \subseteq Requests
  BY R5Assumption DEF CoreInv

LEMMA NextIs ==
    ASSUME CoreInv, [Next]_vars
    PROVE  \/ \E configured \in Modes : Start(configured)
           \/ Die
           \/ \E nonce \in Nonces : SignOath(nonce)
           \/ \E r \in Requests, event \in Events : Adjudicate(r, event)
           \/ \E r \in Requests, target \in Modes, oath \in oaths : RequestTransition(r, target, oath)
           \/ HubStep
           \/ UNCHANGED vars
  BY RequestsBound DEF Next, HubNext, HubStep

LEMMA CoreStep == ASSUME CoreInv, [Next]_vars PROVE CoreInv'
  <1>1. ASSUME NEW configured \in Modes, Start(configured) PROVE CoreInv'
    BY <1>1, StartKeeps
  <1>2. CASE Die
    BY <1>2, CoreDie
  <1>3. ASSUME NEW nonce \in Nonces, SignOath(nonce) PROVE CoreInv'
    BY <1>3, SignKeeps
  <1>4. ASSUME NEW r \in Requests, NEW event \in Events, Adjudicate(r, event) PROVE CoreInv'
    BY <1>4, CoreAdjudicate
  <1>5. ASSUME NEW r \in Requests, NEW target \in Modes, NEW oath \in oaths,
               RequestTransition(r, target, oath)
        PROVE  CoreInv'
    BY <1>5, CoreTransition
  <1>6. CASE HubStep
    BY <1>6, HubIsQuiet, CoreQuiet
  <1>7. CASE UNCHANGED vars
    BY <1>7, CoreQuiet DEF vars, AwakeVars
  <1> QED BY <1>1, <1>2, <1>3, <1>4, <1>5, <1>6, <1>7, NextIs

-----------------------------------------------------------------------------
(* The handlers.                                                           *)
LEMMA IdleIs == Idle \in Tasks /\ Idle.entry = 0
  <1>1. << >> \in Seq(Frames)
    OBVIOUS
  <1> QED BY <1>1 DEF Idle, Tasks, Decisions

LEMMA CitesIdle == ASSUME NEW s, IsSeq(s) PROVE CitesOK(Idle, s)
  BY IdleIs, SeqIs DEF CitesOK

LEMMA CitesGrow ==
    ASSUME NEW s, IsSeq(s), NEW t \in Tasks, CitesOK(t, s), NEW e
    PROVE  CitesOK(t, Append(s, e))
  <1>1. /\ Len(s) \in Nat /\ Len(Append(s, e)) = Len(s) + 1
        /\ \A i \in 1 .. Len(s) : Append(s, e)[i] = s[i]
    BY AppendIs
  <1>2. t.entry \in Nat
    BY DEF Tasks
  <1>3. t.entry # 0 => t.entry \in 1 .. Len(s)
    BY <1>1, <1>2 DEF CitesOK
  <1>4. t.entry <= Len(Append(s, e))
    BY <1>1, <1>2 DEF CitesOK
  <1> QED BY <1>1, <1>3, <1>4 DEF CitesOK

\* The membrane blocks in ENFORCE only.
LEMMA DecisionIs ==
    ASSUME NEW event \in Events, NEW m
    PROVE  LET d == RuntimeGates(event.gate, evaluate_membrane(event.severity, m), m)
           IN  d \in Decisions /\ (d = "BLOCK" => m = "ENFORCE")
  <1>1. event.severity \in {"clear", "alert", "block"}
        /\ event.gate \in {"raw", "PASS", "FLAG", "HARD_VETO"}
    BY R5Assumption
  <1> DEFINE x == evaluate_membrane(event.severity, m)
  <1>2. x \in Decisions /\ (x = "BLOCK" => m = "ENFORCE")
    BY <1>1 DEF evaluate_membrane, Decisions
  <1> HIDE DEF x
  <1>3. RuntimeGates(event.gate, x, m) \in Decisions
        /\ (RuntimeGates(event.gate, x, m) = "BLOCK" => m = "ENFORCE")
    BY <1>1, <1>2 DEF RuntimeGates, Decisions
  <1> QED BY <1>3 DEF x

LEMMA FramesAre == \A depth \in 0 .. 2 : TrajectoryFrames(depth) \in Seq(Frames)
  <1> SUFFICES ASSUME NEW depth \in 0 .. 2 PROVE TrajectoryFrames(depth) \in Seq(Frames)
    OBVIOUS
  <1>1. <<"TAU_BREACH", "WHALE_RESONANCE">> \in Seq(Frames)
        /\ Len(<<"TAU_BREACH", "WHALE_RESONANCE">>) = 2
    BY DEF Frames
  <1> DEFINE w == <<"TAU_BREACH", "WHALE_RESONANCE">>
             x == SubSeq(w, 1, depth)
  <1>2. x \in Seq(Frames)
    <2>1. 1 \in 1 .. Len(w) + 1 /\ depth \in 0 .. Len(w)
      BY <1>1
    <2> HIDE DEF w
    <2> QED BY <1>1, <2>1, SubSeqProperties DEF w
  <1>3. <<"TRAJECTORY_UPDATE">> \in Seq(Frames) /\ <<"LEDGER_APPEND">> \in Seq(Frames)
    BY DEF Frames
  <1> HIDE DEF x
  <1>4. <<"TRAJECTORY_UPDATE">> \o x \o <<"LEDGER_APPEND">> \in Seq(Frames)
    BY <1>2, <1>3
  <1> QED BY <1>4 DEF TrajectoryFrames, x, w

LEMMA TaskInit == ASSUME Init PROVE TaskInv
  <1>1. ledger.entries = << >> /\ task = [r \in Requests |-> Idle]
    BY DEF Init, EmptyLedger
  <1> QED BY <1>1, IdleIs, CitesIdle, EmptyIs DEF TaskInv

\* All slots are idle after a death.
LEMMA TaskDeath == ASSUME MemoryLost PROVE TaskInv'
  <1>1. ledger'.entries = << >> /\ task' = [r \in Requests |-> Idle]
    BY DEF MemoryLost, EmptyLedger
  <1> QED BY <1>1, IdleIs, CitesIdle, EmptyIs DEF TaskInv

\* One slot moves while the ledger stays or grows.
LEMMA TaskMoves ==
    ASSUME CoreInv, TaskInv, up', NEW r \in Requests, NEW t, task' = [task EXCEPT ![r] = t],
           t \in Tasks, CitesOK(t, ledger'.entries),
           ledger'.entries = ledger.entries
             \/ \E e : ledger'.entries = Append(ledger.entries, e)
    PROVE  TaskInv'
  <1>1. IsSeq(ledger.entries)
    BY DEF CoreInv, EntriesOK
  <1>2. task' \in [Requests -> Tasks]
    BY DEF TaskInv
  <1>3. ASSUME NEW q \in Requests PROVE CitesOK(task'[q], ledger'.entries)
    <2>1. CASE q = r
      BY <2>1 DEF TaskInv
    <2>2. CASE q # r
      <3>1. task'[q] = task[q] /\ task[q] \in Tasks /\ CitesOK(task[q], ledger.entries)
        BY <2>2 DEF TaskInv
      <3> QED BY <1>1, <3>1, CitesGrow
    <2> QED BY <2>1, <2>2
  <1> QED BY <1>2, <1>3 DEF TaskInv

LEMMA TaskQuiet == ASSUME TaskInv, UNCHANGED <<task, ledger, up>> PROVE TaskInv'
  BY DEF TaskInv

LEMMA TaskStart ==
    ASSUME CoreInv, TaskInv, NEW configured, Start(configured)
    PROVE  TaskInv'
  <1>1. up' = TRUE /\ task' = task /\ ledger'.entries = lines /\ ~up /\ IsSeq(lines)
    BY LoadedIs DEF Start, CoreInv, DiskOK, EntriesOK
  <1>2. \A r \in Requests : task'[r] = Idle
    BY <1>1 DEF TaskInv
  <1>3. task' \in [Requests -> Tasks]
    BY <1>1 DEF TaskInv
  <1> QED BY <1>1, <1>2, <1>3, CitesIdle DEF TaskInv

\* What Record leaves in memory.
LEMMA RecordedIs ==
    ASSUME CoreInv, up, NEW f, MayRecord(f), Record(f)
    PROVE  \E e : /\ ledger'.entries = Append(ledger.entries, e)
                  /\ e.membrane_decision = f.membrane_decision
                  /\ e.operating_mode = f.operating_mode
  <1> DEFINE s == ledger.entries
             x == NextEntry(LoadedLedger(s), f)
  <1>1. ledger = LoadedLedger(s) /\ EntriesOK(s) /\ FieldsOK(f)
    BY DEF CoreInv, MayRecord
  <1>2. /\ Appended(LoadedLedger(s), x) = LoadedLedger(Append(s, x))
        /\ x.operating_mode = f.operating_mode /\ x.membrane_decision = f.membrane_decision
    BY <1>1, EntriesGrow
  <1>3. ledger' = Appended(LoadedLedger(s), x)
    BY <1>1 DEF Record
  <1> HIDE DEF x, s
  <1>4. ledger'.entries = Append(s, x)
    BY <1>2, <1>3, LoadedIs
  <1> QED BY <1>2, <1>4 DEF s

LEMMA TaskAdjudicate ==
    ASSUME CoreInv, TaskInv, NEW r \in Requests, NEW event \in Events, Adjudicate(r, event)
    PROVE  TaskInv'
  <1> DEFINE decision == RuntimeGates(event.gate, evaluate_membrane(event.severity, mode), mode)
             f == Observation(decision)
             n == Len(ledger.entries)
             t == [pc |-> "streaming", frames |-> TrajectoryFrames(event.depth),
                   entry |-> n + 1, decision |-> decision]
  <1>1. up
    BY DEF Adjudicate
  <1>2. /\ MayRecord(f) /\ f.operating_mode = mode /\ f.membrane_decision = decision
    BY <1>1, ObservationMay
  <1>3. \/ Record(f) /\ task' = [task EXCEPT ![r] = t] /\ up' = up
        \/ WriteFails /\ task' = [task EXCEPT ![r] = Idle] /\ up' = up
        \/ DieWriting(f)
    BY DEF Adjudicate
  <1>4. decision \in Decisions /\ (decision = "BLOCK" => mode = "ENFORCE")
    BY DecisionIs
  <1>5. IsSeq(ledger.entries) /\ n \in Nat
    BY SeqIs DEF CoreInv, EntriesOK
  <1>6. t \in Tasks
    <2>1. TrajectoryFrames(event.depth) \in Seq(Frames)
      <3>1. event.depth \in 0 .. 2
        BY R5Assumption
      <3> QED BY <3>1, FramesAre
    <2> HIDE DEF decision
    <2> QED BY <1>4, <1>5, <2>1 DEF Tasks
  <1>7. t.entry = n + 1 /\ t.decision = decision
    OBVIOUS
  <1> HIDE DEF f, decision, t
  <1>8. CASE Record(f) /\ task' = [task EXCEPT ![r] = t] /\ up' = up
    <2>1. PICK e : /\ ledger'.entries = Append(ledger.entries, e)
                   /\ e.membrane_decision = decision /\ e.operating_mode = mode
      BY <1>1, <1>2, <1>8, RecordedIs
    <2>2. Len(ledger'.entries) = n + 1 /\ ledger'.entries[n + 1] = e
      BY <1>5, <2>1, AppendIs
    <2>3. CitesOK(t, ledger'.entries)
      <3> HIDE DEF n
      <3> QED BY <1>4, <1>5, <1>7, <2>1, <2>2 DEF CitesOK
    <2> QED BY <1>1, <1>6, <1>8, <2>1, <2>3, TaskMoves
  <1>9. CASE WriteFails /\ task' = [task EXCEPT ![r] = Idle] /\ up' = up
    <2>1. ledger' = ledger
      BY <1>9 DEF WriteFails
    <2>2. CitesOK(Idle, ledger'.entries) /\ Idle \in Tasks
      BY <1>5, <2>1, CitesIdle, IdleIs
    <2> QED BY <1>1, <1>9, <2>1, <2>2, TaskMoves
  <1>10. CASE DieWriting(f)
    BY <1>10, TaskDeath DEF DieWriting
  <1> QED BY <1>3, <1>8, <1>9, <1>10

LEMMA TaskTransition ==
    ASSUME CoreInv, TaskInv, NEW r \in Requests, NEW target \in Modes, NEW oath \in oaths,
           RequestTransition(r, target, oath)
    PROVE  TaskInv'
  <1> DEFINE f == Transition(target, oath.nonce)
             t == [Idle EXCEPT !.pc = "streaming", !.frames = <<"MODE_TRANSITION">>]
  <1>1. up /\ Admitted(target) /\ verify_oath(oath)
    BY DEF RequestTransition
  <1>2. MayRecord(f)
    BY <1>1, TransitionMay
  <1>3. \/ Record(f) /\ task' = [task EXCEPT ![r] = t] /\ up' = up
        \/ WriteFails /\ task' = [task EXCEPT ![r] = Idle] /\ up' = up
        \/ DieWriting(f)
    BY DEF RequestTransition
  <1>4. IsSeq(ledger.entries)
    BY DEF CoreInv, EntriesOK
  <1>5. t \in Tasks /\ t.entry = 0
    <2>1. <<"MODE_TRANSITION">> \in Seq(Frames)
      BY DEF Frames
    <2> QED BY <2>1 DEF Idle, Tasks, Decisions
  <1> HIDE DEF f, t
  <1>6. CASE Record(f) /\ task' = [task EXCEPT ![r] = t] /\ up' = up
    <2>1. PICK e : ledger'.entries = Append(ledger.entries, e)
      BY <1>1, <1>2, <1>6, RecordedIs
    <2>2. CitesOK(t, ledger'.entries)
      BY <1>4, <1>5, <2>1, AppendIs DEF CitesOK
    <2> QED BY <1>1, <1>5, <1>6, <2>1, <2>2, TaskMoves
  <1>7. CASE WriteFails /\ task' = [task EXCEPT ![r] = Idle] /\ up' = up
    <2>1. ledger' = ledger
      BY <1>7 DEF WriteFails
    <2>2. CitesOK(Idle, ledger'.entries) /\ Idle \in Tasks
      BY <1>4, <2>1, CitesIdle, IdleIs
    <2> QED BY <1>1, <1>7, <2>1, <2>2, TaskMoves
  <1>8. CASE DieWriting(f)
    BY <1>8, TaskDeath DEF DieWriting
  <1> QED BY <1>3, <1>6, <1>7, <1>8

-----------------------------------------------------------------------------
(* The hub's queue.                                                        *)
LEMMA QueueAppends ==
    ASSUME NEW q \in Seq(Items), NEW x \in Items
    PROVE  LET t == Append(q, x)
           IN  /\ t \in Seq(Items) /\ Len(q) \in Nat /\ Len(t) = Len(q) + 1 /\ t[Len(q) + 1] = x
               /\ \A k \in 1 .. Len(q) : t[k] = q[k]
               /\ \A k : IsFrame(t, k) <=> IsFrame(q, k) \/ (k = Len(q) + 1 /\ x.kind = "frame")
  <1> DEFINE t == Append(q, x)
             L == Len(q)
  <1>1. /\ t \in Seq(Items) /\ L \in Nat /\ Len(t) = L + 1 /\ t[L + 1] = x
        /\ \A k \in 1 .. L : t[k] = q[k]
    BY AppendProperties
  <1> HIDE DEF t
  <1>2. ASSUME NEW k PROVE IsFrame(t, k) <=> IsFrame(q, k) \/ (k = L + 1 /\ x.kind = "frame")
    <2>1. k \in 1 .. L + 1 <=> k \in 1 .. L \/ k = L + 1
      BY <1>1
    <2>2. ~(L + 1 \in 1 .. L) /\ L + 1 \in 1 .. L + 1
      BY <1>1
    <2> HIDE DEF L
    <2>3. CASE k = L + 1
      BY <1>1, <2>2, <2>3 DEF IsFrame, L
    <2>4. CASE k # L + 1
      BY <1>1, <2>1, <2>4 DEF IsFrame, L
    <2> QED BY <2>3, <2>4
  <1> QED BY <1>1, <1>2 DEF t

LEMMA QueueTails ==
    ASSUME NEW q \in Seq(Items), q # << >>
    PROVE  LET t == Tail(q)
           IN  /\ t \in Seq(Items) /\ Len(t) \in Nat /\ Len(q) = Len(t) + 1
               /\ \A k \in 1 .. Len(t) : k + 1 \in 1 .. Len(q) /\ t[k] = q[k + 1]
               /\ \A k : IsFrame(t, k) => k \in Nat /\ k >= 1 /\ IsFrame(q, k + 1) /\ t[k] = q[k + 1]
               /\ \A k : IsFrame(q, k) /\ k # 1 =>
                     k \in Nat /\ k - 1 >= 1 /\ IsFrame(t, k - 1) /\ t[k - 1] = q[k]
  <1> DEFINE t == Tail(q)
             L == Len(t)
  <1>1. /\ t \in Seq(Items) /\ L \in Nat /\ Len(q) = L + 1
        /\ \A k \in 1 .. L : t[k] = q[k + 1]
    BY HeadTailProperties, EmptySeq
  <1> HIDE DEF t
  <1>2. \A k \in 1 .. L : k + 1 \in 1 .. Len(q)
    BY <1>1
  <1>3. ASSUME NEW k, IsFrame(t, k)
        PROVE  k \in Nat /\ k >= 1 /\ IsFrame(q, k + 1) /\ t[k] = q[k + 1]
    BY <1>1, <1>2, <1>3 DEF IsFrame
  <1>4. ASSUME NEW k, IsFrame(q, k), k # 1
        PROVE  k \in Nat /\ k - 1 >= 1 /\ IsFrame(t, k - 1) /\ t[k - 1] = q[k]
    <2>1. k \in 1 .. L + 1 /\ q[k].kind = "frame"
      BY <1>1, <1>4 DEF IsFrame
    <2>2. k - 1 \in 1 .. L /\ (k - 1) + 1 = k /\ k \in Nat /\ k - 1 >= 1
      BY <1>1, <1>4, <2>1
    <2>3. t[k - 1] = q[k]
      BY <1>1, <2>2
    <2> QED BY <2>1, <2>2, <2>3 DEF IsFrame
  <1> QED BY <1>1, <1>2, <1>3, <1>4 DEF t

Waiting == {"noting", "joining", "leaving"}

LEMMA WaitsIs == \A kind : WaitsAs(kind) \in Waiting
  BY DEF WaitsAs, Waiting

LEMMA QueueAsks ==
    ASSUME NEW q, NEW cl, QueueOK(q, cl), NEW x \in Items, NEW cl2,
           x.kind # "frame" => x.who \in Clients,
           x.who \in Clients => cl[x.who].pc \notin Waiting /\ cl2[x.who].pc = WaitsAs(x.kind),
           \A c \in Clients : c # x.who => cl2[c].pc = cl[c].pc
    PROVE  QueueOK(Append(q, x), cl2)
  <1> DEFINE t == Append(q, x)
             L == Len(q)
  <1>1. /\ t \in Seq(Items) /\ L \in Nat /\ Len(t) = L + 1 /\ t[L + 1] = x
        /\ \A k \in 1 .. L : t[k] = q[k]
    BY QueueAppends DEF QueueOK
  <1> HIDE DEF t
  <1>2. \A k \in 1 .. Len(t) : k \in 1 .. L \/ k = L + 1
    BY <1>1
  <1>3. /\ \A k \in 1 .. L : q[k].kind # "frame" => q[k].who \in Clients
        /\ \A k \in 1 .. L : q[k].who \in Clients => cl[q[k].who].pc = WaitsAs(q[k].kind)
        /\ \A j, k \in 1 .. L : q[j].who = q[k].who /\ q[k].who \in Clients => j = k
    BY DEF QueueOK
  <1> HIDE DEF L
  <1>4. \A k \in 1 .. L : q[k].who \in Clients => q[k].who # x.who
    BY <1>3, WaitsIs
  <1>5. \A k \in 1 .. Len(t) : t[k].kind # "frame" => t[k].who \in Clients
    BY <1>1, <1>2, <1>3
  <1>6. \A k \in 1 .. Len(t) : t[k].who \in Clients => cl2[t[k].who].pc = WaitsAs(t[k].kind)
    BY <1>1, <1>2, <1>3, <1>4
  <1>7. \A j, k \in 1 .. Len(t) : t[j].who = t[k].who /\ t[k].who \in Clients => j = k
    BY <1>1, <1>2, <1>3, <1>4
  <1>8. QueueOK(t, cl2)
    BY <1>1, <1>5, <1>6, <1>7 DEF QueueOK
  <1> QED BY <1>8 DEF t

LEMMA QueueReleases ==
    ASSUME NEW q, NEW cl, QueueOK(q, cl), q # << >>, NEW cl2,
           \A c \in Clients : c # q[1].who => cl2[c].pc = cl[c].pc
    PROVE  QueueOK(Tail(q), cl2)
  <1> DEFINE t == Tail(q)
  <1>1. /\ t \in Seq(Items) /\ Len(t) \in Nat /\ Len(q) = Len(t) + 1
        /\ \A k \in 1 .. Len(t) : k + 1 \in 1 .. Len(q) /\ t[k] = q[k + 1]
    BY QueueTails DEF QueueOK
  <1> HIDE DEF t
  <1>2. 1 \in 1 .. Len(q)
    BY <1>1
  <1>3. /\ \A k \in 1 .. Len(q) : q[k].kind # "frame" => q[k].who \in Clients
        /\ \A k \in 1 .. Len(q) : q[k].who \in Clients => cl[q[k].who].pc = WaitsAs(q[k].kind)
        /\ \A j, k \in 1 .. Len(q) : q[j].who = q[k].who /\ q[k].who \in Clients => j = k
    BY DEF QueueOK
  <1>4. \A k \in 1 .. Len(t) : q[k + 1].who \in Clients => q[k + 1].who # q[1].who
    <2> SUFFICES ASSUME NEW k \in 1 .. Len(t), q[k + 1].who \in Clients, q[k + 1].who = q[1].who
                 PROVE  FALSE
      OBVIOUS
    <2>1. k + 1 \in 1 .. Len(q) /\ k + 1 # 1
      BY <1>1
    <2> QED BY <1>2, <1>3, <2>1
  <1>5. \A j, k \in 1 .. Len(t) : j + 1 = k + 1 => j = k
    BY <1>1
  <1>6. \A k \in 1 .. Len(t) : t[k].kind # "frame" => t[k].who \in Clients
    BY <1>1, <1>3
  <1>7. \A k \in 1 .. Len(t) : t[k].who \in Clients => cl2[t[k].who].pc = WaitsAs(t[k].kind)
    <2> SUFFICES ASSUME NEW k \in 1 .. Len(t), t[k].who \in Clients
                 PROVE  cl2[t[k].who].pc = WaitsAs(t[k].kind)
      OBVIOUS
    <2>1. k + 1 \in 1 .. Len(q) /\ t[k] = q[k + 1]
      BY <1>1
    <2> QED BY <1>3, <1>4, <2>1
  <1>8. \A j, k \in 1 .. Len(t) : t[j].who = t[k].who /\ t[k].who \in Clients => j = k
    <2> SUFFICES ASSUME NEW j \in 1 .. Len(t), NEW k \in 1 .. Len(t),
                        t[j].who = t[k].who, t[k].who \in Clients
                 PROVE  j = k
      OBVIOUS
    <2>1. /\ k + 1 \in 1 .. Len(q) /\ t[k] = q[k + 1]
          /\ j + 1 \in 1 .. Len(q) /\ t[j] = q[j + 1]
      BY <1>1
    <2>2. j + 1 = k + 1
      BY <1>3, <2>1
    <2> QED BY <1>5, <2>2
  <1>9. QueueOK(t, cl2)
    BY <1>1, <1>6, <1>7, <1>8 DEF QueueOK
  <1> QED BY <1>9 DEF t

LEMMA QueueSame ==
    ASSUME NEW q, NEW cl, QueueOK(q, cl), NEW cl2,
           \A c \in Clients : cl2[c].pc = cl[c].pc \/ cl[c].pc \notin Waiting
    PROVE  QueueOK(q, cl2)
  BY WaitsIs DEF QueueOK

LEMMA NumbersTake ==
    ASSUME NEW q \in Seq(Items), NEW n \in Nat, NumbersOK(q, n), NEW x \in Items,
           x.kind = "frame", x.sequence = n + 1
    PROVE  NumbersOK(Append(q, x), n + 1)
  <1> DEFINE t == Append(q, x)
             L == Len(q)
  <1>1. /\ L \in Nat /\ t[L + 1] = x
        /\ \A k \in 1 .. L : t[k] = q[k]
        /\ \A k : IsFrame(t, k) <=> IsFrame(q, k) \/ k = L + 1
    BY QueueAppends
  <1>2. \A k : IsFrame(q, k) => k \in 1 .. L
    BY DEF IsFrame
  <1> HIDE DEF t, L
  <1>3. /\ \A k : IsFrame(q, k) => q[k].sequence \in 1 .. n
        /\ \A j, k : IsFrame(q, j) /\ IsFrame(q, k) /\ j < k => q[j].sequence < q[k].sequence
        /\ \A k : IsFrame(q, k) =>
              \A m \in q[k].sequence + 1 .. n : \E j : IsFrame(q, j) /\ q[j].sequence = m
    BY DEF NumbersOK
  <1>4. ASSUME NEW k, IsFrame(t, k)
        PROVE  \/ k = L + 1 /\ t[k].sequence = n + 1
               \/ IsFrame(q, k) /\ t[k] = q[k] /\ k \in 1 .. L /\ t[k].sequence \in 1 .. n
    BY <1>1, <1>2, <1>3, <1>4
  <1>5. \A k : IsFrame(t, k) => t[k].sequence \in 1 .. n + 1
    BY <1>4
  <1>6. ASSUME NEW j, NEW k, IsFrame(t, j), IsFrame(t, k), j < k
        PROVE  t[j].sequence < t[k].sequence
    <2>1. CASE k = L + 1
      <3>1. j # L + 1
        BY <1>1, <1>6, <2>1
      <3>2. t[j].sequence \in 1 .. n
        BY <1>4, <1>6, <3>1
      <3> QED BY <1>1, <2>1, <3>2
    <2>2. CASE k # L + 1
      <3>1. IsFrame(q, k) /\ t[k] = q[k] /\ k \in 1 .. L
        BY <1>4, <1>6, <2>2
      <3>2. j # L + 1
        BY <1>1, <1>6, <3>1
      <3>3. IsFrame(q, j) /\ t[j] = q[j]
        BY <1>4, <1>6, <3>2
      <3> QED BY <1>3, <1>6, <3>1, <3>3
    <2> QED BY <2>1, <2>2
  <1>7. ASSUME NEW k, IsFrame(t, k), NEW m \in t[k].sequence + 1 .. n + 1
        PROVE  \E j : IsFrame(t, j) /\ t[j].sequence = m
    <2>1. CASE m = n + 1
      BY <1>1, <2>1
    <2>2. CASE m # n + 1
      <3>1. t[k].sequence \in 1 .. n + 1
        BY <1>5, <1>7
      <3>2. m \in t[k].sequence + 1 .. n /\ t[k].sequence # n + 1
        BY <2>2, <3>1
      <3>3. IsFrame(q, k) /\ t[k] = q[k]
        BY <1>4, <1>7, <3>2
      <3>4. PICK j : IsFrame(q, j) /\ q[j].sequence = m
        BY <1>3, <3>2, <3>3
      <3> QED BY <1>1, <1>2, <3>4
    <2> QED BY <2>1, <2>2
  <1>8. NumbersOK(t, n + 1)
    BY <1>5, <1>6, <1>7 DEF NumbersOK
  <1> QED BY <1>8 DEF t

LEMMA NumbersAsk ==
    ASSUME NEW q \in Seq(Items), NEW n \in Nat, NumbersOK(q, n), NEW x \in Items, x.kind # "frame"
    PROVE  NumbersOK(Append(q, x), n)
  <1>1. \A k : IsFrame(Append(q, x), k) <=> IsFrame(q, k)
    BY QueueAppends
  <1>2. \A k : IsFrame(q, k) => Append(q, x)[k] = q[k]
    BY QueueAppends DEF IsFrame
  <1> DEFINE t == Append(q, x)
  <1> HIDE DEF t
  <1>3. \A k : (IsFrame(t, k) <=> IsFrame(q, k)) /\ (IsFrame(q, k) => t[k] = q[k])
    BY <1>1, <1>2 DEF t
  <1>4. NumbersOK(t, n)
    BY <1>3 DEF NumbersOK
  <1> QED BY <1>4 DEF t

LEMMA NumbersRelease ==
    ASSUME NEW q \in Seq(Items), q # << >>, NEW n \in Nat, NumbersOK(q, n)
    PROVE  NumbersOK(Tail(q), n)
  <1> DEFINE t == Tail(q)
  <1>1. /\ \A k : IsFrame(t, k) => k \in Nat /\ k >= 1 /\ IsFrame(q, k + 1) /\ t[k] = q[k + 1]
        /\ \A k : IsFrame(q, k) /\ k # 1 =>
              k \in Nat /\ k - 1 >= 1 /\ IsFrame(t, k - 1) /\ t[k - 1] = q[k]
    BY QueueTails
  <1> HIDE DEF t
  <1>2. /\ \A k : IsFrame(q, k) => q[k].sequence \in 1 .. n
        /\ \A j, k : IsFrame(q, j) /\ IsFrame(q, k) /\ j < k => q[j].sequence < q[k].sequence
        /\ \A k : IsFrame(q, k) =>
              \A m \in q[k].sequence + 1 .. n : \E j : IsFrame(q, j) /\ q[j].sequence = m
    BY DEF NumbersOK
  <1>3. \A k : IsFrame(t, k) => t[k].sequence \in 1 .. n
    BY <1>1, <1>2
  <1>4. ASSUME NEW j, NEW k, IsFrame(t, j), IsFrame(t, k), j < k
        PROVE  t[j].sequence < t[k].sequence
    <2>1. /\ j \in Nat /\ IsFrame(q, j + 1) /\ t[j] = q[j + 1]
          /\ k \in Nat /\ IsFrame(q, k + 1) /\ t[k] = q[k + 1]
      BY <1>1, <1>4
    <2>2. j + 1 < k + 1
      BY <1>4, <2>1
    <2> QED BY <1>2, <2>1, <2>2
  <1>5. ASSUME NEW k, IsFrame(t, k), NEW m \in t[k].sequence + 1 .. n
        PROVE  \E j : IsFrame(t, j) /\ t[j].sequence = m
    <2>1. k \in Nat /\ k >= 1 /\ IsFrame(q, k + 1) /\ t[k] = q[k + 1]
      BY <1>1, <1>5
    <2>2. PICK j : IsFrame(q, j) /\ q[j].sequence = m
      BY <1>2, <2>1
    <2>3. j # 1
      <3> SUFFICES ASSUME j = 1 PROVE FALSE
        OBVIOUS
      <3>1. 1 < k + 1
        BY <2>1
      <3>2. q[1].sequence < q[k + 1].sequence
        BY <1>2, <2>1, <2>2, <3>1
      <3>3. q[k + 1].sequence \in 1 .. n /\ q[1].sequence \in 1 .. n
        BY <1>2, <2>1, <2>2
      <3> QED BY <2>1, <2>2, <3>2, <3>3
    <2> QED BY <1>1, <2>2, <2>3
  <1>6. NumbersOK(t, n)
    BY <1>3, <1>4, <1>5 DEF NumbersOK
  <1> QED BY <1>6 DEF t

LEMMA InStepTake ==
    ASSUME NEW q \in Seq(Items), NEW n \in Nat, NEW c, NEW last \in Nat, last <= n, NEW done,
           InStep(c, last, done, q, n), ~IsFrame(q, 1) => done = {},
           NEW x \in Items, x.kind = "frame", x.sequence = n + 1
    PROVE  InStep(c, last, done, Append(q, x), n + 1)
  <1> DEFINE t == Append(q, x)
             L == Len(q)
  <1>1. /\ L \in Nat /\ t[L + 1] = x
        /\ \A k \in 1 .. L : t[k] = q[k]
        /\ \A k : IsFrame(t, k) <=> IsFrame(q, k) \/ k = L + 1
    BY QueueAppends
  <1>2. \A k : IsFrame(q, k) => k \in 1 .. L
    BY DEF IsFrame
  <1> HIDE DEF t, L
  <1>3. ASSUME NEW k, IsFrame(t, k)
        PROVE  IF k = 1 /\ c \in done THEN t[k].sequence = last ELSE t[k].sequence > last
    <2>1. CASE IsFrame(q, k)
      BY <1>1, <1>2, <2>1 DEF InStep
    <2>2. CASE ~IsFrame(q, k)
      <3>1. k = L + 1 /\ t[k].sequence = n + 1
        BY <1>1, <1>3, <2>2
      <3>2. n + 1 > last
        OBVIOUS
      <3>3. ~(k = 1 /\ c \in done)
        BY <2>2
      <3> QED BY <3>1, <3>2, <3>3
    <2> QED BY <2>1, <2>2
  <1>4. ASSUME NEW m \in last + 1 .. n + 1 PROVE \E k : IsFrame(t, k) /\ t[k].sequence = m
    <2>1. CASE m = n + 1
      BY <1>1, <2>1
    <2>2. CASE m # n + 1
      <3>1. m \in last + 1 .. n
        BY <2>2
      <3>2. PICK k : IsFrame(q, k) /\ q[k].sequence = m
        BY <3>1 DEF InStep
      <3> QED BY <1>1, <1>2, <3>2
    <2> QED BY <2>1, <2>2
  <1>5. InStep(c, last, done, t, n + 1)
    BY <1>3, <1>4 DEF InStep
  <1> QED BY <1>5 DEF t

LEMMA InStepAsk ==
    ASSUME NEW q \in Seq(Items), NEW n, NEW c, NEW last, NEW done, InStep(c, last, done, q, n),
           NEW x \in Items, x.kind # "frame"
    PROVE  InStep(c, last, done, Append(q, x), n)
  <1>1. \A k : IsFrame(Append(q, x), k) <=> IsFrame(q, k)
    BY QueueAppends
  <1>2. \A k : IsFrame(q, k) => Append(q, x)[k] = q[k]
    BY QueueAppends DEF IsFrame
  <1> DEFINE t == Append(q, x)
  <1> HIDE DEF t
  <1>3. \A k : (IsFrame(t, k) <=> IsFrame(q, k)) /\ (IsFrame(q, k) => t[k] = q[k])
    BY <1>1, <1>2 DEF t
  <1>4. InStep(c, last, done, t, n)
    BY <1>3 DEF InStep
  <1> QED BY <1>4 DEF t

LEMMA InStepRelease ==
    ASSUME NEW q \in Seq(Items), q # << >>, NEW n \in Nat, NEW c, NEW last \in Nat, NEW done,
           InStep(c, last, done, q, n), IsFrame(q, 1) => c \in done
    PROVE  InStep(c, last, {}, Tail(q), n)
  <1> DEFINE t == Tail(q)
  <1>1. /\ \A k : IsFrame(t, k) => k \in Nat /\ k >= 1 /\ IsFrame(q, k + 1) /\ t[k] = q[k + 1]
        /\ \A k : IsFrame(q, k) /\ k # 1 =>
              k \in Nat /\ k - 1 >= 1 /\ IsFrame(t, k - 1) /\ t[k - 1] = q[k]
    BY QueueTails
  <1> HIDE DEF t
  <1>2. ASSUME NEW k, IsFrame(t, k) PROVE t[k].sequence > last
    <2>1. k \in Nat /\ k >= 1 /\ IsFrame(q, k + 1) /\ t[k] = q[k + 1]
      BY <1>1, <1>2
    <2>2. k + 1 # 1
      BY <2>1
    <2> QED BY <2>1, <2>2 DEF InStep
  <1>3. ASSUME NEW m \in last + 1 .. n PROVE \E k : IsFrame(t, k) /\ t[k].sequence = m
    <2>1. PICK k : IsFrame(q, k) /\ q[k].sequence = m
      BY DEF InStep
    <2>2. k # 1
      <3> SUFFICES ASSUME k = 1 PROVE FALSE
        OBVIOUS
      <3>1. q[1].sequence = last
        BY <2>1 DEF InStep
      <3> QED BY <2>1, <3>1
    <2> QED BY <1>1, <2>1, <2>2
  <1>4. InStep(c, last, {}, t, n)
    BY <1>2, <1>3 DEF InStep
  <1> QED BY <1>4 DEF t

\* The frame being sent is the next one of a client that has not got it.
LEMMA NextIsSent ==
    ASSUME NEW q \in Seq(Items), NEW n \in Nat, NumbersOK(q, n), IsFrame(q, 1),
           NEW c, NEW last \in Nat, NEW done, c \notin done, InStep(c, last, done, q, n)
    PROVE  q[1].sequence = last + 1
  <1>1. q[1].sequence > last /\ q[1].sequence \in 1 .. n
    BY DEF InStep, NumbersOK
  <1>2. last + 1 \in last + 1 .. n
    BY <1>1
  <1>3. PICK k : IsFrame(q, k) /\ q[k].sequence = last + 1
    BY <1>2 DEF InStep
  <1>4. CASE k = 1
    BY <1>3, <1>4
  <1>5. CASE k # 1
    <2>1. 1 < k
      BY <1>3, <1>5, SeqIs DEF IsFrame, IsSeq
    <2>2. q[1].sequence < q[k].sequence
      BY <1>3, <2>1 DEF NumbersOK
    <2> QED BY <1>1, <1>3, <2>2
  <1> QED BY <1>4, <1>5

LEMMA InStepSent ==
    ASSUME NEW q \in Seq(Items), NEW n \in Nat, NumbersOK(q, n), IsFrame(q, 1), NEW c, NEW done
    PROVE  InStep(c, q[1].sequence, done \cup {c}, q, n)
  <1>1. ASSUME NEW k, IsFrame(q, k), k # 1 PROVE q[k].sequence > q[1].sequence
    <2>1. 1 < k
      BY <1>1, SeqIs DEF IsFrame, IsSeq
    <2>2. q[1].sequence < q[k].sequence
      BY <1>1, <2>1 DEF NumbersOK
    <2>3. q[1].sequence \in Nat /\ q[k].sequence \in Nat
      BY <1>1 DEF NumbersOK
    <2> QED BY <2>2, <2>3
  <1>2. \A m \in q[1].sequence + 1 .. n : \E k : IsFrame(q, k) /\ q[k].sequence = m
    BY DEF NumbersOK
  <1> QED BY <1>1, <1>2 DEF InStep

LEMMA InStepOther ==
    ASSUME NEW c, NEW last, NEW done, NEW q, NEW n, InStep(c, last, done, q, n), NEW d, d # c
    PROVE  InStep(c, last, done \cup {d}, q, n)
  BY DEF InStep

-----------------------------------------------------------------------------
(* What each step does to the hub.                                         *)
ClientStates == [Clients -> [pc : PCs, last : Nat]]

\* A frame takes its number and waits for the lock.
LEMMA FrameQueued ==
    ASSUME NEW cs, NEW q, NEW done, NEW dead, NEW n, NEW cl, HubOK(cs, q, done, dead, n, cl),
           NEW x \in Items, x.kind = "frame", x.sequence = n + 1, NEW cl2 \in ClientStates,
           \A c \in Clients : /\ cl2[c].last = cl[c].last
                              /\ c # x.who => cl2[c].pc = cl[c].pc
                              /\ c = x.who => cl[c].pc \notin Waiting /\ cl2[c].pc = "noting"
    PROVE  HubOK(cs, Append(q, x), done, dead, n + 1, cl2)
  <1> DEFINE t == Append(q, x)
  <1>1. q \in Seq(Items) /\ n \in Nat /\ NumbersOK(q, n) /\ QueueOK(q, cl)
    BY DEF HubOK, QueueOK
  <1>2. QueueOK(t, cl2)
    BY <1>1, QueueAsks DEF WaitsAs
  <1>3. NumbersOK(t, n + 1)
    BY <1>1, NumbersTake
  <1>4. IsFrame(q, 1) => IsFrame(t, 1)
    BY <1>1, QueueAppends
  <1>5. FanOutOK(cs, q, done, dead) /\ ClientsOK(cs, q, done, dead, n, cl)
    BY DEF HubOK
  <1>6. ASSUME NEW c \in cs \ dead, cl2[c].last # 0
        PROVE  InStep(c, cl2[c].last, done, t, n + 1)
    <2>1. c \in Clients /\ cl2[c].last = cl[c].last /\ cl[c].last \in Nat /\ cl[c].last <= n
      BY <1>5 DEF FanOutOK, ClientsOK
    <2>2. InStep(c, cl[c].last, done, q, n)
      BY <1>5, <1>6, <2>1 DEF ClientsOK
    <2>3. ~IsFrame(q, 1) => done = {}
      BY <1>5 DEF FanOutOK
    <2>4. InStep(c, cl[c].last, done, t, n + 1)
      BY <1>1, <2>1, <2>2, <2>3, InStepTake
    <2> QED BY <2>1, <2>4
  <1> HIDE DEF t
  <1>7. \A c \in Clients : cl2[c].last <= n + 1
    BY <1>1, <1>5 DEF ClientsOK, ClientStates
  <1>8. \A c \in Clients : cl2[c].pc = "joining" => cl2[c].last = 0 /\ c \notin cs
    BY <1>5 DEF ClientsOK
  <1>9. FanOutOK(cs, t, done, dead)
    BY <1>4, <1>5 DEF FanOutOK
  <1>10. ClientsOK(cs, t, done, dead, n + 1, cl2)
    BY <1>6, <1>7, <1>8 DEF ClientsOK, ClientStates
  <1>11. n + 1 \in Nat
    BY <1>1
  <1> QED BY <1>2, <1>3, <1>9, <1>10, <1>11 DEF HubOK, t

\* connect and disconnect wait for the lock.
LEMMA LockAsked ==
    ASSUME NEW cs, NEW q, NEW done, NEW dead, NEW n, NEW cl, HubOK(cs, q, done, dead, n, cl),
           NEW x \in Items, x.kind # "frame", x.who \in Clients, NEW cl2 \in ClientStates,
           cl[x.who].pc \notin Waiting, cl2[x.who].pc = WaitsAs(x.kind),
           \/ cl2[x.who].last = cl[x.who].last /\ x.kind # "connect"
           \/ cl2[x.who].last = 0 /\ x.who \notin cs,
           \A c \in Clients : c # x.who => cl2[c] = cl[c]
    PROVE  HubOK(cs, Append(q, x), done, dead, n, cl2)
  <1> DEFINE t == Append(q, x)
  <1>1. q \in Seq(Items) /\ n \in Nat /\ NumbersOK(q, n) /\ QueueOK(q, cl)
    BY DEF HubOK, QueueOK
  <1>2. QueueOK(t, cl2)
    BY <1>1, QueueAsks
  <1>3. NumbersOK(t, n)
    BY <1>1, NumbersAsk
  <1>4. IsFrame(q, 1) => IsFrame(t, 1)
    BY <1>1, QueueAppends
  <1>5. FanOutOK(cs, q, done, dead) /\ ClientsOK(cs, q, done, dead, n, cl)
    BY DEF HubOK
  <1>6. ASSUME NEW c \in cs \ dead, cl2[c].last # 0
        PROVE  InStep(c, cl2[c].last, done, t, n)
    <2>1. c \in Clients /\ cl2[c].last = cl[c].last
      BY <1>5, <1>6 DEF FanOutOK
    <2>2. InStep(c, cl[c].last, done, q, n)
      BY <1>5, <1>6, <2>1 DEF ClientsOK
    <2>3. InStep(c, cl[c].last, done, t, n)
      BY <1>1, <2>2, InStepAsk
    <2> QED BY <2>1, <2>3
  <1> HIDE DEF t
  <1>7. \A c \in Clients : cl2[c].last <= n
    BY <1>1, <1>5 DEF ClientsOK
  <1>8. \A c \in Clients : cl2[c].pc = "joining" => cl2[c].last = 0 /\ c \notin cs
    <2> SUFFICES ASSUME NEW c \in Clients, cl2[c].pc = "joining"
                 PROVE  cl2[c].last = 0 /\ c \notin cs
      OBVIOUS
    <2>1. CASE c = x.who
      <3>1. x.kind = "connect"
        BY <2>1 DEF WaitsAs
      <3> QED BY <2>1, <3>1
    <2>2. CASE c # x.who
      BY <1>5, <2>2 DEF ClientsOK
    <2> QED BY <2>1, <2>2
  <1>9. FanOutOK(cs, t, done, dead)
    BY <1>4, <1>5 DEF FanOutOK
  <1>10. ClientsOK(cs, t, done, dead, n, cl2)
    BY <1>6, <1>7, <1>8 DEF ClientsOK, ClientStates
  <1> QED BY <1>1, <1>2, <1>3, <1>9, <1>10 DEF HubOK, t

\* A send succeeds, or raises.
LEMMA FrameSent ==
    ASSUME NEW cs, NEW q, NEW done, NEW dead, NEW n, NEW cl, HubOK(cs, q, done, dead, n, cl),
           IsFrame(q, 1), NEW c \in cs \ done, NEW cl2 \in ClientStates,
           cl2[c].pc = cl[c].pc, cl2[c].last = q[1].sequence,
           \A d \in Clients : d # c => cl2[d] = cl[d]
    PROVE  HubOK(cs, q, done \cup {c}, dead, n, cl2)
  <1>1. q \in Seq(Items) /\ n \in Nat /\ NumbersOK(q, n) /\ QueueOK(q, cl)
    BY DEF HubOK, QueueOK
  <1>2. QueueOK(q, cl2)
    BY <1>1, QueueSame
  <1>3. FanOutOK(cs, q, done, dead) /\ ClientsOK(cs, q, done, dead, n, cl)
    BY DEF HubOK
  <1>4. FanOutOK(cs, q, done \cup {c}, dead)
    BY <1>3 DEF FanOutOK
  <1>5. c \in Clients /\ q[1].sequence \in 1 .. n
    BY <1>1, <1>3 DEF FanOutOK, NumbersOK
  <1>6. ASSUME NEW d \in cs \ dead, cl2[d].last # 0
        PROVE  InStep(d, cl2[d].last, done \cup {c}, q, n)
    <2>1. CASE d = c
      BY <1>1, <2>1, InStepSent
    <2>2. CASE d # c
      <3>1. cl2[d] = cl[d] /\ InStep(d, cl[d].last, done, q, n)
        BY <1>3, <1>6, <2>2 DEF FanOutOK, ClientsOK
      <3> QED BY <2>2, <3>1, InStepOther
    <2> QED BY <2>1, <2>2
  <1>7. \A d \in Clients : cl2[d].last <= n
    BY <1>1, <1>3, <1>5 DEF ClientsOK
  <1>8. \A d \in Clients : cl2[d].pc = "joining" => cl2[d].last = 0 /\ d \notin cs
    BY <1>3, <1>5 DEF ClientsOK
  <1>9. ClientsOK(cs, q, done \cup {c}, dead, n, cl2)
    BY <1>6, <1>7, <1>8 DEF ClientsOK, ClientStates
  <1> QED BY <1>1, <1>2, <1>4, <1>9 DEF HubOK

LEMMA FrameRefused ==
    ASSUME NEW cs, NEW q, NEW done, NEW dead, NEW n, NEW cl, HubOK(cs, q, done, dead, n, cl),
           IsFrame(q, 1), NEW c \in cs \ done
    PROVE  HubOK(cs, q, done \cup {c}, dead \cup {c}, n, cl)
  <1>1. FanOutOK(cs, q, done, dead) /\ ClientsOK(cs, q, done, dead, n, cl)
    BY DEF HubOK
  <1>2. FanOutOK(cs, q, done \cup {c}, dead \cup {c})
    BY <1>1 DEF FanOutOK
  <1>3. ASSUME NEW d \in cs \ (dead \cup {c}), cl[d].last # 0
        PROVE  InStep(d, cl[d].last, done \cup {c}, q, n)
    <2>1. InStep(d, cl[d].last, done, q, n)
      BY <1>1, <1>3 DEF ClientsOK
    <2> QED BY <2>1, InStepOther
  <1>4. ClientsOK(cs, q, done \cup {c}, dead \cup {c}, n, cl)
    BY <1>1, <1>3 DEF ClientsOK
  <1> QED BY <1>2, <1>4 DEF HubOK

\* The holder leaves, by the end of a fan-out, a join or a leave.
LEMMA LockReleased ==
    ASSUME NEW cs, NEW q, NEW done, NEW dead, NEW n, NEW cl, HubOK(cs, q, done, dead, n, cl),
           q # << >>, IsFrame(q, 1) => done = cs, NEW cs2, cs2 \subseteq Clients,
           NEW cl2 \in ClientStates,
           \A c \in Clients : c # q[1].who => cl2[c] = cl[c] /\ (c \in cs2 => c \in cs \ dead),
           q[1].who \in Clients => /\ cl2[q[1].who].last \in {0, cl[q[1].who].last}
                                   /\ cl2[q[1].who].pc \notin Waiting,
           \A c \in cs2 : cl2[c].last # 0 => c \in cs \ dead
    PROVE  HubOK(cs2, Tail(q), {}, {}, n, cl2)
  <1> DEFINE t == Tail(q)
  <1>1. q \in Seq(Items) /\ n \in Nat /\ NumbersOK(q, n) /\ QueueOK(q, cl)
    BY DEF HubOK, QueueOK
  <1>2. QueueOK(t, cl2)
    BY <1>1, QueueReleases
  <1>3. NumbersOK(t, n)
    BY <1>1, NumbersRelease
  <1>4. FanOutOK(cs, q, done, dead) /\ ClientsOK(cs, q, done, dead, n, cl)
    BY DEF HubOK
  <1>5. \A c \in Clients : cl2[c].last \in {0, cl[c].last}
    BY <1>4
  <1>6. ASSUME NEW c \in cs2 \ {}, cl2[c].last # 0
        PROVE  InStep(c, cl2[c].last, {}, t, n)
    <2>1. c \in Clients /\ c \in cs \ dead /\ cl2[c].last = cl[c].last /\ cl[c].last \in Nat
      BY <1>4, <1>5, <1>6 DEF ClientsOK
    <2>2. InStep(c, cl[c].last, done, q, n)
      BY <1>4, <1>6, <2>1 DEF ClientsOK
    <2>3. IsFrame(q, 1) => c \in done
      BY <2>1
    <2>4. InStep(c, cl[c].last, {}, t, n)
      BY <1>1, <2>1, <2>2, <2>3, InStepRelease
    <2> QED BY <2>1, <2>4
  <1> HIDE DEF t
  <1>7. \A c \in Clients : cl2[c].last <= n
    <2> SUFFICES ASSUME NEW c \in Clients PROVE cl2[c].last <= n
      OBVIOUS
    <2>1. cl2[c].last \in {0, cl[c].last} /\ cl[c].last <= n
      BY <1>4, <1>5 DEF ClientsOK
    <2> QED BY <1>1, <2>1
  <1>8. \A c \in Clients : cl2[c].pc = "joining" => cl2[c].last = 0 /\ c \notin cs2
    <2> SUFFICES ASSUME NEW c \in Clients, cl2[c].pc = "joining"
                 PROVE  cl2[c].last = 0 /\ c \notin cs2
      OBVIOUS
    <2>1. c # q[1].who
      BY DEF Waiting
    <2> QED BY <1>4, <2>1 DEF ClientsOK
  <1>9. FanOutOK(cs2, t, {}, {})
    BY DEF FanOutOK
  <1>10. ClientsOK(cs2, t, {}, {}, n, cl2)
    BY <1>6, <1>7, <1>8 DEF ClientsOK, ClientStates
  <1> QED BY <1>1, <1>2, <1>3, <1>9, <1>10 DEF HubOK, t

\* A client moves outside the hub.
LEMMA ClientMoves ==
    ASSUME NEW cs, NEW q, NEW done, NEW dead, NEW n, NEW cl, HubOK(cs, q, done, dead, n, cl),
           NEW c \in Clients, cl[c].pc \notin Waiting, NEW cl2 \in ClientStates,
           cl2[c].pc # "joining",
           cl2[c].last = cl[c].last \/ (cl2[c].last = 0 /\ c \notin cs),
           \A d \in Clients : d # c => cl2[d] = cl[d]
    PROVE  HubOK(cs, q, done, dead, n, cl2)
  <1>1. QueueOK(q, cl2) /\ n \in Nat /\ NumbersOK(q, n)
    BY QueueSame DEF HubOK
  <1>2. FanOutOK(cs, q, done, dead) /\ ClientsOK(cs, q, done, dead, n, cl)
    BY DEF HubOK
  <1>3. \A d \in Clients : cl2[d].last <= n
    BY <1>1, <1>2 DEF ClientsOK
  <1>4. \A d \in Clients : cl2[d].pc = "joining" => cl2[d].last = 0 /\ d \notin cs
    BY <1>2 DEF ClientsOK
  <1>5. \A d \in cs \ dead : cl2[d].last # 0 => InStep(d, cl2[d].last, done, q, n)
    <2> SUFFICES ASSUME NEW d \in cs \ dead, cl2[d].last # 0
                 PROVE  InStep(d, cl2[d].last, done, q, n)
      OBVIOUS
    <2>1. cl2[d].last = cl[d].last
      BY <1>2 DEF FanOutOK
    <2> QED BY <1>2, <2>1 DEF ClientsOK
  <1>6. ClientsOK(cs, q, done, dead, n, cl2)
    BY <1>3, <1>4, <1>5 DEF ClientsOK, ClientStates
  <1> QED BY <1>1, <1>2, <1>6 DEF HubOK

-----------------------------------------------------------------------------
(* The hub's handlers, the streams and the clients.                        *)
LEMMA HubInit == ASSUME Init PROVE HubInv
  <1>1. hub = EmptyHub /\ client = [c \in Clients |-> ClosedClient]
    BY DEF Init
  <1>2. hub \in Hubs
    BY <1>1 DEF EmptyHub, Hubs
  <1>3. /\ hub.connections = {} /\ hub.queue = << >> /\ hub.done = {} /\ hub.dead = {}
        /\ hub.sequence = 0
    BY <1>1 DEF EmptyHub
  <1>4. HubOK({}, << >>, {}, {}, 0, client)
    <2>1. \A k : ~IsFrame(<< >>, k)
      BY EmptyIs DEF IsFrame
    <2>2. client \in [Clients -> [pc : PCs, last : Nat]] /\ \A c \in Clients : client[c] = ClosedClient
      BY <1>1 DEF ClosedClient, PCs
    <2>3. QueueOK(<< >>, client)
      BY EmptyIs DEF QueueOK
    <2>4. NumbersOK(<< >>, 0)
      BY <2>1 DEF NumbersOK
    <2>5. ClientsOK({}, << >>, {}, {}, 0, client)
      BY <2>2 DEF ClientsOK, ClosedClient
    <2> QED BY <2>3, <2>4, <2>5 DEF HubOK, FanOutOK
  <1>5. \A c \in Clients : client[c].pc = "closed"
    BY <1>1 DEF ClosedClient
  <1> QED BY <1>1, <1>2, <1>3, <1>4, <1>5 DEF HubInv

LEMMA HubDeath == ASSUME MemoryLost PROVE HubInv'
  <1>1. hub' = EmptyHub /\ client' = [c \in Clients |-> ClosedClient]
    BY DEF MemoryLost
  <1>2. hub' \in Hubs
    BY <1>1 DEF EmptyHub, Hubs
  <1>3. /\ hub'.connections = {} /\ hub'.queue = << >> /\ hub'.done = {} /\ hub'.dead = {}
        /\ hub'.sequence = 0
    BY <1>1 DEF EmptyHub
  <1>4. HubOK({}, << >>, {}, {}, 0, client')
    <2>1. \A k : ~IsFrame(<< >>, k)
      BY EmptyIs DEF IsFrame
    <2>2. client' \in [Clients -> [pc : PCs, last : Nat]] /\ \A c \in Clients : client'[c] = ClosedClient
      BY <1>1 DEF ClosedClient, PCs
    <2>3. QueueOK(<< >>, client')
      BY EmptyIs DEF QueueOK
    <2>4. NumbersOK(<< >>, 0)
      BY <2>1 DEF NumbersOK
    <2>5. ClientsOK({}, << >>, {}, {}, 0, client')
      BY <2>2 DEF ClientsOK, ClosedClient
    <2> QED BY <2>3, <2>4, <2>5 DEF HubOK, FanOutOK
  <1>5. \A c \in Clients : client'[c].pc = "closed"
    BY <1>1 DEF ClosedClient
  <1> QED BY <1>1, <1>2, <1>3, <1>4, <1>5 DEF HubInv

LEMMA HubQuiet == ASSUME HubInv, UNCHANGED <<hub, client>>, up' = up \/ up' PROVE HubInv'
  BY DEF HubInv, HubOK, QueueOK, NumbersOK, FanOutOK, ClientsOK, InStep, IsFrame

\* Nothing moves in the hub of a process that is down.
LEMMA HubAwake == ASSUME HubInv, TaskInv, HubStep PROVE up
  <1> SUFFICES ASSUME ~up PROVE FALSE
    OBVIOUS
  <1>1. /\ hub.queue = << >> /\ \A c \in Clients : client[c].pc = "closed"
        /\ \A r \in Requests : task[r].pc = "idle"
    BY DEF HubInv, EmptyHub, TaskInv, Idle
  <1>2. ASSUME NEW r \in Requests, Stream(r) \/ Respond(r) PROVE FALSE
    BY <1>1, <1>2 DEF Stream, Respond, Answering
  <1>3. CASE FinishFrame
    BY <1>1, <1>3 DEF FinishFrame, Broadcasting
  <1>4. ASSUME NEW c \in Clients,
               OperatorNote(c) \/ Connect(c) \/ Greet(c) \/ Disconnect(c) \/ Forget(c)
        PROVE  FALSE
    BY <1>1, <1>4 DEF OperatorNote, Connect, Greet, Disconnect, Forget
  <1>5. ASSUME NEW c \in Clients, Stalls(c) \/ SendFrame(c) \/ Join(c) \/ Leave(c) PROVE FALSE
    BY <1>1, <1>5 DEF Stalls, SendFrame, Join, Leave, Holds, Broadcasting
  <1> QED BY <1>2, <1>3, <1>4, <1>5 DEF HubStep

\* The hub a step leaves, when its parts agree.
LEMMA HubRebuilt ==
    ASSUME HubInv, up', NEW cs, NEW q, NEW done, NEW dead, NEW n,
           NEW st \in SUBSET hub.stalled,
           hub' = [connections |-> cs, queue |-> q, done |-> done, dead |-> dead,
                    stalled |-> st, sequence |-> n],
           HubOK(cs, q, done, dead, n, client')
    PROVE  HubInv'
  <1>1. q \in Seq(Items) /\ n \in Nat /\ cs \subseteq Clients /\ done \subseteq Clients
        /\ dead \subseteq Clients /\ st \subseteq Clients
    BY DEF HubOK, QueueOK, FanOutOK, HubInv, Hubs
  <1>2. hub' \in Hubs
    BY <1>1 DEF Hubs
  <1>3. hub'.connections = cs /\ hub'.queue = q /\ hub'.done = done /\ hub'.dead = dead
        /\ hub'.sequence = n
    OBVIOUS
  <1> QED BY <1>2, <1>3 DEF HubInv

LEMMA HubIs ==
    ASSUME HubInv
    PROVE  /\ hub = [connections |-> hub.connections, queue |-> hub.queue, done |-> hub.done,
                     dead |-> hub.dead, stalled |-> hub.stalled, sequence |-> hub.sequence]
           /\ HubOK(hub.connections, hub.queue, hub.done, hub.dead, hub.sequence, client)
           /\ hub.queue \in Seq(Items) /\ hub.sequence \in Nat
           /\ client \in ClientStates
  BY DEF HubInv, Hubs, HubOK, ClientsOK, ClientStates

\* The head of the queue holds the lock.
LEMMA HeadOfQueue ==
    ASSUME NEW q \in Seq(Items), q # << >>
    PROVE  Head(q) = q[1] /\ 1 \in 1 .. Len(q) /\ q[1] \in Items
           /\ (IsFrame(q, 1) <=> q[1].kind = "frame")
  BY HeadTailProperties, EmptySeq DEF IsFrame

LEMMA StreamKeeps ==
    ASSUME HubInv, up', NEW r \in Requests, Stream(r)
    PROVE  HubInv'
  <1> DEFINE x == [kind |-> "frame", who |-> r, sequence |-> hub.sequence + 1]
  <1>1. /\ hub = [connections |-> hub.connections, queue |-> hub.queue, done |-> hub.done,
                  dead |-> hub.dead, stalled |-> hub.stalled, sequence |-> hub.sequence]
        /\ HubOK(hub.connections, hub.queue, hub.done, hub.dead, hub.sequence, client)
        /\ hub.sequence \in Nat /\ client \in ClientStates
    BY HubIs
  <1>2. client' = client
        /\ hub' = [hub EXCEPT !.sequence = hub.sequence + 1, !.queue = Append(hub.queue, x)]
    BY DEF Stream, NextFrame, Asked
  <1>3. x \in Items /\ x.kind = "frame" /\ x.sequence = hub.sequence + 1 /\ x.who = r
    BY <1>1 DEF Items
  <1> HIDE DEF x
  <1>4. hub' = [connections |-> hub.connections, queue |-> Append(hub.queue, x), done |-> hub.done,
                dead |-> hub.dead, stalled |-> hub.stalled, sequence |-> hub.sequence + 1]
    BY <1>1, <1>2
  <1>5. \A c \in Clients : c # x.who
    BY <1>3, R5Assumption
  <1>6. HubOK(hub.connections, Append(hub.queue, x), hub.done, hub.dead, hub.sequence + 1, client')
    BY <1>1, <1>2, <1>3, <1>5, FrameQueued
  <1> QED BY <1>4, <1>6, HubRebuilt

LEMMA NoteKeeps ==
    ASSUME HubInv, up', NEW c \in Clients, OperatorNote(c)
    PROVE  HubInv'
  <1> DEFINE x == [kind |-> "frame", who |-> c, sequence |-> hub.sequence + 1]
  <1>1. /\ hub = [connections |-> hub.connections, queue |-> hub.queue, done |-> hub.done,
                  dead |-> hub.dead, stalled |-> hub.stalled, sequence |-> hub.sequence]
        /\ HubOK(hub.connections, hub.queue, hub.done, hub.dead, hub.sequence, client)
        /\ hub.sequence \in Nat /\ client \in ClientStates
    BY HubIs
  <1>2. /\ client[c].pc = "open" /\ client' = [client EXCEPT ![c].pc = "noting"]
        /\ hub' = [hub EXCEPT !.sequence = hub.sequence + 1, !.queue = Append(hub.queue, x)]
    BY DEF OperatorNote, NextFrame, Asked
  <1>3. x \in Items /\ x.kind = "frame" /\ x.sequence = hub.sequence + 1 /\ x.who = c
    BY <1>1 DEF Items
  <1> HIDE DEF x
  <1>4. hub' = [connections |-> hub.connections, queue |-> Append(hub.queue, x), done |-> hub.done,
                dead |-> hub.dead, stalled |-> hub.stalled, sequence |-> hub.sequence + 1]
    BY <1>1, <1>2
  <1>5. client' \in ClientStates
        /\ \A d \in Clients : /\ client'[d].last = client[d].last
                              /\ d # c => client'[d].pc = client[d].pc
                              /\ d = c => client[d].pc \notin Waiting /\ client'[d].pc = "noting"
    BY <1>1, <1>2 DEF ClientStates, PCs, Waiting
  <1>6. HubOK(hub.connections, Append(hub.queue, x), hub.done, hub.dead, hub.sequence + 1, client')
    BY <1>1, <1>3, <1>5, FrameQueued
  <1> QED BY <1>4, <1>6, HubRebuilt

LEMMA AskKeeps ==
    ASSUME HubInv, up', NEW c \in Clients, Connect(c) \/ Disconnect(c)
    PROVE  HubInv'
  <1> DEFINE X(kind) == [kind |-> kind, who |-> c, sequence |-> 0]
  <1>1. /\ hub = [connections |-> hub.connections, queue |-> hub.queue, done |-> hub.done,
                  dead |-> hub.dead, stalled |-> hub.stalled, sequence |-> hub.sequence]
        /\ HubOK(hub.connections, hub.queue, hub.done, hub.dead, hub.sequence, client)
        /\ hub.sequence \in Nat /\ client \in ClientStates
    BY HubIs
  <1>2. PICK x : /\ hub' = [hub EXCEPT !.queue = Append(hub.queue, x)]
                 /\ x \in Items /\ x.kind # "frame" /\ x.who = c
                 /\ client'[c].pc = WaitsAs(x.kind)
                 /\ \/ client'[c].last = client[c].last /\ x.kind # "connect"
                    \/ client'[c].last = 0 /\ c \notin hub.connections
    <2>1. CASE Connect(c)
      <3>1. X("connect") \in Items /\ X("connect").kind = "connect" /\ X("connect").who = c
        BY DEF Items
      <3>2. /\ hub' = [hub EXCEPT !.queue = Append(hub.queue, X("connect"))]
            /\ c \notin hub.connections
            /\ client' = [client EXCEPT ![c] = [pc |-> "joining", last |-> 0]]
        BY <2>1 DEF Connect, Asked
      <3>3. client'[c].pc = WaitsAs("connect") /\ client'[c].last = 0
        BY <1>1, <3>2 DEF ClientStates, WaitsAs
      <3> HIDE DEF X
      <3> QED BY <3>1, <3>2, <3>3
    <2>2. CASE Disconnect(c)
      <3>1. X("disconnect") \in Items /\ X("disconnect").kind = "disconnect" /\ X("disconnect").who = c
        BY DEF Items
      <3>2. /\ hub' = [hub EXCEPT !.queue = Append(hub.queue, X("disconnect"))]
            /\ client' = [client EXCEPT ![c].pc = "leaving"]
        BY <2>2 DEF Disconnect, Asked
      <3>3. client'[c].pc = WaitsAs("disconnect") /\ client'[c].last = client[c].last
        BY <1>1, <3>2 DEF ClientStates, WaitsAs
      <3> HIDE DEF X
      <3> QED BY <3>1, <3>2, <3>3
    <2> QED BY <2>1, <2>2
  <1>3. hub' = [connections |-> hub.connections, queue |-> Append(hub.queue, x), done |-> hub.done,
                dead |-> hub.dead, stalled |-> hub.stalled, sequence |-> hub.sequence]
    BY <1>1, <1>2
  <1>4. /\ client' \in ClientStates /\ client[c].pc \notin Waiting
        /\ \A d \in Clients : d # c => client'[d] = client[d]
    <2>1. CASE Connect(c)
      <3>1. client[c].pc = "closed" /\ client' = [client EXCEPT ![c] = [pc |-> "joining", last |-> 0]]
        BY <2>1 DEF Connect
      <3> QED BY <1>1, <3>1 DEF ClientStates, PCs, Waiting
    <2>2. CASE Disconnect(c)
      <3>1. client[c].pc = "open" /\ client' = [client EXCEPT ![c].pc = "leaving"]
        BY <2>2 DEF Disconnect
      <3> QED BY <1>1, <3>1 DEF ClientStates, PCs, Waiting
    <2> QED BY <2>1, <2>2
  <1>5. HubOK(hub.connections, Append(hub.queue, x), hub.done, hub.dead, hub.sequence, client')
    BY <1>1, <1>2, <1>4, LockAsked
  <1> QED BY <1>3, <1>5, HubRebuilt

LEMMA SendKeeps ==
    ASSUME HubInv, up', NEW c \in Clients, SendFrame(c)
    PROVE  HubInv'
  <1>1. /\ hub = [connections |-> hub.connections, queue |-> hub.queue, done |-> hub.done,
                  dead |-> hub.dead, stalled |-> hub.stalled, sequence |-> hub.sequence]
        /\ HubOK(hub.connections, hub.queue, hub.done, hub.dead, hub.sequence, client)
        /\ hub.queue \in Seq(Items) /\ hub.sequence \in Nat /\ client \in ClientStates
    BY HubIs
  <1>2. /\ c \in hub.connections \ hub.done /\ hub.queue # << >>
        /\ Head(hub.queue) = hub.queue[1] /\ IsFrame(hub.queue, 1)
    BY <1>1, HeadOfQueue DEF SendFrame, Broadcasting
  <1>3. CASE /\ client' = [client EXCEPT ![c].last = Head(hub.queue).sequence]
             /\ hub' = [hub EXCEPT !.done = @ \cup {c}, !.stalled = @ \ {c}]
    <2>1. hub' = [connections |-> hub.connections, queue |-> hub.queue, done |-> hub.done \cup {c},
                  dead |-> hub.dead, stalled |-> hub.stalled \ {c}, sequence |-> hub.sequence]
      BY <1>1, <1>3
    <2>2. /\ client' \in ClientStates /\ client'[c].pc = client[c].pc
          /\ client'[c].last = hub.queue[1].sequence
          /\ \A d \in Clients : d # c => client'[d] = client[d]
      <3>1. hub.queue[1].sequence \in Nat
        BY <1>1, <1>2, HeadOfQueue DEF Items
      <3> QED BY <1>1, <1>2, <1>3, <3>1 DEF ClientStates
    <2>3. HubOK(hub.connections, hub.queue, hub.done \cup {c}, hub.dead, hub.sequence, client')
      BY <1>1, <1>2, <2>2, FrameSent
    <2> QED BY <2>1, <2>3, HubRebuilt
  <1>4. CASE /\ hub' = [hub EXCEPT !.done = @ \cup {c}, !.dead = @ \cup {c}, !.stalled = @ \ {c}]
             /\ client' = client
    <2>1. hub' = [connections |-> hub.connections, queue |-> hub.queue, done |-> hub.done \cup {c},
                  dead |-> hub.dead \cup {c}, stalled |-> hub.stalled \ {c}, sequence |-> hub.sequence]
      BY <1>1, <1>4
    <2>2. HubOK(hub.connections, hub.queue, hub.done \cup {c}, hub.dead \cup {c}, hub.sequence, client')
      BY <1>1, <1>2, <1>4, FrameRefused
    <2> QED BY <2>1, <2>2, HubRebuilt
  <1> QED BY <1>3, <1>4 DEF SendFrame

LEMMA StallKeeps ==
    ASSUME HubInv, up', NEW c \in Clients, Stalls(c)
    PROVE  HubInv'
  <1>1. /\ hub' = [hub EXCEPT !.stalled = @ \cup {c}] /\ client' = client /\ hub \in Hubs
        /\ HubOK(hub.connections, hub.queue, hub.done, hub.dead, hub.sequence, client)
    BY DEF Stalls, HubInv
  <1>2. /\ hub' \in Hubs
        /\ hub'.connections = hub.connections /\ hub'.queue = hub.queue /\ hub'.done = hub.done
        /\ hub'.dead = hub.dead /\ hub'.sequence = hub.sequence
    BY <1>1 DEF Hubs
  <1>3. HubOK(hub'.connections, hub'.queue, hub'.done, hub'.dead, hub'.sequence, client')
    BY <1>1, <1>2
  <1> QED BY <1>2, <1>3 DEF HubInv

LEMMA FinishKeeps ==
    ASSUME HubInv, up', FinishFrame
    PROVE  HubInv'
  <1> DEFINE q == hub.queue
             cs == hub.connections \ hub.dead
  <1>1. /\ hub = [connections |-> hub.connections, queue |-> q, done |-> hub.done,
                  dead |-> hub.dead, stalled |-> hub.stalled, sequence |-> hub.sequence]
        /\ HubOK(hub.connections, q, hub.done, hub.dead, hub.sequence, client)
        /\ q \in Seq(Items) /\ hub.sequence \in Nat /\ client \in ClientStates
    BY HubIs
  <1>2. q # << >> /\ Head(q) = q[1] /\ hub.done = hub.connections
    BY <1>1, HeadOfQueue DEF FinishFrame, Broadcasting
  <1>3. hub' = [connections |-> cs, queue |-> Tail(q), done |-> {}, dead |-> {},
                stalled |-> hub.stalled, sequence |-> hub.sequence]
    <2>1. hub' = [hub EXCEPT !.connections = hub.connections \ hub.dead, !.queue = Tail(q),
                             !.done = {}, !.dead = {}]
      BY DEF FinishFrame, Dropped, Released
    <2> QED BY <1>1, <2>1
  <1>4. cs \subseteq Clients
    BY <1>1 DEF HubOK, FanOutOK
  <1>5. /\ client' \in ClientStates
        /\ \A c \in Clients : c # q[1].who => client'[c] = client[c]
        /\ q[1].who \in Clients => /\ client'[q[1].who].last = client[q[1].who].last
                                   /\ client'[q[1].who].pc \notin Waiting
    <2> DEFINE w == q[1].who
    <2>1. \/ w \in Requests /\ client' = client
          \/ w \in Clients /\ client' = [client EXCEPT ![w].pc = "open"]
      BY <1>2 DEF FinishFrame
    <2> HIDE DEF w
    <2>2. CASE w \in Requests /\ client' = client
      BY <1>1, <2>2, R5Assumption DEF w
    <2>3. CASE w \in Clients /\ client' = [client EXCEPT ![w].pc = "open"]
      <3>1. /\ client' \in ClientStates /\ \A c \in Clients : c # w => client'[c] = client[c]
            /\ client'[w].last = client[w].last /\ client'[w].pc \notin Waiting
        BY <1>1, <2>3 DEF ClientStates, PCs, Waiting
      <3> QED BY <3>1 DEF w
    <2> QED BY <2>1, <2>2, <2>3
  <1> HIDE DEF q
  <1>6. \A c \in cs : c \in hub.connections \ hub.dead
    OBVIOUS
  <1> HIDE DEF cs
  <1>7. HubOK(cs, Tail(q), {}, {}, hub.sequence, client')
    BY <1>1, <1>2, <1>4, <1>5, <1>6, LockReleased
  <1> QED BY <1>3, <1>7, HubRebuilt

\* A client whose handler holds the lock is added or removed.
LEMMA HolderKeeps ==
    ASSUME HubInv, up', NEW c \in Clients, Join(c) \/ Leave(c)
    PROVE  HubInv'
  <1> DEFINE q == hub.queue
  <1>1. /\ hub = [connections |-> hub.connections, queue |-> q, done |-> hub.done,
                  dead |-> hub.dead, stalled |-> hub.stalled, sequence |-> hub.sequence]
        /\ HubOK(hub.connections, q, hub.done, hub.dead, hub.sequence, client)
        /\ q \in Seq(Items) /\ hub.sequence \in Nat /\ client \in ClientStates
    BY HubIs
  <1>2. q # << >> /\ Head(q).who = c /\ Head(q).kind # "frame"
    BY DEF Join, Leave, Holds
  <1>3. q[1].who = c /\ ~IsFrame(q, 1) /\ 1 \in 1 .. Len(q) /\ q[1].kind = Head(q).kind
    BY <1>1, <1>2, HeadOfQueue
  <1>4. hub.done = {} /\ hub.dead = {} /\ hub.connections \subseteq Clients
    BY <1>1, <1>3 DEF HubOK, FanOutOK
  <1>5. PICK cs : /\ hub' = [hub EXCEPT !.connections = cs, !.queue = Tail(q)]
                  /\ cs \subseteq Clients
                  /\ \A d \in Clients : d # c /\ d \in cs => d \in hub.connections
                  /\ client'[c].last = 0 \/ c \notin cs
                  /\ client'[c].last \in {0, client[c].last}
                  /\ client' \in ClientStates /\ client'[c].pc \notin Waiting
                  /\ \A d \in Clients : d # c => client'[d] = client[d]
    <2>1. CASE Join(c)
      <3>1. /\ hub' = [hub EXCEPT !.connections = hub.connections \cup {c}, !.queue = Tail(q)]
            /\ client' = [client EXCEPT ![c].pc = "greeting"] /\ q[1].kind = "connect"
        BY <1>3, <2>1 DEF Join, Released, Holds
      <3>2. client[c].pc = "joining"
        <4>1. q[1].who = c /\ WaitsAs(q[1].kind) = "joining"
          BY <1>3, <3>1 DEF WaitsAs
        <4> HIDE DEF q
        <4> QED BY <1>1, <1>3, <4>1 DEF HubOK, QueueOK
      <3>3. client[c].last = 0
        BY <1>1, <3>2 DEF HubOK, ClientsOK
      <3>4. /\ client' \in ClientStates /\ client'[c].pc \notin Waiting
            /\ client'[c].last = 0 /\ \A d \in Clients : d # c => client'[d] = client[d]
        BY <1>1, <3>1, <3>3 DEF ClientStates, PCs, Waiting
      <3> WITNESS hub.connections \cup {c}
      <3>5. \A d \in Clients : d # c /\ d \in hub.connections \cup {c} => d \in hub.connections
        OBVIOUS
      <3> QED BY <1>4, <3>1, <3>4, <3>5
    <2>2. CASE Leave(c)
      <3>1. /\ hub' = [hub EXCEPT !.connections = hub.connections \ {c}, !.queue = Tail(q)]
            /\ client' = [client EXCEPT ![c] = ClosedClient]
        BY <2>2 DEF Leave, Released
      <3>2. /\ client' \in ClientStates /\ client'[c].pc \notin Waiting
            /\ client'[c].last = 0 /\ \A d \in Clients : d # c => client'[d] = client[d]
        BY <1>1, <3>1 DEF ClientStates, PCs, Waiting, ClosedClient
      <3> WITNESS hub.connections \ {c}
      <3> QED BY <1>4, <3>1, <3>2
    <2> QED BY <2>1, <2>2
  <1>6. hub' = [connections |-> cs, queue |-> Tail(q), done |-> {}, dead |-> {},
                stalled |-> hub.stalled, sequence |-> hub.sequence]
    BY <1>1, <1>4, <1>5
  <1> HIDE DEF q
  <1>7. \A d \in cs : client'[d].last # 0 => d \in hub.connections \ hub.dead
    BY <1>4, <1>5
  <1>8. HubOK(cs, Tail(q), {}, {}, hub.sequence, client')
    BY <1>1, <1>2, <1>3, <1>4, <1>5, <1>7, LockReleased
  <1> QED BY <1>6, <1>8, HubRebuilt

LEMMA ClientKeeps ==
    ASSUME HubInv, up', NEW c \in Clients, Greet(c) \/ Forget(c)
    PROVE  HubInv'
  <1>1. /\ hub = [connections |-> hub.connections, queue |-> hub.queue, done |-> hub.done,
                  dead |-> hub.dead, stalled |-> hub.stalled, sequence |-> hub.sequence]
        /\ HubOK(hub.connections, hub.queue, hub.done, hub.dead, hub.sequence, client)
        /\ client \in ClientStates
    BY HubIs
  <1>2. /\ client' \in ClientStates /\ hub' = hub
        /\ client[c].pc \notin Waiting /\ client'[c].pc # "joining"
        /\ client'[c].last = client[c].last \/ (client'[c].last = 0 /\ c \notin hub.connections)
        /\ \A d \in Clients : d # c => client'[d] = client[d]
    <2>1. CASE Greet(c)
      <3>1. client[c].pc = "greeting" /\ hub' = hub
        BY <2>1 DEF Greet
      <3>2. PICK pc \in {"open", "gone"} : client' = [client EXCEPT ![c].pc = pc]
        BY <2>1 DEF Greet
      <3> QED BY <1>1, <3>1, <3>2 DEF ClientStates, PCs, Waiting
    <2>2. CASE Forget(c)
      <3>1. /\ client[c].pc = "gone" /\ hub' = hub /\ c \notin hub.connections
            /\ client' = [client EXCEPT ![c] = ClosedClient]
        BY <2>2 DEF Forget
      <3> QED BY <1>1, <3>1 DEF ClientStates, PCs, Waiting, ClosedClient
    <2> QED BY <2>1, <2>2
  <1>3. HubOK(hub.connections, hub.queue, hub.done, hub.dead, hub.sequence, client')
    BY <1>1, <1>2, ClientMoves
  <1>4. hub' = [connections |-> hub.connections, queue |-> hub.queue, done |-> hub.done,
                dead |-> hub.dead, stalled |-> hub.stalled, sequence |-> hub.sequence]
    BY <1>1, <1>2
  <1> QED BY <1>3, <1>4, HubRebuilt

LEMMA HubStepKeeps ==
    ASSUME R5Inv, HubStep
    PROVE  HubInv'
  <1>1. HubInv /\ up'
    BY HubAwake, HubIsQuiet DEF R5Inv, AwakeVars
  <1>2. ASSUME NEW r \in Requests, Stream(r) PROVE HubInv'
    BY <1>1, <1>2, StreamKeeps
  <1>3. ASSUME NEW r \in Requests, Respond(r) PROVE HubInv'
    BY <1>1, <1>3, HubQuiet DEF Respond
  <1>4. CASE FinishFrame
    BY <1>1, <1>4, FinishKeeps
  <1>5. ASSUME NEW c \in Clients, OperatorNote(c) PROVE HubInv'
    BY <1>1, <1>5, NoteKeeps
  <1>6. ASSUME NEW c \in Clients, Connect(c) \/ Disconnect(c) PROVE HubInv'
    BY <1>1, <1>6, AskKeeps
  <1>7. ASSUME NEW c \in Clients, Greet(c) \/ Forget(c) PROVE HubInv'
    BY <1>1, <1>7, ClientKeeps
  <1>8. ASSUME NEW c \in Clients, SendFrame(c) PROVE HubInv'
    BY <1>1, <1>8, SendKeeps
  <1>9. ASSUME NEW c \in Clients, Join(c) \/ Leave(c) PROVE HubInv'
    BY <1>1, <1>9, HolderKeeps
  <1>10. ASSUME NEW c \in Clients, Stalls(c) PROVE HubInv'
    BY <1>1, <1>10, StallKeeps
  <1> QED BY <1>2, <1>3, <1>4, <1>5, <1>6, <1>7, <1>8, <1>9, <1>10 DEF HubStep

LEMMA StalledStep == ASSUME HubInv, StalledInv, HubStep PROVE StalledInv'
  <1>1. hub \in Hubs /\ hub.queue \in Seq(Items)
    BY DEF HubInv, Hubs
  <1>2. ASSUME NEW x, NEW n,
               \/ hub' = [hub EXCEPT !.sequence = n, !.queue = Append(hub.queue, x)]
               \/ hub' = [hub EXCEPT !.queue = Append(hub.queue, x)]
        PROVE  StalledInv'
    <2>1. /\ hub'.stalled = hub.stalled /\ hub'.connections = hub.connections
          /\ hub'.done = hub.done /\ hub'.queue = Append(hub.queue, x)
      BY <1>1, <1>2 DEF Hubs
    <2>2. hub.queue # << >> => /\ Append(hub.queue, x) # << >>
                               /\ Head(Append(hub.queue, x)) = Head(hub.queue)
      BY <1>1
    <2> QED BY <2>1, <2>2 DEF StalledInv, Broadcasting
  <1>3. ASSUME hub' = hub PROVE StalledInv'
    BY <1>3 DEF StalledInv, Broadcasting
  <1>4. ASSUME NEW r \in Requests, Stream(r) \/ Respond(r) PROVE StalledInv'
    BY <1>2, <1>3, <1>4 DEF Stream, Respond, NextFrame, Asked
  <1>5. ASSUME NEW c \in Clients, OperatorNote(c) \/ Connect(c) \/ Disconnect(c) PROVE StalledInv'
    BY <1>2, <1>5 DEF OperatorNote, Connect, Disconnect, NextFrame, Asked
  <1>6. ASSUME NEW c \in Clients, Greet(c) \/ Forget(c) PROVE StalledInv'
    BY <1>3, <1>6 DEF Greet, Forget
  <1>7. CASE FinishFrame
    <2>1. hub.stalled = {} /\ hub'.stalled = hub.stalled
      BY <1>1, <1>7 DEF FinishFrame, Dropped, StalledInv, Hubs
    <2> QED BY <2>1 DEF StalledInv
  <1>8. ASSUME NEW c \in Clients, Join(c) \/ Leave(c) PROVE StalledInv'
    <2>1. hub.stalled = {} /\ hub'.stalled = hub.stalled
      BY <1>1, <1>8 DEF Join, Leave, Holds, Broadcasting, StalledInv, Hubs
    <2> QED BY <2>1 DEF StalledInv
  <1>9. ASSUME NEW c \in Clients, Stalls(c) \/ SendFrame(c) PROVE StalledInv'
    <2>1. /\ Broadcasting /\ hub'.queue = hub.queue /\ hub'.connections = hub.connections
          /\ c \in hub.connections \ hub.done
          /\ \/ hub'.done = hub.done \cup {c} /\ hub'.stalled = hub.stalled \ {c}
             \/ hub'.done = hub.done /\ hub'.stalled = hub.stalled \cup {c}
      BY <1>1, <1>9 DEF Stalls, SendFrame, Hubs
    <2> QED BY <2>1 DEF StalledInv, Broadcasting
  <1> QED BY <1>4, <1>5, <1>6, <1>7, <1>8, <1>9 DEF HubStep

LEMMA TaskHubStep ==
    ASSUME R5Inv, HubStep
    PROVE  TaskInv'
  <1>1. /\ CoreInv /\ TaskInv /\ HubInv /\ up' /\ ledger' = ledger /\ up' = up
        /\ IsSeq(ledger.entries) /\ task \in [Requests -> Tasks]
        /\ \A r \in Requests : CitesOK(task[r], ledger.entries)
    BY HubAwake, HubIsQuiet DEF R5Inv, AwakeVars, CoreInv, EntriesOK, TaskInv
  <1>2. ASSUME NEW r \in Requests, NEW t, task' = [task EXCEPT ![r] = t], t \in Tasks,
               t.entry = task[r].entry, t.decision = task[r].decision
        PROVE  TaskInv'
    <2>1. CitesOK(t, ledger'.entries)
      BY <1>1, <1>2 DEF CitesOK
    <2> QED BY <1>1, <1>2, <2>1, TaskMoves
  <1>3. ASSUME NEW r \in Requests, Stream(r) PROVE TaskInv'
    <2> DEFINE t == [task[r] EXCEPT !.pc = "broadcasting", !.frames = Tail(task[r].frames)]
    <2>1. task[r] \in Tasks /\ task[r].frames # << >> /\ task[r].frames \in Seq(Frames)
      BY <1>1, <1>3 DEF Stream, Tasks
    <2>2. Tail(task[r].frames) \in Seq(Frames)
      BY <2>1
    <2>3. t \in Tasks /\ t.entry = task[r].entry /\ t.decision = task[r].decision
      BY <2>1, <2>2 DEF Tasks
    <2>4. task' = [task EXCEPT ![r] = t]
      BY <1>1, <1>3 DEF Stream
    <2> HIDE DEF t
    <2> QED BY <1>2, <2>3, <2>4
  <1>4. ASSUME NEW r \in Requests, Respond(r) PROVE TaskInv'
    <2>1. task' = [task EXCEPT ![r] = Idle]
      BY <1>4 DEF Respond
    <2> QED BY <1>1, <2>1, IdleIs, CitesIdle, TaskMoves
  <1>5. CASE FinishFrame
    <2> DEFINE w == Head(hub.queue).who
    <2>1. \/ w \in Requests /\ task' = [task EXCEPT ![w].pc = "streaming"]
          \/ task' = task
      BY <1>5 DEF FinishFrame
    <2> HIDE DEF w
    <2>2. CASE task' = task
      BY <1>1, <2>2, TaskQuiet
    <2>3. CASE w \in Requests /\ task' = [task EXCEPT ![w].pc = "streaming"]
      <3> DEFINE t == [task[w] EXCEPT !.pc = "streaming"]
      <3>1. task[w] \in Tasks
        BY <1>1, <2>3
      <3>2. t \in Tasks /\ t.entry = task[w].entry /\ t.decision = task[w].decision
        BY <3>1 DEF Tasks
      <3>3. task' = [task EXCEPT ![w] = t]
        BY <1>1, <2>3
      <3> HIDE DEF t
      <3> QED BY <1>2, <2>3, <3>2, <3>3
    <2> QED BY <2>1, <2>2, <2>3
  <1>6. ASSUME NEW c \in Clients,
               \/ OperatorNote(c) \/ Connect(c) \/ Greet(c) \/ Disconnect(c) \/ Forget(c)
               \/ Stalls(c) \/ SendFrame(c) \/ Join(c) \/ Leave(c)
        PROVE  TaskInv'
    <2>1. task' = task
      BY <1>6 DEF OperatorNote, Connect, Greet, Disconnect, Forget, Stalls, SendFrame, Join, Leave
    <2> QED BY <1>1, <2>1, TaskQuiet
  <1> QED BY <1>3, <1>4, <1>5, <1>6 DEF HubStep

-----------------------------------------------------------------------------
(* The invariant is kept by every step.                                    *)
LEMMA R5Start == ASSUME Init PROVE R5Inv
  <1>1. StalledInv
    BY DEF Init, EmptyHub, StalledInv
  <1> QED BY <1>1, CoreInit, TaskInit, HubInit DEF R5Inv

LEMMA R5Step == ASSUME R5Inv, [Next]_vars PROVE R5Inv'
  <1>1. CoreInv /\ TaskInv /\ HubInv /\ StalledInv
    BY DEF R5Inv
  <1>2. CoreInv'
    BY <1>1, CoreStep
  <1>3. ASSUME NEW configured \in Modes, Start(configured) PROVE TaskInv' /\ HubInv'
    <2>1. TaskInv'
      BY <1>1, <1>3, TaskStart
    <2>2. HubInv'
      BY <1>1, <1>3, HubQuiet DEF Start
    <2> QED BY <2>1, <2>2
  <1>4. ASSUME Die PROVE TaskInv' /\ HubInv'
    BY <1>4, TaskDeath, HubDeath DEF Die
  <1>5. ASSUME NEW nonce \in Nonces, SignOath(nonce) PROVE TaskInv' /\ HubInv'
    <2>1. UNCHANGED <<task, ledger, up, hub, client>>
      BY <1>5 DEF SignOath
    <2> QED BY <1>1, <2>1, TaskQuiet, HubQuiet
  <1>6. ASSUME NEW r \in Requests, NEW event \in Events, Adjudicate(r, event)
        PROVE  TaskInv' /\ HubInv'
    <2>1. TaskInv'
      BY <1>1, <1>6, TaskAdjudicate
    <2>2. UNCHANGED <<hub, client, up>> \/ MemoryLost
      BY <1>6 DEF Adjudicate, DieWriting
    <2> QED BY <1>1, <2>1, <2>2, HubQuiet, HubDeath
  <1>7. ASSUME NEW r \in Requests, NEW target \in Modes, NEW oath \in oaths,
               RequestTransition(r, target, oath)
        PROVE  TaskInv' /\ HubInv'
    <2>1. TaskInv'
      BY <1>1, <1>7, TaskTransition
    <2>2. UNCHANGED <<hub, client, up>> \/ MemoryLost
      BY <1>7 DEF RequestTransition, DieWriting
    <2> QED BY <1>1, <2>1, <2>2, HubQuiet, HubDeath
  <1>8. ASSUME HubStep PROVE TaskInv' /\ HubInv'
    BY <1>8, HubStepKeeps, TaskHubStep
  <1>9. ASSUME UNCHANGED vars PROVE TaskInv' /\ HubInv'
    <2>1. UNCHANGED <<task, ledger, up, hub, client>>
      BY <1>9 DEF vars
    <2> QED BY <1>1, <2>1, TaskQuiet, HubQuiet
  <1>10. TaskInv' /\ HubInv'
    BY <1>1, <1>3, <1>4, <1>5, <1>6, <1>7, <1>8, <1>9, NextIs
  <1>11. StalledInv'
    <2>1. UNCHANGED hub \/ MemoryLost \/ HubStep
      BY <1>1, NextIs DEF Start, Die, SignOath, Adjudicate, RequestTransition, DieWriting, vars
    <2>2. CASE UNCHANGED hub
      BY <1>1, <2>2 DEF StalledInv, Broadcasting
    <2>3. CASE MemoryLost
      BY <2>3 DEF MemoryLost, EmptyHub, StalledInv
    <2>4. CASE HubStep
      BY <1>1, <2>4, StalledStep
    <2> QED BY <2>1, <2>2, <2>3, <2>4
  <1> QED BY <1>2, <1>10, <1>11 DEF R5Inv

(* At every step of the server, its handlers and its hub, memory, file and *)
(* queue agree as R5Inv says: the inductive invariant of the theorems      *)
(* below.                                                                  *)
THEOREM ServerInvariant == FairSpec => []R5Inv
  <1>1. Init => R5Inv
    BY R5Start
  <1>2. R5Inv /\ [Next]_vars => R5Inv'
    BY R5Step
  <1> QED BY <1>1, <1>2, PTL DEF FairSpec

\* The types the run checks, from the invariant.
LEMMA TypesHold == ASSUME R5Inv PROVE TypeOK
  <1>1. CoreInv /\ TaskInv /\ HubInv
    BY DEF R5Inv
  <1>2. \A r \in Requests :
          /\ task[r].pc \in {"idle", "streaming", "broadcasting"}
          /\ Range(task[r].frames) \subseteq Frames
          /\ task[r].entry \in 0 .. Len(ledger.entries)
          /\ task[r].decision \in Decisions
    <2> SUFFICES ASSUME NEW r \in Requests
                 PROVE  /\ task[r].pc \in {"idle", "streaming", "broadcasting"}
                        /\ Range(task[r].frames) \subseteq Frames
                        /\ task[r].entry \in 0 .. Len(ledger.entries)
                        /\ task[r].decision \in Decisions
      OBVIOUS
    <2>1. task[r] \in Tasks /\ CitesOK(task[r], ledger.entries)
      BY <1>1 DEF TaskInv
    <2>2. Len(ledger.entries) \in Nat
      BY <1>1, SeqIs DEF CoreInv, EntriesOK
    <2>3. task[r].frames \in Seq(Frames)
      BY <2>1 DEF Tasks
    <2>4. Range(task[r].frames) \subseteq Frames
      BY <2>3 DEF Range
    <2> QED BY <2>1, <2>2, <2>4 DEF Tasks, CitesOK
  <1>3. /\ hub.done \subseteq hub.connections /\ hub.dead \subseteq hub.done
        /\ hub.connections \subseteq Clients /\ hub.stalled \subseteq hub.connections \ hub.done
    BY <1>1 DEF HubInv, HubOK, FanOutOK, R5Inv, StalledInv
  <1>4. \A c \in Clients : client[c].last \in 0 .. hub.sequence
    BY <1>1 DEF HubInv, HubOK, ClientsOK
  <1>5. /\ torn \in BOOLEAN /\ up \in BOOLEAN /\ mode \in Modes \cup {NoMode}
        /\ used \subseteq Nonces /\ oaths \subseteq [nonce : Nonces, epoch : Nat]
        /\ faults \in 0 .. bound.faults
    BY <1>1 DEF CoreInv
  <1> QED BY <1>2, <1>3, <1>4, <1>5 DEF TypeOK

(* Whatever interleaves with a handler that is awaiting, the mode in force *)
(* is the one a restart recovers, and no answer differs from the entry it  *)
(* cites.                                                                  *)
THEOREM FollowsLedger == FairSpec => []ServerFollowsLedger
  <1>1. R5Inv => ServerFollowsLedger
    <2> SUFFICES ASSUME R5Inv PROVE ServerFollowsLedger
      OBVIOUS
    <2>1. CoreInv /\ TaskInv
      BY DEF R5Inv
    <2>2. ModeIsLedgered
      <3> SUFFICES ASSUME up, ledger.entries # << >>
                   PROVE  mode = recover_last_mode(ledger.entries, mode)
        BY DEF ModeIsLedgered
      <3> DEFINE s == ledger.entries
      <3>1. IsSeq(s) /\ mode = s[Len(s)].operating_mode /\ EntriesOK(s)
        BY <2>1 DEF CoreInv, ModeOK, EntriesOK
      <3> HIDE DEF s
      <3>2. Len(s) # 0 /\ Len(s) \in 1 .. Len(s)
        BY <3>1, SeqEmpty, SeqIs DEF s
      <3>3. EntryOK(s[Len(s)])
        BY <3>1, <3>2 DEF EntriesOK
      <3>4. recover_last_mode(s, mode) = s[Len(s)].operating_mode
        BY <3>1, <3>2, <3>3, RecoverIs
      <3> QED BY <3>1, <3>4 DEF s
    <2>3. AnswerIsLedgered
      BY <2>1 DEF AnswerIsLedgered, Answer, TaskInv, CitesOK
    <2> QED BY <2>2, <2>3, TypesHold DEF ServerFollowsLedger
  <1> QED BY <1>1, ServerInvariant, PTL

(* Across failed and torn writes, deaths and restarts, ENFORCE is reached  *)
(* only through SHADOW_CRITICAL, and an oath moves the mode at most once.  *)
THEOREM EarnedTransitions == FairSpec => []TransitionsEarned
  <1>1. R5Inv => TransitionsEarned
    <2> SUFFICES ASSUME R5Inv PROVE TransitionsEarned
      OBVIOUS
    <2>1. EntriesOK(lines) /\ Earned(lines) /\ Once(lines, oaths) /\ IsSeq(lines)
      BY DEF R5Inv, CoreInv, DiskOK, EntriesOK
    <2>2. Len(lines) \in Nat /\ DOMAIN lines = 1 .. Len(lines)
      BY <2>1, SeqIs
    <2>3. ASSUME NEW i \in 2 .. Len(lines)
          PROVE  recover_last_mode(SubSeq(lines, 1, i - 1), NoMode) = lines[i - 1].operating_mode
      <3> DEFINE s == SubSeq(lines, 1, i - 1)
      <3>1. PICK S : lines \in Seq(S)
        BY <2>1 DEF IsSeq
      <3>2. /\ 1 \in 1 .. Len(lines) + 1 /\ i - 1 \in 0 .. Len(lines) /\ i - 1 \in 1 .. Len(lines)
            /\ i - 1 \in 1 .. i - 1 /\ i - 1 # 0
        BY <2>2
      <3>3. s \in Seq(S) /\ Len(s) = i - 1 /\ \A n \in 1 .. i - 1 : s[n] = lines[n]
        BY <2>2, <3>1, <3>2, SubSeqProperties
      <3> HIDE DEF s
      <3>4. s[Len(s)] = lines[i - 1] /\ IsSeq(s) /\ Len(s) # 0
        BY <3>2, <3>3 DEF IsSeq
      <3>5. EntryOK(s[Len(s)])
        BY <2>1, <3>2, <3>4 DEF EntriesOK
      <3>6. recover_last_mode(s, NoMode) = s[Len(s)].operating_mode
        BY <3>4, <3>5, RecoverIs
      <3> QED BY <3>4, <3>6 DEF s
    <2>4. EnforceIsEarned
      BY <2>1, <2>3 DEF EnforceIsEarned, Earned
    <2>5. OathUsedOnce
      BY <2>1, <2>2 DEF OathUsedOnce, Once
    <2> QED BY <2>4, <2>5 DEF TransitionsEarned
  <1> QED BY <1>1, ServerInvariant, PTL

(* A client that stays connected gets the frames in order and without a    *)
(* gap, whatever waits for the hub's lock.                                 *)
THEOREM GaplessFrames == FairSpec => FramesGapless
  <1> DEFINE Gapless == \A c \in Clients :
                            client'[c].last # client[c].last /\ client'[c].last # 0 /\ client[c].last # 0
                                => client'[c].last = client[c].last + 1
  <1>1. R5Inv /\ [Next]_vars => [Gapless]_vars
    <2> SUFFICES ASSUME R5Inv, [Next]_vars, NEW c \in Clients,
                        client'[c].last # client[c].last, client'[c].last # 0, client[c].last # 0
                 PROVE  client'[c].last = client[c].last + 1
      OBVIOUS
    <2>1. CoreInv /\ HubInv
      BY DEF R5Inv
    <2>2. client \in ClientStates /\ hub.queue \in Seq(Items) /\ hub.sequence \in Nat
          /\ HubOK(hub.connections, hub.queue, hub.done, hub.dead, hub.sequence, client)
      BY <2>1, HubIs
    <2>3. ~MemoryLost
      BY DEF MemoryLost, ClosedClient
    <2>4. client' # client
      OBVIOUS
    <2>5. HubStep
      <3>1. ~(\E configured \in Modes : Start(configured))
        BY <2>4 DEF Start
      <3>2. ~Die
        BY <2>3 DEF Die
      <3>3. ~(\E nonce \in Nonces : SignOath(nonce))
        BY <2>4 DEF SignOath
      <3>4. ~(\E r \in Requests, event \in Events : Adjudicate(r, event))
        BY <2>3, <2>4 DEF Adjudicate, DieWriting
      <3>5. ~(\E r \in Requests, target \in Modes, oath \in oaths : RequestTransition(r, target, oath))
        BY <2>3, <2>4 DEF RequestTransition, DieWriting
      <3>6. ~(UNCHANGED vars)
        BY <2>4 DEF vars
      <3> QED BY <2>1, <3>1, <3>2, <3>3, <3>4, <3>5, <3>6, NextIs
    <2>6. ASSUME NEW d \in Clients, OperatorNote(d) \/ Greet(d) \/ Disconnect(d) \/ Join(d) PROVE FALSE
      <3>1. \E pc : client' = [client EXCEPT ![d].pc = pc]
        BY <2>6 DEF OperatorNote, Greet, Disconnect, Join
      <3> QED BY <2>2, <3>1 DEF ClientStates
    <2>7. ASSUME NEW d \in Clients, Connect(d) \/ Forget(d) \/ Leave(d) PROVE FALSE
      <3>1. \E x \in {ClosedClient, [pc |-> "joining", last |-> 0]} : client' = [client EXCEPT ![d] = x]
        BY <2>7 DEF Connect, Forget, Leave
      <3> QED BY <2>2, <3>1 DEF ClientStates, ClosedClient
    <2>8. CASE FinishFrame
      <3>1. \E w \in Clients : client' = [client EXCEPT ![w].pc = "open"]
        BY <2>4, <2>8 DEF FinishFrame
      <3> QED BY <2>2, <3>1 DEF ClientStates
    <2>9. (\E r \in Requests : Stream(r) \/ Respond(r)) \/ (\E d \in Clients : Stalls(d)) => FALSE
      BY <2>4 DEF Stream, Respond, Stalls
    <2>10. ASSUME NEW d \in Clients, SendFrame(d) PROVE client'[c].last = client[c].last + 1
      <3>1. client' = [client EXCEPT ![d].last = Head(hub.queue).sequence]
        BY <2>4, <2>10 DEF SendFrame
      <3>2. d = c /\ client'[c].last = Head(hub.queue).sequence
        BY <2>2, <3>1 DEF ClientStates
      <3>3. c \in hub.connections \ hub.done /\ IsFrame(hub.queue, 1)
            /\ Head(hub.queue) = hub.queue[1]
        BY <2>2, <2>10, <3>2, HeadOfQueue DEF SendFrame, Broadcasting
      <3>4. c \notin hub.dead
        BY <2>2, <3>3 DEF HubOK, FanOutOK
      <3>5. InStep(c, client[c].last, hub.done, hub.queue, hub.sequence) /\ client[c].last \in Nat
        BY <2>2, <3>3, <3>4 DEF HubOK, ClientsOK
      <3>6. NumbersOK(hub.queue, hub.sequence)
        BY <2>2 DEF HubOK
      <3>7. hub.queue[1].sequence = client[c].last + 1
        BY <2>2, <3>3, <3>5, <3>6, NextIsSent
      <3> QED BY <3>2, <3>3, <3>7
    <2> QED BY <2>5, <2>6, <2>7, <2>8, <2>9, <2>10 DEF HubStep
  <1> QED BY <1>1, ServerInvariant, PTL DEF FairSpec, FramesGapless

\* What an epoch table holds: full epochs sealed by the root of their own
\* entries, and the open one.
LEMMA SealedIs ==
    ASSUME NEW s, NEW cur, Shape(s, cur), NEW e \in 1 .. cur + 1, EpochOf(s, e - 1).sealed
    PROVE  LET ep == EpochOf(s, e - 1)
               g == EntriesOf(s, e - 1)
               leaves == [i \in 1 .. Len(g) |-> g[i].entry_hash]
           IN  /\ ep.entries = g /\ GroupOK(g, Len(s)) /\ Len(g) >= EPOCH_SIZE
               /\ ep.merkle_root = MerkleRoot(build_merkle_tree(leaves))
               /\ EpochLevels(ep) = build_merkle_tree(leaves)
  <1> DEFINE id == e - 1
             g == EntriesOf(s, id)
             raw == RawEpoch(id, g)
             leaves == [i \in 1 .. Len(g) |-> g[i].entry_hash]
  <1>1. cur \in Nat
    BY DEF Shape
  <1>2. id \in Nat
    BY <1>1
  <1>3. GroupOK(g, Len(s))
    BY <1>2 DEF Shape
  <1>4. EpochOf(s, id) = IF is_full(raw) THEN seal(raw) ELSE raw
    BY DEF EpochOf
  <1>5. raw.sealed = FALSE /\ raw.entries = g
    <2> HIDE DEF g, id
    <2> QED BY DEF RawEpoch, EpochRecord, Unsealed
  <1>6. EpochOf(s, id) = seal(raw) /\ Len(g) >= EPOCH_SIZE
    <2>1. is_full(raw) <=> Len(g) >= EPOCH_SIZE
      BY <1>5 DEF is_full
    <2> HIDE DEF raw
    <2> QED BY <1>4, <1>5, <2>1
  <1>7. EpochLevels(raw) = build_merkle_tree(leaves)
    <2> HIDE DEF raw, g
    <2> QED BY <1>5 DEF EpochLevels
  <1> HIDE DEF g, id, leaves
  <1>8. seal(raw) = [raw EXCEPT !.sealed = TRUE, !.merkle_root = MerkleRoot(EpochLevels(raw))]
    <2> HIDE DEF raw
    <2> QED BY <1>5 DEF seal
  <1> DEFINE root == MerkleRoot(EpochLevels(raw))
  <1> HIDE DEF root
  <1>9. seal(raw).entries = g /\ seal(raw).merkle_root = root
    <2>1. seal(raw) = [raw EXCEPT !.sealed = TRUE, !.merkle_root = root]
      BY <1>8 DEF root
    <2> QED BY <2>1 DEF RawEpoch, EpochRecord
  <1> HIDE DEF raw
  <1>10. EpochLevels(seal(raw)) = build_merkle_tree(leaves)
    BY <1>9 DEF EpochLevels, leaves
  <1> QED BY <1>3, <1>6, <1>7, <1>9, <1>10 DEF g, id, leaves, root

\* The digests of an epoch's entries are distinct: the ids they hash are.
LEMMA DigestsDiffer ==
    ASSUME NEW g, NEW n, GroupOK(g, n), NEW i \in 1 .. Len(g), NEW j \in 1 .. Len(g),
           g[i].entry_hash = g[j].entry_hash
    PROVE  i = j
  <1>1. /\ Len(g) \in Nat
        /\ g[i].entry_hash = compute_entry_hash(g[i].entry_id, g[i].override_nonce, g[i].override_nonce)
        /\ g[j].entry_hash = compute_entry_hash(g[j].entry_id, g[j].override_nonce, g[j].override_nonce)
    BY SeqIs DEF GroupOK
  <1>2. \A a, b, c, d : compute_entry_hash(a, b, b) = compute_entry_hash(c, d, d) => a = c
    BY DEF compute_entry_hash
  <1>3. g[i].entry_id = g[j].entry_id
    <2> DEFINE a == g[i].entry_id
               b == g[i].override_nonce
               c == g[j].entry_id
               d == g[j].override_nonce
    <2>1. compute_entry_hash(a, b, b) = compute_entry_hash(c, d, d)
      BY <1>1
    <2> HIDE DEF a, b, c, d
    <2>2. a = c
      BY <1>2, <2>1
    <2> QED BY <2>2 DEF a, c
  <1>4. /\ i < j => g[i].entry_id < g[j].entry_id
        /\ j < i => g[j].entry_id < g[i].entry_id
    BY DEF GroupOK
  <1>5. g[i].entry_id \in Int
    BY DEF GroupOK
  <1>6. ~(i < j) /\ ~(j < i)
    BY <1>3, <1>4, <1>5
  <1> QED BY <1>1, <1>6

(* As long as no write was torn, a restart rebuilds the epochs with their  *)
(* roots from the file; and at every time the audit path served for an     *)
(* entry of a sealed epoch verifies with that entry's digest only.         *)
THEOREM EpochsAreProvable == FairSpec => []EpochsProvable
  <1>1. R5Inv => EpochsProvable
    <2> SUFFICES ASSUME R5Inv PROVE EpochsProvable
      OBVIOUS
    <2>1. CoreInv
      BY DEF R5Inv
    <2>2. EpochsRebuilt
      <3> SUFFICES ASSUME up, ~torn PROVE ledger = LoadedLedger(lines) /\ verify_full_chain(lines)
        BY DEF EpochsRebuilt
      <3>1. ledger = LoadedLedger(lines)
        BY <2>1 DEF CoreInv
      <3>2. EntriesOK(lines) /\ Chained(lines) /\ IsSeq(lines)
        BY <2>1 DEF CoreInv, DiskOK, EntriesOK
      <3>3. DOMAIN lines = 1 .. Len(lines)
        BY <3>2, SeqIs
      <3>4. verify_full_chain(lines)
        BY <3>2, <3>3 DEF verify_full_chain, EntriesOK, EntryOK, Chained
      <3> QED BY <3>1, <3>4
    <2>3. ProofsVerify
      <3> DEFINE s == ledger.entries
      <3>1. PICK cur : Shape(s, cur)
        BY <2>1 DEF CoreInv, EntriesOK
      <3>2. ledger.epochs = EpochTable(s, cur)
        <4>1. ledger = LoadedLedger(s)
          BY <2>1 DEF CoreInv
        <4>2. LoadedLedger(s).epochs = EpochTable(s, cur)
          BY <3>1, LoadedIs, RebuiltIs
        <4> QED BY <4>1, <4>2
      <3> HIDE DEF s
      <3>3. /\ DOMAIN ledger.epochs = 1 .. cur + 1
            /\ \A n \in 1 .. cur + 1 : ledger.epochs[n] = EpochOf(s, n - 1)
        BY <3>2 DEF EpochTable
      <3> SUFFICES ASSUME NEW e \in 1 .. cur + 1, EpochOf(s, e - 1).sealed,
                          NEW i \in DOMAIN EpochOf(s, e - 1).entries,
                          NEW j \in DOMAIN EpochOf(s, e - 1).entries
                   PROVE  verify_merkle_proof(EpochOf(s, e - 1).entries[j].entry_hash,
                                              merkle_proof(i - 1, EpochLevels(EpochOf(s, e - 1))),
                                              EpochOf(s, e - 1).merkle_root)
                          <=> i = j
        BY <3>3 DEF ProofsVerify, get_merkle_proof
      <3> DEFINE ep == EpochOf(s, e - 1)
                 g == EntriesOf(s, e - 1)
                 leaves == [k \in 1 .. Len(g) |-> g[k].entry_hash]
                 levels == build_merkle_tree(leaves)
      <3>4. /\ ep.entries = g /\ GroupOK(g, Len(s)) /\ ep.merkle_root = MerkleRoot(levels)
            /\ EpochLevels(ep) = levels /\ Len(g) >= EPOCH_SIZE
        BY <3>1, SealedIs
      <3> HIDE DEF ep, g
      <3>5. Len(g) \in Nat /\ DOMAIN g = 1 .. Len(g)
        BY <3>4, SeqIs DEF GroupOK
      <3>6. i \in 1 .. Len(g) /\ j \in 1 .. Len(g)
        BY <3>4, <3>5 DEF ep
      <3>7. leaves[i] = g[i].entry_hash /\ leaves[j] = g[j].entry_hash
        BY <3>6
      <3>8. IsSeq(leaves) /\ Len(leaves) = Len(g) /\ Len(g) >= 2
        <4>1. leaves = [k \in 1 .. Len(g) |-> leaves[k]]
          OBVIOUS
        <4>2. Len(g) >= 2
          BY <3>4, <3>5, EpochSizeAssumption
        <4> HIDE DEF leaves
        <4> QED BY <3>5, <4>1, <4>2, TableIs
      <3> HIDE DEF leaves
      <3>9. leaves[i] = leaves[j] => i = j
        BY <3>4, <3>6, <3>7, DigestsDiffer
      <3>10. verify_merkle_proof(leaves[j], merkle_proof(i - 1, levels), MerkleRoot(levels)) <=> i = j
        BY <3>6, <3>8, <3>9, AuditPathsVerify
      <3> HIDE DEF levels
      <3>11. ep.entries[j].entry_hash = leaves[j]
        BY <3>4, <3>7
      <3>12. verify_merkle_proof(ep.entries[j].entry_hash, merkle_proof(i - 1, EpochLevels(ep)),
                                 ep.merkle_root)
             <=> i = j
        BY <3>4, <3>10, <3>11
      <3> QED BY <3>12 DEF ep
    <2> QED BY <2>2, <2>3 DEF EpochsProvable
  <1> QED BY <1>1, ServerInvariant, PTL
=============================================================================
