---------------------- MODULE ConsensusBackend_proofs ----------------------
(***************************************************************************)
(* Every behaviour of the budget protocol keeps its counters equal to the  *)
(* sums over its reservations, for any sets of keys, resources, amounts    *)
(* and capacities.  The adapters inherit this through their refinements.   *)
(*                                                                         *)
(* The first part proves what the library's sum over a set computes.  The  *)
(* induction theorems of the library take a predicate as a parameter; here *)
(* the predicate is a set, and the induction comes from the least element  *)
(* of a well-founded order.                                                *)
(***************************************************************************)
EXTENDS ConsensusBackend, FiniteSetTheorems, TLAPS

(* Induction without a predicate as parameter: a non-empty set of naturals *)
(* has a least element.                                                    *)
LEMMA LeastNatural ==
    ASSUME NEW S \in SUBSET Nat, S # {}
    PROVE  \E n \in S : \A m \in S : n <= m
<1> DEFINE Less == {ss \in Nat \X Nat : ss[1] < ss[2]}
<1>1. IsWellFoundedOn(Less, Nat)
  BY NatLessThanWellFounded DEF OpToRel
<1>2. PICK x \in S : \A y \in S : ~ <<y, x>> \in Less
  BY <1>1, WFMin
<1>3. \A y \in S : ~ (y < x)
  BY <1>2
<1> QED
  BY <1>3

\* A set of naturals with zero and closed under successor is all of them.
LEMMA NaturalsFromZero ==
    ASSUME NEW S \in SUBSET Nat, 0 \in S, \A n \in S : n + 1 \in S
    PROVE  S = Nat
<1> DEFINE T == Nat \ S
<1> SUFFICES ASSUME T # {} PROVE FALSE
  OBVIOUS
<1>1. PICK n \in T : \A m \in T : n <= m
  BY LeastNatural
<1>2. n - 1 \in Nat /\ n - 1 \in S
  BY <1>1
<1> QED
  BY <1>1, <1>2

\* The element a fold takes next.
Pick(s) == CHOOSE x \in s : TRUE

Iterates(g, f, s) == g[s] = IF s = {} THEN 0 ELSE f[Pick(s)] + g[s \ {Pick(s)}]

IsSum(g, f, S) ==
    g = [s \in SUBSET S |-> IF s = {} THEN 0 ELSE f[Pick(s)] + g[s \ {Pick(s)}]]

\* The recursion that defines a sum over a finite set has a solution.
LEMMA SumExists ==
    ASSUME NEW S, IsFiniteSet(S), NEW f
    PROVE  \E g : IsSum(g, f, S)
<1> DEFINE Upto(n) == \E g : /\ DOMAIN g = SUBSET S /\ g = [s \in SUBSET S |-> g[s]]
                             /\ \A s \in SUBSET S : Cardinality(s) <= n => Iterates(g, f, s)
           N == {n \in Nat : Upto(n)}
<1>0. \A s \in SUBSET S : IsFiniteSet(s) /\ Cardinality(s) \in Nat /\ Cardinality(s) <= Cardinality(S)
  BY FS_Subset, FS_CardinalityType
<1>1. 0 \in N
  <2> DEFINE g == [s \in SUBSET S |-> 0]
  <2>1. \A s \in SUBSET S : Cardinality(s) <= 0 => Iterates(g, f, s)
    BY <1>0, FS_EmptySet DEF Iterates
  <2>2. DOMAIN g = SUBSET S /\ g = [s \in SUBSET S |-> g[s]]
    OBVIOUS
  <2> QED
    BY <2>1, <2>2
<1>2. ASSUME NEW n \in N PROVE n + 1 \in N
  <2>1. PICK g : /\ DOMAIN g = SUBSET S /\ g = [s \in SUBSET S |-> g[s]]
                 /\ \A s \in SUBSET S : Cardinality(s) <= n => Iterates(g, f, s)
    BY <1>2
  <2> DEFINE h == [s \in SUBSET S |-> IF s = {} THEN 0
                     ELSE IF Cardinality(s) = n + 1 THEN f[Pick(s)] + g[s \ {Pick(s)}] ELSE g[s]]
  <2>2. ASSUME NEW s \in SUBSET S, Cardinality(s) <= n + 1 PROVE Iterates(h, f, s)
    <3>1. CASE s = {}
      BY <3>1 DEF Iterates
    <3>2. CASE s # {}
      <4>1. Pick(s) \in s
        BY <3>2 DEF Pick
      <4> DEFINE t == s \ {Pick(s)}
      <4>2. t \in SUBSET S /\ Cardinality(t) = Cardinality(s) - 1 /\ Cardinality(s) \in Nat /\ n \in Nat
        BY <4>1, <1>0, FS_RemoveElement
      <4>3. h[t] = g[t]
        <5>1. CASE t = {}
          <6>1. g[{}] = 0
            <7>1. {} \in SUBSET S /\ Cardinality({}) <= n
              BY <4>2, FS_EmptySet
            <7>2. Iterates(g, f, {})
              BY <7>1, <2>1
            <7> QED BY <7>2 DEF Iterates
          <6> QED BY <5>1, <6>1
        <5>2. CASE t # {}
          BY <5>2, <4>2, <2>2
        <5> QED BY <5>1, <5>2
      <4>4. CASE Cardinality(s) = n + 1
        BY <4>4, <4>3, <3>2 DEF Iterates
      <4>5. CASE Cardinality(s) # n + 1
        <5>1. h[s] = g[s]
          BY <4>5, <3>2
        <5>2. Iterates(g, f, s)
          <6>1. Cardinality(s) <= n
            BY <4>5, <4>2, <2>2
          <6> QED BY <6>1, <2>1
        <5> QED BY <5>1, <5>2, <4>3, <3>2 DEF Iterates
      <4> QED BY <4>4, <4>5
    <3> QED BY <3>1, <3>2
  <2>3. DOMAIN h = SUBSET S /\ h = [s \in SUBSET S |-> h[s]]
    OBVIOUS
  <2>4. n + 1 \in Nat
    OBVIOUS
  <2> HIDE DEF h
  <2>5. Upto(n + 1)
    BY <2>2, <2>3
  <2> QED
    BY <2>4, <2>5
<1>3. N = Nat
  <2> HIDE DEF Upto
  <2>1. N \in SUBSET Nat OBVIOUS
  <2> HIDE DEF N
  <2> QED BY <1>1, <1>2, <2>1, NaturalsFromZero
<1>4. Cardinality(S) \in N
  <2> HIDE DEF N
  <2> QED BY <1>3, <1>0
<1>5. PICK g : /\ DOMAIN g = SUBSET S /\ g = [s \in SUBSET S |-> g[s]]
               /\ \A s \in SUBSET S : Cardinality(s) <= Cardinality(S) => Iterates(g, f, s)
  BY <1>4
<1>6. \A s \in SUBSET S : g[s] = IF s = {} THEN 0 ELSE f[Pick(s)] + g[s \ {Pick(s)}]
  BY <1>5, <1>0 DEF Iterates
<1>7. IsSum(g, f, S)
  BY <1>5, <1>6 DEF IsSum
<1> QED
  BY <1>7

SumIter(f, S) == CHOOSE g : IsSum(g, f, S)

\* The library's sum is the value of that recursion.
LEMMA SumUnfold ==
    ASSUME NEW S, NEW f
    PROVE  SumFunctionOnSet(f, S) = SumIter(f, S)[S]
BY DEF SumFunctionOnSet, FoldFunctionOnSet, MapThenFoldSet, SumIter, IsSum, Pick

\* One step of the recursion.
LEMMA SumIterDef ==
    ASSUME NEW S, IsFiniteSet(S), NEW f, NEW s \in SUBSET S
    PROVE  SumIter(f, S)[s] =
              IF s = {} THEN 0 ELSE f[Pick(s)] + SumIter(f, S)[s \ {Pick(s)}]
<1> DEFINE G == SumIter(f, S)
<1>1. IsSum(G, f, S)
  BY SumExists DEF SumIter
<1> HIDE DEF G
<1>2. \A t \in SUBSET S : G[t] = IF t = {} THEN 0 ELSE f[Pick(t)] + G[t \ {Pick(t)}]
  BY <1>1 DEF IsSum
<1> QED
  BY <1>2 DEF G

\* Induction over the subsets of a finite set, likewise as a set of subsets.
LEMMA SubsetInduction ==
    ASSUME NEW S, IsFiniteSet(S), NEW G,
           \A T \in SUBSET S : (\A U \in SUBSET T : U # T => U \in G) => T \in G
    PROVE  SUBSET S \subseteq G
<1> DEFINE B == (SUBSET S) \ G
<1> SUFFICES ASSUME B # {} PROVE FALSE
  OBVIOUS
<1>1. B \subseteq FiniteSubsetsOf(S)
  BY FS_FiniteSubsetsOfFinite
<1>2. PICK T \in B : \A U \in B : ~ (<<U, T>> \in StrictSubsetOrdering(S))
  <2>1. IsWellFoundedOn(StrictSubsetOrdering(S), FiniteSubsetsOf(S))
    BY FS_StrictSubsetOrderingWellFounded
  <2> HIDE DEF B
  <2> QED
    BY <1>1, <2>1, WFMin
<1>3. \A U \in SUBSET T : U # T => U \in G
  BY <1>2 DEF StrictSubsetOrdering
<1> QED
  BY <1>2, <1>3

\* Partial sums of integers are integers.
LEMMA SumIterInt ==
    ASSUME NEW S, IsFiniteSet(S), NEW f, \A x \in S : f[x] \in Int
    PROVE  \A s \in SUBSET S : SumIter(f, S)[s] \in Int
<1> DEFINE G == {s \in SUBSET S : SumIter(f, S)[s] \in Int}
<1>1. ASSUME NEW T \in SUBSET S, \A U \in SUBSET T : U # T => U \in G
      PROVE  T \in G
  <2>1. CASE T = {}
    <3>1. SumIter(f, S)[T] = 0
      BY <2>1, SumIterDef
    <3> QED
      BY <3>1
  <2>2. CASE T # {}
    <3>1. Pick(T) \in T
      BY <2>2 DEF Pick
    <3>2. SumIter(f, S)[T \ {Pick(T)}] \in Int
      BY <3>1, <1>1
    <3>3. SumIter(f, S)[T] = f[Pick(T)] + SumIter(f, S)[T \ {Pick(T)}]
      BY <2>2, SumIterDef
    <3> QED
      BY <3>1, <3>2, <3>3
  <2> QED
    BY <2>1, <2>2
<1>2. SUBSET S \subseteq G
  <2> HIDE DEF G
  <2> QED
    BY <1>1, SubsetInduction
<1> QED
  BY <1>2

\* A partial sum depends only on the values it adds.
LEMMA SumIterAgree ==
    ASSUME NEW S, IsFiniteSet(S), NEW T \in SUBSET S, NEW f, NEW g,
           \A x \in T : f[x] = g[x]
    PROVE  SumIter(f, T)[T] = SumIter(g, S)[T]
<1> DEFINE G == {s \in SUBSET T : SumIter(f, T)[s] = SumIter(g, S)[s]}
<1>0. IsFiniteSet(T)
  BY FS_Subset
<1>1. ASSUME NEW U \in SUBSET T, \A V \in SUBSET U : V # U => V \in G
      PROVE  U \in G
  <2>0. U \in SUBSET S
    OBVIOUS
  <2>1. CASE U = {}
    BY <2>0, <2>1, <1>0, SumIterDef
  <2>2. CASE U # {}
    <3>1. Pick(U) \in U
      BY <2>2 DEF Pick
    <3>2. SumIter(f, T)[U \ {Pick(U)}] = SumIter(g, S)[U \ {Pick(U)}]
      BY <3>1, <1>1
    <3>3. SumIter(f, T)[U] = f[Pick(U)] + SumIter(f, T)[U \ {Pick(U)}]
      BY <2>2, <1>0, SumIterDef
    <3>4. SumIter(g, S)[U] = g[Pick(U)] + SumIter(g, S)[U \ {Pick(U)}]
      BY <2>0, <2>2, SumIterDef
    <3> QED
      BY <3>1, <3>2, <3>3, <3>4
  <2> QED
    BY <2>1, <2>2
<1>2. SUBSET T \subseteq G
  <2> HIDE DEF G
  <2> QED
    BY <1>0, <1>1, SubsetInduction
<1> QED
  BY <1>2

\* The order of summation does not matter: any element may be added last.
LEMMA SumIterRemove ==
    ASSUME NEW S, IsFiniteSet(S), NEW f, \A x \in S : f[x] \in Int
    PROVE  \A s \in SUBSET S : \A x \in s : SumIter(f, S)[s] = f[x] + SumIter(f, S)[s \ {x}]
<1> DEFINE I == SumIter(f, S)
           G == {s \in SUBSET S : \A x \in s : I[s] = f[x] + I[s \ {x}]}
<1>0. \A s \in SUBSET S : I[s] \in Int
  BY SumIterInt
<1>1. ASSUME NEW s \in SUBSET S, s # {}
      PROVE  Pick(s) \in s /\ I[s] = f[Pick(s)] + I[s \ {Pick(s)}]
  BY <1>1, SumIterDef DEF Pick
<1> HIDE DEF I
<1>2. ASSUME NEW T \in SUBSET S, \A U \in SUBSET T : U # T => U \in G
      PROVE  T \in G
  <2> SUFFICES ASSUME NEW x \in T PROVE I[T] = f[x] + I[T \ {x}]
    OBVIOUS
  <2> DEFINE p == Pick(T)
  <2>1. p \in T /\ I[T] = f[p] + I[T \ {p}]
    BY <1>1
  <2> HIDE DEF p
  <2>2. CASE p = x
    BY <2>1, <2>2
  <2>3. CASE p # x
    <3>1. T \ {p} \in G /\ T \ {x} \in G
      BY <1>2, <2>1
    <3>2. x \in T \ {p} /\ p \in T \ {x} /\ (T \ {p}) \ {x} = (T \ {x}) \ {p}
      BY <2>1, <2>3
    <3>3. I[T \ {p}] = f[x] + I[(T \ {p}) \ {x}]
      BY <3>1, <3>2
    <3>4. I[T \ {x}] = f[p] + I[(T \ {p}) \ {x}]
      BY <3>1, <3>2
    <3>5. I[(T \ {p}) \ {x}] \in Int /\ f[x] \in Int /\ f[p] \in Int
      BY <1>0, <2>1
    <3> QED
      BY <2>1, <3>3, <3>4, <3>5
  <2> QED
    BY <2>2, <2>3
<1>3. SUBSET S \subseteq G
  <2> HIDE DEF G
  <2> QED
    BY <1>2, SubsetInduction
<1> QED
  BY <1>3 DEF I

\* The sums a client of these lemmas uses.
LEMMA SumEmpty ==
    ASSUME NEW f
    PROVE  SumFunctionOnSet(f, {}) = 0
BY SumUnfold, SumIterDef, FS_EmptySet

\* The sum of integers is an integer.
LEMMA SumInt ==
    ASSUME NEW S, IsFiniteSet(S), NEW f, \A x \in S : f[x] \in Int
    PROVE  SumFunctionOnSet(f, S) \in Int
BY SumUnfold, SumIterInt

\* Equal values have equal sums.
LEMMA SumAgree ==
    ASSUME NEW S, IsFiniteSet(S), NEW f, NEW g, \A x \in S : f[x] = g[x]
    PROVE  SumFunctionOnSet(f, S) = SumFunctionOnSet(g, S)
<1>1. SumIter(f, S)[S] = SumIter(g, S)[S]
  BY SumIterAgree
<1> QED
  BY <1>1, SumUnfold

\* A sum is any one of its values plus the sum of the others.
LEMMA SumRemove ==
    ASSUME NEW S, IsFiniteSet(S), NEW f, \A x \in S : f[x] \in Int, NEW x \in S
    PROVE  SumFunctionOnSet(f, S) = f[x] + SumFunctionOnSet(f, S \ {x})
<1>1. SumIter(f, S)[S] = f[x] + SumIter(f, S)[S \ {x}]
  BY SumIterRemove
<1>2. SumIter(f, S \ {x})[S \ {x}] = SumIter(f, S)[S \ {x}]
  BY SumIterAgree
<1> QED
  BY <1>1, <1>2, SumUnfold

\* The effect on a sum of changing one entry, by adding, removing or moving it.
LEMMA SumChangesOne ==
    ASSUME NEW S, IsFiniteSet(S), NEW T, NEW k, S \ {k} = T \ {k},
           NEW f, NEW g, \A x \in S : f[x] \in Int, \A x \in T : g[x] \in Int,
           \A x \in S \ {k} : f[x] = g[x]
    PROVE  SumFunctionOnSet(g, T) =
              SumFunctionOnSet(f, S) - (IF k \in S THEN f[k] ELSE 0)
                                     + (IF k \in T THEN g[k] ELSE 0)
<1> DEFINE U == S \ {k}
<1>1. IsFiniteSet(U) /\ IsFiniteSet(T)
  <2>1. IsFiniteSet(U) /\ IsFiniteSet(U \cup {k})
    BY FS_RemoveElement, FS_AddElement
  <2>2. T \in SUBSET (U \cup {k})
    OBVIOUS
  <2> QED
    BY <2>1, <2>2, FS_Subset
<1>2. SumFunctionOnSet(f, U) = SumFunctionOnSet(g, U)
  <2> HIDE DEF U
  <2>1. \A x \in U : f[x] = g[x]
    BY DEF U
  <2> QED
    BY <1>1, <2>1, SumAgree
<1>3. SumFunctionOnSet(f, S) = (IF k \in S THEN f[k] ELSE 0) + SumFunctionOnSet(f, U)
  <2>0. SumFunctionOnSet(f, U) \in Int
    BY <1>1, SumInt
  <2>1. CASE k \in S
    BY <2>1, SumRemove
  <2>2. CASE k \notin S
    <3>1. U = S
      BY <2>2
    <3> HIDE DEF U
    <3> QED
      BY <2>0, <2>2, <3>1
  <2> QED
    BY <2>1, <2>2
<1>4. SumFunctionOnSet(g, T) = (IF k \in T THEN g[k] ELSE 0) + SumFunctionOnSet(g, U)
  <2>0. U = T \ {k} /\ SumFunctionOnSet(g, U) \in Int
    BY <1>1, SumInt
  <2>1. CASE k \in T
    BY <2>0, <2>1, <1>1, SumRemove
  <2>2. CASE k \notin T
    <3>1. U = T
      BY <2>2
    <3> HIDE DEF U
    <3> QED
      BY <2>0, <2>2, <3>1
  <2> QED
    BY <2>1, <2>2
<1>5. SumFunctionOnSet(f, U) \in Int /\ (k \in S => f[k] \in Int) /\ (k \in T => g[k] \in Int)
  BY <1>1, SumInt
<1> HIDE DEF U
<1> QED
  BY <1>2, <1>3, <1>4, <1>5

-----------------------------------------------------------------------------
\* What the protocol needs of its parameters; every adapter provides it.
ProtocolAssumption == Amounts \subseteq Nat /\ NoRow = [state |-> "NONE"]

Row == [state : {"RESERVED", "UNKNOWN", "COMMITTED", "RELEASED", "REFUNDED"},
        resource : Resources, amount : Amounts]

LedgerType ==
    /\ reserved \in [Resources -> Int]
    /\ committed \in [Resources -> Int]
    /\ rows \in [Keys -> Row \cup {NoRow}]

\* Finitely many reservations were ever made, whatever the set of keys.
FewRows == IsFiniteSet({k \in Keys : rows[k].state # "NONE"})

\* The inductive invariant: the sums are defined, and the counters equal them.
Balanced == LedgerType /\ FewRows /\ LedgerAgrees

\* What one row adds to the sum over the reservations in given states.
Share(row, r, states) == IF row.state \in states /\ row.resource = r THEN row.amount ELSE 0

\* The fields of a row, and what it adds to a sum.
LEMMA RowFacts ==
    ASSUME ProtocolAssumption
    PROVE  /\ \A x \in Row : x.amount \in Int /\ x.resource \in Resources
           /\ \A x \in Row \cup {NoRow} : \A r, states :
                 "NONE" \notin states => Share(x, r, states) \in Int
<1>1. \A x \in Row : x.amount \in Amounts /\ x.resource \in Resources
  BY DEF Row
<1>2. \A x \in Row : x.amount \in Int
  <2>1. \A a \in Amounts : a \in Int
    BY DEF ProtocolAssumption
  <2> QED
    BY <1>1, <2>1
<1>3. NoRow.state = "NONE"
  BY DEF ProtocolAssumption
<1> QED
  BY <1>1, <1>2, <1>3 DEF Share

\* Replacing one row changes every sum by the difference of the shares.
LEMMA SpentMoves ==
    ASSUME ProtocolAssumption, LedgerType, FewRows,
           NEW k \in Keys, NEW new \in Row, rows' = [rows EXCEPT ![k] = new],
           NEW r \in Resources, NEW states, "NONE" \notin states
    PROVE  /\ Spent(rows', r, states) = Spent(rows, r, states) - Share(rows[k], r, states)
                                                   + Share(new, r, states)
           /\ Spent(rows, r, states) \in Int
<1> DEFINE S == {j \in Keys : rows[j].state \in states /\ rows[j].resource = r}
           T == {j \in Keys : rows'[j].state \in states /\ rows'[j].resource = r}
           f == [j \in S |-> rows[j].amount]
           g == [j \in T |-> rows'[j].amount]
<1>1. /\ \A j \in Keys : rows'[j] = IF j = k THEN new ELSE rows[j]
      /\ rows'[k] = new
  BY DEF LedgerType
<1>2. IsFiniteSet(S)
  <2>1. S \in SUBSET {j \in Keys : rows[j].state # "NONE"}
    OBVIOUS
  <2> HIDE DEF S
  <2> QED
    BY <2>1, FS_Subset DEF FewRows
<1>0. \A x \in Row : x.amount \in Int
  BY RowFacts
<1>3. \A j \in S : rows[j] \in Row
  BY DEF LedgerType, ProtocolAssumption
<1>4. \A j \in S : f[j] \in Int
  BY <1>0, <1>3
<1>5. \A j \in T : rows'[j] \in Row
  BY <1>1, <1>3
<1>6. \A j \in T : g[j] \in Int
  BY <1>0, <1>5
<1>7. S \ {k} = T \ {k}
  BY <1>1
<1>8. \A j \in S \ {k} : f[j] = g[j]
  BY <1>1, <1>7
<1>9. Spent(rows, r, states) = SumFunctionOnSet(f, S) /\ Spent(rows', r, states) = SumFunctionOnSet(g, T)
  BY DEF Spent, SumFunction
<1>10. /\ (IF k \in S THEN f[k] ELSE 0) = Share(rows[k], r, states)
       /\ (IF k \in T THEN g[k] ELSE 0) = Share(new, r, states)
  BY <1>1 DEF Share
<1>11. SumFunctionOnSet(f, S) \in Int
  <2> HIDE DEF S, f
  <2> QED
    BY <1>2, <1>4, SumInt
<1>12. SumFunctionOnSet(g, T) = SumFunctionOnSet(f, S) - (IF k \in S THEN f[k] ELSE 0)
                                                       + (IF k \in T THEN g[k] ELSE 0)
  <2> HIDE DEF S, T, f, g
  <2> QED
    BY <1>2, <1>4, <1>6, <1>7, <1>8, SumChangesOne
<1> HIDE DEF S, T, f, g
<1> QED
  BY <1>9, <1>10, <1>11, <1>12

\* A row that replaces another leaves finitely many.
LEMMA RowsStayFew ==
    ASSUME LedgerType, FewRows, NEW k \in Keys, NEW new, rows' = [rows EXCEPT ![k] = new]
    PROVE  FewRows'
<1> DEFINE S == {j \in Keys : rows[j].state # "NONE"}
           T == {j \in Keys : rows'[j].state # "NONE"}
<1>1. T \in SUBSET (S \cup {k})
  BY DEF LedgerType
<1>2. IsFiniteSet(S \cup {k})
  <2> HIDE DEF S
  <2>1. IsFiniteSet(S)
    BY DEF FewRows, S
  <2> QED
    BY <2>1, FS_AddElement
<1>3. IsFiniteSet(T)
  <2> HIDE DEF S, T
  <2> QED
    BY <1>1, <1>2, FS_Subset
<1> QED
  BY <1>3 DEF FewRows

Holding == {"RESERVED", "UNKNOWN"}

(* One row is replaced and each counter changes by the difference of the   *)
(* row's shares: the counters stay the sums.                               *)
LEMMA RowStepBalanced ==
    ASSUME ProtocolAssumption, Balanced,
           NEW k \in Keys, NEW new \in Row, rows' = [rows EXCEPT ![k] = new],
           reserved' \in [Resources -> Int], committed' \in [Resources -> Int],
           \A r \in Resources :
              /\ reserved'[r] = reserved[r] - Share(rows[k], r, Holding) + Share(new, r, Holding)
              /\ committed'[r] = committed[r] - Share(rows[k], r, {"COMMITTED"})
                                              + Share(new, r, {"COMMITTED"})
    PROVE  Balanced'
<1>1. LedgerType /\ FewRows /\ LedgerAgrees
  BY DEF Balanced
<1>2. LedgerType'
  BY <1>1 DEF LedgerType
<1>3. FewRows'
  BY <1>1, RowsStayFew
<1>4. ASSUME NEW r \in Resources
      PROVE  /\ reserved'[r] = Spent(rows', r, Holding)
             /\ committed'[r] = Spent(rows', r, {"COMMITTED"})
  <2>1. Spent(rows', r, Holding) = Spent(rows, r, Holding) - Share(rows[k], r, Holding) + Share(new, r, Holding)
    BY <1>1, SpentMoves DEF Holding
  <2>2. Spent(rows', r, {"COMMITTED"}) = Spent(rows, r, {"COMMITTED"}) - Share(rows[k], r, {"COMMITTED"})
                                                           + Share(new, r, {"COMMITTED"})
    BY <1>1, SpentMoves
  <2>3. reserved[r] = Spent(rows, r, Holding) /\ committed[r] = Spent(rows, r, {"COMMITTED"})
    BY <1>1 DEF LedgerAgrees, Holding
  <2> QED
    BY <2>1, <2>2, <2>3
<1>5. LedgerAgrees'
  BY <1>4 DEF LedgerAgrees, Holding
<1> QED
  BY <1>2, <1>3, <1>5 DEF Balanced

\* Every step of the protocol keeps the ledger balanced.
LEMMA StepBalanced ==
    ASSUME ProtocolAssumption, Balanced, [Next]_vars
    PROVE  Balanced'
<1>1. LedgerType
  BY DEF Balanced
<1>0. \A k \in Keys : rows[k].state # "NONE" => rows[k] \in Row
  BY <1>1 DEF LedgerType, ProtocolAssumption
<1>2. CASE UNCHANGED vars
  BY <1>2 DEF vars, Balanced, LedgerType, FewRows, LedgerAgrees, Spent
<1>3. ASSUME NEW r \in Resources, NEW c \in Capacities, Register(r, c)
      PROVE  Balanced'
  BY <1>3 DEF Register, Balanced, LedgerType, FewRows, LedgerAgrees, Spent
<1>4. ASSUME NEW k \in Keys, NEW a \in Amounts, NEW r \in Resources, Reserve(k, a, r)
      PROVE  Balanced'
  <2> DEFINE new == [state |-> "RESERVED", resource |-> r, amount |-> a]
  <2>1. new \in Row /\ a \in Int /\ rows[k] = NoRow
    BY <1>4 DEF Row, ProtocolAssumption, Reserve
  <2>2. rows' = [rows EXCEPT ![k] = new]
    BY <1>4 DEF Reserve
  <2>3. reserved' \in [Resources -> Int] /\ committed' \in [Resources -> Int]
    BY <1>1, <1>4, <2>1 DEF Reserve, LedgerType
  <2>4. \A q \in Resources :
           /\ reserved'[q] = reserved[q] - Share(rows[k], q, Holding) + Share(new, q, Holding)
           /\ committed'[q] = committed[q] - Share(rows[k], q, {"COMMITTED"})
                                           + Share(new, q, {"COMMITTED"})
    BY <1>1, <1>4, <2>1 DEF Reserve, Share, Holding, ProtocolAssumption, LedgerType
  <2> HIDE DEF new
  <2> QED
    BY <2>1, <2>2, <2>3, <2>4, RowStepBalanced
<1>5. ASSUME NEW k \in Keys, Park(k) \/ Commit(k) \/ Release(k) \/ Refund(k)
      PROVE  Balanced'
  <2> DEFINE q == rows[k].resource
             n == rows[k].amount
  <2>0. rows[k] \in Row /\ q \in Resources /\ n \in Int
    BY <1>0, <1>5, RowFacts DEF Park, Commit, Release, Refund, Held
  <2>1. PICK s \in {"UNKNOWN", "COMMITTED", "RELEASED", "REFUNDED"} : Move(k, s)
    BY <1>5 DEF Park, Commit, Release, Refund
  <2> DEFINE new == [rows[k] EXCEPT !.state = s]
  <2>2. new \in Row /\ new.state = s /\ new.resource = q /\ new.amount = n
    BY <2>0 DEF Row
  <2>3. rows' = [rows EXCEPT ![k] = new] /\ rows'[k].state = s
    BY <1>1, <2>1, <2>2 DEF Move, LedgerType
  <2> HIDE DEF new
  <2>4. CASE Park(k)
    <3>1. s = "UNKNOWN"
      BY <1>1, <2>0, <2>3, <2>4 DEF Park, Move, LedgerType, Row
    <3>2. \A r \in Resources :
             /\ reserved'[r] = reserved[r] - Share(rows[k], r, Holding) + Share(new, r, Holding)
             /\ committed'[r] = committed[r] - Share(rows[k], r, {"COMMITTED"})
                                             + Share(new, r, {"COMMITTED"})
      BY <1>1, <2>0, <2>2, <2>4, <3>1 DEF Park, Share, Holding, LedgerType
    <3> QED
      BY <1>1, <2>2, <2>3, <2>4, <3>2, RowStepBalanced DEF Park, LedgerType
  <2>5. CASE Commit(k)
    <3>1. s = "COMMITTED"
      BY <1>1, <2>0, <2>3, <2>5 DEF Commit, Move, LedgerType, Row
    <3>2. \A r \in Resources :
             /\ reserved'[r] = reserved[r] - Share(rows[k], r, Holding) + Share(new, r, Holding)
             /\ committed'[r] = committed[r] - Share(rows[k], r, {"COMMITTED"})
                                             + Share(new, r, {"COMMITTED"})
      BY <1>1, <2>0, <2>2, <2>5, <3>1 DEF Commit, Held, Share, Holding, LedgerType
    <3>3. reserved' \in [Resources -> Int] /\ committed' \in [Resources -> Int]
      BY <1>1, <2>0, <2>5 DEF Commit, LedgerType
    <3> QED
      BY <2>2, <2>3, <3>2, <3>3, RowStepBalanced
  <2>6. CASE Release(k)
    <3>1. s = "RELEASED"
      BY <1>1, <2>0, <2>3, <2>6 DEF Release, Move, LedgerType, Row
    <3>2. \A r \in Resources :
             /\ reserved'[r] = reserved[r] - Share(rows[k], r, Holding) + Share(new, r, Holding)
             /\ committed'[r] = committed[r] - Share(rows[k], r, {"COMMITTED"})
                                             + Share(new, r, {"COMMITTED"})
      BY <1>1, <2>0, <2>2, <2>6, <3>1 DEF Release, Held, Share, Holding, LedgerType
    <3>3. reserved' \in [Resources -> Int] /\ committed' \in [Resources -> Int]
      BY <1>1, <2>0, <2>6 DEF Release, LedgerType
    <3> QED
      BY <2>2, <2>3, <3>2, <3>3, RowStepBalanced
  <2>7. CASE Refund(k)
    <3>1. s = "REFUNDED"
      BY <1>1, <2>0, <2>3, <2>7 DEF Refund, Move, LedgerType, Row
    <3>2. \A r \in Resources :
             /\ reserved'[r] = reserved[r] - Share(rows[k], r, Holding) + Share(new, r, Holding)
             /\ committed'[r] = committed[r] - Share(rows[k], r, {"COMMITTED"})
                                             + Share(new, r, {"COMMITTED"})
      BY <1>1, <2>0, <2>2, <2>7, <3>1 DEF Refund, Share, Holding, LedgerType
    <3>3. reserved' \in [Resources -> Int] /\ committed' \in [Resources -> Int]
      BY <1>1, <2>0, <2>7 DEF Refund, LedgerType
    <3> QED
      BY <2>2, <2>3, <3>2, <3>3, RowStepBalanced
  <2> QED
    BY <1>5, <2>4, <2>5, <2>6, <2>7
<1> QED
  BY <1>2, <1>3, <1>4, <1>5 DEF Next

\* The empty ledger is balanced.
LEMMA InitBalanced ==
    ASSUME ProtocolAssumption, Init
    PROVE  Balanced
<1>1. LedgerType
  BY DEF Init, LedgerType
<1>2. {k \in Keys : rows[k].state # "NONE"} = {}
  BY DEF Init, ProtocolAssumption
<1>3. FewRows
  BY <1>2, FS_EmptySet DEF FewRows
<1>4. ASSUME NEW r \in Resources, NEW states, "NONE" \notin states
      PROVE  Spent(rows, r, states) = 0
  <2> DEFINE ks == {k \in Keys : rows[k].state \in states /\ rows[k].resource = r}
             f == [k \in ks |-> rows[k].amount]
  <2>1. ks = {}
    BY <1>2, <1>4
  <2>2. Spent(rows, r, states) = SumFunctionOnSet(f, ks)
    BY DEF Spent, SumFunction
  <2> HIDE DEF ks, f
  <2> QED
    BY <2>1, <2>2, SumEmpty
<1>5. LedgerAgrees
  BY <1>4 DEF Init, LedgerAgrees
<1> QED
  BY <1>1, <1>3, <1>5 DEF Balanced

(* Whatever sequence of reservations, charges, releases and refunds the    *)
(* protocol goes through, its counters are the sums over its reservations. *)
THEOREM CountersAreSums == ASSUME ProtocolAssumption PROVE Spec => []LedgerAgrees
<1>1. Init => Balanced
  BY InitBalanced
<1>2. Balanced /\ [Next]_vars => Balanced'
  BY StepBalanced
<1>3. Balanced => LedgerAgrees
  BY DEF Balanced
<1> QED
  BY <1>1, <1>2, <1>3, PTL DEF Spec
=============================================================================
