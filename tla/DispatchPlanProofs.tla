-------------------------- MODULE DispatchPlanProofs --------------------------
(***************************************************************************)
(* A plan that is carried out leaves every slot with one of the masters    *)
(* that stay, and spreads the slots within the stated bounds: for every    *)
(* number of masters and slots, every distribution of the slots in which   *)
(* no slot has two owners, and every order of the maps.                    *)
(***************************************************************************)
EXTENDS DispatchPlan, SlotDispatchProofs

-----------------------------------------------------------------------------
(***************************************************************************)
(* Where the slots end up.                                                 *)
(***************************************************************************)
\* What a plan starts from: no slot has two owners, and every owner is a
\* current master.
Fresh(M, N, C, b, new, old, nbSlots, order) ==
  /\ Given(M, N, C, b, new, old, nbSlots, order)
  /\ \A m, n \in M : m # n => b[m] \cap b[n] = {}
  /\ \A m \in M \ C : b[m] = {}

\* Where buildSlotsByNode places slots.
PlacedOn(P, n) == {s \in {p.slot : p \in P} : \E p \in P : p.slot = s /\ p.node = n}

\* No slot is among what two sources have to give.
LEMMA SourcesApart ==
  ASSUME NEW M, NEW N, NEW C, NEW b, NEW new, NEW old, NEW nbSlots, NEW order,
         Fresh(M, N, C, b, new, old, nbSlots, order)
  PROVE  LET by == slotToMigrateByNode(b, new, old, nbSlots) IN
         \A s : \A m, n \in C \cup {Nowhere} : s \in by[m] /\ s \in by[n] => m = n
<1> DEFINE by == slotToMigrateByNode(b, new, old, nbSlots)
<1>1. /\ by[Nowhere] = {s \in 0 .. nbSlots - 1 : \A n \in C : s \notin b[n]}
      /\ \A n \in C : by[n] \subseteq b[n]
  BY SourceSlots DEF Fresh
<1>2. C \subseteq M /\ Nowhere \notin C /\ \A m, n \in M : m # n => b[m] \cap b[n] = {}
  BY DEF Fresh, Given
<1> HIDE DEF by
<1>3. \A s : \A m, n \in C \cup {Nowhere} : s \in by[m] /\ s \in by[n] => m = n
  <2> SUFFICES ASSUME NEW s, NEW m \in C \cup {Nowhere}, NEW n \in C \cup {Nowhere},
                      s \in by[m], s \in by[n], m # n
               PROVE  FALSE
    OBVIOUS
  <2>1. CASE m \in C /\ n \in C
    BY <1>1, <1>2, <2>1
  <2>2. CASE m = Nowhere /\ n \in C
    BY <1>1, <2>2
  <2>3. CASE m \in C /\ n = Nowhere
    BY <1>1, <2>3
  <2> QED BY <2>1, <2>2, <2>3
<1> QED BY <1>3 DEF by

\* A slot is placed once, and exactly the slots the sources have to give are.
LEMMA PlacedOnce ==
  ASSUME NEW M, NEW N, NEW C, NEW b, NEW new, NEW old, NEW nbSlots, NEW order,
         Fresh(M, N, C, b, new, old, nbSlots, order)
  PROVE  LET by == slotToMigrateByNode(b, new, old, nbSlots)
             P == buildSlotsByNode(b, new, old, nbSlots, order)
         IN  /\ \A p, q \in P : p.slot = q.slot => p = q
             /\ \A p \in P : p.slot \in 0 .. nbSlots - 1 /\ p.node \in N
             /\ \A n \in C : \A s \in b[n] : s \in by[n] <=> \E p \in P : p.slot = s
             /\ \A s \in 0 .. nbSlots - 1 : (\A n \in C : s \notin b[n]) => \E p \in P : p.slot = s
<1> DEFINE by == slotToMigrateByNode(b, new, old, nbSlots)
           P == buildSlotsByNode(b, new, old, nbSlots, order)
<1>1. /\ \A p \in P : /\ p.slot \in 0 .. nbSlots - 1 /\ p.node \in N
                      /\ \E n \in C \cup {Nowhere} : p.slot \in by[n]
      /\ \A n \in C \cup {Nowhere} : \A s \in by[n] : \E p \in P : p.slot = s
      /\ \A s : (\A m, n \in C \cup {Nowhere} : s \in by[m] /\ s \in by[n] => m = n)
           => \A p, q \in P : p.slot = s /\ q.slot = s => p = q
  BY Placed DEF Fresh
<1>2. /\ by[Nowhere] = {s \in 0 .. nbSlots - 1 : \A n \in C : s \notin b[n]}
      /\ \A n \in C : by[n] \subseteq b[n]
  BY SourceSlots DEF Fresh
<1>3. C \subseteq M /\ Nowhere \notin C /\ \A m, n \in M : m # n => b[m] \cap b[n] = {}
  BY DEF Fresh, Given
<1> HIDE DEF by, P
<1>4. \A s : \A m, n \in C \cup {Nowhere} : s \in by[m] /\ s \in by[n] => m = n
  BY SourcesApart DEF by
<1>5. \A p, q \in P : p.slot = q.slot => p = q
  BY <1>1, <1>4
<1>6. ASSUME NEW n \in C, NEW s \in b[n], NEW p \in P, p.slot = s PROVE s \in by[n]
  <2>1. PICK m \in C \cup {Nowhere} : s \in by[m]
    BY <1>1, <1>6
  <2>2. m \in C
    BY <1>2, <1>6, <2>1
  <2>3. m = n
    BY <1>2, <1>3, <1>6, <2>1, <2>2
  <2> QED BY <2>1, <2>3
<1>7. \A n \in C : \A s \in b[n] : s \in by[n] <=> \E p \in P : p.slot = s
  BY <1>1, <1>6
<1>8. \A s \in 0 .. nbSlots - 1 : (\A n \in C : s \notin b[n]) => \E p \in P : p.slot = s
  BY <1>1, <1>2
<1> QED BY <1>1, <1>5, <1>7, <1>8 DEF by, P

\* When the plan is carried out a master has what it keeps and what is placed
\* on it.
LEMMA Outcome ==
  ASSUME NEW M, NEW N, NEW C, NEW b, NEW new, NEW old, NEW nbSlots, NEW order,
         Fresh(M, N, C, b, new, old, nbSlots, order), NEW n \in M
  PROVE  LET by == slotToMigrateByNode(b, new, old, nbSlots)
             P == buildSlotsByNode(b, new, old, nbSlots, order)
             groups == feedMigInfo(b, new, old, nbSlots, order)
             kept == IF n \in C THEN b[n] \ by[n] ELSE {}
         IN  CarriedOut(b, groups, n) = kept \cup PlacedOn(P, n)
<1> DEFINE by == slotToMigrateByNode(b, new, old, nbSlots)
           P == buildSlotsByNode(b, new, old, nbSlots, order)
           groups == feedMigInfo(b, new, old, nbSlots, order)
           kept == IF n \in C THEN b[n] \ by[n] ELSE {}
           Source(s) == SourceOf(b, old, s)
<1>1. /\ \A p, q \in P : p.slot = q.slot => p = q
      /\ \A m \in C : \A s \in b[m] : s \in by[m] <=> \E p \in P : p.slot = s
  BY PlacedOnce
<1>2. /\ \A g \in groups : g.from # g.to
      /\ \A g \in groups : \A s : s \in g.slots <=>
           \E p \in P : s = p.slot /\ g.to = p.node /\ g.from = Source(s)
      /\ \A p \in P : Source(p.slot) # p.node =>
           \E g \in groups : g.from = Source(p.slot) /\ g.to = p.node /\ p.slot \in g.slots
  BY PlanMoves
<1>3. \A s : \/ Source(s) = Nowhere /\ \A m \in C : s \notin b[m]
             \/ Source(s) \in C /\ s \in b[Source(s)]
  BY SourceFacts DEF Fresh
<1>4. /\ C \subseteq M /\ Nowhere \notin M
      /\ \A l, m \in M : l # m => b[l] \cap b[m] = {}
      /\ \A m \in M \ C : b[m] = {}
  BY DEF Fresh, Given
<1> HIDE DEF by, P, groups, Source
<1>5. \A s \in b[n] : n \in C /\ Source(s) = n
  BY <1>3, <1>4
<1>6. ASSUME NEW s
      PROVE  s \in UNION {g.slots : g \in {x \in groups : x.from = n}} <=>
               \E p \in P : p.slot = s /\ p.node # n /\ Source(s) = n
  BY <1>2
<1>7. ASSUME NEW s
      PROVE  s \in UNION {g.slots : g \in {x \in groups : x.to = n}} <=>
               \E p \in P : p.slot = s /\ p.node = n /\ Source(s) # n
  BY <1>2
<1>8. ASSUME NEW s
      PROVE  s \in CarriedOut(b, groups, n) <=>
               \/ s \in b[n] /\ ~ (\E p \in P : p.slot = s /\ p.node # n /\ Source(s) = n)
               \/ \E p \in P : p.slot = s /\ p.node = n /\ Source(s) # n
  BY <1>6, <1>7 DEF CarriedOut
<1>9. ASSUME NEW s
      PROVE  s \in PlacedOn(P, n) <=> \E p \in P : p.slot = s /\ p.node = n
  BY DEF PlacedOn
<1>10. ASSUME NEW s
       PROVE  s \in CarriedOut(b, groups, n) <=> s \in kept \cup PlacedOn(P, n)
  <2>1. CASE s \in b[n]
    <3>1. n \in C /\ Source(s) = n
      BY <1>5, <2>1
    <3>2. s \in CarriedOut(b, groups, n) <=> ~ (\E p \in P : p.slot = s /\ p.node # n)
      BY <1>8, <2>1, <3>1
    <3>3. s \in kept <=> ~ (\E p \in P : p.slot = s)
      BY <1>1, <2>1, <3>1
    <3> QED BY <1>1, <1>9, <3>2, <3>3
  <2>2. CASE s \notin b[n]
    <3>1. Source(s) # n
      BY <1>3, <1>4, <2>2
    <3>2. s \in CarriedOut(b, groups, n) <=> \E p \in P : p.slot = s /\ p.node = n
      BY <1>8, <2>2, <3>1
    <3> QED BY <1>9, <2>2, <3>2
  <2> QED BY <2>1, <2>2
<1> HIDE DEF kept
<1>11. CarriedOut(b, groups, n) = kept \cup PlacedOn(P, n)
  BY <1>10
<1> QED BY <1>11 DEF kept, by, P, groups

\* The masters that go have nothing left, and every slot is with one of those
\* that stay.
LEMMA OneEach ==
  ASSUME NEW M, NEW N, NEW C, NEW b, NEW new, NEW old, NEW nbSlots, NEW order,
         Fresh(M, N, C, b, new, old, nbSlots, order)
  PROVE  LET groups == feedMigInfo(b, new, old, nbSlots, order)
         IN  /\ \A n \in M \ N : CarriedOut(b, groups, n) = {}
             /\ \A s \in 0 .. nbSlots - 1 :
                  \E n \in N : \A m \in N : s \in CarriedOut(b, groups, m) <=> m = n
<1> DEFINE by == slotToMigrateByNode(b, new, old, nbSlots)
           P == buildSlotsByNode(b, new, old, nbSlots, order)
           groups == feedMigInfo(b, new, old, nbSlots, order)
<1>1. /\ \A p, q \in P : p.slot = q.slot => p = q
      /\ \A p \in P : p.node \in N
      /\ \A n \in C : \A s \in b[n] : s \in by[n] <=> \E p \in P : p.slot = s
      /\ \A s \in 0 .. nbSlots - 1 : (\A n \in C : s \notin b[n]) => \E p \in P : p.slot = s
  BY PlacedOnce
<1>2. \A n \in M : CarriedOut(b, groups, n) =
        (IF n \in C THEN b[n] \ by[n] ELSE {}) \cup PlacedOn(P, n)
  BY Outcome
<1>3. \A n \in C \ N : by[n] = b[n]
  BY SourceSlots DEF Fresh
<1>4. /\ C \subseteq M /\ N \subseteq M
      /\ \A l, m \in M : l # m => b[l] \cap b[m] = {}
      /\ \A m \in M \ C : b[m] = {}
  BY DEF Fresh, Given
<1> HIDE DEF by, P, groups
<1>5. \A n, s : s \in PlacedOn(P, n) <=> \E p \in P : p.slot = s /\ p.node = n
  BY DEF PlacedOn
<1>6. \A n \in M \ N : CarriedOut(b, groups, n) = {}
  <2> SUFFICES ASSUME NEW n \in M \ N, NEW s \in CarriedOut(b, groups, n) PROVE FALSE
    OBVIOUS
  <2>1. s \notin PlacedOn(P, n)
    BY <1>1, <1>5
  <2> QED BY <1>2, <1>3, <2>1
<1>7. ASSUME NEW s \in 0 .. nbSlots - 1
      PROVE  \E n \in N : \A m \in N : s \in CarriedOut(b, groups, m) <=> m = n
  <2>1. \A m \in N : s \in CarriedOut(b, groups, m) <=>
          (s \in b[m] /\ s \notin by[m]) \/ \E p \in P : p.slot = s /\ p.node = m
    BY <1>2, <1>4, <1>5
  <2>2. CASE \E p \in P : p.slot = s
    <3>1. PICK p \in P : p.slot = s
      BY <2>2
    <3>2. \A m \in N : ~ (s \in b[m] /\ s \notin by[m])
      BY <1>1, <1>4, <3>1
    <3>3. \A m \in N : s \in CarriedOut(b, groups, m) <=> m = p.node
      BY <1>1, <2>1, <3>1, <3>2
    <3> QED BY <1>1, <3>3
  <2>3. CASE ~ \E p \in P : p.slot = s
    <3>1. PICK n \in C : s \in b[n]
      BY <1>1, <2>3
    <3>2. s \notin by[n] /\ n \in N
      BY <1>1, <1>3, <2>3, <3>1
    <3>3. \A m \in N : s \in b[m] => m = n
      BY <1>4, <3>1
    <3>4. \A m \in N : s \in CarriedOut(b, groups, m) <=> m = n
      BY <2>1, <2>3, <3>1, <3>2, <3>3
    <3> QED BY <3>2, <3>4
  <2> QED BY <2>2, <2>3
<1> QED BY <1>6, <1>7 DEF groups

-----------------------------------------------------------------------------
(***************************************************************************)
(* Counting.                                                               *)
(***************************************************************************)
\* The number of smaller elements, in the order R.
Rank(S, R) == [x \in S |-> Cardinality({y \in S : <<y, x>> \in R})]

\* In a finite set with a strict total order, the numbers of smaller elements
\* are 0, 1, 2 and so on, each once.
LEMMA Ranks ==
  ASSUME NEW S, IsFiniteSet(S), NEW R,
         \A x \in S : <<x, x>> \notin R,
         \A x, y, z \in S : <<x, y>> \in R /\ <<y, z>> \in R => <<x, z>> \in R,
         \A x, y \in S : x # y => <<x, y>> \in R \/ <<y, x>> \in R
  PROVE  /\ Rank(S, R) \in [S -> 0 .. Cardinality(S) - 1]
         /\ \A x, y \in S : Rank(S, R)[x] = Rank(S, R)[y] => x = y
         /\ \A k \in 0 .. Cardinality(S) - 1 : \E x \in S : Rank(S, R)[x] = k
<1> DEFINE Below(x) == {y \in S : <<y, x>> \in R}
           rank == [x \in S |-> Cardinality(Below(x))]
           c == Cardinality(S)
<1>1. c \in Nat
  BY FS_CardinalityType
<1>2. ASSUME NEW x \in S
      PROVE  IsFiniteSet(Below(x)) /\ Cardinality(Below(x)) \in Nat
  <2>1. Below(x) \in SUBSET S
    OBVIOUS
  <2> HIDE DEF Below
  <2> QED BY <2>1, FS_Subset, FS_CardinalityType
<1>3. ASSUME NEW x \in S, NEW y \in S, <<x, y>> \in R
      PROVE  Cardinality(Below(x)) < Cardinality(Below(y))
  <2>1. Below(x) \in SUBSET Below(y) /\ x \in Below(y) /\ x \notin Below(x)
    BY <1>3
  <2> HIDE DEF Below
  <2>2. Cardinality(Below(x)) <= Cardinality(Below(y))
        /\ (Cardinality(Below(y)) = Cardinality(Below(x)) => Below(y) = Below(x))
    BY <1>2, <2>1, FS_Subset
  <2> QED BY <1>2, <2>1, <2>2
<1>4. ASSUME NEW x \in S PROVE Cardinality(Below(x)) < c
  <2>1. Below(x) \in SUBSET S /\ x \notin Below(x)
    OBVIOUS
  <2> HIDE DEF Below
  <2>2. Cardinality(Below(x)) <= c /\ (c = Cardinality(Below(x)) => S = Below(x))
    BY <2>1, FS_Subset
  <2> QED BY <1>1, <1>2, <2>1, <2>2
<1>5. \A x, y \in S : Cardinality(Below(x)) = Cardinality(Below(y)) => x = y
  <2> SUFFICES ASSUME NEW x \in S, NEW y \in S, Cardinality(Below(x)) = Cardinality(Below(y)), x # y
               PROVE  FALSE
    OBVIOUS
  <2>1. <<x, y>> \in R \/ <<y, x>> \in R
    OBVIOUS
  <2> HIDE DEF Below
  <2>2. Cardinality(Below(x)) < Cardinality(Below(y)) \/ Cardinality(Below(y)) < Cardinality(Below(x))
    BY <1>3, <2>1
  <2> QED BY <1>2, <2>2
<1> HIDE DEF Below
<1>6. rank \in [S -> 0 .. c - 1]
  BY <1>1, <1>2, <1>4
<1>7. rank \in Injection(S, 0 .. c - 1)
  BY <1>5, <1>6 DEF Injection, IsInjective
<1> HIDE DEF c
<1>8. IsFiniteSet(0 .. c - 1) /\ Cardinality(0 .. c - 1) = c
  <2>1. 0 \in Int /\ c - 1 \in Int
    BY <1>1
  <2>2. IsFiniteSet(0 .. c - 1) /\ Cardinality(0 .. c - 1) = IF 0 > c - 1 THEN 0 ELSE (c - 1) - 0 + 1
    BY <2>1, FS_Interval
  <2> QED BY <1>1, <2>2
<1>9. rank \in Surjection(S, 0 .. c - 1)
  <2>1. Cardinality(S) = Cardinality(0 .. c - 1)
    BY <1>8 DEF c
  <2> HIDE DEF rank
  <2> QED BY <1>7, <1>8, <2>1, FS_Injection
<1>10. \A k \in 0 .. c - 1 : \E x \in S : rank[x] = k
  BY <1>9 DEF Surjection
<1>11. \A x, y \in S : rank[x] = rank[y] => x = y
  BY <1>5
<1>12. rank = Rank(S, R)
  BY DEF Rank, Below
<1> HIDE DEF rank
<1> QED BY <1>6, <1>10, <1>11, <1>12 DEF c

\* The elements of a set of numbers with fewer than nb smaller ones are nb, or
\* all of them.
LEMMA LeastOnes ==
  ASSUME NEW S \in SUBSET Nat, IsFiniteSet(S), NEW nb \in Nat
  PROVE  LET K == {s \in S : Cardinality({t \in S : t < s}) < nb}
         IN  /\ IsFiniteSet(K)
             /\ Cardinality(K) = IF Cardinality(S) <= nb THEN Cardinality(S) ELSE nb
<1> DEFINE R == {p \in Nat \X Nat : p[1] < p[2]}
           rank == Rank(S, R)
           c == Cardinality(S)
           low == IF c <= nb THEN c ELSE nb
           K == {s \in S : rank[s] < nb}
<1>1. \A x, y \in S : <<x, y>> \in R <=> x < y
  OBVIOUS
<1>2. {s \in S : Cardinality({t \in S : t < s}) < nb} = K
  <2> HIDE DEF R
  <2>1. \A s \in S : {t \in S : t < s} = {t \in S : <<t, s>> \in R}
    BY <1>1
  <2>2. \A s \in S : rank[s] = Cardinality({t \in S : t < s})
    BY <2>1, Zenon DEF Rank
  <2> HIDE DEF rank
  <2> QED BY <2>2
<1> HIDE DEF R
<1>3. /\ \A x \in S : <<x, x>> \notin R
      /\ \A x, y, z \in S : <<x, y>> \in R /\ <<y, z>> \in R => <<x, z>> \in R
      /\ \A x, y \in S : x # y => <<x, y>> \in R \/ <<y, x>> \in R
  BY <1>1
<1>4. /\ rank \in [S -> 0 .. c - 1]
      /\ \A x, y \in S : rank[x] = rank[y] => x = y
      /\ \A k \in 0 .. c - 1 : \E x \in S : rank[x] = k
  BY <1>3, Ranks
<1>5. c \in Nat
  BY FS_CardinalityType
<1> HIDE DEF c, rank
<1>6. low \in Nat /\ low <= c /\ low <= nb /\ (low = c \/ low = nb)
  BY <1>5
<1> HIDE DEF low
<1> DEFINE f == [x \in K |-> rank[x]]
<1>7. f \in [K -> 0 .. low - 1]
  <2>1. \A x \in K : rank[x] \in 0 .. low - 1
    BY <1>4, <1>5, <1>6
  <2> QED BY <2>1
<1>8. f \in Injection(K, 0 .. low - 1)
  BY <1>4, <1>7 DEF Injection, IsInjective
<1>9. f \in Surjection(K, 0 .. low - 1)
  <2>1. ASSUME NEW k \in 0 .. low - 1 PROVE \E x \in K : f[x] = k
    <3>1. PICK x \in S : rank[x] = k
      BY <1>4, <1>5, <1>6
    <3>2. x \in K
      BY <1>6, <3>1
    <3> QED BY <3>1, <3>2
  <2> QED BY <1>7, <2>1 DEF Surjection
<1>10. IsFiniteSet(0 .. low - 1) /\ Cardinality(0 .. low - 1) = low
  <2>1. 0 \in Int /\ low - 1 \in Int
    BY <1>6
  <2>2. /\ IsFiniteSet(0 .. low - 1)
        /\ Cardinality(0 .. low - 1) = IF 0 > low - 1 THEN 0 ELSE (low - 1) - 0 + 1
    BY <2>1, FS_Interval
  <2> QED BY <1>6, <2>2
<1>11. IsFiniteSet(K) /\ Cardinality(K) = low
  <2> HIDE DEF f, K
  <2> QED BY <1>8, <1>9, <1>10, FS_Injection
<1> QED BY <1>2, <1>11 DEF low, c

-----------------------------------------------------------------------------
(***************************************************************************)
(* How many slots each master takes.                                       *)
(***************************************************************************)
\* The turns, of the first k, in which the slot goes to new master j.
TurnsOf(F, k, j) == {l \in 1 .. k : F[l].id = j}

\* One more turn.
LEMMA OneMoreTurn ==
  ASSUME NEW F, NEW k \in Nat, NEW j
  PROVE  TurnsOf(F, k + 1, j) = TurnsOf(F, k, j) \cup (IF F[k + 1].id = j THEN {k + 1} ELSE {})
<1>1. \A l : l \in 1 .. k + 1 <=> l \in 1 .. k \/ l = k + 1
  OBVIOUS
<1> QED BY <1>1 DEF TurnsOf

\* After k turns: the lengths tell who took what; the masters before idNode
\* are full, those after it have taken nothing; and a master other than the
\* last took one slot at most, or was not filled beyond nb.
SizesAre(b, new, nb, F, k) ==
  \A j \in 1 .. Len(new) :
    LET t == Cardinality(TurnsOf(F, k, j)) IN
    /\ IsFiniteSet(TurnsOf(F, k, j))
    /\ F[k].size[j] = Cardinality(b[new[j]]) + t
    /\ j < F[k].id => F[k].size[j] >= nb
    /\ j > F[k].id => t = 0
    /\ j < Len(new) => t <= 1 \/ F[k].size[j] <= nb

\* That stays so.
LEMMA SizesStep ==
  ASSUME NEW b, NEW new, NEW nb \in Nat, NEW F, NEW k \in Nat, Len(new) \in Nat \ {0},
         \A j \in 1 .. Len(new) : IsFiniteSet(b[new[j]]),
         F[k] \in [id : 1 .. Len(new), size : [1 .. Len(new) -> Nat]],
         F[k + 1] = Filling(F[k], nb),
         SizesAre(b, new, nb, F, k)
  PROVE  SizesAre(b, new, nb, F, k + 1)
<1> DEFINE n == Len(new)
           f == F[k]
           id == IF nb - f.size[f.id] > 0 \/ f.id = Len(f.size) THEN f.id ELSE f.id + 1
<1>1. f.id \in 1 .. n /\ f.size \in [1 .. n -> Nat] /\ Len(f.size) = n
  BY SizesLen
<1>2. F[k + 1] = [id |-> id, size |-> [f.size EXCEPT ![id] = @ + 1]]
  BY DEF Filling
<1>3. /\ id \in 1 .. n
      /\ \/ id = f.id /\ (f.size[f.id] < nb \/ f.id = n)
         \/ id = f.id + 1 /\ f.size[f.id] >= nb
  BY <1>1
<1> HIDE DEF id
<1>4. F[k + 1].id = id /\ \A j \in 1 .. n : F[k + 1].size[j] = IF j = id THEN f.size[j] + 1 ELSE f.size[j]
  BY <1>1, <1>2, <1>3
<1> SUFFICES ASSUME NEW j \in 1 .. n
             PROVE  LET t == Cardinality(TurnsOf(F, k + 1, j)) IN
                    /\ IsFiniteSet(TurnsOf(F, k + 1, j))
                    /\ F[k + 1].size[j] = Cardinality(b[new[j]]) + t
                    /\ j < F[k + 1].id => F[k + 1].size[j] >= nb
                    /\ j > F[k + 1].id => t = 0
                    /\ j < n => t <= 1 \/ F[k + 1].size[j] <= nb
  BY DEF SizesAre
<1> DEFINE t == Cardinality(TurnsOf(F, k, j))
           u == Cardinality(TurnsOf(F, k + 1, j))
           c == Cardinality(b[new[j]])
<1>5. /\ IsFiniteSet(TurnsOf(F, k, j)) /\ f.size[j] = c + t
      /\ j < f.id => f.size[j] >= nb
      /\ j > f.id => t = 0
      /\ j < n => t <= 1 \/ f.size[j] <= nb
  BY DEF SizesAre
<1>6. t \in Nat /\ c \in Nat /\ f.size[j] \in Nat /\ n \in Nat
  BY <1>1, <1>5, FS_CardinalityType
<1>7. IsFiniteSet(TurnsOf(F, k + 1, j)) /\ u = IF id = j THEN t + 1 ELSE t
  <2>1. TurnsOf(F, k + 1, j) = TurnsOf(F, k, j) \cup (IF F[k + 1].id = j THEN {k + 1} ELSE {})
    BY OneMoreTurn
  <2>2. k + 1 \notin TurnsOf(F, k, j)
    BY DEF TurnsOf
  <2>3. CASE id = j
    <3>1. F[k + 1].id = j
      BY <1>4, <2>3
    <3>2. TurnsOf(F, k + 1, j) = TurnsOf(F, k, j) \cup {k + 1}
      BY <2>1, <3>1, Zenon
    <3> QED BY <1>5, <2>2, <2>3, <3>2, FS_AddElement
  <2>4. CASE id # j
    <3>1. F[k + 1].id # j
      BY <1>4, <2>4
    <3>2. TurnsOf(F, k + 1, j) = TurnsOf(F, k, j) \cup {}
      BY <2>1, <3>1, Zenon
    <3>3. TurnsOf(F, k + 1, j) = TurnsOf(F, k, j)
      BY <3>2
    <3> QED BY <1>5, <2>4, <3>3
  <2> QED BY <2>3, <2>4
<1> HIDE DEF t, u, c, n, f
<1>8. F[k + 1].size[j] = c + u
  BY <1>4, <1>5, <1>6, <1>7
<1>9. j < id => F[k + 1].size[j] >= nb
  BY <1>1, <1>3, <1>4, <1>5, <1>6
<1>10. j > id => u = 0
  BY <1>1, <1>3, <1>5, <1>6, <1>7
<1>11. j < n => u <= 1 \/ F[k + 1].size[j] <= nb
  <2>1. CASE j # id
    BY <1>4, <1>5, <1>7, <2>1
  <2>2. CASE j = id /\ id = f.id
    <3> SUFFICES ASSUME j < n PROVE F[k + 1].size[j] <= nb
      OBVIOUS
    <3>1. f.id # n /\ f.id \in Nat
      BY <1>1, <1>6, <2>2
    <3>2. f.size[f.id] < nb
      BY <1>3, <1>1, <2>2, <3>1
    <3>3. F[k + 1].size[j] = f.size[j] + 1
      BY <1>4, <2>2
    <3> QED BY <1>6, <2>2, <3>2, <3>3
  <2>3. CASE j = id /\ id = f.id + 1
    <3>1. t = 0
      BY <1>1, <1>5, <2>3
    <3> QED BY <1>7, <2>3, <3>1
  <2> QED BY <1>3, <2>1, <2>2, <2>3
<1> QED BY <1>4, <1>7, <1>8, <1>9, <1>10, <1>11 DEF u, c

\* It is so from the start.
LEMMA SizesAlways ==
  ASSUME NEW b, NEW new, NEW nb \in Nat, Len(new) \in Nat \ {0},
         \A j \in 1 .. Len(new) : IsFiniteSet(b[new[j]])
  PROVE  \A k \in Nat : SizesAre(b, new, nb, Filled(b, new, nb), k)
<1> DEFINE F == Filled(b, new, nb)
           T == {k \in Nat : SizesAre(b, new, nb, F, k)}
<1>1. \A k \in Nat : F[k] \in [id : 1 .. Len(new), size : [1 .. Len(new) -> Nat]]
  BY FilledType
<1>2. F[0] = StartSizes(b, new) /\ \A k \in Nat \ {0} : F[k] = Filling(F[k - 1], nb)
  BY FilledTurns
<1> HIDE DEF F
<1>3. SizesAre(b, new, nb, F, 0)
  <2> SUFFICES ASSUME NEW j \in 1 .. Len(new)
               PROVE  LET t == Cardinality(TurnsOf(F, 0, j)) IN
                      /\ IsFiniteSet(TurnsOf(F, 0, j))
                      /\ F[0].size[j] = Cardinality(b[new[j]]) + t
                      /\ j < F[0].id => F[0].size[j] >= nb
                      /\ j > F[0].id => t = 0
                      /\ j < Len(new) => t <= 1 \/ F[0].size[j] <= nb
    BY DEF SizesAre
  <2>1. TurnsOf(F, 0, j) = {}
    BY DEF TurnsOf
  <2>2. IsFiniteSet(TurnsOf(F, 0, j)) /\ Cardinality(TurnsOf(F, 0, j)) = 0
    BY <2>1, FS_EmptySet
  <2>3. F[0].id = 1 /\ F[0].size[j] = Cardinality(b[new[j]])
    BY <1>2 DEF StartSizes
  <2>4. Cardinality(b[new[j]]) \in Nat
    BY FS_CardinalityType
  <2> QED BY <2>2, <2>3, <2>4
<1>4. ASSUME NEW k \in T PROVE k + 1 \in T
  <2>1. k \in Nat /\ k + 1 \in Nat \ {0} /\ (k + 1) - 1 = k /\ SizesAre(b, new, nb, F, k)
    BY <1>4
  <2>2. F[k + 1] = Filling(F[k], nb)
    BY <1>2, <2>1
  <2>3. SizesAre(b, new, nb, F, k + 1)
    BY <1>1, <2>1, <2>2, SizesStep
  <2> QED BY <2>1, <2>3
<1>5. T = Nat
  <2>1. T \in SUBSET Nat /\ 0 \in T
    BY <1>3
  <2> HIDE DEF T
  <2> QED BY <1>4, <2>1, AllNumbers
<1> QED BY <1>5 DEF F

-----------------------------------------------------------------------------
(***************************************************************************)
(* The turns.                                                              *)
(***************************************************************************)
\* Every visit has a turn of its own, and there are as many turns as visits.
LEMMA TurnsOnce ==
  ASSUME NEW V \in SUBSET (Nat \X Nat), IsFiniteSet(V)
  PROVE  /\ \A v \in V : Turn(V, v) \in 1 .. Cardinality(V)
         /\ \A v, w \in V : Turn(V, v) = Turn(V, w) => v = w
         /\ \A k \in 1 .. Cardinality(V) : \E v \in V : Turn(V, v) = k
<1> DEFINE R == {p \in (Nat \X Nat) \X (Nat \X Nat) :
                   p[1][1] < p[2][1] \/ (p[1][1] = p[2][1] /\ p[1][2] < p[2][2])}
           c == Cardinality(V)
<1>1. \A w, v \in V : <<w, v>> \in R <=> w[1] < v[1] \/ (w[1] = v[1] /\ w[2] < v[2])
  OBVIOUS
<1>2. \A v \in V : v = <<v[1], v[2]>> /\ v[1] \in Nat /\ v[2] \in Nat
  OBVIOUS
<1> HIDE DEF R
<1>3. \A x \in V : <<x, x>> \notin R
  BY <1>1, <1>2
<1>4. \A x, y, z \in V : <<x, y>> \in R /\ <<y, z>> \in R => <<x, z>> \in R
  BY <1>1, <1>2
<1>5. \A x, y \in V : x # y => <<x, y>> \in R \/ <<y, x>> \in R
  <2> SUFFICES ASSUME NEW x \in V, NEW y \in V, x # y PROVE <<x, y>> \in R \/ <<y, x>> \in R
    OBVIOUS
  <2>1. x[1] # y[1] \/ x[2] # y[2]
    BY <1>2, Zenon
  <2>2. x[1] \in Nat /\ x[2] \in Nat /\ y[1] \in Nat /\ y[2] \in Nat
    BY <1>2
  <2> QED BY <1>1, <2>1, <2>2
<1>6. /\ Rank(V, R) \in [V -> 0 .. c - 1]
      /\ \A x, y \in V : Rank(V, R)[x] = Rank(V, R)[y] => x = y
      /\ \A k \in 0 .. c - 1 : \E x \in V : Rank(V, R)[x] = k
  BY <1>3, <1>4, <1>5, Ranks
<1>7. ASSUME NEW v \in V PROVE Turn(V, v) = Rank(V, R)[v] + 1
  <2>1. {w \in V : w[1] < v[1] \/ (w[1] = v[1] /\ w[2] < v[2])} = {w \in V : <<w, v>> \in R}
    BY <1>1
  <2> QED BY <2>1 DEF Turn, Rank
<1>8. c \in Nat
  BY FS_CardinalityType
<1> DEFINE rank == Rank(V, R)
<1> HIDE DEF c, rank
<1>9. \A v \in V : rank[v] \in 0 .. c - 1 /\ Turn(V, v) = rank[v] + 1
  BY <1>6, <1>7 DEF rank
<1>10. \A v \in V : Turn(V, v) \in 1 .. c
  BY <1>8, <1>9
<1>11. \A v, w \in V : Turn(V, v) = Turn(V, w) => v = w
  <2> SUFFICES ASSUME NEW v \in V, NEW w \in V, Turn(V, v) = Turn(V, w) PROVE v = w
    OBVIOUS
  <2>1. rank[v] = rank[w]
    BY <1>8, <1>9
  <2> QED BY <1>6, <2>1 DEF rank
<1>12. \A k \in 1 .. c : \E v \in V : Turn(V, v) = k
  <2> SUFFICES ASSUME NEW k \in 1 .. c PROVE \E v \in V : Turn(V, v) = k
    OBVIOUS
  <2>1. k - 1 \in 0 .. c - 1
    BY <1>8
  <2>2. PICK v \in V : rank[v] = k - 1
    BY <1>6, <2>1 DEF rank
  <2>3. Turn(V, v) = k
    BY <1>8, <1>9, <2>2
  <2> QED BY <2>3
<1> QED BY <1>10, <1>11, <1>12 DEF c

\* The visits are pairs of a place in the order and a slot, and finitely many.
LEMMA VisitsAre ==
  ASSUME NEW M, NEW N, NEW C, NEW b, NEW new, NEW old, NEW nbSlots, NEW order,
         Fresh(M, N, C, b, new, old, nbSlots, order)
  PROVE  LET V == Visits(slotToMigrateByNode(b, new, old, nbSlots), order) IN
         /\ V \in SUBSET (Nat \X Nat) /\ IsFiniteSet(V)
         /\ \A v, w \in V : v[2] = w[2] => v = w
<1> DEFINE by == slotToMigrateByNode(b, new, old, nbSlots)
           V == Visits(by, order)
<1>1. /\ by[Nowhere] = {s \in 0 .. nbSlots - 1 : \A n \in C : s \notin b[n]}
      /\ \A n \in C : by[n] \subseteq b[n]
  BY SourceSlots DEF Fresh
<1>2. /\ nbSlots \in Nat /\ C \subseteq M /\ b \in [M -> SUBSET (0 .. nbSlots - 1)]
      /\ IsFiniteSet(C) /\ order \in SetToSeqs(C \cup {Nowhere})
  BY DEF Fresh, Given
<1>3. \A s : \A m, n \in C \cup {Nowhere} : s \in by[m] /\ s \in by[n] => m = n
  BY SourcesApart
<1>4. IsFiniteSet(C \cup {Nowhere})
  BY <1>2, FS_AddElement
<1>5. /\ Len(order) \in Nat /\ order \in [1 .. Len(order) -> C \cup {Nowhere}]
      /\ \A j, l \in 1 .. Len(order) : order[j] = order[l] => j = l
  <2> HIDE DEF by
  <2>1. PICK D : D = C \cup {Nowhere}
    OBVIOUS
  <2> QED BY <1>2, <1>4, <2>1, Listing
<1> HIDE DEF by
<1>6. \A n \in C \cup {Nowhere} : by[n] \subseteq 0 .. nbSlots - 1
  BY <1>1, <1>2
<1>7. \A v : v \in V <=> \E j \in 1 .. Len(order) : v \in {j} \X by[order[j]]
  BY DEF Visits
<1>8. \A v \in V : /\ v[1] \in 1 .. Len(order) /\ order[v[1]] \in C \cup {Nowhere}
                   /\ v[2] \in by[order[v[1]]] /\ v = <<v[1], v[2]>>
  BY <1>5, <1>7
<1> HIDE DEF V
<1>9. V \in SUBSET ((1 .. Len(order)) \X (0 .. nbSlots - 1))
  BY <1>6, <1>8
<1>10. V \in SUBSET (Nat \X Nat)
  BY <1>2, <1>5, <1>9
<1>11. IsFiniteSet(V)
  <2>1. /\ 1 \in Int /\ Len(order) \in Int /\ 0 \in Int /\ nbSlots - 1 \in Int
    BY <1>2, <1>5
  <2>2. IsFiniteSet(1 .. Len(order)) /\ IsFiniteSet(0 .. nbSlots - 1)
    BY <2>1, FS_Interval
  <2>3. IsFiniteSet((1 .. Len(order)) \X (0 .. nbSlots - 1))
    BY <2>2, FS_Product
  <2> QED BY <1>9, <2>3, FS_Subset
<1>12. \A v, w \in V : v[2] = w[2] => v = w
  <2> SUFFICES ASSUME NEW v \in V, NEW w \in V, v[2] = w[2] PROVE v = w
    OBVIOUS
  <2>1. order[v[1]] = order[w[1]]
    BY <1>3, <1>8
  <2>2. v[1] = w[1]
    BY <1>5, <1>8, <2>1
  <2> QED BY <1>8, <2>2, Zenon
<1> QED BY <1>10, <1>11, <1>12 DEF V, by

\* As many slots are placed on a new master as it has turns.
LEMMA PlacedCount ==
  ASSUME NEW M, NEW N, NEW C, NEW b, NEW new, NEW old, NEW nbSlots, NEW order,
         Fresh(M, N, C, b, new, old, nbSlots, order), NEW j \in 1 .. Len(new)
  PROVE  LET V == Visits(slotToMigrateByNode(b, new, old, nbSlots), order)
             F == Filled(b, new, nbSlotByNode(nbSlots, new))
             P == buildSlotsByNode(b, new, old, nbSlots, order)
         IN  /\ IsFiniteSet(PlacedOn(P, new[j]))
             /\ Cardinality(PlacedOn(P, new[j])) = Cardinality(TurnsOf(F, Cardinality(V), j))
<1> DEFINE V == Visits(slotToMigrateByNode(b, new, old, nbSlots), order)
           nb == nbSlotByNode(nbSlots, new)
           F == Filled(b, new, nb)
           P == buildSlotsByNode(b, new, old, nbSlots, order)
           T == Cardinality(V)
           Q == PlacedOn(P, new[j])
           L == TurnsOf(F, T, j)
           W == {v \in V : F[Turn(V, v)].id = j}
<1>1. /\ V \in SUBSET (Nat \X Nat) /\ IsFiniteSet(V)
      /\ \A v, w \in V : v[2] = w[2] => v = w
  BY VisitsAre
<1>2. P = {[slot |-> v[2], node |-> new[F[Turn(V, v)].id]] : v \in V}
  BY DEF buildSlotsByNode, buildSlotByNodeFromAvailableSlots
<1>3. /\ Len(new) \in Nat \ {0} /\ nb \in Nat
      /\ \A l, m \in 1 .. Len(new) : new[l] = new[m] => l = m
      /\ \A l \in 1 .. Len(new) : IsFiniteSet(b[new[l]])
  <2>1. nb \in Nat /\ Len(new) \in Nat \ {0}
    BY ShareType DEF Fresh
  <2>2. /\ \A l, m \in 1 .. Len(new) : new[l] = new[m] => l = m
        /\ new \in [1 .. Len(new) -> N]
    BY Listing DEF Fresh, Given
  <2>3. N \subseteq M /\ nbSlots \in Nat /\ b \in [M -> SUBSET (0 .. nbSlots - 1)]
    BY DEF Fresh, Given
  <2>4. 0 \in Int /\ nbSlots - 1 \in Int
    BY <2>3
  <2>5. IsFiniteSet(0 .. nbSlots - 1)
    BY <2>4, FS_Interval
  <2>6. \A l \in 1 .. Len(new) : b[new[l]] \in SUBSET (0 .. nbSlots - 1)
    BY <2>2, <2>3
  <2>7. \A l \in 1 .. Len(new) : IsFiniteSet(b[new[l]])
    BY <2>5, <2>6, FS_Subset
  <2> QED BY <2>1, <2>2, <2>7
<1> HIDE DEF nb
<1>4. \A k \in Nat : F[k] \in [id : 1 .. Len(new), size : [1 .. Len(new) -> Nat]]
  BY <1>3, FilledType
<1> HIDE DEF F, V, P
<1>5. T \in Nat
  BY <1>1, FS_CardinalityType
<1>6. /\ \A v \in V : Turn(V, v) \in 1 .. T
      /\ \A v, w \in V : Turn(V, v) = Turn(V, w) => v = w
      /\ \A k \in 1 .. T : \E v \in V : Turn(V, v) = k
  BY <1>1, TurnsOnce
<1> HIDE DEF T
<1>7. \A v \in V : F[Turn(V, v)].id \in 1 .. Len(new)
  BY <1>4, <1>5, <1>6
<1>8. \A s : s \in Q <=> \E v \in W : v[2] = s
  <2> SUFFICES ASSUME NEW s PROVE s \in Q <=> \E v \in W : v[2] = s
    OBVIOUS
  <2>1. s \in Q <=> \E p \in P : p.slot = s /\ p.node = new[j]
    BY DEF PlacedOn
  <2>2. (\E p \in P : p.slot = s /\ p.node = new[j])
          <=> \E v \in V : v[2] = s /\ new[F[Turn(V, v)].id] = new[j]
    <3> DEFINE At(v) == new[F[Turn(V, v)].id]
    <3>1. P = {[slot |-> v[2], node |-> At(v)] : v \in V}
      BY <1>2
    <3> HIDE DEF At
    <3>2. (\E p \in P : p.slot = s /\ p.node = new[j]) <=> \E v \in V : v[2] = s /\ At(v) = new[j]
      <4>1. ASSUME NEW p \in P, p.slot = s, p.node = new[j]
            PROVE  \E v \in V : v[2] = s /\ At(v) = new[j]
        <5>1. PICK v \in V : p = [slot |-> v[2], node |-> At(v)]
          BY <3>1
        <5> QED BY <4>1, <5>1
      <4>2. ASSUME NEW v \in V, v[2] = s, At(v) = new[j]
            PROVE  \E p \in P : p.slot = s /\ p.node = new[j]
        <5>1. [slot |-> v[2], node |-> At(v)] \in P
          BY <3>1
        <5> QED BY <4>2, <5>1
      <4> QED BY <4>1, <4>2
    <3> QED BY <3>2 DEF At
  <2>3. \A v \in V : new[F[Turn(V, v)].id] = new[j] <=> F[Turn(V, v)].id = j
    BY <1>3, <1>7
  <2> QED BY <2>1, <2>2, <2>3
<1>9. IsFiniteSet(W)
  BY <1>1, FS_Subset
<1>10. IsFiniteSet(Q) /\ Cardinality(Q) = Cardinality(W)
  <2> DEFINE h == [v \in W |-> v[2]]
  <2>1. h \in [W -> Q] /\ \A s \in Q : \E v \in W : h[v] = s
    BY <1>8
  <2>2. h \in Surjection(W, Q)
    BY <2>1 DEF Surjection
  <2>3. h \in Injection(W, Q)
    BY <1>1, <2>1 DEF Injection, IsInjective
  <2> HIDE DEF h, W, Q
  <2> QED BY <1>9, <2>2, <2>3, FS_Surjection
<1>11. IsFiniteSet(L) /\ Cardinality(L) = Cardinality(W)
  <2> DEFINE h == [v \in W |-> Turn(V, v)]
  <2>1. h \in [W -> L] /\ \A k \in L : \E v \in W : h[v] = k
    BY <1>6 DEF TurnsOf
  <2>2. h \in Surjection(W, L)
    BY <2>1 DEF Surjection
  <2>3. h \in Injection(W, L)
    BY <1>6, <2>1 DEF Injection, IsInjective
  <2> HIDE DEF h, W, L
  <2> QED BY <1>9, <2>2, <2>3, FS_Surjection
<1> HIDE DEF W, Q, L
<1>12. IsFiniteSet(Q) /\ Cardinality(Q) = Cardinality(L)
  BY <1>10, <1>11
<1> QED BY <1>12 DEF Q, L, T, F, V, P, nb

-----------------------------------------------------------------------------
(***************************************************************************)
(* How evenly the slots are spread.                                        *)
(***************************************************************************)
\* The union of the sets A[x] with x in S.
Joined(A, S) == UNION {A[x] : x \in S}

\* Sets without a common element, each with lo to hi elements: together they
\* have lo to hi for each.
LEMMA SumBounds ==
  ASSUME NEW D, IsFiniteSet(D), NEW A, NEW lo \in Nat, NEW hi \in Nat,
         \A x \in D : /\ IsFiniteSet(A[x])
                      /\ lo <= Cardinality(A[x]) /\ Cardinality(A[x]) <= hi,
         \A x, y \in D : x # y => A[x] \cap A[y] = {}
  PROVE  /\ IsFiniteSet(Joined(A, D)) /\ Cardinality(Joined(A, D)) \in Nat
         /\ Cardinality(D) * lo <= Cardinality(Joined(A, D))
         /\ Cardinality(Joined(A, D)) <= Cardinality(D) * hi
<1> DEFINE Good(S, k) == /\ IsFiniteSet(Joined(A, S)) /\ Cardinality(Joined(A, S)) \in Nat
                         /\ k * lo <= Cardinality(Joined(A, S))
                         /\ Cardinality(Joined(A, S)) <= k * hi
           T == {k \in Nat : \A S \in SUBSET D : Cardinality(S) = k => Good(S, k)}
<1>1. 0 \in T
  <2> SUFFICES ASSUME NEW S \in SUBSET D, Cardinality(S) = 0 PROVE Good(S, 0)
    OBVIOUS
  <2>1. S = {}
    BY FS_Subset, FS_EmptySet
  <2>2. Joined(A, S) = {}
    BY <2>1 DEF Joined
  <2>3. 0 * lo = 0 /\ 0 * hi = 0
    OBVIOUS
  <2>4. IsFiniteSet(Joined(A, S)) /\ Cardinality(Joined(A, S)) = 0
    BY <2>2, FS_EmptySet
  <2> QED BY <2>3, <2>4
<1>2. ASSUME NEW k \in T PROVE k + 1 \in T
  <2>1. k \in Nat /\ \A S \in SUBSET D : Cardinality(S) = k => Good(S, k)
    BY <1>2
  <2> SUFFICES ASSUME NEW S \in SUBSET D, Cardinality(S) = k + 1 PROVE Good(S, k + 1)
    BY <2>1
  <2>2. IsFiniteSet(S)
    BY FS_Subset
  <2>3. S # {}
    BY <2>1, <2>2, FS_EmptySet
  <2>4. PICK x \in S : TRUE
    BY <2>3
  <2> DEFINE U == S \ {x}
  <2>5. U \in SUBSET D /\ Cardinality(U) = k
    <3>1. Cardinality(U) = Cardinality(S) - 1
      BY <2>2, <2>4, FS_RemoveElement
    <3> QED BY <2>1, <3>1
  <2>6. Joined(A, S) = Joined(A, U) \cup A[x]
    BY <2>4 DEF Joined
  <2>7. Joined(A, U) \cap A[x] = {}
    BY <2>4 DEF Joined
  <2> HIDE DEF U
  <2>8. Good(U, k)
    BY <2>1, <2>5
  <2>9. /\ IsFiniteSet(A[x]) /\ Cardinality(A[x]) \in Nat
        /\ lo <= Cardinality(A[x]) /\ Cardinality(A[x]) <= hi
    BY FS_CardinalityType
  <2>10. /\ IsFiniteSet(Joined(A, S))
         /\ Cardinality(Joined(A, S)) = Cardinality(Joined(A, U)) + Cardinality(A[x]) - 0
    BY <2>6, <2>7, <2>8, <2>9, FS_Union, FS_EmptySet
  <2>11. (k + 1) * lo = k * lo + lo /\ (k + 1) * hi = k * hi + hi /\ k * lo \in Nat /\ k * hi \in Nat
    BY <2>1
  <2> QED BY <2>8, <2>9, <2>10, <2>11
<1>3. T = Nat
  <2>1. T \in SUBSET Nat
    OBVIOUS
  <2> HIDE DEF T
  <2> QED BY <1>1, <1>2, <2>1, AllNumbers
<1>4. Cardinality(D) \in T /\ D \in SUBSET D
  BY <1>3, FS_CardinalityType
<1> QED BY <1>4

\* The even share, rounded up.
LEMMA Share ==
  ASSUME NEW a \in Nat, NEW n \in Nat \ {0}, NEW nb, nb = (a + n - 1) \div n
  PROVE  nb \in Nat /\ a <= n * nb /\ n * nb <= a + n - 1
<1>1. a + n - 1 \in Nat
  OBVIOUS
<1>2. \A q \in Nat : q \div n \in Nat /\ n * (q \div n) <= q /\ q < n * (q \div n) + n
  OBVIOUS
<1>3. nb \in Nat /\ n * nb <= a + n - 1 /\ a + n - 1 < n * nb + n /\ n * nb \in Nat
  BY <1>1, <1>2
<1> QED BY <1>3

\* What the masters that stay have in the end lies between the two bounds,
\* when together they have all the slots, no two share one, the ones before
\* the last that was given any have at least nb, and none but the last one
\* has more than one above nb.
LEMMA SpreadBounds ==
  ASSUME NEW a \in Nat, NEW n \in Nat \ {0}, NEW A, NEW id \in 1 .. n, NEW nb,
         nb = (a + n - 1) \div n,
         Joined(A, 1 .. n) = 0 .. a - 1,
         \A j \in 1 .. n : IsFiniteSet(A[j]),
         \A j, l \in 1 .. n : j # l => A[j] \cap A[l] = {},
         \A j \in 1 .. n : j < id => nb <= Cardinality(A[j]),
         \A j \in 1 .. n : j < n => Cardinality(A[j]) <= nb + 1,
         id < n => Cardinality(A[n]) <= nb
  PROVE  \A j \in 1 .. n : Cardinality(A[j]) - nb \in -2 * (n - 1) .. 1
<1>1. nb \in Nat /\ a <= n * nb /\ n * nb <= a + n - 1
  BY Share
<1>2. \A j \in 1 .. n : Cardinality(A[j]) \in Nat
  BY FS_CardinalityType
<1>3. IsFiniteSet(0 .. a - 1) /\ Cardinality(0 .. a - 1) = a
  <2>1. 0 \in Int /\ a - 1 \in Int
    OBVIOUS
  <2>2. IsFiniteSet(0 .. a - 1) /\ Cardinality(0 .. a - 1) = IF 0 > a - 1 THEN 0 ELSE (a - 1) - 0 + 1
    BY <2>1, FS_Interval
  <2> QED BY <2>2
<1>4. IsFiniteSet(1 .. n) /\ Cardinality(1 .. n) = n
  <2>1. 1 \in Int /\ n \in Int
    OBVIOUS
  <2>2. IsFiniteSet(1 .. n) /\ Cardinality(1 .. n) = IF 1 > n THEN 0 ELSE n - 1 + 1
    BY <2>1, FS_Interval
  <2> QED BY <2>2
\* The others of one, and what they have.
<1>5. ASSUME NEW j \in 1 .. n, NEW lo \in Nat, NEW hi \in Nat,
             \A l \in (1 .. n) \ {j} : lo <= Cardinality(A[l]) /\ Cardinality(A[l]) <= hi
      PROVE  /\ (n - 1) * lo + Cardinality(A[j]) <= a
             /\ a <= (n - 1) * hi + Cardinality(A[j])
  <2> DEFINE D == (1 .. n) \ {j}
  <2>1. IsFiniteSet(D) /\ Cardinality(D) = n - 1
    BY <1>4, FS_RemoveElement
  <2>2. 0 .. a - 1 = Joined(A, D) \cup A[j] /\ Joined(A, D) \cap A[j] = {}
    <3>1. Joined(A, 1 .. n) = Joined(A, D) \cup A[j]
      BY DEF Joined
    <3>2. Joined(A, D) \cap A[j] = {}
      BY DEF Joined
    <3> QED BY <3>1, <3>2
  <2>3. /\ \A l \in D : /\ IsFiniteSet(A[l])
                        /\ lo <= Cardinality(A[l]) /\ Cardinality(A[l]) <= hi
        /\ \A l, m \in D : l # m => A[l] \cap A[m] = {}
    BY <1>5
  <2> HIDE DEF D
  <2>4. /\ IsFiniteSet(Joined(A, D)) /\ Cardinality(Joined(A, D)) \in Nat
        /\ (n - 1) * lo <= Cardinality(Joined(A, D))
        /\ Cardinality(Joined(A, D)) <= (n - 1) * hi
    BY <2>1, <2>3, SumBounds
  <2>5. Cardinality(0 .. a - 1) = Cardinality(Joined(A, D)) + Cardinality(A[j]) - 0
    <3>1. Cardinality(Joined(A, D) \cup A[j]) =
            Cardinality(Joined(A, D)) + Cardinality(A[j]) - Cardinality(Joined(A, D) \cap A[j])
      BY <2>4, FS_Union
    <3> QED BY <2>2, <3>1, FS_EmptySet
  <2>6. (n - 1) * lo \in Nat /\ (n - 1) * hi \in Nat
    OBVIOUS
  <2> QED BY <1>2, <1>3, <2>4, <2>5, <2>6
<1>6. (n - 1) * nb = n * nb - nb /\ (n - 1) * (nb + 1) = n * nb - nb + n - 1 /\ n * nb \in Nat
  BY <1>1
<1>7. Cardinality(A[n]) <= nb
  <2>1. CASE id < n
    BY <2>1
  <2>2. CASE id = n
    <3>1. PICK hi \in Nat : hi = nb + 1
      BY <1>1
    <3>2. \A l \in (1 .. n) \ {n} : nb <= Cardinality(A[l]) /\ Cardinality(A[l]) <= hi
      BY <2>2, <3>1
    <3>3. (n - 1) * nb + Cardinality(A[n]) <= a
      <4>1. n \in 1 .. n
        OBVIOUS
      <4> QED BY <1>1, <1>5, <3>2, <4>1, Zenon
    <3> QED BY <1>1, <1>2, <1>6, <3>3
  <2> QED BY <2>1, <2>2
<1>8. \A j \in 1 .. n : Cardinality(A[j]) <= nb + 1
  BY <1>1, <1>2, <1>7
<1>9. ASSUME NEW j \in 1 .. n PROVE nb - 2 * (n - 1) <= Cardinality(A[j])
  <2>1. PICK hi \in Nat : hi = nb + 1
    BY <1>1
  <2>2. PICK lo \in Nat : lo = 0
    OBVIOUS
  <2>3. \A l \in (1 .. n) \ {j} : lo <= Cardinality(A[l]) /\ Cardinality(A[l]) <= hi
    BY <1>2, <1>8, <2>1, <2>2
  <2>4. a <= (n - 1) * hi + Cardinality(A[j])
    BY <1>5, <2>3, Zenon
  <2>5. (n - 1) * hi = n * nb - nb + n - 1
    BY <1>6, <2>1
  <2>6. PICK q \in Nat : q = n * nb
    BY <1>6
  <2>7. a <= q - nb + n - 1 + Cardinality(A[j]) /\ q <= a + n - 1
    BY <1>1, <2>4, <2>5, <2>6
  <2>8. a <= q /\ nb \in Nat /\ Cardinality(A[j]) \in Nat
    BY <1>1, <1>2, <2>6
  <2> QED BY <2>7, <2>8
<1>10. \A c \in Nat : nb - 2 * (n - 1) <= c /\ c <= nb + 1 => c - nb \in -2 * (n - 1) .. 1
  <2>1. PICK d \in Nat : d = 2 * (n - 1)
    OBVIOUS
  <2>2. -2 * (n - 1) = -d
    BY <2>1
  <2>3. \A c \in Nat : nb - d <= c /\ c <= nb + 1 => c - nb \in -d .. 1
    BY <1>1
  <2> QED BY <2>1, <2>2, <2>3
<1> QED BY <1>2, <1>8, <1>9, <1>10

\* What a master that stays has in the end: its first nb slots, and those
\* placed on it.
LEMMA AfterCount ==
  ASSUME NEW M, NEW N, NEW C, NEW b, NEW new, NEW old, NEW nbSlots, NEW order,
         Fresh(M, N, C, b, new, old, nbSlots, order), NEW j \in 1 .. Len(new)
  PROVE  LET V == Visits(slotToMigrateByNode(b, new, old, nbSlots), order)
             nb == nbSlotByNode(nbSlots, new)
             F == Filled(b, new, nb)
             c == Cardinality(b[new[j]])
             after == CarriedOut(b, feedMigInfo(b, new, old, nbSlots, order), new[j])
         IN  /\ IsFiniteSet(after) /\ c \in Nat
             /\ Cardinality(after) =
                  (IF c <= nb THEN c ELSE nb) + Cardinality(TurnsOf(F, Cardinality(V), j))
<1> DEFINE by == slotToMigrateByNode(b, new, old, nbSlots)
           V == Visits(by, order)
           nb == nbSlotByNode(nbSlots, new)
           F == Filled(b, new, nb)
           P == buildSlotsByNode(b, new, old, nbSlots, order)
           groups == feedMigInfo(b, new, old, nbSlots, order)
           n == new[j]
           kept == IF n \in C THEN b[n] \ by[n] ELSE {}
           c == Cardinality(b[n])
<1>1. /\ n \in N /\ n \in M /\ (n \notin C => b[n] = {})
      /\ nbSlots \in Nat /\ b \in [M -> SUBSET (0 .. nbSlots - 1)]
  <2>1. new \in [1 .. Len(new) -> N]
    BY Listing DEF Fresh, Given
  <2> QED BY <2>1 DEF Fresh, Given
<1>2. nb \in Nat
  BY ShareType DEF Fresh
<1>3. CarriedOut(b, groups, n) = kept \cup PlacedOn(P, n)
  BY <1>1, Outcome
<1>4. IsFiniteSet(PlacedOn(P, n)) /\ Cardinality(PlacedOn(P, n)) = Cardinality(TurnsOf(F, Cardinality(V), j))
  BY PlacedCount
<1>5. n \in C => \A s \in b[n] : s \in by[n] <=> \E p \in P : p.slot = s
  BY <1>1, PlacedOnce
<1>6. n \in C => by[n] = retrieveSlotToMigrateFrom(b, n, nb)
  BY <1>1, SourceSlots DEF Fresh
<1> HIDE DEF by, V, F, P, groups, nb, n
<1>7. b[n] \in SUBSET Nat /\ IsFiniteSet(b[n])
  <2>1. 0 \in Int /\ nbSlots - 1 \in Int /\ b[n] \in SUBSET (0 .. nbSlots - 1)
    BY <1>1
  <2>2. IsFiniteSet(0 .. nbSlots - 1)
    BY <2>1, FS_Interval
  <2> QED BY <2>1, <2>2, FS_Subset
<1>8. c \in Nat
  BY <1>7, FS_CardinalityType
<1>9. PICK S \in SUBSET Nat : S = b[n]
  BY <1>7
<1>10. kept = {s \in S : Cardinality({t \in S : t < s}) < nb}
  <2>1. \A s \in S : IsFiniteSet({t \in S : t < s})
    BY <1>7, <1>9, FS_Subset
  <2>2. \A s \in S : Cardinality({t \in S : t < s}) \in Nat
    BY <2>1, FS_CardinalityType
  <2>3. CASE n \in C
    <3>1. \A s \in S : s \in by[n] <=> Cardinality({t \in S : t < s}) >= nb
      BY <1>6, <1>9, <2>3 DEF retrieveSlotToMigrateFrom
    <3>2. \A s \in S : s \notin by[n] <=> Cardinality({t \in S : t < s}) < nb
      BY <1>2, <2>2, <3>1
    <3> QED BY <1>9, <2>3, <3>2
  <2>4. CASE n \notin C
    BY <1>1, <1>9, <2>4
  <2> QED BY <2>3, <2>4
<1>11. IsFiniteSet(kept) /\ Cardinality(kept) = IF c <= nb THEN c ELSE nb
  <2> HIDE DEF kept
  <2> QED BY <1>2, <1>7, <1>9, <1>10, LeastOnes
<1>12. kept \cap PlacedOn(P, n) = {}
  BY <1>5 DEF PlacedOn
<1> HIDE DEF kept
<1>13. /\ IsFiniteSet(kept \cup PlacedOn(P, n))
       /\ Cardinality(kept \cup PlacedOn(P, n)) =
            Cardinality(kept) + Cardinality(PlacedOn(P, n)) - Cardinality(kept \cap PlacedOn(P, n))
  BY <1>4, <1>11, FS_Union
<1>14. Cardinality(PlacedOn(P, n)) \in Nat /\ Cardinality(kept) \in Nat
  BY <1>4, <1>11, FS_CardinalityType
<1>15. /\ IsFiniteSet(CarriedOut(b, groups, n)) /\ c \in Nat
       /\ Cardinality(CarriedOut(b, groups, n)) =
            (IF c <= nb THEN c ELSE nb) + Cardinality(TurnsOf(F, Cardinality(V), j))
  <2> DEFINE u == Cardinality(TurnsOf(F, Cardinality(V), j))
             q == Cardinality(PlacedOn(P, n))
             l == Cardinality(kept)
  <2>1. q = u /\ q \in Nat /\ l \in Nat /\ l = IF c <= nb THEN c ELSE nb
    BY <1>4, <1>11, <1>14
  <2>2. IsFiniteSet(CarriedOut(b, groups, n)) /\ Cardinality(CarriedOut(b, groups, n)) = l + q - 0
    BY <1>3, <1>12, <1>13, FS_EmptySet
  <2> HIDE DEF u, q, l, c
  <2>3. Cardinality(CarriedOut(b, groups, n)) = (IF c <= nb THEN c ELSE nb) + u
    BY <2>1, <2>2
  <2> QED BY <1>8, <2>2, <2>3 DEF u, c
<1> QED BY <1>15 DEF by, V, F, P, groups, nb, n

\* The masters that stay end up with nb slots each, at most one more and at
\* most 2(n - 1) fewer.
LEMMA EvenEach ==
  ASSUME NEW M, NEW N, NEW C, NEW b, NEW new, NEW old, NEW nbSlots, NEW order,
         Fresh(M, N, C, b, new, old, nbSlots, order), NEW n \in N
  PROVE  Cardinality(CarriedOut(b, feedMigInfo(b, new, old, nbSlots, order), n))
           - nbSlotByNode(nbSlots, new) \in -2 * (Len(new) - 1) .. 1
<1> DEFINE by == slotToMigrateByNode(b, new, old, nbSlots)
           V == Visits(by, order)
           T == Cardinality(V)
           nb == nbSlotByNode(nbSlots, new)
           F == Filled(b, new, nb)
           P == buildSlotsByNode(b, new, old, nbSlots, order)
           groups == feedMigInfo(b, new, old, nbSlots, order)
           k == Len(new)
           A == [j \in 1 .. k |-> CarriedOut(b, groups, new[j])]
           t(j) == Cardinality(TurnsOf(F, T, j))
           c(j) == Cardinality(b[new[j]])
<1>1. /\ nbSlots \in Nat /\ b \in [M -> SUBSET (0 .. nbSlots - 1)]
      /\ N \subseteq M
  BY DEF Fresh, Given
<1>2. /\ k \in Nat \ {0} /\ nb \in Nat
      /\ new \in [1 .. k -> N]
      /\ \A j, l \in 1 .. k : new[j] = new[l] => j = l
      /\ \A m \in N : \E j \in 1 .. k : new[j] = m
  <2>1. nb \in Nat /\ k \in Nat \ {0}
    BY ShareType DEF Fresh
  <2>2. /\ new \in [1 .. k -> N]
        /\ \A j, l \in 1 .. k : new[j] = new[l] => j = l
        /\ \A m \in N : \E j \in 1 .. k : new[j] = m
    BY Listing DEF Fresh, Given
  <2> QED BY <2>1, <2>2
<1>3. nb = (nbSlots + k - 1) \div k
  BY DEF nbSlotByNode
<1>4. V \in SUBSET (Nat \X Nat) /\ IsFiniteSet(V)
  BY VisitsAre
<1>5. \A j \in 1 .. k : /\ IsFiniteSet(A[j]) /\ c(j) \in Nat
                        /\ Cardinality(A[j]) = (IF c(j) <= nb THEN c(j) ELSE nb) + t(j)
  BY AfterCount
<1>6. /\ \A p \in P : p.slot \in 0 .. nbSlots - 1
      /\ \A m \in M : CarriedOut(b, groups, m) =
           (IF m \in C THEN b[m] \ by[m] ELSE {}) \cup PlacedOn(P, m)
  BY PlacedOnce, Outcome
<1>7. \A s \in 0 .. nbSlots - 1 :
        \E m \in N : \A l \in N : s \in CarriedOut(b, groups, l) <=> l = m
  BY OneEach
<1> HIDE DEF by, V, nb, P, groups, k
<1>8. T \in Nat
  BY <1>4, FS_CardinalityType
<1>9. \A j \in 1 .. k : IsFiniteSet(b[new[j]])
  <2>1. 0 \in Int /\ nbSlots - 1 \in Int
    BY <1>1
  <2>2. IsFiniteSet(0 .. nbSlots - 1)
    BY <2>1, FS_Interval
  <2>3. \A j \in 1 .. k : b[new[j]] \in SUBSET (0 .. nbSlots - 1)
    BY <1>1, <1>2
  <2> QED BY <2>2, <2>3, FS_Subset
<1>10. F[T].id \in 1 .. k /\ SizesAre(b, new, nb, F, T)
  <2>1. F[T] \in [id : 1 .. k, size : [1 .. k -> Nat]]
    BY <1>2, <1>8, <1>9, FilledType DEF k
  <2>2. SizesAre(b, new, nb, F, T)
    BY <1>2, <1>8, <1>9, SizesAlways DEF k
  <2> QED BY <2>1, <2>2
<1> HIDE DEF F, T
<1>11. \A j \in 1 .. k : /\ IsFiniteSet(TurnsOf(F, T, j)) /\ t(j) \in Nat
                         /\ F[T].size[j] = c(j) + t(j)
                         /\ j < F[T].id => F[T].size[j] >= nb
                         /\ j > F[T].id => t(j) = 0
                         /\ j < k => t(j) <= 1 \/ F[T].size[j] <= nb
  <2>1. \A j \in 1 .. k : IsFiniteSet(TurnsOf(F, T, j))
    BY <1>10 DEF SizesAre, k
  <2> QED BY <1>10, <2>1, FS_CardinalityType DEF SizesAre, k
<1>12. PICK id \in 1 .. k : id = F[T].id
  BY <1>10
<1> HIDE DEF t, c, A
<1>13. ASSUME NEW j \in 1 .. k
       PROVE  /\ j < id => nb <= Cardinality(A[j])
              /\ j < k => Cardinality(A[j]) <= nb + 1
              /\ id < k /\ j = k => Cardinality(A[j]) <= nb
  <2>1. /\ c(j) \in Nat /\ Cardinality(A[j]) = (IF c(j) <= nb THEN c(j) ELSE nb) + t(j)
    BY <1>5
  <2>2. /\ t(j) \in Nat
        /\ j < id => c(j) + t(j) >= nb
        /\ j > id => t(j) = 0
        /\ j < k => t(j) <= 1 \/ c(j) + t(j) <= nb
    BY <1>11, <1>12
  <2> QED BY <1>2, <2>1, <2>2
<1>14. Joined(A, 1 .. k) = 0 .. nbSlots - 1
  <2>1. \A s : s \in Joined(A, 1 .. k) <=> \E j \in 1 .. k : s \in CarriedOut(b, groups, new[j])
    BY DEF Joined, A
  <2>2. \A m \in M : CarriedOut(b, groups, m) \subseteq 0 .. nbSlots - 1
    BY <1>1, <1>6 DEF PlacedOn
  <2>3. \A s \in 0 .. nbSlots - 1 : \E j \in 1 .. k : s \in CarriedOut(b, groups, new[j])
    BY <1>2, <1>7
  <2>4. \A j \in 1 .. k : new[j] \in M
    BY <1>1, <1>2
  <2>5. \A s : s \in Joined(A, 1 .. k) <=> s \in 0 .. nbSlots - 1
    BY <2>1, <2>2, <2>3, <2>4, Zenon
  <2> QED BY <2>5
<1>15. \A j, l \in 1 .. k : j # l => A[j] \cap A[l] = {}
  <2> SUFFICES ASSUME NEW j \in 1 .. k, NEW l \in 1 .. k, j # l, NEW s \in A[j], s \in A[l]
               PROVE  FALSE
    OBVIOUS
  <2>1. s \in CarriedOut(b, groups, new[j]) /\ s \in CarriedOut(b, groups, new[l])
    BY DEF A
  <2>2. new[j] # new[l] /\ new[j] \in N /\ new[l] \in N
    BY <1>2
  <2>3. s \in 0 .. nbSlots - 1
    BY <1>1, <1>6, <2>1, <2>2 DEF PlacedOn
  <2> QED BY <1>7, <2>1, <2>2, <2>3
<1>16. \A j \in 1 .. k : Cardinality(A[j]) - nb \in -2 * (k - 1) .. 1
  <2>1. k \in 1 .. k /\ \A j \in 1 .. k : IsFiniteSet(A[j])
    BY <1>2, <1>5
  <2>2. /\ \A j \in 1 .. k : j < id => nb <= Cardinality(A[j])
        /\ \A j \in 1 .. k : j < k => Cardinality(A[j]) <= nb + 1
        /\ id < k => Cardinality(A[k]) <= nb
    BY <1>13, <2>1
  <2> QED BY <1>1, <1>2, <1>3, <1>14, <1>15, <2>1, <2>2, SpreadBounds
<1>17. PICK j \in 1 .. k : new[j] = n
  BY <1>2
<1>18. A[j] = CarriedOut(b, groups, n)
  BY <1>17 DEF A
<1> QED BY <1>16, <1>18 DEF groups, nb, k

-----------------------------------------------------------------------------
(***************************************************************************)
(* The specification.                                                      *)
(***************************************************************************)
\* A list of the elements of a finite set is one of its lists.
LEMMA AList ==
  ASSUME NEW S, IsFiniteSet(S)
  PROVE  SetToSeq(S) \in SetToSeqs(S)
<1> DEFINE k == Cardinality(S)
<1>1. PICK f : f \in Bijection(1 .. k, S)
  BY FS_CardinalityType DEF ExistsBijection
<1>2. f \in [1 .. k -> S] /\ \A x, y \in 1 .. k : f[x] = f[y] => x = y
  BY <1>1 DEF Bijection, Injection, IsInjective
<1>3. \E g \in [1 .. k -> S] : IsInjective(g)
  BY <1>2 DEF IsInjective
<1>4. SetToSeq(S) \in [1 .. k -> S] /\ IsInjective(SetToSeq(S))
  BY <1>3 DEF SetToSeq
<1> QED BY <1>4 DEF SetToSeqs, IsInjective

\* What holds while the pass goes on: until the plan is carried out the masters
\* have what they had at the start, and the plan is one of theirs.
PlanInv ==
  /\ phase \in {"read", "planned"} => bom \in Distributions /\ New \subseteq Masters
  /\ phase = "planned" =>
       \E new \in SetToSeqs(New), order \in SetToSeqs(Current \cup {Nowhere}) :
         plan = feedMigInfo(bom, new, SetToSeq(Current), NumSlots, order)

\* The masters that stay are Expect.
LEMMA NewMasters ==
  /\ IsFiniteSet(New) /\ Cardinality(New) = Expect /\ New # {}
  /\ Expect \in Nat \ {0} /\ NumSlots \in Nat
<1>1. Expect \in Nat \ {0} /\ NumSlots \in Nat
  BY DispatchPlanAssumption
<1>2. 0 \in Int /\ Expect - 1 \in Int
  BY <1>1
<1>3. /\ IsFiniteSet(0 .. Expect - 1)
      /\ Cardinality(0 .. Expect - 1) = IF 0 > Expect - 1 THEN 0 ELSE (Expect - 1) - 0 + 1
  BY <1>2, FS_Interval
<1>4. 0 \in New
  BY <1>1 DEF New
<1> QED BY <1>1, <1>3, <1>4 DEF New

\* A plan of this specification starts from what the lemmas ask for.
LEMMA PlanIsFresh ==
  ASSUME bom \in Distributions, New \subseteq Masters,
         NEW new \in SetToSeqs(New), NEW order \in SetToSeqs(Current \cup {Nowhere})
  PROVE  Fresh(Masters, New, Current, bom, new, SetToSeq(Current), NumSlots, order)
<1>1. /\ bom \in [Masters -> SUBSET (0 .. NumSlots - 1)]
      /\ \A m, n \in Masters : m # n => bom[m] \cap bom[n] = {}
      /\ IsFiniteSet(Masters) /\ Nowhere \notin Masters
  BY DispatchPlanAssumption
<1>2. Current \in SUBSET Masters /\ \A m \in Masters \ Current : bom[m] = {}
  BY DEF Current
<1>3. IsFiniteSet(Current)
  BY <1>1, <1>2, FS_Subset
<1>4. SetToSeq(Current) \in SetToSeqs(Current)
  BY <1>3, AList
<1> QED BY <1>1, <1>2, <1>3, <1>4, NewMasters DEF Fresh, Given

\* Carrying out the plan: every slot ends up with one of the masters that
\* stay, and within the bounds.
LEMMA ApplyIsRight ==
  ASSUME PlanInv, Apply
  PROVE  SlotsEndUpOnce' /\ EvenSpread'
<1>1. /\ phase = "planned" /\ phase' = "done"
      /\ bom' = [n \in Masters |-> CarriedOut(bom, plan, n)]
  BY DEF Apply
<1>2. /\ bom \in Distributions /\ New \subseteq Masters
      /\ \E new \in SetToSeqs(New), order \in SetToSeqs(Current \cup {Nowhere}) :
           plan = feedMigInfo(bom, new, SetToSeq(Current), NumSlots, order)
  BY <1>1 DEF PlanInv
<1>3. PICK new \in SetToSeqs(New), order \in SetToSeqs(Current \cup {Nowhere}) :
        plan = feedMigInfo(bom, new, SetToSeq(Current), NumSlots, order)
  BY <1>2
<1>4. PICK b, C, old, groups : b = bom /\ C = Current /\ old = SetToSeq(Current) /\ groups = plan
  OBVIOUS
<1>5. Fresh(Masters, New, C, b, new, old, NumSlots, order)
  BY <1>2, <1>4, PlanIsFresh
<1>6. groups = feedMigInfo(b, new, old, NumSlots, order)
  BY <1>3, <1>4
<1>7. /\ \A n \in Masters \ New : CarriedOut(b, groups, n) = {}
      /\ \A s \in 0 .. NumSlots - 1 :
           \E n \in New : \A m \in New : s \in CarriedOut(b, groups, m) <=> m = n
  BY <1>5, <1>6, OneEach
<1>8. \A n \in New : Cardinality(CarriedOut(b, groups, n))
        - nbSlotByNode(NumSlots, new) \in -2 * (Len(new) - 1) .. 1
  BY <1>5, <1>6, EvenEach
<1>9. New' = New /\ New \subseteq Masters
  <2>1. New \subseteq Masters
    BY <1>2 DEF Current
  <2> QED BY <2>1 DEF New
<1>10. \A n \in Masters : bom'[n] = CarriedOut(b, groups, n)
  BY <1>1, <1>4
<1>11. SlotsEndUpOnce'
  <2>1. \A n \in Masters \ New : bom'[n] = {}
    BY <1>7, <1>10
  <2>2. ASSUME NEW s \in 0 .. NumSlots - 1 PROVE Cardinality({n \in New : s \in bom'[n]}) = 1
    <3>1. PICK n \in New : \A m \in New : s \in CarriedOut(b, groups, m) <=> m = n
      BY <1>7
    <3>2. {m \in New : s \in bom'[m]} = {n}
      BY <1>9, <1>10, <3>1
    <3> QED BY <3>2, FS_Singleton
  <2>3. /\ \A n \in Masters \ New' : bom'[n] = {}
        /\ \A s \in 0 .. NumSlots - 1 : Cardinality({n \in New' : s \in bom'[n]}) = 1
    BY <1>9, <2>1, <2>2
  <2> QED BY <2>3 DEF SlotsEndUpOnce
<1>12. EvenSpread'
  <2>1. Len(new) = Expect
    BY <1>3, NewMasters, Listing
  <2>2. nbSlotByNode(NumSlots, new) = (NumSlots + Expect - 1) \div Expect
    BY <2>1 DEF nbSlotByNode
  <2>3. \A n \in New : Cardinality(bom'[n]) - ((NumSlots + Expect - 1) \div Expect)
                         \in -2 * (Expect - 1) .. 1
    BY <1>8, <1>9, <1>10, <2>1, <2>2
  <2> QED BY <1>9, <2>3 DEF EvenSpread
<1> QED BY <1>11, <1>12

\* The invariant holds at the start and stays, with both properties.
LEMMA PlanInvStep ==
  /\ Init => PlanInv /\ SlotsEndUpOnce /\ EvenSpread
  /\ PlanInv /\ SlotsEndUpOnce /\ EvenSpread /\ [Next]_vars
       => PlanInv' /\ SlotsEndUpOnce' /\ EvenSpread'
<1>1. Init => PlanInv /\ SlotsEndUpOnce /\ EvenSpread
  BY DEF Init, PlanInv, SlotsEndUpOnce, EvenSpread
<1>2. ASSUME PlanInv, SlotsEndUpOnce, EvenSpread, [Next]_vars
      PROVE  PlanInv' /\ SlotsEndUpOnce' /\ EvenSpread'
  <2>1. CASE Plan
    <3>1. /\ phase = "read" /\ phase' = "planned" /\ bom' = bom
          /\ bom \in Distributions /\ New \subseteq Masters
      BY <1>2, <2>1 DEF Plan, PlanInv
    <3>2. New' = New /\ Current' = Current
      BY <3>1 DEF New, Current
    <3>3. PICK new \in SetToSeqs(New), order \in SetToSeqs(Current \cup {Nowhere}) :
            plan' = feedMigInfo(bom, new, SetToSeq(Current), NumSlots, order)
      BY <2>1 DEF Plan
    <3>4. plan' = feedMigInfo(bom', new, SetToSeq(Current'), NumSlots, order)
      BY <3>1, <3>2, <3>3
    <3>5. PlanInv'
      BY <3>1, <3>2, <3>3, <3>4 DEF PlanInv
    <3> QED BY <3>1, <3>5 DEF SlotsEndUpOnce, EvenSpread
  <2>2. CASE Apply
    <3>1. phase' = "done"
      BY <2>2 DEF Apply
    <3>2. PlanInv'
      BY <3>1 DEF PlanInv
    <3> QED BY <1>2, <2>2, <3>2, ApplyIsRight
  <2>3. CASE UNCHANGED vars
    <3>1. bom' = bom /\ plan' = plan /\ phase' = phase
      BY <2>3 DEF vars
    <3>2. New' = New /\ Current' = Current
      BY <3>1 DEF New, Current
    <3>3. PlanInv'
      BY <1>2, <3>1, <3>2 DEF PlanInv
    <3>4. SlotsEndUpOnce'
      BY <1>2, <3>1, <3>2 DEF SlotsEndUpOnce
    <3>5. EvenSpread'
      BY <1>2, <3>1, <3>2 DEF EvenSpread
    <3> QED BY <3>3, <3>4, <3>5
  <2> QED BY <1>2, <2>1, <2>2, <2>3 DEF Next
<1> QED BY <1>1, <1>2

\* A carried out plan leaves every slot, the lost ones included, with exactly
\* one of the masters that stay and the masters that go with none.
THEOREM DispatchedOnce == Spec => []SlotsEndUpOnce
<1>1. Spec => [](PlanInv /\ SlotsEndUpOnce /\ EvenSpread)
  BY PlanInvStep, PTL DEF Spec
<1> QED BY <1>1, PTL

\* A carried out plan leaves no master that stays more than one slot above the
\* even share, and none more than 2(Expect - 1) below it.
THEOREM DispatchedEvenly == Spec => []EvenSpread
<1>1. Spec => [](PlanInv /\ SlotsEndUpOnce /\ EvenSpread)
  BY PlanInvStep, PTL DEF Spec
<1> QED BY <1>1, PTL
===============================================================================
