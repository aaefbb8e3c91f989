-------------------------- MODULE SlotDispatchProofs --------------------------
(***************************************************************************)
(* What a plan of feedMigInfo is like, whatever the slots of the masters   *)
(* and the iteration order of the maps.                                    *)
(***************************************************************************)
EXTENDS SlotDispatch, FiniteSetTheorems, SequenceTheorems, NaturalsInduction,
        WellFoundedInduction, TLAPS

\* A set of natural numbers has a least element.
LEMMA LeastNumber ==
  ASSUME NEW T \in SUBSET Nat, T # {}
  PROVE  \E x \in T : \A y \in T : x <= y
<1>1. IsWellFoundedOn(OpToRel(<, Nat), Nat)
  BY NatLessThanWellFounded
<1>2. PICK x \in T : \A y \in T : ~ (<<y, x>> \in OpToRel(<, Nat))
  BY <1>1, WFMin, Zenon
<1>3. \A y \in T : <<y, x>> \in OpToRel(<, Nat) <=> y < x
  BY DEF OpToRel
<1>4. \A y \in T : ~ (y < x)
  BY <1>2, <1>3, Zenon
<1>5. \A y \in T : x <= y
  BY <1>4
<1> QED BY <1>5

\* A set of numbers that has 0, and the successor of each of its elements, has
\* them all.
LEMMA AllNumbers ==
  ASSUME NEW T \in SUBSET Nat, 0 \in T, \A k \in T : k + 1 \in T
  PROVE  T = Nat
<1> SUFFICES ASSUME T # Nat PROVE FALSE
  OBVIOUS
<1>1. PICK x \in Nat \ T : \A y \in Nat \ T : x <= y
  BY LeastNumber
<1>2. x # 0 /\ x - 1 \in Nat
  BY <1>1
<1>3. x - 1 \in T
  BY <1>1, <1>2
<1>4. (x - 1) + 1 \in T
  BY <1>3
<1>5. (x - 1) + 1 = x
  BY <1>1
<1> QED BY <1>1, <1>4, <1>5

\* An order in which a Go map is visited lists every element once.
LEMMA Listing ==
  ASSUME NEW S, IsFiniteSet(S), NEW f \in SetToSeqs(S)
  PROVE  /\ Len(f) = Cardinality(S) /\ Len(f) \in Nat
         /\ f \in [1 .. Len(f) -> S] /\ DOMAIN f = 1 .. Len(f)
         /\ \A j, l \in 1 .. Len(f) : f[j] = f[l] => j = l
         /\ \A x \in S : \E j \in 1 .. Len(f) : f[j] = x
         /\ ToSet(f) = S
<1> DEFINE D == 1 .. Cardinality(S)
<1>1. Cardinality(S) \in Nat
  BY FS_CardinalityType
<1>2. f \in [D -> S] /\ \A j, l \in D : j # l => f[j] # f[l]
  BY DEF SetToSeqs
<1>3. f \in Seq(S)
  BY <1>1, <1>2, SeqDef
<1>4. Len(f) = Cardinality(S)
  <2>1. Len(f) \in Nat /\ DOMAIN f = 1 .. Len(f)
    BY <1>3, LenProperties
  <2>2. 1 .. Len(f) = 1 .. Cardinality(S)
    BY <1>2, <2>1
  <2> QED BY <1>1, <2>1, <2>2
<1>5. f \in Injection(D, S)
  BY <1>2 DEF Injection, IsInjective
<1>6. IsFiniteSet(D) /\ Cardinality(D) = Cardinality(S)
  BY <1>1, FS_Interval
<1>7. f \in Surjection(D, S)
  BY <1>5, <1>6, FS_Injection
<1>8. \A x \in S : \E j \in D : f[j] = x
  BY <1>7 DEF Surjection
<1>9. ToSet(f) = S
  BY <1>2, <1>8 DEF ToSet
<1> QED
  BY <1>1, <1>2, <1>4, <1>8, <1>9

-----------------------------------------------------------------------------
(***************************************************************************)
(* Filled is what its equation says.                                       *)
(***************************************************************************)
\* The first k turns from base.
FirstTurns(p, base, nb, k) ==
  /\ p[0] = base
  /\ \A j \in 1 .. k : p[j] = Filling(p[j - 1], nb)

\* The turns have only one course.
LEMMA TurnsAgree ==
  ASSUME NEW base, NEW nb, NEW p, NEW q, NEW k \in Nat, NEW l \in Nat, k <= l,
         FirstTurns(p, base, nb, k), FirstTurns(q, base, nb, l)
  PROVE  p[k] = q[k]
<1> DEFINE T == {j \in Nat : j <= k => p[j] = q[j]}
<1>1. 0 \in T
  BY DEF FirstTurns
<1>2. ASSUME NEW j \in T PROVE j + 1 \in T
  <2> SUFFICES ASSUME j + 1 <= k PROVE p[j + 1] = q[j + 1]
    OBVIOUS
  <2>1. p[j] = q[j]
    BY <1>2
  <2>2. j + 1 \in 1 .. k /\ j + 1 \in 1 .. l /\ (j + 1) - 1 = j
    OBVIOUS
  <2>3. p[j + 1] = Filling(p[j], nb)
    BY <2>2 DEF FirstTurns
  <2>4. q[j + 1] = Filling(q[j], nb)
    BY <2>2 DEF FirstTurns
  <2> QED BY <2>1, <2>3, <2>4
<1>3. T = Nat
  <2>1. T \in SUBSET Nat
    OBVIOUS
  <2> HIDE DEF T
  <2> QED BY <1>1, <1>2, <2>1, AllNumbers
<1> QED BY <1>3

\* Any number of turns can be taken.
LEMMA TurnsExist ==
  ASSUME NEW base, NEW nb
  PROVE  \A k \in Nat : \E p : FirstTurns(p, base, nb, k)
<1> DEFINE T == {k \in Nat : \E p : FirstTurns(p, base, nb, k)}
<1>1. 0 \in T
  <2>1. FirstTurns([j \in Nat |-> base], base, nb, 0)
    BY DEF FirstTurns
  <2> QED BY <2>1
<1>2. ASSUME NEW k \in T PROVE k + 1 \in T
  <2>1. PICK p : FirstTurns(p, base, nb, k)
    BY <1>2
  <2> DEFINE q == [j \in Nat |-> IF j = k + 1 THEN Filling(p[k], nb) ELSE p[j]]
  <2>2. q[0] = base
    BY <2>1 DEF FirstTurns
  <2>3. ASSUME NEW j \in 1 .. k + 1 PROVE q[j] = Filling(q[j - 1], nb)
    <3>1. CASE j = k + 1
      <4>1. j \in Nat /\ j - 1 = k /\ k \in Nat /\ k # k + 1
        BY <3>1
      <4>2. q[j] = Filling(p[k], nb)
        BY <3>1, <4>1
      <4>3. q[j - 1] = p[k]
        BY <4>1
      <4> QED BY <4>2, <4>3
    <3>2. CASE j # k + 1
      <4>1. j \in 1 .. k /\ j \in Nat /\ j - 1 \in Nat /\ j - 1 # k + 1
        BY <3>2
      <4>2. q[j] = p[j] /\ q[j - 1] = p[j - 1]
        BY <3>2, <4>1
      <4>3. p[j] = Filling(p[j - 1], nb)
        BY <2>1, <4>1 DEF FirstTurns
      <4> QED BY <4>2, <4>3
    <3> QED BY <3>1, <3>2
  <2> HIDE DEF q
  <2>4. FirstTurns(q, base, nb, k + 1)
    BY <2>2, <2>3 DEF FirstTurns
  <2> QED BY <2>4
<1>3. T = Nat
  <2>1. T \in SUBSET Nat
    OBVIOUS
  <2> HIDE DEF T
  <2> QED BY <1>1, <1>2, <2>1, AllNumbers
<1> QED BY <1>3

\* All the turns.
AllTurns(g, base, nb) ==
  g = [k \in Nat |-> IF k = 0 THEN base ELSE Filling(g[k - 1], nb)]

\* All the turns can be taken.
LEMMA TurnsAll ==
  ASSUME NEW base, NEW nb
  PROVE  \E g : AllTurns(g, base, nb)
<1> DEFINE P(k) == CHOOSE p : FirstTurns(p, base, nb, k)
           g == [k \in Nat |-> P(k)[k]]
<1>1. \A k \in Nat : FirstTurns(P(k), base, nb, k)
  BY TurnsExist
<1>2. ASSUME NEW k \in Nat PROVE g[k] = IF k = 0 THEN base ELSE Filling(g[k - 1], nb)
  <2>1. CASE k = 0
    BY <1>1, <2>1 DEF FirstTurns
  <2>2. CASE k # 0
    <3>1. k - 1 \in Nat /\ k - 1 <= k /\ k \in 1 .. k
      BY <2>2
    <3> HIDE DEF P
    <3>2. P(k)[k] = Filling(P(k)[k - 1], nb)
      BY <1>1, <3>1 DEF FirstTurns
    <3>3. P(k - 1)[k - 1] = P(k)[k - 1]
      BY <1>1, <3>1, TurnsAgree
    <3> QED BY <2>2, <3>1, <3>2, <3>3
  <2> QED BY <2>1, <2>2
<1> HIDE DEF P
<1>3. g = [k \in Nat |-> IF k = 0 THEN base ELSE Filling(g[k - 1], nb)]
  <2>1. g = [k \in Nat |-> g[k]]
    OBVIOUS
  <2> HIDE DEF g
  <2> QED BY <1>2, <2>1
<1> HIDE DEF g
<1> QED BY <1>3 DEF AllTurns

\* The lengths buildSlotByNodeFromAvailableSlots starts from.
StartSizes(bom, new) ==
  [id |-> 1, size |-> [j \in 1 .. Len(new) |-> Cardinality(bom[new[j]])]]

\* The loop starts with the first new master and takes its turns.
LEMMA FilledTurns ==
  ASSUME NEW bom, NEW new, NEW nb
  PROVE  /\ Filled(bom, new, nb)[0] = StartSizes(bom, new)
         /\ \A k \in Nat \ {0} :
              Filled(bom, new, nb)[k] = Filling(Filled(bom, new, nb)[k - 1], nb)
<1> DEFINE base == StartSizes(bom, new)
           F == Filled(bom, new, nb)
<1>1. F = CHOOSE g : AllTurns(g, base, nb)
  BY DEF Filled, StartSizes, AllTurns
<1> HIDE DEF base, F
<1>2. \E g : AllTurns(g, base, nb)
  BY TurnsAll
<1>3. AllTurns(F, base, nb)
  BY <1>1, <1>2
<1>4. F[0] = base
  BY <1>3 DEF AllTurns
<1>5. \A k \in Nat \ {0} : F[k] = Filling(F[k - 1], nb)
  BY <1>3 DEF AllTurns
<1> QED BY <1>4, <1>5 DEF base, F

\* How many lengths there are does not change.
LEMMA SizesLen ==
  ASSUME NEW n \in Nat, NEW f \in [1 .. n -> Nat]
  PROVE  Len(f) = n
<1>1. f \in Seq(Nat)
  BY SeqDef
<1>2. Len(f) \in Nat /\ DOMAIN f = 1 .. Len(f)
  BY <1>1, LenProperties
<1>3. 1 .. Len(f) = 1 .. n
  BY <1>2
<1> QED BY <1>2, <1>3

\* One turn keeps idNode among the new masters.
LEMMA FillingType ==
  ASSUME NEW n \in Nat \ {0}, NEW nb \in Int,
         NEW f \in [id : 1 .. n, size : [1 .. n -> Nat]]
  PROVE  Filling(f, nb) \in [id : 1 .. n, size : [1 .. n -> Nat]]
<1>1. Len(f.size) = n
  BY SizesLen
<1> DEFINE id == IF nb - f.size[f.id] > 0 \/ f.id = Len(f.size) THEN f.id ELSE f.id + 1
<1>2. id \in 1 .. n
  BY <1>1
<1>3. Filling(f, nb) = [id |-> id, size |-> [f.size EXCEPT ![id] = @ + 1]]
  BY DEF Filling
<1> HIDE DEF id
<1> QED BY <1>2, <1>3

\* idNode is always one of the new masters.
LEMMA FilledType ==
  ASSUME NEW bom, NEW new, NEW nb \in Int, Len(new) \in Nat \ {0},
         \A j \in 1 .. Len(new) : IsFiniteSet(bom[new[j]])
  PROVE  \A k \in Nat :
           Filled(bom, new, nb)[k] \in [id : 1 .. Len(new), size : [1 .. Len(new) -> Nat]]
<1> DEFINE F == Filled(bom, new, nb)
           Type == [id : 1 .. Len(new), size : [1 .. Len(new) -> Nat]]
           T == {k \in Nat : F[k] \in Type}
<1>1. F[0] \in Type
  <2>1. \A j \in 1 .. Len(new) : Cardinality(bom[new[j]]) \in Nat
    BY FS_CardinalityType
  <2>2. StartSizes(bom, new) \in Type
    BY <2>1 DEF StartSizes
  <2> QED BY <2>2, FilledTurns
<1>2. ASSUME NEW k \in T PROVE k + 1 \in T
  <2>1. k + 1 \in Nat \ {0} /\ (k + 1) - 1 = k
    OBVIOUS
  <2>2. F[k + 1] = Filling(F[k], nb)
    BY <2>1, FilledTurns
  <2>3. F[k] \in Type
    BY <1>2
  <2> HIDE DEF F
  <2>4. Filling(F[k], nb) \in Type
    BY <2>3, FillingType
  <2> QED BY <2>1, <2>2, <2>4
<1>3. T = Nat
  <2>1. T \in SUBSET Nat /\ 0 \in T
    BY <1>1
  <2> HIDE DEF T
  <2> QED BY <1>2, <2>1, AllNumbers
<1> QED BY <1>3

-----------------------------------------------------------------------------
(***************************************************************************)
(* The plan.                                                               *)
(***************************************************************************)
\* What feedMigInfo is given: the slots b of the masters M, of which C are the
\* current masters and N the ones that stay, in some order of each map.
Given(M, N, C, b, new, old, nbSlots, order) ==
  /\ nbSlots \in Nat
  /\ b \in [M -> SUBSET (0 .. nbSlots - 1)]
  /\ N \subseteq M /\ C \subseteq M /\ Nowhere \notin M
  /\ IsFiniteSet(N) /\ IsFiniteSet(C) /\ N # {}
  /\ new \in SetToSeqs(N) /\ old \in SetToSeqs(C)
  /\ order \in SetToSeqs(C \cup {Nowhere})

\* nb is a number.
LEMMA ShareType ==
  ASSUME NEW M, NEW N, NEW C, NEW b, NEW new, NEW old, NEW nbSlots, NEW order,
         Given(M, N, C, b, new, old, nbSlots, order)
  PROVE  nbSlotByNode(nbSlots, new) \in Nat /\ Len(new) \in Nat \ {0}
<1>1. Len(new) = Cardinality(N) /\ Len(new) \in Nat
  BY Listing DEF Given
<1>2. Len(new) # 0
  BY <1>1, FS_EmptySet DEF Given
<1>3. nbSlots + Len(new) - 1 \in Nat
  BY <1>1, <1>2 DEF Given
<1> QED BY <1>1, <1>2, <1>3 DEF nbSlotByNode

\* What each source has to give: the lost slots, the slots of a master that
\* goes, some of the slots of a master that stays.
LEMMA SourceSlots ==
  ASSUME NEW M, NEW N, NEW C, NEW b, NEW new, NEW old, NEW nbSlots, NEW order,
         Given(M, N, C, b, new, old, nbSlots, order)
  PROVE  LET by == slotToMigrateByNode(b, new, old, nbSlots) IN
         /\ by[Nowhere] = {s \in 0 .. nbSlots - 1 : \A n \in C : s \notin b[n]}
         /\ \A n \in C : by[n] \subseteq b[n]
         /\ \A n \in C \ N : by[n] = b[n]
         /\ \A n \in C \cap N : by[n] = retrieveSlotToMigrateFrom(b, n, nbSlotByNode(nbSlots, new))
<1>1. ToSet(old) = C /\ ToSet(new) = N
  BY Listing DEF Given
<1>2. \A n \in C : n # Nowhere
  BY DEF Given
<1> QED
  BY <1>1, <1>2 DEF slotToMigrateByNode, retrieveLostSlots, retrieveSlotToMigrateFrom

\* buildSlotsByNode places what the sources have to give, on masters that
\* stay; a slot that one source gives is placed once.
LEMMA Placed ==
  ASSUME NEW M, NEW N, NEW C, NEW b, NEW new, NEW old, NEW nbSlots, NEW order,
         Given(M, N, C, b, new, old, nbSlots, order)
  PROVE  LET by == slotToMigrateByNode(b, new, old, nbSlots)
             P == buildSlotsByNode(b, new, old, nbSlots, order)
         IN  /\ \A p \in P : /\ p.slot \in 0 .. nbSlots - 1 /\ p.node \in N
                             /\ \E n \in C \cup {Nowhere} : p.slot \in by[n]
             /\ \A n \in C \cup {Nowhere} : \A s \in by[n] : \E p \in P : p.slot = s
             /\ \A s : (\A m, n \in C \cup {Nowhere} : s \in by[m] /\ s \in by[n] => m = n)
                  => \A p, q \in P : p.slot = s /\ q.slot = s => p = q
<1> DEFINE by == slotToMigrateByNode(b, new, old, nbSlots)
           nb == nbSlotByNode(nbSlots, new)
           V == Visits(by, order)
           At(v) == new[Filled(b, new, nb)[Turn(V, v)].id]
           P == buildSlotsByNode(b, new, old, nbSlots, order)
<1>1. P = {[slot |-> v[2], node |-> At(v)] : v \in V}
  BY DEF buildSlotsByNode, buildSlotByNodeFromAvailableSlots
<1>2. /\ order \in [1 .. Len(order) -> C \cup {Nowhere}] /\ Len(order) \in Nat
      /\ \A j, l \in 1 .. Len(order) : order[j] = order[l] => j = l
      /\ \A x \in C \cup {Nowhere} : \E j \in 1 .. Len(order) : order[j] = x
  <2>1. IsFiniteSet(C \cup {Nowhere})
    BY FS_AddElement DEF Given
  <2> QED BY <2>1, Listing DEF Given
<1>3. /\ \A n \in C \cup {Nowhere} : by[n] \subseteq 0 .. nbSlots - 1
  <2>1. \A n \in C : b[n] \subseteq 0 .. nbSlots - 1
    BY DEF Given
  <2> QED BY <2>1, SourceSlots
<1> HIDE DEF by
<1>4. \A v : v \in V <=> \E j \in 1 .. Len(order) : v \in {j} \X by[order[j]]
  BY DEF Visits
<1>5. ASSUME NEW v \in V
      PROVE  /\ v[1] \in 1 .. Len(order) /\ v[2] \in by[order[v[1]]]
             /\ v = <<v[1], v[2]>> /\ v[2] \in 0 .. nbSlots - 1
  BY <1>2, <1>3, <1>4
<1>6. ASSUME NEW v \in V PROVE At(v) \in N
  <2>1. V \subseteq (1 .. Len(order)) \X (0 .. nbSlots - 1)
    BY <1>5
  <2>2. IsFiniteSet((1 .. Len(order)) \X (0 .. nbSlots - 1))
    <3>1. IsFiniteSet(1 .. Len(order)) /\ IsFiniteSet(0 .. nbSlots - 1)
      BY <1>2, FS_Interval DEF Given
    <3> QED BY <3>1, FS_Product
  <2>3. Turn(V, v) \in Nat
    <3> DEFINE W == {w \in V : w[1] < v[1] \/ (w[1] = v[1] /\ w[2] < v[2])}
    <3>1. W \subseteq (1 .. Len(order)) \X (0 .. nbSlots - 1)
      BY <2>1
    <3>2. Cardinality(W) \in Nat
      <4> HIDE DEF W
      <4> QED BY <3>1, <2>2, FS_Subset, FS_CardinalityType
    <3>3. Turn(V, v) = Cardinality(W) + 1
      BY DEF Turn
    <3> QED BY <3>2, <3>3
  <2>4. nb \in Int /\ Len(new) \in Nat \ {0} /\ new \in [1 .. Len(new) -> N]
    <3>1. nb \in Nat /\ Len(new) \in Nat \ {0}
      BY ShareType, Zenon
    <3>2. new \in [1 .. Len(new) -> N]
      BY Listing DEF Given
    <3> HIDE DEF nb
    <3> QED BY <3>1, <3>2
  <2>5. \A j \in 1 .. Len(new) : IsFiniteSet(b[new[j]])
    <3> SUFFICES ASSUME NEW j \in 1 .. Len(new) PROVE IsFiniteSet(b[new[j]])
      OBVIOUS
    <3>1. b[new[j]] \subseteq 0 .. nbSlots - 1
      BY <2>4 DEF Given
    <3>2. IsFiniteSet(0 .. nbSlots - 1)
      BY FS_Interval DEF Given
    <3> QED BY <3>1, <3>2, FS_Subset
  <2> HIDE DEF V, nb
  <2>6. Filled(b, new, nb)[Turn(V, v)].id \in 1 .. Len(new)
    BY <2>3, <2>4, <2>5, FilledType
  <2> QED BY <2>4, <2>6
<1> HIDE DEF P, V, At
<1>7. ASSUME NEW p \in P
      PROVE  /\ p.slot \in 0 .. nbSlots - 1 /\ p.node \in N
             /\ \E n \in C \cup {Nowhere} : p.slot \in by[n]
  <2>1. PICK v \in V : p = [slot |-> v[2], node |-> At(v)]
    BY <1>1, <1>7
  <2> QED BY <1>2, <1>5, <1>6, <2>1
<1>8. ASSUME NEW n \in C \cup {Nowhere}, NEW s \in by[n]
      PROVE  \E p \in P : p.slot = s
  <2>1. PICK j \in 1 .. Len(order) : order[j] = n
    BY <1>2
  <2>2. <<j, s>> \in V
    BY <1>4, <2>1
  <2>3. [slot |-> <<j, s>>[2], node |-> At(<<j, s>>)] \in P
    BY <1>1, <2>2
  <2> QED BY <2>3
<1>9. ASSUME NEW s, \A m, n \in C \cup {Nowhere} : s \in by[m] /\ s \in by[n] => m = n,
             NEW p \in P, NEW q \in P, p.slot = s, q.slot = s
      PROVE  p = q
  <2>1. PICK v \in V : p = [slot |-> v[2], node |-> At(v)]
    BY <1>1, <1>9
  <2>2. PICK w \in V : q = [slot |-> w[2], node |-> At(w)]
    BY <1>1, <1>9
  <2>3. v[2] = s /\ w[2] = s
    BY <1>9, <2>1, <2>2
  <2>4. v[1] = w[1]
    BY <1>2, <1>5, <1>9, <2>3
  <2>5. v = w
    BY <1>5, <2>3, <2>4
  <2> QED BY <2>1, <2>2, <2>5
<1> QED BY <1>7, <1>8, <1>9 DEF by, P

\* feedMigInfo groups the placed slots by source and taker, those that do not
\* change hands left out.
LEMMA PlanMoves ==
  ASSUME NEW b, NEW new, NEW old, NEW nbSlots, NEW order
  PROVE  LET P == buildSlotsByNode(b, new, old, nbSlots, order)
             plan == feedMigInfo(b, new, old, nbSlots, order)
         IN  /\ \A g \in plan : g = [from |-> g.from, to |-> g.to, slots |-> g.slots]
             /\ \A g, h \in plan : g.from = h.from /\ g.to = h.to => g = h
             /\ \A g \in plan : g.from # g.to /\ g.slots # {}
             /\ \A g \in plan : \A s : s \in g.slots <=>
                  \E p \in P : s = p.slot /\ g.to = p.node /\ g.from = SourceOf(b, old, s)
             /\ \A p \in P : SourceOf(b, old, p.slot) # p.node =>
                  \E g \in plan : /\ g.from = SourceOf(b, old, p.slot)
                                  /\ g.to = p.node /\ p.slot \in g.slots
<1> DEFINE P == buildSlotsByNode(b, new, old, nbSlots, order)
           plan == feedMigInfo(b, new, old, nbSlots, order)
           moves == {[from |-> SourceOf(b, old, p.slot), to |-> p.node, slot |-> p.slot] : p \in P}
           Group(f, t) == [from |-> f, to |-> t,
                           slots |-> {x.slot : x \in {y \in moves : y.from = f /\ y.to = t}}]
<1>1. plan = {Group(m.from, m.to) : m \in {y \in moves : y.from # y.to}}
  BY DEF feedMigInfo
<1> HIDE DEF P, plan
<1>2. ASSUME NEW f, NEW t, NEW s
      PROVE  s \in Group(f, t).slots <=>
               \E p \in P : s = p.slot /\ t = p.node /\ f = SourceOf(b, old, s)
  <2> DEFINE X == {y \in moves : y.from = f /\ y.to = t}
  <2>1. Group(f, t).slots = {x.slot : x \in X}
    OBVIOUS
  <2>2. ASSUME NEW x \in X PROVE \E p \in P : x.slot = p.slot /\ t = p.node /\ f = SourceOf(b, old, p.slot)
    OBVIOUS
  <2>3. ASSUME NEW p \in P, t = p.node, f = SourceOf(b, old, p.slot)
        PROVE  \E x \in X : x.slot = p.slot
    <3>1. [from |-> f, to |-> t, slot |-> p.slot] \in X
      BY <2>3
    <3> QED BY <3>1
  <2> HIDE DEF X, Group
  <2> QED BY <2>1, <2>2, <2>3
<1>3. ASSUME NEW f, NEW t PROVE Group(f, t).from = f /\ Group(f, t).to = t
  OBVIOUS
<1>4. ASSUME NEW f, NEW t
      PROVE  Group(f, t) = [from |-> Group(f, t).from, to |-> Group(f, t).to, slots |-> Group(f, t).slots]
  OBVIOUS
<1> HIDE DEF Group
<1>5. ASSUME NEW g \in plan PROVE g = Group(g.from, g.to) /\ g.from # g.to /\ g.slots # {}
  <2>1. PICK m \in moves : m.from # m.to /\ g = Group(m.from, m.to)
    BY <1>1
  <2>2. PICK p \in P : m = [from |-> SourceOf(b, old, p.slot), to |-> p.node, slot |-> p.slot]
    OBVIOUS
  <2>3. g.from = m.from /\ g.to = m.to
    BY <1>3, <2>1
  <2>4. p.slot \in Group(m.from, m.to).slots
    BY <1>2, <2>2
  <2> QED BY <2>1, <2>3, <2>4
<1>6. ASSUME NEW p \in P, SourceOf(b, old, p.slot) # p.node
      PROVE  Group(SourceOf(b, old, p.slot), p.node) \in plan
  <2> DEFINE m == [from |-> SourceOf(b, old, p.slot), to |-> p.node, slot |-> p.slot]
  <2>1. m \in moves /\ m.from # m.to /\ m.from = SourceOf(b, old, p.slot) /\ m.to = p.node
    BY <1>6
  <2> HIDE DEF m, moves
  <2> QED BY <1>1, <2>1
<1> HIDE DEF moves
<1>7. \A g \in plan : g = [from |-> g.from, to |-> g.to, slots |-> g.slots]
  BY <1>4, <1>5
<1>8. \A g, h \in plan : g.from = h.from /\ g.to = h.to => g = h
  BY <1>5
<1>9. \A g \in plan : \A s : s \in g.slots <=>
        \E p \in P : s = p.slot /\ g.to = p.node /\ g.from = SourceOf(b, old, s)
  <2> SUFFICES ASSUME NEW g \in plan, NEW s
               PROVE  s \in g.slots <=>
                 \E p \in P : s = p.slot /\ g.to = p.node /\ g.from = SourceOf(b, old, s)
    OBVIOUS
  <2>1. g = Group(g.from, g.to)
    BY <1>5
  <2>2. s \in Group(g.from, g.to).slots <=>
          \E p \in P : s = p.slot /\ g.to = p.node /\ g.from = SourceOf(b, old, s)
    BY <1>2
  <2> QED BY <2>1, <2>2
<1>10. \A p \in P : SourceOf(b, old, p.slot) # p.node =>
         \E g \in plan : /\ g.from = SourceOf(b, old, p.slot)
                         /\ g.to = p.node /\ p.slot \in g.slots
  <2> SUFFICES ASSUME NEW p \in P, SourceOf(b, old, p.slot) # p.node
               PROVE  LET g == Group(SourceOf(b, old, p.slot), p.node)
                      IN  /\ g.from = SourceOf(b, old, p.slot)
                          /\ g.to = p.node /\ p.slot \in g.slots
    BY <1>6
  <2> QED BY <1>2, <1>3
<1> QED BY <1>5, <1>7, <1>8, <1>9, <1>10 DEF P, plan

\* A slot comes from a current master that has it, or from nowhere when none
\* has it.
LEMMA SourceFacts ==
  ASSUME NEW M, NEW N, NEW C, NEW b, NEW new, NEW old, NEW nbSlots, NEW order,
         Given(M, N, C, b, new, old, nbSlots, order), NEW s
  PROVE  \/ SourceOf(b, old, s) = Nowhere /\ \A n \in C : s \notin b[n]
         \/ SourceOf(b, old, s) \in C /\ s \in b[SourceOf(b, old, s)]
<1>1. /\ Len(old) \in Nat /\ old \in [1 .. Len(old) -> C]
      /\ \A x \in C : \E j \in 1 .. Len(old) : old[j] = x
  BY Listing DEF Given
<1> DEFINE having == {j \in 1 .. Len(old) : s \in b[old[j]]}
<1>2. CASE having = {}
  <2>1. SourceOf(b, old, s) = Nowhere
    BY <1>2 DEF SourceOf
  <2>2. \A n \in C : s \notin b[n]
    BY <1>1, <1>2
  <2> QED BY <2>1, <2>2
<1>3. CASE having # {}
  <2>1. \E j \in having : \A l \in having : j <= l
    <3>1. having \in SUBSET Nat
      OBVIOUS
    <3> HIDE DEF having
    <3> QED BY <1>3, <3>1, LeastNumber
  <2> DEFINE j == CHOOSE j \in having : \A l \in having : j <= l
  <2>2. j \in having
    BY <2>1
  <2>3. SourceOf(b, old, s) = old[j]
    BY <1>3 DEF SourceOf
  <2> HIDE DEF j
  <2> QED BY <1>1, <2>2, <2>3
<1> QED BY <1>2, <1>3

\* The groups of a plan: slots of a current master, or slots that no current
\* master has, for a master that stays.
LEMMA PlanGroups ==
  ASSUME NEW M, NEW N, NEW C, NEW b, NEW new, NEW old, NEW nbSlots, NEW order,
         Given(M, N, C, b, new, old, nbSlots, order),
         NEW g \in feedMigInfo(b, new, old, nbSlots, order)
  PROVE  /\ g \in [from : C \cup {Nowhere}, to : N, slots : SUBSET (0 .. nbSlots - 1)]
         /\ g.from # g.to /\ g.slots # {}
         /\ g.from = Nowhere => \A s \in g.slots, n \in C : s \notin b[n]
         /\ g.from # Nowhere => g.slots \subseteq b[g.from]
<1> DEFINE P == buildSlotsByNode(b, new, old, nbSlots, order)
<1>1. /\ g = [from |-> g.from, to |-> g.to, slots |-> g.slots]
      /\ g.from # g.to
      /\ \A s : s \in g.slots <=>
           \E p \in P : s = p.slot /\ g.to = p.node /\ g.from = SourceOf(b, old, s)
  BY PlanMoves
<1>2. \A p \in P : p.slot \in 0 .. nbSlots - 1 /\ p.node \in N
  BY Placed, Zenon
<1> HIDE DEF P
<1>3. PICK s0 : s0 \in g.slots
  BY PlanMoves
<1>4. \A s \in g.slots : s \in 0 .. nbSlots - 1 /\ g.to \in N /\ g.from = SourceOf(b, old, s)
  BY <1>1, <1>2
<1>5. \A s : \/ SourceOf(b, old, s) = Nowhere /\ \A n \in C : s \notin b[n]
             \/ SourceOf(b, old, s) \in C /\ s \in b[SourceOf(b, old, s)]
  BY SourceFacts, Zenon
<1>6. Nowhere \notin C
  BY DEF Given
<1>7. g.to \in N /\ g.from \in C \cup {Nowhere} /\ g.slots \in SUBSET (0 .. nbSlots - 1)
  BY <1>3, <1>4, <1>5
<1>8. g \in [from : C \cup {Nowhere}, to : N, slots : SUBSET (0 .. nbSlots - 1)]
  BY <1>1, <1>7
<1>9. g.from = Nowhere => \A s \in g.slots, n \in C : s \notin b[n]
  BY <1>4, <1>5, <1>6
<1>10. g.from # Nowhere => g.slots \subseteq b[g.from]
  BY <1>4, <1>5
<1> QED BY <1>1, <1>3, <1>8, <1>9, <1>10

\* A slot that at most one current master has is in one group only: it is not
\* given away twice.
LEMMA PlanOnce ==
  ASSUME NEW M, NEW N, NEW C, NEW b, NEW new, NEW old, NEW nbSlots, NEW order,
         Given(M, N, C, b, new, old, nbSlots, order),
         NEW g \in feedMigInfo(b, new, old, nbSlots, order),
         NEW h \in feedMigInfo(b, new, old, nbSlots, order),
         NEW s, s \in g.slots, s \in h.slots,
         \A m, n \in C : s \in b[m] /\ s \in b[n] => m = n
  PROVE  g = h
<1> DEFINE P == buildSlotsByNode(b, new, old, nbSlots, order)
           by == slotToMigrateByNode(b, new, old, nbSlots)
           plan == feedMigInfo(b, new, old, nbSlots, order)
<1>1. /\ \A x, y \in plan : x.from = y.from /\ x.to = y.to => x = y
      /\ \A x \in plan : \A r : r \in x.slots <=>
           \E p \in P : r = p.slot /\ x.to = p.node /\ x.from = SourceOf(b, old, r)
  BY PlanMoves, Zenon
<1>2. \A m, n \in C \cup {Nowhere} : s \in by[m] /\ s \in by[n] => m = n
  <2>1. /\ by[Nowhere] = {r \in 0 .. nbSlots - 1 : \A n \in C : r \notin b[n]}
        /\ \A n \in C : by[n] \subseteq b[n]
    BY SourceSlots
  <2> HIDE DEF by
  <2> QED BY <2>1
<1>3. \A p, q \in P : p.slot = s /\ q.slot = s => p = q
  BY <1>2, Placed
<1> HIDE DEF P, plan
<1>4. g \in plan /\ h \in plan
  BY DEF plan
<1>5. PICK p \in P : s = p.slot /\ g.to = p.node /\ g.from = SourceOf(b, old, s)
  BY <1>1, <1>4
<1>6. PICK q \in P : s = q.slot /\ h.to = q.node /\ h.from = SourceOf(b, old, s)
  BY <1>1, <1>4
<1>7. p = q
  BY <1>3, <1>5, <1>6
<1> QED BY <1>1, <1>4, <1>5, <1>6, <1>7

\* A master that goes gives every slot that is its alone.
LEMMA PlanComplete ==
  ASSUME NEW M, NEW N, NEW C, NEW b, NEW new, NEW old, NEW nbSlots, NEW order,
         Given(M, N, C, b, new, old, nbSlots, order),
         NEW n \in C \ N, NEW s \in b[n], \A m \in C : s \in b[m] => m = n
  PROVE  \E g \in feedMigInfo(b, new, old, nbSlots, order) : g.from = n /\ s \in g.slots
<1> DEFINE P == buildSlotsByNode(b, new, old, nbSlots, order)
           by == slotToMigrateByNode(b, new, old, nbSlots)
<1>1. by[n] = b[n]
  BY SourceSlots
<1>2. \A r \in by[n] : \E p \in P : p.slot = r
  BY Placed
<1>3. PICK p \in P : p.slot = s
  BY <1>1, <1>2
<1>4. p.node \in N
  BY Placed, Zenon
<1>5. SourceOf(b, old, s) = n
  BY SourceFacts
<1>6. SourceOf(b, old, p.slot) # p.node
  BY <1>3, <1>4, <1>5
<1>7. PICK g \in feedMigInfo(b, new, old, nbSlots, order) :
        g.from = SourceOf(b, old, p.slot) /\ g.to = p.node /\ p.slot \in g.slots
  BY <1>6, PlanMoves
<1> QED BY <1>3, <1>5, <1>7
===============================================================================
