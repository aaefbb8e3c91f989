---------------------------- MODULE FormationProofs ----------------------------
(***************************************************************************)
(* Proofs about Formation: for any number of StatefulSets, replicas, slots *)
(* and faults, the slots a pass gives out when it sees all the pods.       *)
(***************************************************************************)
EXTENDS Formation, FiniteSetTheorems, WellFoundedInduction, TLAPS

(***************************************************************************)
(* The slots that AllocSlots gives out.                                    *)
(***************************************************************************)
\* The quotient of AllocSlots' rounding.
LEMMA Quotient ==
  ASSUME NEW a \in Int, NEW d \in Nat \ {0}
  PROVE  /\ a \div d \in Int
         /\ d * (a \div d) <= a /\ a < d * (a \div d) + d
OBVIOUS

\* It grows by one when the dividend grows by the divisor.
LEMMA QuotientGrows ==
  ASSUME NEW a \in Int, NEW b \in Int, NEW d \in Nat \ {0}, a + d <= b
  PROVE  a \div d < b \div d
<1> DEFINE q == a \div d
           r == b \div d
<1>1. q \in Int /\ r \in Int /\ d * q <= a /\ b < d * r + d
  BY Quotient
<1> HIDE DEF q, r
<1>2. d * q < d * r
  BY <1>1
<1>3. q < r
  <2> SUFFICES ASSUME r <= q PROVE FALSE
    BY <1>1
  <2>1. PICK e \in Nat : q = r + e
    <3>1. q - r \in Nat
      BY <1>1
    <3> QED BY <1>1, <3>1
  <2>2. d * q = d * r + d * e /\ d * e >= 0
    BY <1>1, <2>1
  <2> QED BY <1>1, <1>2, <2>2
<1> QED BY <1>3 DEF q, r

\* The last slots of the masters grow from the first to the last slot there is.
LEMMA LastSlots ==
  ASSUME MasterSize \in 1 .. StatefulSets
  PROVE  /\ \A i \in Shards : LastSlot(i) \in Slots
         /\ \A i \in Shards : i + 1 \in Shards => LastSlot(i) < LastSlot(i + 1)
         /\ LastSlot(MasterSize - 1) = NumSlots - 1
<1> DEFINE M == MasterSize
           N == NumSlots
<1>1. M \in Nat \ {0} /\ N \in Nat /\ M <= N /\ 2 * M \in Nat \ {0}
  BY FormationAssumption
<1>2. ASSUME NEW i \in Shards, i + 1 \in Shards
      PROVE  RoundedLast(i) \in Nat /\ RoundedLast(i) < N - 1
  <2>1. i \in Nat /\ i + 2 <= M
    BY <1>1, <1>2 DEF Shards
  <2> DEFINE a == 2 * (i + 1) * N - M
  <2>2. i * N \in Nat /\ (i + 1) * N = i * N + N /\ (i + 2) * N = i * N + 2 * N
    BY <1>1, <2>1
  <2>3. (i + 2) * N <= M * N
    <3>1. PICK e \in Nat : M = (i + 2) + e
      <4>1. M - (i + 2) \in Nat
        BY <1>1, <2>1
      <4> QED BY <1>1, <2>1, <4>1
    <3>2. M * N = (i + 2) * N + e * N /\ e * N >= 0
      BY <1>1, <2>1, <3>1
    <3> QED BY <1>1, <2>1, <3>2
  <2>4. a \in Int /\ a >= M /\ a <= 2 * (M * N) - 2 * N - M
    BY <1>1, <2>1, <2>2, <2>3
  <2> DEFINE q == a \div (2 * M)
  <2>5. q \in Int /\ (2 * M) * q <= a /\ a < (2 * M) * q + 2 * M
    BY <1>1, <2>4, Quotient
  <2>6. q >= 0
    <3> HIDE DEF q, a
    <3> SUFFICES ASSUME q <= -1 PROVE FALSE
      BY <2>5
    <3>1. PICK e \in Nat : q = -1 - e
      <4>1. -1 - q \in Nat
        BY <2>5
      <4> QED BY <2>5, <4>1
    <3>2. (2 * M) * q = -(2 * M) - (2 * M) * e /\ (2 * M) * e >= 0
      BY <1>1, <3>1
    <3> QED BY <1>1, <2>4, <2>5, <3>2
  <2>7. q < N - 1
    <3> HIDE DEF q, a
    <3> SUFFICES ASSUME q >= N - 1 PROVE FALSE
      BY <1>1, <2>5
    <3>1. PICK e \in Nat : q = N - 1 + e
      <4>1. q - (N - 1) \in Nat
        BY <1>1, <2>5
      <4> QED BY <1>1, <2>5, <4>1
    <3>2. (2 * M) * q = 2 * (M * N) - 2 * M + (2 * M) * e /\ (2 * M) * e >= 0
      BY <1>1, <3>1
    <3> QED BY <1>1, <2>4, <2>5, <3>2
  <2> QED BY <2>5, <2>6, <2>7 DEF RoundedLast
<1>3. ASSUME NEW i \in Shards, i + 1 \in Shards, i + 2 \in Shards
      PROVE  RoundedLast(i) < RoundedLast(i + 1)
  <2>1. i \in Nat /\ i + 1 + 1 = i + 2
    BY <1>1 DEF Shards
  <2>2. 2 * (i + 1) * N - M \in Int /\ 2 * (i + 2) * N - M \in Int
    BY <1>1, <2>1
  <2>3. 2 * (i + 2) * N - M = (2 * (i + 1) * N - M) + 2 * N
    BY <1>1, <2>1
  <2>4. (2 * (i + 1) * N - M) + 2 * M <= 2 * (i + 2) * N - M
    BY <1>1, <2>2, <2>3
  <2> QED BY <1>1, <2>1, <2>2, <2>4, QuotientGrows DEF RoundedLast
<1>4. \A i \in Shards : i \in 0 .. M - 1 /\ (i = M - 1 \/ i + 1 \in Shards)
  BY <1>1 DEF Shards
<1>5. M - 1 \in Shards /\ N - 1 \in Slots /\ Slots = {k \in Nat : k <= N - 1}
  BY <1>1 DEF Shards, Slots
<1>6. ASSUME NEW i \in Shards PROVE LastSlot(i) \in Slots
  <2>1. CASE i = M - 1
    BY <1>5, <2>1 DEF LastSlot
  <2>2. CASE i # M - 1
    BY <1>1, <1>2, <1>4, <1>5, <2>2 DEF LastSlot
  <2> QED BY <2>1, <2>2
<1>7. ASSUME NEW i \in Shards, i + 1 \in Shards PROVE LastSlot(i) < LastSlot(i + 1)
  <2>1. i # M - 1 /\ LastSlot(i) = RoundedLast(i)
    BY <1>1, <1>7 DEF LastSlot, Shards
  <2>2. CASE i + 1 = M - 1
    BY <1>2, <1>7, <2>1, <2>2 DEF LastSlot
  <2>3. CASE i + 1 # M - 1
    <3>1. i + 2 \in Shards
      BY <1>1, <1>7, <2>3 DEF Shards
    <3> QED BY <1>3, <1>7, <2>1, <2>3, <3>1 DEF LastSlot
  <2> QED BY <2>2, <2>3
<1> QED BY <1>6, <1>7 DEF LastSlot
\* A set of natural numbers has a least element.
LEMMA Least ==
  ASSUME NEW T, T \subseteq Nat, T # {}
  PROVE  \E x \in T : \A y \in T : x <= y
<1> DEFINE R == OpToRel(<, Nat)
<1>1. \E x \in T : \A y \in T : ~ (<<y, x>> \in R)
  BY NatLessThanWellFounded, WFMin
<1>2. \A x, y \in Nat : y < x => <<y, x>> \in R
  BY DEF OpToRel
<1> HIDE DEF R
<1>3. PICK x \in T : \A y \in T : ~ (<<y, x>> \in R)
  BY <1>1
<1>4. ASSUME NEW y \in T PROVE x <= y
  <2>1. x \in Nat /\ y \in Nat /\ ~ (<<y, x>> \in R)
    BY <1>3
  <2>2. ~ (y < x)
    BY <1>2, <2>1
  <2> QED BY <2>1, <2>2
<1> QED
  BY <1>3, <1>4

\* The ranges that AllocSlots gives out: none is empty, no two overlap, and
\* together they are all the slots.
LEMMA Ranges ==
  ASSUME MasterSize \in 1 .. StatefulSets
  PROVE  /\ \A i \in Shards : AllocRange(i) \subseteq Slots /\ AllocRange(i) # {}
         /\ \A i, j \in Shards : i # j => AllocRange(i) \intersect AllocRange(j) = {}
         /\ \A k \in Slots : \E i \in Shards : k \in AllocRange(i)
<1>1. /\ MasterSize \in Nat \ {0} /\ NumSlots \in Nat
      /\ Shards \subseteq Nat /\ Slots = {k \in Nat : k <= NumSlots - 1}
      /\ \A i \in Shards : i = 0 \/ i - 1 \in Shards
      /\ MasterSize - 1 \in Shards
  BY FormationAssumption DEF Shards, Slots
<1>2. /\ \A i \in Shards : LastSlot(i) \in Nat /\ LastSlot(i) <= NumSlots - 1
      /\ \A i \in Shards : i # 0 => LastSlot(i - 1) < LastSlot(i)
  <2>1. \A i \in Shards : LastSlot(i) \in Nat /\ LastSlot(i) <= NumSlots - 1
    BY <1>1, LastSlots
  <2>2. ASSUME NEW i \in Shards, i # 0 PROVE LastSlot(i - 1) < LastSlot(i)
    <3>1. i - 1 \in Shards /\ (i - 1) + 1 = i
      BY <1>1, <2>2
    <3> QED BY <3>1, LastSlots
  <2> QED BY <2>1, <2>2
<1>3. ASSUME NEW i \in Shards PROVE AllocRange(i) \subseteq Slots /\ AllocRange(i) # {}
  <2>1. CASE i = 0
    <3>1. AllocRange(i) = 0 .. LastSlot(i)
      BY <2>1 DEF AllocRange
    <3> QED BY <1>1, <1>2, <3>1
  <2>2. CASE i # 0
    <3>1. AllocRange(i) = LastSlot(i - 1) + 1 .. LastSlot(i) /\ i - 1 \in Shards
      BY <1>1, <2>2 DEF AllocRange
    <3>2. LastSlot(i) \in AllocRange(i)
      BY <1>2, <2>2, <3>1
    <3> QED BY <1>1, <1>2, <3>1, <3>2
  <2> QED BY <2>1, <2>2
<1>4. ASSUME NEW i \in Shards, NEW j \in Shards, i < j PROVE LastSlot(i) <= LastSlot(j - 1)
  <2> DEFINE T == {n \in Shards : i <= n /\ LastSlot(n) < LastSlot(i)}
  <2>1. T = {}
    <3> SUFFICES ASSUME T # {} PROVE FALSE
      OBVIOUS
    <3>1. PICK n \in T : \A y \in T : n <= y
      BY <1>1, Least
    <3>2. n \in Shards /\ n \in Nat /\ i \in Nat /\ i <= n /\ LastSlot(n) < LastSlot(i)
      BY <1>1, <3>1
    <3>3. n # i /\ n # 0
      BY <1>2, <3>2
    <3>4. n - 1 \in Shards /\ i <= n - 1 /\ n - 1 \notin T
      BY <1>1, <3>1, <3>2, <3>3
    <3> QED BY <1>2, <3>2, <3>3, <3>4
  <2>2. j - 1 \in Shards /\ i <= j - 1
    BY <1>1, <1>4
  <2> QED BY <1>2, <2>1, <2>2
<1>5. ASSUME NEW i \in Shards, NEW j \in Shards, i < j
      PROVE  AllocRange(i) \intersect AllocRange(j) = {}
  <2>1. j # 0 /\ j - 1 \in Shards
    BY <1>1, <1>5
  <2>2. AllocRange(j) = LastSlot(j - 1) + 1 .. LastSlot(j)
    BY <2>1 DEF AllocRange
  <2>3. \A k \in AllocRange(i) : k \in Int /\ k <= LastSlot(i)
    BY <1>1, <1>2 DEF AllocRange
  <2> QED BY <1>2, <1>4, <1>5, <2>1, <2>2, <2>3
<1>6. ASSUME NEW k \in Slots PROVE \E i \in Shards : k \in AllocRange(i)
  <2> DEFINE T == {n \in Shards : k <= LastSlot(n)}
  <2>1. MasterSize - 1 \in T
    BY <1>1, LastSlots
  <2>2. PICK i \in T : \A y \in T : i <= y
    BY <1>1, <2>1, Least
  <2>3. CASE i = 0
    BY <1>1, <1>2, <2>2, <2>3 DEF AllocRange
  <2>4. CASE i # 0
    <3>1. i - 1 \in Shards /\ i \in Nat /\ i - 1 \notin T
      BY <1>1, <2>2, <2>4
    <3> QED BY <1>1, <1>2, <2>2, <2>4, <3>1 DEF AllocRange
  <2> QED BY <2>3, <2>4
<1>7. \A i, j \in Shards : i # j => i < j \/ j < i
  BY <1>1
<1> QED
  BY <1>3, <1>5, <1>6, <1>7

(***************************************************************************)
(* Pods, and how many of them there are.                                   *)
(***************************************************************************)
\* A pod is told from the others by its StatefulSet and its index.
LEMMA PodFacts ==
  /\ \A p \in Pods : p[1] \in 0 .. StatefulSets - 1 /\ p[2] \in 0 .. ClusterReplicas
  /\ \A p, q \in Pods : p[1] = q[1] /\ p[2] = q[2] => p = q
  /\ \A s \in 0 .. StatefulSets - 1, j \in 0 .. ClusterReplicas :
       <<s, j>> \in Pods /\ <<s, j>>[1] = s /\ <<s, j>>[2] = j
  /\ 0 \in 0 .. ClusterReplicas /\ 0 \in 0 .. StatefulSets - 1
  /\ Ghost \notin Pods
  /\ IsFiniteSet(Pods)
<1>1. StatefulSets \in Nat \ {0} /\ ClusterReplicas \in Nat
  BY FormationAssumption
<1>2. IsFiniteSet(Pods)
  <2>1. 0 \in Int /\ StatefulSets - 1 \in Int /\ ClusterReplicas \in Int
    BY <1>1
  <2>2. IsFiniteSet(0 .. StatefulSets - 1) /\ IsFiniteSet(0 .. ClusterReplicas)
    BY <2>1, FS_Interval
  <2> QED BY <2>2, FS_Product DEF Pods
<1>3. Ghost \notin Pods
  BY <1>1 DEF Ghost, Pods
<1> QED
  BY <1>1, <1>2, <1>3 DEF Pods

\* A StatefulSet has a pod for the master and one for each replica.
LEMMA StatefulSetSize ==
  ASSUME NEW s \in 0 .. StatefulSets - 1
  PROVE  LET T == {p \in Pods : p[1] = s}
         IN  IsFiniteSet(T) /\ Cardinality(T) = ClusterReplicas + 1
<1> DEFINE T == {p \in Pods : p[1] = s}
           f == [j \in 0 .. ClusterReplicas |-> <<s, j>>]
<1>1. ClusterReplicas \in Nat
  BY FormationAssumption
<1>2. /\ IsFiniteSet(0 .. ClusterReplicas)
      /\ Cardinality(0 .. ClusterReplicas) = ClusterReplicas + 1
  BY <1>1, FS_Interval
<1>3. f \in Bijection(0 .. ClusterReplicas, T)
  <2>1. f \in [0 .. ClusterReplicas -> T]
    BY PodFacts
  <2>2. \A a, b \in 0 .. ClusterReplicas : f[a] = f[b] => a = b
    OBVIOUS
  <2>3. \A p \in T : \E a \in 0 .. ClusterReplicas : f[a] = p
    <3> SUFFICES ASSUME NEW p \in T PROVE f[p[2]] = p /\ p[2] \in 0 .. ClusterReplicas
      OBVIOUS
    <3> QED BY PodFacts
  <2> QED BY <2>1, <2>2, <2>3 DEF Bijection, Injection, Surjection, IsInjective
<1>4. ExistsBijection(0 .. ClusterReplicas, T)
  BY <1>3 DEF ExistsBijection
<1> QED
  BY <1>2, <1>4, FS_Bijection

\* A master that buildClusterStatus counts all its replicas of is followed by
\* all the other pods of its StatefulSet.
LEMMA AllFollow ==
  ASSUME ref \in [Pods -> Pods], conn = Pods, Following,
         NEW x \in Pods, Followers(x) >= ClusterReplicas
  PROVE  \A p \in Pods : p[1] = x[1] /\ p # x => ref[p] = x
<1> DEFINE T == {p \in Pods : p[1] = x[1]}
           F == {p \in conn : ref[p] = x /\ p # x}
<1>1. ClusterReplicas \in Nat /\ x \in T
  BY FormationAssumption
<1>2. IsFiniteSet(T) /\ Cardinality(T) = ClusterReplicas + 1
  BY PodFacts, StatefulSetSize
<1>3. IsFiniteSet(T \ {x}) /\ Cardinality(T \ {x}) = ClusterReplicas
  <2>1. IsFiniteSet(T \ {x}) /\ Cardinality(T \ {x}) = Cardinality(T) - 1
    BY <1>1, <1>2, FS_RemoveElement
  <2> QED BY <1>1, <1>2, <2>1
<1>4. F \in SUBSET (T \ {x})
  BY DEF Following
<1>5. IsFiniteSet(F) /\ Cardinality(F) \in Nat /\ Cardinality(F) <= ClusterReplicas
  BY <1>3, <1>4, FS_Subset, FS_CardinalityType
<1>6. Cardinality(F) = ClusterReplicas
  BY <1>1, <1>5 DEF Followers
<1>7. F = T \ {x}
  BY <1>3, <1>4, <1>6, FS_Subset
<1> QED
  BY <1>7

\* The number of followers is a number.
LEMMA FollowersType ==
  ASSUME NEW x, conn \subseteq Pods
  PROVE  Followers(x) \in Nat
<1>1. {p \in conn : ref[p] = x /\ p # x} \in SUBSET Pods
  OBVIOUS
<1> QED
  BY <1>1, PodFacts, FS_Subset, FS_CardinalityType DEF Followers

\* The masters that have slots are as many as the shards exactly when every
\* shard has one.
LEMMA CountMasters ==
  ASSUME MasterSize \in 1 .. StatefulSets, conn = Pods, SlotsOnMasters,
         \A p \in Pods : slots[p] # {} => p[1] \in Shards
  PROVE  /\ Cardinality(CurrentMasters) \in Nat
         /\ Cardinality(CurrentMasters) >= MasterSize
              <=> \A s \in Shards : \E p \in CurrentMasters : p[1] = s
<1> DEFINE C == CurrentMasters
           f == [p \in C |-> p[1]]
<1>1. MasterSize \in Nat \ {0}
  BY FormationAssumption
<1>2. IsFiniteSet(Shards) /\ Cardinality(Shards) = MasterSize
  BY <1>1, FS_Interval DEF Shards
<1>3. C \in SUBSET Pods
  BY DEF CurrentMasters
<1>4. IsFiniteSet(C) /\ Cardinality(C) \in Nat
  BY <1>3, PodFacts, FS_Subset, FS_CardinalityType
<1>5. f \in Injection(C, Shards)
  <2>1. f \in [C -> Shards]
    BY <1>3 DEF CurrentMasters
  <2>2. \A p, q \in C : f[p] = f[q] => p = q
    BY <1>3 DEF CurrentMasters, SlotsOnMasters
  <2> QED BY <2>1, <2>2 DEF Injection, IsInjective
<1>6. /\ Cardinality(C) <= MasterSize
      /\ Cardinality(C) = MasterSize <=> f \in Surjection(C, Shards)
  BY <1>2, <1>5, FS_Injection
<1>7. Cardinality(C) >= MasterSize <=> Cardinality(C) = MasterSize
  BY <1>1, <1>4, <1>6
<1>8. f \in Surjection(C, Shards) <=> \A s \in Shards : \E p \in C : p[1] = s
  <2>1. f \in Surjection(C, Shards) <=> \A s \in Shards : \E p \in C : f[p] = s
    BY <1>5 DEF Surjection, Injection
  <2> QED BY <2>1
<1> QED
  BY <1>4, <1>6, <1>7, <1>8

(***************************************************************************)
(* Type correctness, step by step.                                         *)
(***************************************************************************)
\* A fault is counted; once the operator was blind it stays so.
LEMMA Faulted ==
  ASSUME TypeOK, NEW kind \in FaultKinds, Fault(kind)
  PROVE  /\ faults' \in [FaultKinds -> 0 .. MaxFaults]
         /\ faults'["blind"] = 0 => faults["blind"] = 0 /\ kind # "blind"
<1>1. /\ faults \in [FaultKinds -> 0 .. MaxFaults] /\ MaxFaults \in Nat
      /\ {"blind", "refused", "stops", "flags"} = FaultKinds
      /\ faults["blind"] + faults["refused"] + faults["stops"] + faults["flags"] < MaxFaults
      /\ faults' = [faults EXCEPT ![kind] = @ + 1]
  BY FormationAssumption DEF TypeOK, Fault, FaultKinds
<1>2. \A k \in FaultKinds : faults[k] \in Nat
  BY <1>1
<1>3. \A k \in FaultKinds : faults[k] + 1 \in 0 .. MaxFaults
  <2>1. "blind" \in FaultKinds /\ "refused" \in FaultKinds /\ "stops" \in FaultKinds
          /\ "flags" \in FaultKinds
    BY <1>1
  <2>2. \A k \in FaultKinds : k = "blind" \/ k = "refused" \/ k = "stops" \/ k = "flags"
    BY DEF FaultKinds
  <2> DEFINE a == faults["blind"]
             b == faults["refused"]
             c == faults["stops"]
             d == faults["flags"]
  <2>3. a \in Nat /\ b \in Nat /\ c \in Nat /\ d \in Nat /\ a + b + c + d < MaxFaults
    BY <1>1, <1>2, <2>1
  <2> HIDE DEF a, b, c, d
  <2>4. /\ a + 1 \in 0 .. MaxFaults /\ b + 1 \in 0 .. MaxFaults
        /\ c + 1 \in 0 .. MaxFaults /\ d + 1 \in 0 .. MaxFaults
    BY <1>1, <2>3
  <2> QED BY <2>2, <2>4 DEF a, b, c, d
<1>4. faults' \in [FaultKinds -> 0 .. MaxFaults]
  BY <1>1, <1>3
<1>5. "blind" \in FaultKinds
  BY <1>1
<1>6. ASSUME faults'["blind"] = 0 PROVE faults["blind"] = 0 /\ kind # "blind"
  <2>1. kind # "blind"
    BY <1>1, <1>2, <1>5, <1>6
  <2> QED BY <1>1, <1>5, <1>6, <2>1
<1> QED
  BY <1>4, <1>6

\* The end of a pass resets what the pass knew.
LEMMA EndPassType ==
  ASSUME EndPass
  PROVE  /\ conn' \subseteq Pods /\ todo' \subseteq Pods \union {Ghost}
         /\ masterOf' \in [0 .. StatefulSets - 1 -> Pods]
         /\ branch' = "none" /\ err' = FALSE /\ pc' = "idle"
BY PodFacts DEF EndPass, NoMasters

\* The steps of the nodes.
LEMMA NodeTypes ==
  ASSUME TypeOK,
         \/ Gossip
         \/ \E p \in Pods : \/ GhostSpreads(p) \/ HandshakeEnds(p) \/ FlagGhost(p)
                            \/ FlagLive(p) \/ UnflagLive(p)
  PROVE  TypeOK'
<1>1. CASE Gossip
  <2>1. known' \in [Pods -> SUBSET Pods]
    BY <1>1 DEF Gossip, Learned, Neighbours, TypeOK
  <2>2. meets' \subseteq Pods \X Pods
    <3> DEFINE then == [p \in Pods |-> Learned(p)]
    <3>1. then \in [Pods -> SUBSET Pods]
      BY DEF Learned, Neighbours, TypeOK
    <3> HIDE DEF then
    <3>2. \A p \in Pods : {p} \X (then[p] \ known[p]) \subseteq Pods \X Pods
      BY <3>1
    <3>3. UNION {{p} \X (then[p] \ known[p]) : p \in Pods} \subseteq Pods \X Pods
      BY <3>2
    <3>4. meets' \subseteq meets \union UNION {{p} \X (then[p] \ known[p]) : p \in Pods}
      BY <1>1 DEF Gossip, then
    <3> QED BY <3>3, <3>4 DEF TypeOK
  <2>3. UNCHANGED Shards
    BY <1>1 DEF Gossip, Shards
  <2> QED BY <1>1, <2>1, <2>2 DEF Gossip, TypeOK, crVars, passVars, history
<1>2. ASSUME NEW p \in Pods, GhostSpreads(p) \/ HandshakeEnds(p) \/ FlagGhost(p)
      PROVE  TypeOK'
  <2>1. ghost' \in [Pods -> {"none", "up", "fail", "handshake"}]
    BY <1>2 DEF GhostSpreads, HandshakeEnds, FlagGhost, TypeOK
  <2> QED BY <1>2, <2>1 DEF GhostSpreads, HandshakeEnds, FlagGhost, TypeOK, crVars, passVars, history
<1>3. ASSUME NEW p \in Pods, FlagLive(p) PROVE TypeOK'
  <2>1. "flags" \in FaultKinds
    BY DEF FaultKinds
  <2>2. faults' \in [FaultKinds -> 0 .. MaxFaults]
    BY <1>3, <2>1, Faulted DEF FlagLive
  <2> QED BY <1>3, <2>2 DEF FlagLive, TypeOK, crVars, passVars
<1>4. ASSUME NEW p \in Pods, UnflagLive(p) PROVE TypeOK'
  BY <1>4 DEF UnflagLive, TypeOK, crVars, passVars, history
<1> QED
  BY <1>1, <1>2, <1>3, <1>4

\* The steps of a pass up to syncCluster.
LEMMA PassTypes ==
  ASSUME TypeOK,
         \/ StartPass \/ HealFailed \/ HealUntrusted \/ NothingToHeal
         \/ AlreadyJoined \/ MeetNodes \/ CheckJoined \/ SetConfigIfNeed \/ StoreStatus
  PROVE  TypeOK'
<1>0. "blind" \in FaultKinds /\ "refused" \in FaultKinds
  BY DEF FaultKinds
<1>1. CASE StartPass
  <2>1. faults' \in [FaultKinds -> 0 .. MaxFaults]
    BY <1>0, <1>1, Faulted DEF StartPass, TypeOK
  <2>2. conn' \subseteq Pods
    BY <1>1 DEF StartPass
  <2> QED BY <1>1, <2>1, <2>2 DEF StartPass, TypeOK, crVars, nodeVars
<1>2. CASE HealFailed
  <2>1. GhostNodes \subseteq Pods \union {Ghost}
    BY DEF GhostNodes, TypeOK
  <2> QED BY <1>2, <2>1 DEF HealFailed, TypeOK, crVars, nodeVars, history
<1>3. CASE HealUntrusted
  <2>1. ghost' \in [Pods -> {"none", "up", "fail", "handshake"}]
    BY <1>3 DEF HealUntrusted, TypeOK
  <2>2. meets' \subseteq Pods \X Pods
    BY <1>3 DEF HealUntrusted, TypeOK
  <2> QED BY <1>3, <2>1, <2>2, EndPassType DEF HealUntrusted, TypeOK, crVars, history
<1>4. CASE NothingToHeal \/ AlreadyJoined
  BY <1>4 DEF NothingToHeal, AlreadyJoined, TypeOK, crVars, nodeVars, passVars, history
<1>5. CASE MeetNodes
  <2>1. PICK first \in conn, sent \in {conn} \union {conn \ {p} : p \in conn} :
          /\ meets' = meets \union {m \in sent \X {first} : ~ Linked(m[1], first)}
          /\ IF sent = conn
               THEN /\ pc' = "joined"
                    /\ UNCHANGED <<crVars, conn, todo, masterOf, branch, err, faults>>
               ELSE /\ first \in sent /\ Fault("refused") /\ SetClusterFailed /\ EndPass
    BY <1>5 DEF MeetNodes
  <2>2. sent \subseteq Pods /\ first \in Pods
    BY DEF TypeOK
  <2>3. meets' \subseteq Pods \X Pods
    BY <2>1, <2>2 DEF TypeOK
  <2>4. CASE sent = conn
    BY <1>5, <2>1, <2>3, <2>4 DEF MeetNodes, TypeOK, crVars
  <2>5. CASE sent # conn
    <3>1. faults' \in [FaultKinds -> 0 .. MaxFaults]
      BY <1>0, <2>1, <2>5, Faulted
    <3> QED BY <1>5, <2>1, <2>3, <2>5, <3>1, EndPassType DEF MeetNodes, TypeOK, SetClusterFailed
  <2> QED BY <2>4, <2>5
<1>6. CASE CheckJoined
  <2>1. CASE Consistent
    BY <1>6, <2>1 DEF CheckJoined, TypeOK, crVars, nodeVars, passVars, history
  <2>2. CASE ~ Consistent
    BY <1>6, <2>2, EndPassType DEF CheckJoined, TypeOK, crVars, nodeVars, history
  <2> QED BY <2>1, <2>2
<1>7. CASE SetConfigIfNeed
  <2>1. PICK done \in {conn} \union {conn \ {p} : p \in conn} :
          /\ configured' = configured \union done
          /\ IF done = conn
               THEN pc' = "status" /\ UNCHANGED <<passVars, faults>>
               ELSE Fault("refused") /\ EndPass
    BY <1>7 DEF SetConfigIfNeed
  <2>2. configured' \subseteq Pods
    BY <2>1 DEF TypeOK
  <2>3. CASE done = conn
    BY <1>7, <2>1, <2>2, <2>3 DEF SetConfigIfNeed, TypeOK, crVars, passVars
  <2>4. CASE done # conn
    <3>1. faults' \in [FaultKinds -> 0 .. MaxFaults]
      BY <1>0, <2>1, <2>4, Faulted
    <3> QED BY <1>7, <2>1, <2>2, <2>4, <3>1, EndPassType DEF SetConfigIfNeed, TypeOK, crVars
  <2> QED BY <2>3, <2>4
<1>8. CASE StoreStatus
  BY <1>8 DEF StoreStatus, TypeOK, nodeVars, passVars, history
<1> QED
  BY <1>1, <1>2, <1>3, <1>4, <1>5, <1>6, <1>7, <1>8

\* AllocSlots comes to as many masters as there are shards at most.
LEMMA LoopBound ==
  ASSUME MasterSize \in 1 .. StatefulSets, NEW T, T \subseteq {masterOf[s] : s \in Shards}
  PROVE  /\ IsFiniteSet(T) /\ Cardinality(T) \in 0 .. MasterSize
         /\ T # {} => MasterSize - Cardinality(T) \in Shards
<1> DEFINE R == {masterOf[s] : s \in Shards}
           f == [s \in Shards |-> masterOf[s]]
<1>1. MasterSize \in Nat \ {0}
  BY FormationAssumption
<1>2. IsFiniteSet(Shards) /\ Cardinality(Shards) = MasterSize
  BY <1>1, FS_Interval DEF Shards
<1>3. f \in Surjection(Shards, R)
  <2>1. f \in [Shards -> R] /\ \A t \in R : \E s \in Shards : f[s] = t
    OBVIOUS
  <2> QED BY <2>1 DEF Surjection
<1>4. IsFiniteSet(R) /\ Cardinality(R) <= MasterSize
  BY <1>2, <1>3, FS_Surjection
<1>5. /\ IsFiniteSet(T) /\ Cardinality(T) <= Cardinality(R)
      /\ Cardinality(T) \in Nat /\ Cardinality(R) \in Nat
  BY <1>4, FS_Subset, FS_CardinalityType
<1>6. T # {} => Cardinality(T) # 0
  BY <1>5, FS_EmptySet
<1> QED
  BY <1>1, <1>4, <1>5, <1>6 DEF Shards

\* The step of the healer that forgets a node.
LEMMA ForgetTypes ==
  ASSUME TypeOK, NEW x \in Pods \union {Ghost}, ForgetNode(x)
  PROVE  TypeOK'
<1>1. PICK told \in {conn \ {x}} \union {conn \ {x, p} : p \in conn} :
        LET reset == {p \in told : ref[p] = x /\ x # p} IN
        /\ IF told = conn \ {x} THEN UNCHANGED faults ELSE Fault("refused")
        /\ known' = [p \in Pods |-> CASE p \in reset -> {p}
                                      [] p \in told \ reset -> known[p] \ {x}
                                      [] OTHER -> known[p]]
        /\ meets' = {m \in meets : m[1] \notin reset /\ m[2] \notin reset}
                      \union {m \in conn \X reset : m[1] # m[2]}
        /\ ref' = [p \in Pods |-> IF p \in reset THEN p ELSE ref[p]]
        /\ fresh' = (fresh /\ reset = {})
        /\ ghost' = [p \in Pods |->
             IF p \in reset \/ (x = Ghost /\ p \in told) THEN "none" ELSE ghost[p]]
  BY DEF ForgetNode
<1> DEFINE reset == {p \in told : ref[p] = x /\ x # p}
<1>2. told \subseteq Pods /\ reset \subseteq Pods
  BY DEF TypeOK
<1>3. known' \in [Pods -> SUBSET Pods]
  <2>1. known' = [p \in Pods |-> CASE p \in reset -> {p}
                                   [] p \in told \ reset -> known[p] \ {x}
                                   [] OTHER -> known[p]]
    BY <1>1
  <2>2. known \in [Pods -> SUBSET Pods]
    BY DEF TypeOK
  <2> HIDE DEF reset
  <2> QED BY <2>1, <2>2
<1>4. meets' \subseteq Pods \X Pods
  <2>1. meets \subseteq Pods \X Pods /\ conn \subseteq Pods
    BY DEF TypeOK
  <2> QED BY <1>1, <1>2, <2>1
<1>5. /\ ref' \in [Pods -> Pods] /\ fresh' \in BOOLEAN
      /\ ghost' \in [Pods -> {"none", "up", "fail", "handshake"}]
  <2>1. ref' \in [Pods -> Pods]
    BY <1>1, <1>2 DEF TypeOK
  <2>2. ghost' \in [Pods -> {"none", "up", "fail", "handshake"}]
    BY <1>1, <1>2 DEF TypeOK
  <2> QED BY <1>1, <2>1, <2>2
<1>6. faults' \in [FaultKinds -> 0 .. MaxFaults]
  <2>1. "refused" \in FaultKinds
    BY DEF FaultKinds
  <2> QED BY <1>1, <2>1, Faulted DEF TypeOK
<1>7. /\ conn' \subseteq Pods /\ todo' \subseteq Pods \union {Ghost}
      /\ masterOf' \in [0 .. StatefulSets - 1 -> Pods]
      /\ branch' \in {"none", "create", "scaleup", "slaves"} /\ err' \in BOOLEAN
      /\ pc' \in {"idle", "forget"}
  <2>1. CASE todo = {x}
    BY <2>1, EndPassType DEF ForgetNode
  <2>2. CASE todo # {x}
    BY <2>2 DEF ForgetNode, TypeOK
  <2> QED BY <2>1, <2>2
<1> QED
  BY <1>3, <1>4, <1>5, <1>6, <1>7 DEF ForgetNode, TypeOK, crVars

\* The steps of syncCluster, and the end of a pass.
LEMMA SyncTypes ==
  ASSUME TypeOK, MastersToAlloc,
         \/ DispatchFails \/ PlaceSlavesPanics \/ DispatchSome
         \/ \E p \in Pods : AttachSlaveToMaster(p) \/ AllocSlots(p)
         \/ Attached \/ RebalancedCluster \/ SetClusterOK \/ Crash
  PROVE  TypeOK'
<1>0. "blind" \in FaultKinds /\ "refused" \in FaultKinds /\ "stops" \in FaultKinds
  BY DEF FaultKinds
<1>1. CASE DispatchFails \/ PlaceSlavesPanics
  BY <1>1, EndPassType DEF DispatchFails, PlaceSlavesPanics, SetClusterFailed, TypeOK, crVars,
                           nodeVars, history
<1>2. ASSUME NEW m \in [0 .. StatefulSets - 1 -> Pods], Dispatch(m) PROVE TypeOK'
  <2>1. Branch \in {"none", "create", "scaleup", "slaves"}
    BY DEF Branch
  <2>2. PlaceSlaves(m) \subseteq Pods \union {Ghost}
    BY DEF PlaceSlaves, TypeOK
  <2> QED BY <1>2, <2>1, <2>2 DEF Dispatch, TypeOK, crVars, nodeVars, history
<1>3. ASSUME NEW p \in Pods, AttachSlaveToMaster(p) PROVE TypeOK'
  <2>1. masterOf[p[1]] \in Pods
    BY PodFacts DEF TypeOK
  <2>2. ref' \in [Pods -> Pods] /\ fresh' \in BOOLEAN /\ err' \in BOOLEAN
    BY <1>3, <2>1 DEF AttachSlaveToMaster, TypeOK
  <2>3. faults' \in [FaultKinds -> 0 .. MaxFaults]
    BY <1>0, <1>3, Faulted DEF AttachSlaveToMaster, TypeOK
  <2> QED BY <1>3, <2>2, <2>3 DEF AttachSlaveToMaster, TypeOK, crVars
<1>4. ASSUME NEW p \in Pods, AllocSlots(p) PROVE TypeOK'
  <2> DEFINE range == AllocRange(MasterSize - Cardinality(todo))
  <2>1. range \subseteq Slots
    BY <1>4, LoopBound, Ranges DEF AllocSlots, MastersToAlloc, TypeOK
  <2> HIDE DEF range
  <2>2. CASE /\ slots' = [slots EXCEPT ![p] = @ \union range]
             /\ fresh' = FALSE
             /\ todo' = todo \ {p}
             /\ pc' = IF todo = {p} THEN "final" ELSE "alloc"
             /\ UNCHANGED <<crVars, conn, masterOf, branch, err, cut, faults>>
    <3>1. slots' \in [Pods -> SUBSET Slots]
      BY <2>1, <2>2 DEF TypeOK
    <3> QED BY <1>4, <2>2, <3>1 DEF AllocSlots, TypeOK, crVars
  <2>3. CASE /\ IF Accepts(p, range) THEN Fault("refused") ELSE UNCHANGED faults
             /\ cut' = cut \union {"alloc"}
             /\ SetClusterFailed /\ EndPass /\ UNCHANGED <<slots, fresh>>
    <3>1. faults' \in [FaultKinds -> 0 .. MaxFaults]
      BY <1>0, <2>3, Faulted DEF TypeOK
    <3> QED BY <1>4, <2>3, <3>1, EndPassType DEF AllocSlots, SetClusterFailed, TypeOK
  <2> QED BY <1>4, <2>2, <2>3 DEF AllocSlots, range
<1>5. CASE Attached
  <2>1. CASE err
    BY <1>5, <2>1, EndPassType DEF Attached, SetClusterFailed, TypeOK, nodeVars
  <2>2. CASE ~ err
    <3>1. {masterOf[s] : s \in Shards} \subseteq Pods
      <4>1. Shards \subseteq 0 .. StatefulSets - 1
        BY FormationAssumption DEF Shards, TypeOK
      <4> QED BY <4>1 DEF TypeOK
    <3>2. pc' \in {"alloc", "rebalance", "final"} /\ todo' \subseteq Pods \union {Ghost}
      BY <1>5, <2>2, <3>1 DEF Attached, NextOf
    <3> QED BY <1>5, <2>2, <3>2 DEF Attached, TypeOK, nodeVars, crVars
  <2> QED BY <2>1, <2>2
<1>6. CASE RebalancedCluster
  <2> DEFINE masters == {masterOf[s] : s \in Shards}
             owned == UNION {slots[p] : p \in masters}
  <2>1. PICK to \in [owned -> masters] :
          /\ slots' = [p \in Pods |->
               IF p \in masters THEN {k \in owned : to[k] = p} ELSE slots[p]]
          /\ fresh' = (fresh /\ slots' = slots)
    BY <1>6 DEF RebalancedCluster
  <2>2. masters \subseteq Pods
    <3>1. Shards \subseteq 0 .. StatefulSets - 1
      BY FormationAssumption DEF Shards, TypeOK
    <3> QED BY <3>1 DEF TypeOK
  <2>3. owned \subseteq Slots
    BY <2>2 DEF TypeOK
  <2> HIDE DEF masters, owned
  <2>4. slots' \in [Pods -> SUBSET Slots] /\ fresh' \in BOOLEAN
    BY <2>1, <2>3 DEF TypeOK
  <2> QED BY <1>6, <2>4 DEF RebalancedCluster, TypeOK, crVars, passVars, history
<1>7. CASE SetClusterOK
  <2>1. faults' \in [FaultKinds -> 0 .. MaxFaults]
    BY <1>0, <1>7, Faulted DEF SetClusterOK, TypeOK
  <2>2. statusNodes' \subseteq Pods
    BY <1>7 DEF SetClusterOK, TypeOK
  <2> QED BY <1>7, <2>1, <2>2, EndPassType DEF SetClusterOK, TypeOK, nodeVars
<1>8. CASE Crash
  <2>1. faults' \in [FaultKinds -> 0 .. MaxFaults]
    BY <1>0, <1>8, Faulted DEF Crash
  <2>2. cut' \subseteq {"attach", "alloc"}
    BY <1>8 DEF Crash, TypeOK
  <2> QED BY <1>8, <2>1, <2>2, EndPassType DEF Crash, TypeOK, nodeVars, crVars
<1> QED
  BY <1>1, <1>2, <1>3, <1>4, <1>5, <1>6, <1>7, <1>8 DEF DispatchSome

\* The model is type correct, and AllocSlots stays within its loop.
LEMMA TypeStep ==
  ASSUME TypeOK, MastersToAlloc, [Next]_vars
  PROVE  TypeOK' /\ MastersToAlloc'
<1>1. CASE UNCHANGED vars
  BY <1>1 DEF vars, nodeVars, crVars, passVars, history, TypeOK, MastersToAlloc, Shards
<1>2. CASE \/ Gossip
           \/ \E p \in Pods : \/ GhostSpreads(p) \/ HandshakeEnds(p) \/ FlagGhost(p)
                              \/ FlagLive(p) \/ UnflagLive(p)
  <2>1. UNCHANGED <<MasterSize, pc, todo, masterOf>>
    BY <1>2 DEF Gossip, GhostSpreads, HandshakeEnds, FlagGhost, FlagLive, UnflagLive, passVars
  <2> QED BY <1>2, <2>1, NodeTypes DEF MastersToAlloc, Shards
<1>3. CASE \/ StartPass \/ HealFailed \/ HealUntrusted \/ NothingToHeal
           \/ AlreadyJoined \/ MeetNodes \/ CheckJoined \/ SetConfigIfNeed \/ StoreStatus
  <2>1. pc' # "alloc"
    BY <1>3 DEF StartPass, HealFailed, HealUntrusted, NothingToHeal, AlreadyJoined, MeetNodes,
                CheckJoined, SetConfigIfNeed, StoreStatus, EndPass
  <2> QED BY <1>3, <2>1, PassTypes DEF MastersToAlloc
<1>4. ASSUME NEW x \in Pods \union {Ghost}, ForgetNode(x) PROVE TypeOK' /\ MastersToAlloc'
  <2>1. pc' # "alloc"
    BY <1>4 DEF ForgetNode, EndPass
  <2> QED BY <1>4, <2>1, ForgetTypes DEF MastersToAlloc
<1>5. CASE DispatchFails \/ PlaceSlavesPanics \/ DispatchSome \/ SetClusterOK \/ Crash \/ RebalancedCluster
  <2>1. pc' # "alloc"
    BY <1>5 DEF DispatchFails, PlaceSlavesPanics, DispatchSome, Dispatch, SetClusterOK, Crash,
                RebalancedCluster, EndPass
  <2> QED BY <1>5, <2>1, SyncTypes DEF MastersToAlloc
<1>6. ASSUME NEW p \in Pods, AttachSlaveToMaster(p) PROVE TypeOK' /\ MastersToAlloc'
  <2>1. pc' # "alloc"
    BY <1>6 DEF AttachSlaveToMaster
  <2> QED BY <1>6, <2>1, SyncTypes DEF MastersToAlloc
<1>7. ASSUME NEW p \in Pods, AllocSlots(p) PROVE TypeOK' /\ MastersToAlloc'
  <2>1. pc' # "alloc" \/ (todo' \subseteq todo /\ pc = "alloc" /\ UNCHANGED <<masterOf, MasterSize>>)
    BY <1>7 DEF AllocSlots, EndPass
  <2> QED BY <1>7, <2>1, SyncTypes DEF MastersToAlloc, Shards
<1>8. CASE Attached
  <2>1. pc' # "alloc" \/ (/\ todo' = {masterOf[s] : s \in Shards}
                          /\ UNCHANGED <<masterOf, MasterSize>>)
    BY <1>8 DEF Attached, EndPass, NextOf
  <2> QED BY <1>8, <2>1, SyncTypes DEF MastersToAlloc, Shards
<1> QED
  BY <1>1, <1>2, <1>3, <1>4, <1>5, <1>6, <1>7, <1>8
  DEF Next, Operator, GhostIsFlagged, TimesOut

(***************************************************************************)
(* A behaviour in which the operator has seen all the pods so far.         *)
(***************************************************************************)
\* Once blind the operator counts as blind.
LEMMA SeenBefore ==
  ASSUME TypeOK, [Next]_vars, faults'["blind"] = 0
  PROVE  faults["blind"] = 0
<1>0. FaultKinds = {"blind", "refused", "stops", "flags"}
  BY DEF FaultKinds
<1>1. faults' = faults \/ \E kind \in FaultKinds : Fault(kind)
  <2>1. CASE UNCHANGED vars
    BY <2>1 DEF vars, history
  <2>2. CASE \/ Gossip
             \/ \E p \in Pods : \/ GhostSpreads(p) \/ HandshakeEnds(p) \/ FlagGhost(p)
                                \/ FlagLive(p) \/ UnflagLive(p)
    BY <1>0, <2>2 DEF Gossip, GhostSpreads, HandshakeEnds, FlagGhost, FlagLive, UnflagLive, history
  <2>3. CASE \/ StartPass \/ HealFailed \/ HealUntrusted \/ NothingToHeal
             \/ AlreadyJoined \/ MeetNodes \/ CheckJoined \/ SetConfigIfNeed \/ StoreStatus
    BY <1>0, <2>3 DEF StartPass, HealFailed, HealUntrusted, NothingToHeal, AlreadyJoined, MeetNodes,
                CheckJoined, SetConfigIfNeed, StoreStatus, history
  <2>4. ASSUME NEW x \in Pods \union {Ghost}, ForgetNode(x)
        PROVE  faults' = faults \/ Fault("refused")
    BY <2>4 DEF ForgetNode
  <2>5. CASE DispatchFails \/ PlaceSlavesPanics \/ DispatchSome \/ SetClusterOK \/ Crash
             \/ RebalancedCluster \/ Attached
    BY <1>0, <2>5 DEF DispatchFails, PlaceSlavesPanics, DispatchSome, Dispatch, SetClusterOK, Crash,
                RebalancedCluster, Attached, history
  <2>6. ASSUME NEW p \in Pods, AttachSlaveToMaster(p) \/ AllocSlots(p)
        PROVE  faults' = faults \/ Fault("refused")
    BY <2>6 DEF AttachSlaveToMaster, AllocSlots
  <2> QED BY <1>0, <2>1, <2>2, <2>3, <2>4, <2>5, <2>6 DEF Next, Operator, GhostIsFlagged, TimesOut
<1> QED
  BY <1>1, Faulted

\* What the nodes know is kept with them.
LEMMA StatusKept ==
  ASSUME StatusKnown, UNCHANGED <<known, ref, statusNodes>>
  PROVE  StatusKnown'
BY DEF StatusKnown, IsMaster

\* A formed cluster stays formed as long as roles and slots do.
LEMMA FormedKept ==
  ASSUME UNCHANGED <<MasterSize, ref, slots>>, configured = Pods => configured' = Pods
  PROVE  Formed => Formed'
<1>1. MasterSize' = MasterSize /\ ref' = ref /\ slots' = slots
  OBVIOUS
<1>2. Shards' = Shards
  BY <1>1 DEF Shards
<1>3. (UNION {slots[p] : p \in Pods})' = UNION {slots[p] : p \in Pods}
  BY <1>1
<1> QED
  BY <1>1, <1>2, <1>3 DEF Formed, IsMaster

\* A pass may end anywhere; only in the middle of AllocSlots it leaves some of
\* the slots with masters.
LEMMA PassEnded ==
  ASSUME TypeOK, SeenInv, EndPass, UNCHANGED <<MasterSize, ref, slots, statusNodes>>,
         configured \subseteq configured', configured' \subseteq Pods,
         status' \in {status, "Failed"}, cut \subseteq cut',
         pc = "alloc" => "alloc" \in cut'
  PROVE  /\ Following' /\ PassKnows' /\ MastersPicked' /\ SlotsInOrder' /\ SlotsOnMasters'
         /\ UNCHANGED known => SeenInv'
<1>1. Following'
  BY DEF SeenInv, Following
<1>2. SlotsOnMasters'
  BY DEF SeenInv, SlotsOnMasters, IsMaster
<1>3. PassKnows'
  BY DEF SeenInv, PassKnows, EndPass
<1>4. MastersPicked'
  <2>1. \A s \in DOMAIN NoMasters : NoMasters[s][1] = s
    BY DEF NoMasters
  <2> QED BY <2>1 DEF MastersPicked, EndPass
<1>5. SlotsInOrder'
  <2>1. configured = Pods => configured' = Pods
    OBVIOUS
  <2>2. Formed => Formed'
    BY <2>1, FormedKept
  <2>3. UNCHANGED <<Shards, NoSlots, AllSlots>>
    BY DEF Shards, NoSlots, AllSlots
  <2> QED BY <2>1, <2>2, <2>3 DEF SeenInv, SlotsInOrder, EndPass
<1> QED
  BY <1>1, <1>2, <1>3, <1>4, <1>5, StatusKept DEF SeenInv

\* A step that only adds to what the nodes know.
LEMMA Learns ==
  ASSUME TypeOK, SeenInv, StatusKnown',
         UNCHANGED <<MasterSize, ref, slots, configured, crVars, pc, passVars, cut>>,
         \A p \in Pods : known[p] \subseteq known'[p]
  PROVE  SeenInv'
<1>0. /\ MasterSize' = MasterSize /\ ref' = ref /\ slots' = slots /\ configured' = configured
      /\ status' = status /\ statusNodes' = statusNodes /\ pc' = pc /\ conn' = conn
      /\ todo' = todo /\ masterOf' = masterOf /\ branch' = branch /\ err' = err /\ cut' = cut
  BY DEF crVars, passVars
<1>1. Following'
  BY <1>0 DEF SeenInv, Following
<1>2. SlotsOnMasters'
  BY <1>0 DEF SeenInv, SlotsOnMasters, IsMaster
<1>3. PassKnows'
  BY <1>0 DEF SeenInv, PassKnows, IsMaster
<1>4. MastersPicked'
  BY <1>0 DEF SeenInv, MastersPicked, Shards, IsMaster
<1>5. SlotsInOrder'
  <2>1. /\ Shards' = Shards /\ NoSlots' = NoSlots /\ AllSlots' = AllSlots
        /\ (UNION {slots[p] : p \in Pods})' = UNION {slots[p] : p \in Pods}
        /\ \A j : LastSlot(j)' = LastSlot(j)
    BY <1>0 DEF Shards, NoSlots, AllSlots, LastSlot, RoundedLast
  <2>2. Formed => Formed'
    BY <1>0, FormedKept
  <2> QED BY <1>0, <2>1, <2>2 DEF SeenInv, SlotsInOrder
<1> QED
  BY <1>1, <1>2, <1>3, <1>4, <1>5 DEF SeenInv

\* The steps of the nodes.
LEMMA NodeStep ==
  ASSUME TypeOK, SeenInv,
         \/ Gossip
         \/ \E p \in Pods : \/ GhostSpreads(p) \/ HandshakeEnds(p) \/ FlagGhost(p)
                            \/ FlagLive(p) \/ UnflagLive(p)
  PROVE  SeenInv'
<1>1. CASE Gossip
  <2>1. /\ known' = [p \in Pods |-> Learned(p)] /\ known \in [Pods -> SUBSET Pods]
        /\ ref' = ref /\ statusNodes' = statusNodes
    BY <1>1 DEF Gossip, TypeOK, crVars
  <2>2. \A p \in Pods : known'[p] = Learned(p) /\ known[p] \subseteq known'[p]
    BY <2>1 DEF Learned
  <2>3. StatusKnown'
    <3>1. ASSUME NEW p \in Pods, NEW q \in Pods, q \in known'[p], q \in statusNodes
          PROVE  statusNodes \subseteq known'[p]
      <4>1. CASE q \in known[p]
        BY <2>2, <3>1, <4>1 DEF SeenInv, StatusKnown
      <4>2. CASE q \in Neighbours(p)
        <5>1. q \in known[q]
          BY DEF SeenInv, StatusKnown
        <5>2. statusNodes \subseteq known[q]
          BY <3>1, <5>1 DEF SeenInv, StatusKnown
        <5> QED BY <2>2, <4>2, <5>2 DEF Learned
      <4>3. CASE \E r \in Neighbours(p) : q \in known[r]
        <5>1. PICK r \in Neighbours(p) : q \in known[r]
          BY <4>3
        <5>2. r \in Pods
          BY DEF Neighbours
        <5>3. statusNodes \subseteq known[r]
          BY <3>1, <5>1, <5>2 DEF SeenInv, StatusKnown
        <5> QED BY <2>2, <5>1, <5>3 DEF Learned
      <4> QED BY <2>2, <3>1, <4>1, <4>2, <4>3 DEF Learned
    <3>2. \A p \in Pods : p \in known'[p]
      BY <2>2 DEF SeenInv, StatusKnown
    <3> QED BY <2>1, <3>1, <3>2 DEF SeenInv, StatusKnown, IsMaster
  <2> QED BY <1>1, <2>2, <2>3, Learns DEF Gossip, history
<1>2. ASSUME NEW p \in Pods, GhostSpreads(p) \/ HandshakeEnds(p) \/ FlagGhost(p)
                             \/ FlagLive(p) \/ UnflagLive(p)
      PROVE  SeenInv'
  <2>1. UNCHANGED <<MasterSize, known, ref, slots, configured, crVars, pc, passVars, cut>>
    BY <1>2 DEF GhostSpreads, HandshakeEnds, FlagGhost, FlagLive, UnflagLive, history
  <2>2. StatusKnown'
    BY <2>1, StatusKept DEF SeenInv, crVars
  <2> QED BY <2>1, <2>2, Learns
<1> QED
  BY <1>1, <1>2

\* When the status is stored all the pods know one another.
LEMMA AllKnown ==
  ASSUME TypeOK, SeenInv, pc = "status" \/ statusNodes = Pods
  PROVE  \A p, q \in Pods : q \in known[p]
<1> SUFFICES ASSUME NEW p \in Pods, NEW q \in Pods PROVE q \in known[p]
  OBVIOUS
<1>1. StatusKnown /\ statusNodes \subseteq Pods
  BY DEF SeenInv, TypeOK
<1>2. CASE statusNodes = Pods
  BY <1>1, <1>2 DEF StatusKnown
<1>3. CASE pc = "status" /\ statusNodes # Pods
  <2>1. \A y \in Pods : IsMaster(y) => y \in known[p]
    BY <1>3 DEF SeenInv, PassKnows
  <2>2. CASE IsMaster(q)
    BY <2>1, <2>2
  <2>3. CASE ~ IsMaster(q)
    <3>1. q \in statusNodes
      BY <1>1, <2>3 DEF StatusKnown, IsMaster
    <3>2. PICK x \in statusNodes : IsMaster(x)
      BY <1>1, <1>3, <3>1 DEF StatusKnown
    <3>3. x \in known[p] /\ x \in Pods
      BY <1>1, <2>1, <3>2
    <3> QED BY <1>1, <3>1, <3>2, <3>3 DEF StatusKnown
  <2> QED BY <2>2, <2>3
<1> QED
  BY <1>2, <1>3

Early == {"idle", "heal", "forget", "join", "joined", "config", "status"}

\* Before syncCluster a pass changes nothing but what it knows.
LEMMA EarlyStep ==
  ASSUME TypeOK, SeenInv, pc \in Early, pc' \in Early,
         UNCHANGED <<MasterSize, known, ref, slots, crVars, masterOf, cut>>,
         configured \subseteq configured', configured' \subseteq Pods
  PROVE  Following' /\ StatusKnown' /\ MastersPicked' /\ SlotsInOrder' /\ SlotsOnMasters'
<1>0. /\ MasterSize' = MasterSize /\ ref' = ref /\ slots' = slots /\ known' = known
      /\ status' = status /\ statusNodes' = statusNodes /\ masterOf' = masterOf /\ cut' = cut
  BY DEF crVars
<1>1. Following'
  BY <1>0 DEF SeenInv, Following
<1>2. SlotsOnMasters'
  BY <1>0 DEF SeenInv, SlotsOnMasters, IsMaster
<1>3. StatusKnown'
  BY <1>0, StatusKept DEF SeenInv
<1>4. MastersPicked'
  BY <1>0 DEF SeenInv, MastersPicked, Early
<1>5. SlotsInOrder'
  <2>1. Shards' = Shards /\ NoSlots' = NoSlots /\ AllSlots' = AllSlots
    BY <1>0 DEF Shards, NoSlots, AllSlots
  <2>2. Formed => Formed'
    BY <1>0, FormedKept
  <2> QED BY <1>0, <2>1, <2>2 DEF SeenInv, SlotsInOrder, Early
<1> QED
  BY <1>1, <1>2, <1>3, <1>4, <1>5

\* The nodes agree: every node lists every master.
LEMMA Joined ==
  ASSUME TypeOK, SeenInv, pc \in {"join", "joined"}, Consistent
  PROVE  \A p, q \in Pods : IsMaster(q) => q \in known[p]
BY DEF SeenInv, PassKnows, Consistent

\* The steps of a pass up to the first status.
LEMMA PassStep ==
  ASSUME TypeOK, TypeOK', SeenInv, faults'["blind"] = 0,
         \/ StartPass \/ HealFailed \/ HealUntrusted \/ NothingToHeal
         \/ AlreadyJoined \/ MeetNodes \/ CheckJoined \/ SetConfigIfNeed
  PROVE  SeenInv'
<1>0. PassKnows /\ "blind" \in FaultKinds /\ configured' \subseteq Pods /\ configured \subseteq Pods
  BY DEF SeenInv, FaultKinds, TypeOK
<1>1. CASE StartPass
  <2>1. conn' = Pods
    <3>1. ~ Fault("blind")
      BY <1>0, Faulted
    <3> QED BY <1>1, <3>1 DEF StartPass
  <2>2. /\ pc = "idle" /\ pc' = "heal"
        /\ UNCHANGED <<MasterSize, known, ref, slots, crVars, masterOf, cut, configured>>
    BY <1>1 DEF StartPass, nodeVars
  <2>3. PassKnows'
    BY <1>0, <2>1, <2>2 DEF PassKnows, crVars
  <2>4. Following' /\ StatusKnown' /\ MastersPicked' /\ SlotsInOrder' /\ SlotsOnMasters'
    BY <1>0, <2>2, EarlyStep DEF Early
  <2> QED BY <2>3, <2>4 DEF SeenInv
<1>2. CASE HealFailed
  <2>1. /\ pc = "heal" /\ pc' = "forget" /\ todo' = GhostNodes
        /\ UNCHANGED <<MasterSize, known, ref, slots, crVars, masterOf, cut, configured, conn>>
    BY <1>2 DEF HealFailed, nodeVars, history
  <2>2. GhostNodes \subseteq (Pods \ statusNodes) \union {Ghost}
    BY DEF GhostNodes, TypeOK
  <2>3. PassKnows'
    BY <1>0, <2>1, <2>2 DEF PassKnows, crVars
  <2>4. Following' /\ StatusKnown' /\ MastersPicked' /\ SlotsInOrder' /\ SlotsOnMasters'
    BY <1>0, <2>1, EarlyStep DEF Early
  <2> QED BY <2>3, <2>4 DEF SeenInv
<1>3. CASE HealUntrusted
  <2>1. /\ pc = "heal" /\ EndPass
        /\ UNCHANGED <<MasterSize, known, ref, slots, status, statusNodes, cut, configured>>
    BY <1>3 DEF HealUntrusted, crVars, history
  <2> QED BY <1>0, <2>1, PassEnded
<1>4. CASE NothingToHeal \/ AlreadyJoined
  <2>1. /\ \/ pc = "heal" /\ pc' = "join"
           \/ pc = "join" /\ pc' = "config" /\ Consistent
        /\ UNCHANGED <<MasterSize, known, ref, slots, crVars, masterOf, cut, configured, conn>>
    BY <1>4 DEF NothingToHeal, AlreadyJoined, nodeVars, history, passVars
  <2>2. pc' = "config" => \A p, q \in Pods : IsMaster(q) => q \in known[p]
    BY <2>1, Joined
  <2>3. PassKnows'
    BY <1>0, <2>1, <2>2 DEF PassKnows, crVars, IsMaster
  <2>4. Following' /\ StatusKnown' /\ MastersPicked' /\ SlotsInOrder' /\ SlotsOnMasters'
    BY <1>0, <2>1, EarlyStep DEF Early
  <2> QED BY <2>3, <2>4 DEF SeenInv
<1>5. CASE MeetNodes
  <2>1. /\ pc = "join"
        /\ UNCHANGED <<MasterSize, known, ref, slots, cut, configured>>
        /\ \/ /\ pc' = "joined" /\ UNCHANGED <<crVars, conn, masterOf>>
           \/ SetClusterFailed /\ EndPass
    BY <1>5 DEF MeetNodes
  <2>2. CASE pc' = "joined" /\ UNCHANGED <<crVars, conn, masterOf>>
    <3>1. PassKnows'
      BY <1>0, <2>1, <2>2 DEF PassKnows, crVars
    <3>2. Following' /\ StatusKnown' /\ MastersPicked' /\ SlotsInOrder' /\ SlotsOnMasters'
      BY <1>0, <2>1, <2>2, EarlyStep DEF Early
    <3> QED BY <3>1, <3>2 DEF SeenInv
  <2>3. CASE SetClusterFailed /\ EndPass
    BY <1>0, <2>1, <2>3, PassEnded DEF SetClusterFailed
  <2> QED BY <2>1, <2>2, <2>3
<1>6. CASE CheckJoined
  <2>1. /\ pc = "joined"
        /\ UNCHANGED <<MasterSize, known, ref, slots, crVars, cut, configured>>
        /\ \/ pc' = "config" /\ Consistent /\ UNCHANGED <<conn, masterOf>>
           \/ EndPass
    BY <1>6 DEF CheckJoined, nodeVars, history, passVars
  <2>2. CASE pc' = "config" /\ Consistent /\ UNCHANGED <<conn, masterOf>>
    <3>1. \A p, q \in Pods : IsMaster(q) => q \in known[p]
      BY <2>1, <2>2, Joined
    <3>2. PassKnows'
      BY <1>0, <2>1, <2>2, <3>1 DEF PassKnows, crVars, IsMaster
    <3>3. Following' /\ StatusKnown' /\ MastersPicked' /\ SlotsInOrder' /\ SlotsOnMasters'
      BY <1>0, <2>1, <2>2, EarlyStep DEF Early
    <3> QED BY <3>2, <3>3 DEF SeenInv
  <2>3. CASE EndPass
    BY <1>0, <2>1, <2>3, PassEnded DEF crVars
  <2> QED BY <2>1, <2>2, <2>3
<1>7. CASE SetConfigIfNeed
  <2>1. PICK done \in {conn} \union {conn \ {p} : p \in conn} :
          /\ configured' = configured \union done
          /\ IF done = conn
               THEN pc' = "status" /\ UNCHANGED <<passVars, faults>>
               ELSE Fault("refused") /\ EndPass
    BY <1>7 DEF SetConfigIfNeed
  <2>2. /\ pc = "config" /\ conn = Pods /\ configured \subseteq configured'
        /\ UNCHANGED <<MasterSize, known, ref, slots, crVars, cut>>
    BY <1>0, <1>7, <2>1 DEF SetConfigIfNeed, PassKnows
  <2>3. CASE done = conn
    <3>1. /\ configured' = Pods /\ pc' = "status"
          /\ UNCHANGED <<conn, masterOf>>
      BY <1>0, <2>1, <2>2, <2>3 DEF passVars
    <3>2. PassKnows'
      BY <1>0, <2>2, <3>1 DEF PassKnows, crVars, IsMaster
    <3>3. Following' /\ StatusKnown' /\ MastersPicked' /\ SlotsInOrder' /\ SlotsOnMasters'
      BY <1>0, <2>2, <3>1, EarlyStep DEF Early
    <3> QED BY <3>2, <3>3 DEF SeenInv
  <2>4. CASE done # conn
    BY <1>0, <2>1, <2>2, <2>4, PassEnded DEF crVars
  <2> QED BY <2>3, <2>4
<1> QED
  BY <1>1, <1>2, <1>3, <1>4, <1>5, <1>6, <1>7

\* A pass that counts enough masters with enough replicas sees a formed cluster.
LEMMA FormedNow ==
  ASSUME TypeOK, SeenInv, conn = Pods, configured = Pods, pc # "alloc", "alloc" \notin cut,
         Cardinality(CurrentMasters) >= MasterSize,
         \A x \in CurrentMasters : Followers(x) >= ClusterReplicas
  PROVE  Formed
<1>1. /\ SlotsOnMasters /\ SlotsInOrder /\ Following /\ MasterSize \in 1 .. StatefulSets
      /\ ref \in [Pods -> Pods]
      /\ \A p \in Pods : slots[p] # {} => p[1] \in Shards
  BY DEF SeenInv, SlotsInOrder, TypeOK
<1>2. \A s \in Shards : \E p \in CurrentMasters : p[1] = s
  BY <1>1, CountMasters
<1>3. 0 \in Shards
  BY <1>1, FormationAssumption DEF Shards
<1>4. ~ NoSlots
  BY <1>2, <1>3 DEF NoSlots, CurrentMasters
<1>5. UNION {slots[p] : p \in Pods} = Slots
  BY <1>1, <1>4 DEF SlotsInOrder, AllSlots
<1>6. ASSUME NEW s \in Shards
      PROVE  \E x \in Pods : /\ x[1] = s /\ IsMaster(x) /\ slots[x] # {}
                             /\ \A p \in Pods : p[1] = s => ref[p] = x
  <2>1. PICK x \in CurrentMasters : x[1] = s
    BY <1>2
  <2>2. x \in Pods /\ IsMaster(x) /\ slots[x] # {}
    BY DEF CurrentMasters
  <2>3. \A p \in Pods : p[1] = x[1] /\ p # x => ref[p] = x
    BY <1>1, <2>2, AllFollow
  <2>4. \A p \in Pods : p[1] = s => ref[p] = x
    BY <2>1, <2>2, <2>3 DEF IsMaster
  <2> QED BY <2>1, <2>2, <2>4
<1> QED
  BY <1>5, <1>6 DEF Formed

\* The least replication factor is that of no master.
LEMMA EnoughReplicas ==
  ASSUME conn \subseteq Pods, ~ (MinReplicationFactor < ClusterReplicas),
         NEW x \in CurrentMasters
  PROVE  Followers(x) >= ClusterReplicas
<1>1. Followers(x) \in ReplicationFactors
  BY DEF ReplicationFactors
<1>2. ReplicationFactors \subseteq Nat
  BY FollowersType DEF ReplicationFactors
<1> DEFINE m == Min(ReplicationFactors)
<1>3. m \in ReplicationFactors /\ \A y \in ReplicationFactors : m <= y
  <2>1. \E z \in ReplicationFactors : \A y \in ReplicationFactors : z <= y
    BY <1>1, <1>2, Least
  <2> QED BY <2>1 DEF Min
<1>4. MinReplicationFactor = m
  BY <1>1 DEF MinReplicationFactor
<1> HIDE DEF m
<1>5. m \in Nat /\ Followers(x) \in Nat /\ m <= Followers(x) /\ ClusterReplicas \in Nat
  BY <1>1, <1>2, <1>3, FormationAssumption
<1> QED
  BY <1>4, <1>5

\* The first status is stored when all the pods know one another; without an
\* operation to do the cluster is formed.
LEMMA StatusStep ==
  ASSUME TypeOK, SeenInv, StoreStatus
  PROVE  SeenInv'
<1>1. /\ pc = "status" /\ conn = Pods /\ configured = Pods /\ pc' \in {"sync", "final"}
      /\ MasterSize' = MasterSize /\ ref' = ref /\ slots' = slots /\ known' = known
      /\ configured' = configured /\ conn' = conn /\ masterOf' = masterOf /\ cut' = cut
      /\ statusNodes' = Pods /\ status' \in {status, "Rebalancing"}
      /\ pc' = "final" => ~ needClusterOperation
  BY DEF StoreStatus, SeenInv, PassKnows, nodeVars, passVars, history
<1>2. \A p, q \in Pods : q \in known[p]
  BY <1>1, AllKnown
<1>3. StatusKnown'
  <2>1. \A p \in Pods : ref[p] \in Pods
    BY DEF TypeOK
  <2> QED BY <1>1, <1>2, <2>1 DEF StatusKnown
<1>4. PassKnows'
  BY <1>1, <1>2 DEF PassKnows
<1>5. Following' /\ SlotsOnMasters'
  BY <1>1 DEF SeenInv, Following, SlotsOnMasters, IsMaster
<1>6. MastersPicked'
  BY <1>1 DEF SeenInv, MastersPicked
<1>7. SlotsInOrder'
  <2>1. Shards' = Shards /\ NoSlots' = NoSlots /\ AllSlots' = AllSlots
    BY <1>1 DEF Shards, NoSlots, AllSlots
  <2>2. Formed => Formed'
    BY <1>1, FormedKept
  <2>3. ASSUME pc' = "final", "alloc" \notin cut PROVE Formed
    <3>1. Cardinality(CurrentMasters) = MasterSize /\ ReplicationFactors = {ClusterReplicas}
      BY <1>1, <2>3 DEF needClusterOperation
    <3>2. Cardinality(CurrentMasters) >= MasterSize
      BY <3>1, FormationAssumption DEF TypeOK
    <3>3. \A x \in CurrentMasters : Followers(x) >= ClusterReplicas
      <4>1. \A x \in CurrentMasters : Followers(x) = ClusterReplicas
        BY <3>1 DEF ReplicationFactors
      <4> QED BY <4>1, FormationAssumption
    <3> QED BY <1>1, <2>3, <3>2, <3>3, FormedNow
  <2>4. status' = "Healthy" => status = "Healthy"
    BY <1>1
  <2>5. SlotsInOrder
    BY DEF SeenInv
  <2> QED BY <1>1, <2>1, <2>2, <2>3, <2>4, <2>5 DEF SlotsInOrder
<1> QED
  BY <1>3, <1>4, <1>5, <1>6, <1>7 DEF SeenInv

\* The last status is stored when the pass is through: all the pods know one
\* another, and the cluster is formed.
LEMMA FinalStep ==
  ASSUME TypeOK, SeenInv, SetClusterOK, faults'["blind"] = 0
  PROVE  SeenInv'
<1>0. "blind" \in FaultKinds
  BY DEF FaultKinds
<1>1. ~ Fault("blind")
  BY <1>0, Faulted
<1>2. /\ pc = "final" /\ statusNodes = Pods /\ statusNodes' = Pods /\ configured = Pods
      /\ MasterSize' = MasterSize /\ ref' = ref /\ slots' = slots /\ known' = known
      /\ configured' = configured /\ cut' = cut /\ status' = "Healthy" /\ EndPass
  BY <1>1 DEF SetClusterOK, SeenInv, PassKnows, nodeVars
<1>3. StatusKnown'
  BY <1>2, StatusKept DEF SeenInv
<1>4. PassKnows'
  BY <1>2 DEF PassKnows, EndPass
<1>5. Following' /\ SlotsOnMasters'
  BY <1>2 DEF SeenInv, Following, SlotsOnMasters, IsMaster
<1>6. MastersPicked'
  <2>1. \A s \in DOMAIN NoMasters : NoMasters[s][1] = s
    BY DEF NoMasters
  <2> QED BY <1>2, <2>1 DEF MastersPicked, EndPass
<1>7. SlotsInOrder'
  <2>1. Shards' = Shards /\ NoSlots' = NoSlots /\ AllSlots' = AllSlots
    BY <1>2 DEF Shards, NoSlots, AllSlots
  <2>2. Formed => Formed'
    BY <1>2, FormedKept
  <2> QED BY <1>2, <2>1, <2>2 DEF SeenInv, SlotsInOrder, EndPass
<1> QED
  BY <1>3, <1>4, <1>5, <1>6, <1>7 DEF SeenInv

\* The healer forgets nodes that are not in the status: nobody follows them,
\* and whoever knew the nodes of the status still does.
LEMMA ForgetStep ==
  ASSUME TypeOK, SeenInv, NEW x \in Pods \union {Ghost}, ForgetNode(x)
  PROVE  SeenInv'
<1>1. PICK told \in {conn \ {x}} \union {conn \ {x, p} : p \in conn} :
        LET reset == {p \in told : ref[p] = x /\ x # p} IN
        /\ known' = [p \in Pods |-> CASE p \in reset -> {p}
                                      [] p \in told \ reset -> known[p] \ {x}
                                      [] OTHER -> known[p]]
        /\ ref' = [p \in Pods |-> IF p \in reset THEN p ELSE ref[p]]
  BY DEF ForgetNode
<1> DEFINE reset == {p \in told : ref[p] = x /\ x # p}
<1>2. /\ pc = "forget" /\ x \in todo /\ x \notin statusNodes /\ conn = Pods
      /\ told \subseteq Pods /\ x \notin told
      /\ ref \in [Pods -> Pods] /\ known \in [Pods -> SUBSET Pods] /\ statusNodes \subseteq Pods
  BY PodFacts DEF ForgetNode, SeenInv, PassKnows, TypeOK
<1>3. reset = {}
  <2> SUFFICES ASSUME NEW p \in told, ref[p] = x, x # p PROVE FALSE
    OBVIOUS
  <2>1. x \in statusNodes
    BY <1>2 DEF SeenInv, StatusKnown
  <2> QED BY <1>2, <2>1
<1>4. /\ ref' = ref
      /\ \A p \in Pods : known'[p] = IF p \in told THEN known[p] \ {x} ELSE known[p]
  <2>1. ref' = [p \in Pods |-> IF p \in reset THEN p ELSE ref[p]]
    BY <1>1
  <2>2. known' = [p \in Pods |-> CASE p \in reset -> {p}
                                   [] p \in told \ reset -> known[p] \ {x}
                                   [] OTHER -> known[p]]
    BY <1>1
  <2> HIDE DEF reset
  <2> QED BY <1>2, <1>3, <2>1, <2>2
<1>5. /\ MasterSize' = MasterSize /\ slots' = slots /\ configured' = configured
      /\ status' = status /\ statusNodes' = statusNodes /\ cut' = cut
      /\ \/ EndPass
         \/ /\ todo' = todo \ {x} /\ pc' = pc /\ conn' = conn /\ masterOf' = masterOf
            /\ branch' = branch
  BY DEF ForgetNode, crVars
<1>6. StatusKnown'
  <2>1. StatusKnown
    BY DEF SeenInv
  <2>2. \A p \in Pods : p \in known'[p]
    BY <1>2, <1>4, <2>1 DEF StatusKnown
  <2>3. ASSUME NEW p \in Pods, NEW q \in Pods, q \in known'[p], q \in statusNodes
        PROVE  statusNodes \subseteq known'[p]
    <3>1. q \in known[p]
      BY <1>4, <2>3
    <3>2. statusNodes \subseteq known[p]
      BY <2>1, <2>3, <3>1 DEF StatusKnown
    <3> QED BY <1>2, <1>4, <3>2
  <2> QED BY <1>4, <1>5, <2>1, <2>2, <2>3 DEF StatusKnown, IsMaster
<1>7. CASE EndPass
  <2>1. Following' /\ PassKnows' /\ MastersPicked' /\ SlotsInOrder' /\ SlotsOnMasters'
    BY <1>2, <1>4, <1>5, <1>7, PassEnded DEF TypeOK
  <2> QED BY <1>6, <2>1 DEF SeenInv
<1>8. CASE /\ todo' = todo \ {x} /\ pc' = pc /\ conn' = conn /\ masterOf' = masterOf
           /\ branch' = branch
  <2>1. Following' /\ SlotsOnMasters'
    BY <1>4, <1>5 DEF SeenInv, Following, SlotsOnMasters, IsMaster
  <2>2. PassKnows'
    BY <1>2, <1>5, <1>8 DEF SeenInv, PassKnows
  <2>3. MastersPicked'
    BY <1>2, <1>5, <1>8 DEF SeenInv, MastersPicked
  <2>4. SlotsInOrder'
    <3>1. Shards' = Shards /\ NoSlots' = NoSlots /\ AllSlots' = AllSlots
      BY <1>5 DEF Shards, NoSlots, AllSlots
    <3>2. Formed => Formed'
      BY <1>4, <1>5, FormedKept
    <3> QED BY <1>2, <1>5, <1>8, <3>1, <3>2 DEF SeenInv, SlotsInOrder
  <2> QED BY <1>6, <2>1, <2>2, <2>3, <2>4 DEF SeenInv
<1> QED
  BY <1>5, <1>7, <1>8

\* The passes that end in syncCluster or because the operator stops.
LEMMA EndStep ==
  ASSUME TypeOK, SeenInv, DispatchFails \/ PlaceSlavesPanics \/ Crash
  PROVE  SeenInv'
<1>1. /\ EndPass /\ UNCHANGED <<MasterSize, known, ref, slots, statusNodes>>
      /\ configured' = configured /\ status' \in {status, "Failed"}
      /\ cut \subseteq cut' /\ (pc = "alloc" => "alloc" \in cut')
  BY DEF DispatchFails, PlaceSlavesPanics, Crash, SetClusterFailed, nodeVars, crVars, history
<1>2. configured \subseteq Pods
  BY DEF TypeOK
<1> QED
  BY <1>1, <1>2, PassEnded

\* DispatchMasters picks a pod of each StatefulSet, the one that has slots if
\* there is one.
LEMMA Picked ==
  ASSUME TypeOK, SeenInv, conn = Pods, ~ CannotDispatch,
         NEW m \in [0 .. StatefulSets - 1 -> Pods], DispatchMasters(m)
  PROVE  /\ \A s \in 0 .. StatefulSets - 1 : m[s][1] = s
         /\ \A p \in Pods : slots[p] # {} => p = m[p[1]]
<1>1. /\ SlotsOnMasters /\ SlotsInOrder /\ DOMAIN m = 0 .. StatefulSets - 1
  BY DEF SeenInv
<1>2. ASSUME NEW s \in 0 .. StatefulSets - 1
      PROVE  \/ m[s] = <<s, 0>>
             \/ m[s] \in CurrentOf(s)
             \/ m[s] \in NodesOf(s)
  <2>1. PlaceMasters(s, m) \subseteq NodesOf(s)
    BY DEF PlaceMasters
  <2>2. NoMasters[s] = <<s, 0>>
    BY DEF NoMasters
  <2> QED BY <1>1, <2>1, <2>2 DEF DispatchMasters
<1>3. \A s \in 0 .. StatefulSets - 1 : m[s][1] = s
  BY <1>2 DEF CurrentOf, NodesOf
<1>4. ASSUME NEW p \in Pods, slots[p] # {} PROVE p = m[p[1]]
  <2>1. p[1] \in Shards /\ p[1] \in DOMAIN m /\ p \in CurrentOf(p[1])
    BY <1>1, <1>4, PodFacts DEF SlotsInOrder, CurrentOf, CurrentMasters, SlotsOnMasters
  <2>2. m[p[1]] \in CurrentOf(p[1])
    BY <2>1 DEF DispatchMasters
  <2>3. m[p[1]] \in Pods /\ slots[m[p[1]]] # {} /\ m[p[1]][1] = p[1]
    BY <2>2 DEF CurrentOf, CurrentMasters
  <2> QED BY <1>1, <1>4, <2>3 DEF SlotsOnMasters
<1> QED
  BY <1>3, <1>4

\* syncCluster starts to attach the pods that do not follow the master it has
\* picked, or has nothing to do because the cluster is formed.
LEMMA DispatchStep ==
  ASSUME TypeOK, SeenInv, NEW m \in [0 .. StatefulSets - 1 -> Pods], Dispatch(m)
  PROVE  SeenInv'
<1>1. /\ pc = "sync" /\ conn = Pods /\ statusNodes = Pods /\ configured = Pods
      /\ MasterSize' = MasterSize /\ ref' = ref /\ slots' = slots /\ known' = known
      /\ configured' = configured /\ status' = status /\ statusNodes' = statusNodes
      /\ conn' = conn /\ cut' = cut /\ masterOf' = m /\ branch' = Branch
      /\ \/ Branch = "none" /\ pc' = "final" /\ todo' = {}
         \/ /\ Branch # "none" /\ pc' = "attach" /\ todo' = PlaceSlaves(m)
            /\ \A p \in Pods : p[1] \in Shards
  BY DEF Dispatch, SeenInv, PassKnows, nodeVars, crVars, history
<1>2. /\ SlotsOnMasters /\ SlotsInOrder /\ Following /\ MasterSize \in 1 .. StatefulSets
      /\ ref \in [Pods -> Pods]
  BY DEF SeenInv, TypeOK
<1>3. /\ \A s \in 0 .. StatefulSets - 1 : m[s][1] = s
      /\ \A p \in Pods : slots[p] # {} => p = m[p[1]]
  BY <1>1, Picked DEF Dispatch
<1>4. Following' /\ SlotsOnMasters' /\ StatusKnown'
  <2>1. Following' /\ SlotsOnMasters'
    BY <1>1, <1>2 DEF Following, SlotsOnMasters, IsMaster
  <2> QED BY <1>1, <2>1, StatusKept DEF SeenInv
<1>5. PassKnows'
  BY <1>1 DEF SeenInv, PassKnows
<1>6. /\ Shards' = Shards /\ NoSlots' = NoSlots /\ AllSlots' = AllSlots
      /\ Formed => Formed'
  BY <1>1, FormedKept DEF Shards, NoSlots, AllSlots
<1>7. CurrentMasters = {p \in Pods : slots[p] # {}}
  BY <1>1, <1>2 DEF CurrentMasters, SlotsOnMasters
<1>8. /\ Cardinality(CurrentMasters) \in Nat
      /\ Cardinality(CurrentMasters) >= MasterSize
           <=> \A s \in Shards : \E p \in CurrentMasters : p[1] = s
  BY <1>1, <1>2, CountMasters DEF SlotsInOrder
<1>9. CASE Branch = "none" /\ pc' = "final"
  <2>1. MastersPicked'
    BY <1>1, <1>3, <1>9 DEF MastersPicked
  <2>2. ASSUME "alloc" \notin cut PROVE Formed
    <3>1. CurrentMasters # {} /\ ~ (MasterSize > Cardinality(CurrentMasters))
      BY <1>9 DEF Branch
    <3>2. Cardinality(CurrentMasters) >= MasterSize
      BY <1>2, <1>8, <3>1, FormationAssumption
    <3>3. ~ (MinReplicationFactor < ClusterReplicas)
      <4>1. MasterSize <= Cardinality(CurrentMasters)
        BY <1>2, <1>8, <3>2, FormationAssumption
      <4> QED BY <1>9, <3>1, <4>1 DEF Branch
    <3>4. \A x \in CurrentMasters : Followers(x) >= ClusterReplicas
      BY <1>1, <3>3, EnoughReplicas
    <3> QED BY <1>1, <2>2, <3>2, <3>4, FormedNow
  <2>3. SlotsInOrder'
    BY <1>1, <1>2, <1>6, <1>9, <2>2 DEF SlotsInOrder
  <2> QED BY <1>4, <1>5, <2>1, <2>3 DEF SeenInv
<1>10. CASE Branch # "none" /\ pc' = "attach"
  <2>1. \A p \in Pods : p[1] \in Shards
    BY <1>1, <1>10
  <2>2. MasterSize = StatefulSets
    <3>1. StatefulSets \in Nat \ {0} /\ MasterSize \in Nat
      BY <1>2, FormationAssumption
    <3>2. StatefulSets - 1 \in 0 .. StatefulSets - 1
      BY <3>1
    <3>3. <<StatefulSets - 1, 0>> \in Pods /\ <<StatefulSets - 1, 0>>[1] = StatefulSets - 1
      BY <3>2, PodFacts
    <3>4. StatefulSets - 1 \in Shards
      BY <2>1, <3>3
    <3> QED BY <1>2, <3>1, <3>4 DEF Shards
  <2>3. todo' = {p \in Pods : p # m[p[1]] /\ ref[p] # m[p[1]]}
    BY <1>1, <1>10 DEF PlaceSlaves
  <2>4. ASSUME NEW s \in Shards, ~ IsMaster(m[s]) PROVE ref[m[s]] \in todo'
    <3>1. s \in 0 .. StatefulSets - 1 /\ m[s] \in Pods /\ m[s][1] = s
      BY <1>3, <2>2 DEF Shards
    <3>2. ref[m[s]] \in Pods /\ ref[m[s]] # m[s]
      BY <1>2, <2>4, <3>1 DEF IsMaster
    <3>3. ref[m[s]][1] = s /\ ref[ref[m[s]]] # m[s]
      BY <1>2, <3>1, <3>2 DEF Following
    <3> QED BY <2>3, <3>2, <3>3
  <2>5. MastersPicked'
    <3>1. \A p \in todo' : p \in Pods /\ m[p[1]] \notin {p, ref[p]}
      BY <2>3
    <3>2. \A p \in Pods : p \in todo' \/ m[p[1]] \in {p, ref[p]}
      BY <2>3
    <3> QED BY <1>1, <1>3, <1>6, <1>10, <2>2, <2>4, <3>1, <3>2 DEF MastersPicked, IsMaster
  <2>6. NoSlots <=> Branch = "create"
    <3>1. CurrentMasters = {} <=> NoSlots
      BY <1>7 DEF NoSlots
    <3>2. CASE CurrentMasters = {}
      <4>1. Cardinality(CurrentMasters) = 0
        BY <3>2, FS_EmptySet
      <4>2. ~ (MasterSize <= Cardinality(CurrentMasters))
        BY <1>2, <4>1, FormationAssumption
      <4>3. Branch = "create"
        BY <3>2, <4>2 DEF Branch
      <4> QED BY <3>1, <3>2, <4>3
    <3>3. CASE CurrentMasters # {}
      <4>1. Branch # "create"
        BY <3>3 DEF Branch
      <4> QED BY <3>1, <3>3, <4>1
    <3> QED BY <3>2, <3>3
  <2>7. Branch = "scaleup" => "alloc" \in cut
    <3> SUFFICES ASSUME Branch = "scaleup", "alloc" \notin cut PROVE FALSE
      OBVIOUS
    <3>1. CurrentMasters # {} /\ MasterSize > Cardinality(CurrentMasters)
      BY DEF Branch
    <3>2. ~ NoSlots
      BY <1>7, <3>1 DEF NoSlots
    <3>3. AllSlots
      BY <1>1, <1>2, <3>2 DEF SlotsInOrder
    <3>4. \A s \in Shards : \E p \in CurrentMasters : p[1] = s
      BY <1>7, <3>3 DEF AllSlots
    <3> QED BY <1>2, <1>8, <3>1, <3>4, FormationAssumption
  <2>8. SlotsInOrder'
    BY <1>1, <1>2, <1>6, <1>10, <2>6, <2>7 DEF SlotsInOrder
  <2> QED BY <1>4, <1>5, <2>5, <2>8 DEF SeenInv
<1> QED
  BY <1>1, <1>9, <1>10

\* While pods are attached to the master picked for their StatefulSet, a
\* formed cluster has none to attach.
LEMMA AttachStep ==
  ASSUME TypeOK, SeenInv, NEW p \in Pods, AttachSlaveToMaster(p)
  PROVE  SeenInv'
<1> DEFINE x == masterOf[p[1]]
<1>1. /\ pc = "attach" /\ p \in todo /\ pc' = pc /\ todo' = todo \ {p}
      /\ conn = Pods /\ statusNodes = Pods /\ configured = Pods
      /\ MasterSize' = MasterSize /\ slots' = slots /\ known' = known
      /\ configured' = configured /\ status' = status /\ statusNodes' = statusNodes
      /\ conn' = conn /\ cut' = cut /\ masterOf' = masterOf /\ branch' = branch
      /\ \/ Replicates(p, x) /\ ref' = [ref EXCEPT ![p] = x] /\ err' = err
         \/ err' = TRUE /\ ref' = ref
  BY DEF AttachSlaveToMaster, SeenInv, PassKnows, crVars
<1>2. /\ SlotsOnMasters /\ SlotsInOrder /\ Following /\ MastersPicked /\ StatusKnown
      /\ ref \in [Pods -> Pods] /\ masterOf \in [0 .. StatefulSets - 1 -> Pods]
      /\ PassKnows /\ MasterSize \in 1 .. StatefulSets
  BY DEF SeenInv, TypeOK
<1>3. /\ x \in Pods /\ x # p /\ ref[p] # x /\ x[1] = p[1] /\ p[1] \in 0 .. StatefulSets - 1
      /\ p[1] \in Shards /\ Shards = 0 .. StatefulSets - 1
  <2>1. MasterSize = StatefulSets /\ p[1] \in 0 .. StatefulSets - 1
    BY <1>1, <1>2, PodFacts DEF MastersPicked
  <2> QED BY <1>1, <1>2, <2>1 DEF MastersPicked, Shards
<1>4. \A s \in Shards : masterOf[s] \in Pods /\ masterOf[s][1] = s /\ masterOf[s] # p
  BY <1>2, <1>3 DEF MastersPicked
<1>5. PassKnows'
  BY <1>1, <1>2 DEF PassKnows
<1>6. /\ Shards' = Shards /\ NoSlots' = NoSlots /\ AllSlots' = AllSlots
  BY <1>1 DEF Shards, NoSlots, AllSlots
<1> HIDE DEF x
<1>7. CASE err' = TRUE /\ ref' = ref
  <2>1. Following' /\ SlotsOnMasters' /\ StatusKnown'
    <3>1. Following' /\ SlotsOnMasters'
      BY <1>1, <1>2, <1>7 DEF Following, SlotsOnMasters, IsMaster
    <3> QED BY <1>1, <1>2, <1>7, <3>1, StatusKept
  <2>2. MastersPicked'
    BY <1>1, <1>2, <1>7 DEF MastersPicked
  <2>3. Formed => Formed'
    BY <1>1, <1>7, FormedKept
  <2>4. SlotsInOrder'
    BY <1>1, <1>2, <1>6, <2>3 DEF SlotsInOrder
  <2> QED BY <1>5, <2>1, <2>2, <2>4 DEF SeenInv
<1>8. CASE Replicates(p, x) /\ ref' = [ref EXCEPT ![p] = x] /\ err' = err
  <2>1. ref[x] = x /\ slots[p] = {}
    BY <1>8 DEF Replicates, IsMaster
  <2>2. /\ ref'[p] = x /\ \A q \in Pods : q # p => ref'[q] = ref[q]
        /\ ref' \in [Pods -> Pods]
    BY <1>2, <1>3, <1>8
  <2>3. Following'
    <3> SUFFICES ASSUME NEW q \in Pods
                 PROVE  ref'[q][1] = q[1] /\ (ref'[q] # q => ref'[ref'[q]] # q)
      BY DEF Following
    <3>1. CASE q = p
      BY <1>3, <2>1, <2>2, <3>1
    <3>2. CASE q # p /\ ref[q] = p
      BY <1>2, <1>3, <2>1, <2>2, <3>2 DEF Following
    <3>3. CASE q # p /\ ref[q] # p
      BY <1>2, <2>2, <3>3 DEF Following
    <3> QED BY <3>1, <3>2, <3>3
  <2>4. StatusKnown'
    BY <1>1, <1>2, <2>2 DEF StatusKnown
  <2>5. SlotsOnMasters'
    BY <1>1, <1>2, <2>1, <2>2 DEF SlotsOnMasters, IsMaster
  <2>6. MastersPicked'
    <3>1. \A q \in todo' : q \in Pods /\ masterOf[q[1]] \notin {q, ref'[q]}
      BY <1>1, <1>2, <2>2 DEF MastersPicked
    <3>2. \A q \in Pods : err' \/ q \in todo' \/ masterOf[q[1]] \in {q, ref'[q]}
      <4> SUFFICES ASSUME NEW q \in Pods
                   PROVE  err' \/ q \in todo' \/ masterOf[q[1]] \in {q, ref'[q]}
        OBVIOUS
      <4>1. CASE q = p
        BY <2>2, <4>1 DEF x
      <4>2. CASE q # p
        BY <1>1, <1>2, <1>8, <2>2, <4>2 DEF MastersPicked
      <4> QED BY <4>1, <4>2
    <3>3. ASSUME NEW s \in Shards
          PROVE  err' \/ ref'[masterOf[s]] = masterOf[s] \/ ref'[masterOf[s]] \in todo'
      <4> DEFINE y == masterOf[s]
      <4>1. y \in Pods /\ y[1] = s /\ ref'[y] = ref[y] /\ ref[y][1] = s
        BY <1>2, <1>4, <2>2 DEF Following
      <4>2. err \/ ref[y] = y \/ ref[y] \in todo
        BY <1>1, <1>2 DEF MastersPicked, IsMaster
      <4>3. ref[y] = p => y = x
        BY <4>1 DEF x
      <4> QED BY <1>1, <1>8, <2>1, <4>1, <4>2, <4>3
    <3> QED BY <1>1, <1>2, <1>6, <3>1, <3>2, <3>3 DEF MastersPicked, IsMaster
  <2>7. ~ Formed
    <3> SUFFICES ASSUME Formed PROVE FALSE
      OBVIOUS
    <3>1. PICK z \in Pods : /\ z[1] = p[1] /\ slots[z] # {}
                            /\ \A q \in Pods : q[1] = p[1] => ref[q] = z
      BY <1>3 DEF Formed
    <3>2. z = x
      BY <1>1, <1>2, <3>1 DEF MastersPicked, x
    <3> QED BY <1>3, <3>1, <3>2
  <2>8. SlotsInOrder'
    BY <1>1, <1>2, <1>6, <2>7 DEF SlotsInOrder
  <2> QED BY <1>5, <2>3, <2>4, <2>5, <2>6, <2>8 DEF SeenInv
<1> QED
  BY <1>1, <1>7, <1>8

\* What stays as it is while roles and slots do.
LEMMA RolesKept ==
  ASSUME SeenInv, UNCHANGED <<MasterSize, known, ref, slots, configured, statusNodes>>
  PROVE  /\ Following' /\ StatusKnown' /\ SlotsOnMasters'
         /\ Shards' = Shards /\ NoSlots' = NoSlots /\ AllSlots' = AllSlots
         /\ (UNION {slots[p] : p \in Pods})' = UNION {slots[p] : p \in Pods}
         /\ \A j : LastSlot(j)' = LastSlot(j)
         /\ Formed => Formed'
<1>0. /\ MasterSize' = MasterSize /\ known' = known /\ ref' = ref /\ slots' = slots
      /\ configured' = configured /\ statusNodes' = statusNodes
  OBVIOUS
<1>1. Following' /\ SlotsOnMasters'
  BY <1>0 DEF SeenInv, Following, SlotsOnMasters, IsMaster
<1>2. StatusKnown'
  BY <1>0, StatusKept DEF SeenInv
<1>3. /\ Shards' = Shards /\ NoSlots' = NoSlots /\ AllSlots' = AllSlots
      /\ (UNION {slots[p] : p \in Pods})' = UNION {slots[p] : p \in Pods}
      /\ \A j : LastSlot(j)' = LastSlot(j)
  BY <1>0 DEF Shards, NoSlots, AllSlots, LastSlot, RoundedLast
<1> QED
  BY <1>0, <1>1, <1>2, <1>3, FormedKept

\* AttachingSlavesToMaster ends: all the pods of a StatefulSet follow the master
\* picked for it, or the pass is broken off.
LEMMA AttachedStep ==
  ASSUME TypeOK, SeenInv, Attached
  PROVE  SeenInv'
<1>1. /\ pc = "attach" /\ todo = {} /\ conn = Pods /\ statusNodes = Pods /\ configured = Pods
      /\ MasterSize' = MasterSize /\ ref' = ref /\ slots' = slots /\ known' = known
      /\ configured' = configured
      /\ \/ /\ err /\ EndPass /\ status' = "Failed" /\ statusNodes' = statusNodes
            /\ cut' = cut \union {"attach"}
         \/ /\ ~ err /\ pc' = NextOf(branch) /\ status' = status /\ statusNodes' = statusNodes
            /\ todo' = (IF branch = "create" THEN {masterOf[s] : s \in Shards} ELSE {})
            /\ conn' = conn /\ masterOf' = masterOf /\ branch' = branch /\ cut' = cut
  BY DEF Attached, SetClusterFailed, SeenInv, PassKnows, nodeVars, crVars
<1>2. /\ SlotsOnMasters /\ SlotsInOrder /\ Following /\ MastersPicked /\ PassKnows
      /\ ref \in [Pods -> Pods] /\ masterOf \in [0 .. StatefulSets - 1 -> Pods]
      /\ MasterSize \in 1 .. StatefulSets
  BY DEF SeenInv, TypeOK
<1>3. CASE /\ err /\ EndPass /\ status' = "Failed" /\ statusNodes' = statusNodes
           /\ cut' = cut \union {"attach"}
  <2>1. configured' \subseteq Pods /\ cut \subseteq cut' /\ pc # "alloc"
    BY <1>1, <1>3
  <2> QED BY <1>1, <1>3, <2>1, PassEnded
<1>4. CASE /\ ~ err /\ pc' = NextOf(branch) /\ status' = status /\ statusNodes' = statusNodes
           /\ todo' = (IF branch = "create" THEN {masterOf[s] : s \in Shards} ELSE {})
           /\ conn' = conn /\ masterOf' = masterOf /\ branch' = branch /\ cut' = cut
  <2>1. /\ Following' /\ StatusKnown' /\ SlotsOnMasters'
        /\ Shards' = Shards /\ NoSlots' = NoSlots /\ AllSlots' = AllSlots
        /\ (UNION {slots[p] : p \in Pods})' = UNION {slots[p] : p \in Pods}
        /\ \A j : LastSlot(j)' = LastSlot(j)
        /\ Formed => Formed'
    BY <1>1, <1>4, RolesKept
  <2>2. /\ MasterSize = StatefulSets /\ Shards = 0 .. StatefulSets - 1
        /\ \A s \in Shards : masterOf[s] \in Pods /\ masterOf[s][1] = s
        /\ \A p \in Pods : slots[p] # {} => p = masterOf[p[1]]
    <3>1. MasterSize = StatefulSets
      BY <1>1, <1>2 DEF MastersPicked
    <3>2. Shards = 0 .. StatefulSets - 1
      BY <3>1 DEF Shards
    <3> QED BY <1>1, <1>2, <3>1, <3>2 DEF MastersPicked
  <2>3. \A p \in Pods : ref[p] = masterOf[p[1]]
    <3> SUFFICES ASSUME NEW p \in Pods PROVE ref[p] = masterOf[p[1]]
      OBVIOUS
    <3>1. p[1] \in Shards
      BY <2>2, PodFacts
    <3>2. ref[masterOf[p[1]]] = masterOf[p[1]]
      BY <1>1, <1>2, <1>4, <3>1 DEF MastersPicked, IsMaster
    <3>3. masterOf[p[1]] \in {p, ref[p]}
      BY <1>1, <1>2, <1>4 DEF MastersPicked
    <3> QED BY <3>2, <3>3
  <2>4. pc' \in {"alloc", "rebalance", "final"}
    BY <1>4 DEF NextOf
  <2>5. PassKnows'
    BY <1>1, <1>2, <1>4, <2>4 DEF PassKnows
  <2>6. MastersPicked'
    BY <1>1, <1>2, <1>4, <2>2, <2>3, <2>4 DEF MastersPicked
  <2>7. CASE branch = "create"
    <3>1. pc' = "alloc" /\ todo' = {masterOf[s] : s \in Shards} /\ NoSlots
      BY <1>1, <1>2, <1>4, <2>7 DEF NextOf, SlotsInOrder
    <3>2. Cardinality(todo') = MasterSize
      <4> DEFINE f == [s \in Shards |-> masterOf[s]]
      <4>1. f \in Bijection(Shards, todo')
        <5>1. f \in [Shards -> todo']
          BY <3>1
        <5>2. \A s, t \in Shards : f[s] = f[t] => s = t
          BY <2>2
        <5>3. \A x \in todo' : \E s \in Shards : f[s] = x
          BY <3>1
        <5> QED BY <5>1, <5>2, <5>3 DEF Bijection, Injection, Surjection, IsInjective
      <4>2. IsFiniteSet(Shards) /\ Cardinality(Shards) = MasterSize
        <5>1. MasterSize \in Nat \ {0}
          BY <1>2, FormationAssumption
        <5> QED BY <5>1, FS_Interval DEF Shards
      <4>3. ExistsBijection(Shards, todo')
        BY <4>1 DEF ExistsBijection
      <4> QED BY <4>2, <4>3, FS_Bijection
    <3>3. todo' # {}
      <4>1. 0 \in Shards
        BY <1>2, FormationAssumption DEF Shards
      <4> QED BY <3>1, <4>1
    <3>4. \A s \in Shards : slots[masterOf[s]] = {} /\ masterOf[s] \in todo'
      BY <2>2, <3>1 DEF NoSlots
    <3>5. UNION {slots[p] : p \in Pods} = {}
      BY <3>1 DEF NoSlots
    <3>6. {k \in Slots : \E j \in Shards : k <= LastSlot(j) /\ j + Cardinality(todo') < MasterSize} = {}
      <4>1. \A j \in Shards : ~ (j + MasterSize < MasterSize)
        BY <1>2, FormationAssumption DEF Shards
      <4> QED BY <3>2, <4>1
    <3>7. SlotsInOrder'
      BY <1>1, <1>2, <1>4, <2>1, <3>1, <3>3, <3>4, <3>5, <3>6 DEF SlotsInOrder
    <3> QED BY <2>1, <2>5, <2>6, <3>7 DEF SeenInv
  <2>8. CASE branch = "scaleup"
    <3>1. pc' = "rebalance" /\ "alloc" \in cut
      BY <1>1, <1>2, <1>4, <2>8 DEF NextOf, SlotsInOrder
    <3>2. SlotsInOrder'
      BY <1>1, <1>2, <1>4, <2>1, <2>8, <3>1 DEF SlotsInOrder
    <3> QED BY <2>1, <2>5, <2>6, <3>2 DEF SeenInv
  <2>9. CASE branch \notin {"create", "scaleup"}
    <3>1. pc' = "final" /\ ~ NoSlots
      BY <1>1, <1>2, <1>4, <2>9 DEF NextOf, SlotsInOrder
    <3>2. ASSUME "alloc" \notin cut PROVE Formed
      <4>1. AllSlots
        BY <1>1, <1>2, <3>1, <3>2 DEF SlotsInOrder
      <4>2. ASSUME NEW s \in Shards
            PROVE  \E x \in Pods : /\ x[1] = s /\ IsMaster(x) /\ slots[x] # {}
                                   /\ \A p \in Pods : p[1] = s => ref[p] = x
        <5>1. PICK x \in Pods : x[1] = s /\ slots[x] # {}
          BY <4>1, <4>2 DEF AllSlots
        <5>2. x = masterOf[s]
          BY <2>2, <5>1
        <5>3. IsMaster(x) /\ \A p \in Pods : p[1] = s => ref[p] = x
          BY <2>3, <5>1, <5>2 DEF IsMaster
        <5> QED BY <5>1, <5>3
      <4> QED BY <1>1, <4>1, <4>2 DEF Formed, AllSlots
    <3>3. SlotsInOrder'
      BY <1>1, <1>2, <1>4, <2>1, <3>1, <3>2 DEF SlotsInOrder
    <3> QED BY <2>1, <2>5, <2>6, <3>3 DEF SeenInv
  <2> QED BY <2>7, <2>8, <2>9
<1> QED
  BY <1>1, <1>3, <1>4

\* AllocSlots gives the next range to one more master; with the last master
\* all the slots are given out.
LEMMA AllocStep ==
  ASSUME TypeOK, SeenInv, MastersToAlloc, NEW p \in Pods, AllocSlots(p)
  PROVE  SeenInv'
<1> DEFINE i == MasterSize - Cardinality(todo)
           range == AllocRange(i)
<1>1. /\ pc = "alloc" /\ p \in todo /\ conn = Pods /\ statusNodes = Pods /\ configured = Pods
      /\ MasterSize' = MasterSize /\ ref' = ref /\ known' = known
      /\ configured' = configured
      /\ \/ /\ Accepts(p, range) /\ slots' = [slots EXCEPT ![p] = @ \union range]
            /\ todo' = todo \ {p} /\ pc' = (IF todo = {p} THEN "final" ELSE "alloc")
            /\ status' = status /\ statusNodes' = statusNodes
            /\ conn' = conn /\ masterOf' = masterOf /\ branch' = branch /\ cut' = cut
         \/ /\ cut' = cut \union {"alloc"} /\ status' = "Failed" /\ statusNodes' = statusNodes
            /\ EndPass /\ slots' = slots
  BY DEF AllocSlots, SetClusterFailed, SeenInv, PassKnows, crVars
<1>2. /\ SlotsOnMasters /\ SlotsInOrder /\ Following /\ MastersPicked /\ PassKnows
      /\ StatusKnown /\ ref \in [Pods -> Pods] /\ masterOf \in [0 .. StatefulSets - 1 -> Pods]
      /\ slots \in [Pods -> SUBSET Slots]
      /\ MasterSize \in 1 .. StatefulSets
  BY DEF SeenInv, TypeOK
<1>3. /\ MasterSize = StatefulSets /\ Shards = 0 .. StatefulSets - 1
      /\ \A s \in Shards : masterOf[s] \in Pods /\ masterOf[s][1] = s
      /\ \A q \in Pods : slots[q] # {} => q = masterOf[q[1]]
      /\ \A q \in Pods : ref[q] = masterOf[q[1]]
  <2>1. MasterSize = StatefulSets
    BY <1>1, <1>2 DEF MastersPicked
  <2>2. Shards = 0 .. StatefulSets - 1
    BY <2>1 DEF Shards
  <2> QED BY <1>1, <1>2, <2>1, <2>2 DEF MastersPicked
<1>4. CASE /\ cut' = cut \union {"alloc"} /\ status' = "Failed" /\ statusNodes' = statusNodes
           /\ EndPass /\ slots' = slots
  <2>1. configured' \subseteq Pods /\ cut \subseteq cut' /\ "alloc" \in cut'
    BY <1>1, <1>4
  <2> QED BY <1>1, <1>4, <2>1, PassEnded
<1>5. CASE /\ Accepts(p, range) /\ slots' = [slots EXCEPT ![p] = @ \union range]
           /\ todo' = todo \ {p} /\ pc' = (IF todo = {p} THEN "final" ELSE "alloc")
           /\ status' = status /\ statusNodes' = statusNodes
           /\ conn' = conn /\ masterOf' = masterOf /\ branch' = branch /\ cut' = cut
  <2>1. /\ IsFiniteSet(todo) /\ Cardinality(todo) \in 0 .. MasterSize /\ i \in Shards
        /\ todo \subseteq {masterOf[s] : s \in Shards}
    BY <1>1, <1>2, LoopBound DEF MastersToAlloc
  <2>2. range \subseteq Slots /\ range # {}
    BY <1>2, <2>1, Ranges
  <2>3. p[1] \in Shards /\ p = masterOf[p[1]] /\ ref[p] = p /\ slots[p] = {}
    <3>1. PICK s \in Shards : p = masterOf[s]
      BY <1>1, <2>1
    <3>2. s = p[1]
      BY <1>3, <3>1
    <3> QED BY <1>1, <1>2, <1>3, <3>1, <3>2 DEF SlotsInOrder
  <2>4. \A q \in Pods : slots[q] \intersect range = {}
    <3>1. \A q \in Pods : q \in known[p]
      BY <1>1, AllKnown
    <3> QED BY <1>5, <3>1 DEF Accepts
  <2>5. Cardinality(todo') = Cardinality(todo) - 1
    BY <1>1, <1>5, <2>1, FS_RemoveElement
  <2>6. /\ \A j \in Shards : j + Cardinality(todo) < MasterSize <=> j < i
        /\ \A j \in Shards : j + Cardinality(todo') < MasterSize <=> j <= i
    <3> DEFINE n == Cardinality(todo)
    <3>1. n \in Nat /\ MasterSize \in Nat /\ Shards \subseteq Nat
      BY <1>2, <2>1, FormationAssumption DEF Shards
    <3> QED BY <2>5, <3>1
  <2> HIDE DEF range, i
  <2>7. /\ slots'[p] = range /\ \A q \in Pods : q # p => slots'[q] = slots[q]
    BY <1>2, <1>5, <2>3
  <2>8. UNION {slots'[q] : q \in Pods} = (UNION {slots[q] : q \in Pods}) \union range
    <3>1. ASSUME NEW q \in Pods PROVE slots'[q] \subseteq slots[q] \union range
      BY <2>7
    <3>2. ASSUME NEW q \in Pods PROVE slots[q] \subseteq slots'[q]
      BY <2>3, <2>7
    <3>3. range \subseteq slots'[p]
      BY <2>7
    <3>4. \A k : k \in UNION {slots'[q] : q \in Pods} <=> \E q \in Pods : k \in slots'[q]
      OBVIOUS
    <3>5. \A k : k \in UNION {slots[q] : q \in Pods} <=> \E q \in Pods : k \in slots[q]
      OBVIOUS
    <3> DEFINE A == UNION {slots'[q] : q \in Pods}
               B == UNION {slots[q] : q \in Pods}
    <3> HIDE DEF A, B
    <3>6. \A k : k \in A <=> k \in B \/ k \in range
      BY <3>1, <3>2, <3>3, <3>4, <3>5 DEF A, B
    <3>7. A = B \union range
      BY <3>6
    <3> QED BY <3>7 DEF A, B
  <2>9. /\ Shards' = Shards /\ \A j : LastSlot(j)' = LastSlot(j)
    BY <1>1 DEF Shards, LastSlot, RoundedLast
  <2> DEFINE U == UNION {slots[q] : q \in Pods}
             given == {k \in Slots : \E j \in Shards : k <= LastSlot(j) /\ j <= i}
  <2>10. U \union range = given
    <3>1. U = {k \in Slots : \E j \in Shards : k <= LastSlot(j) /\ j < i}
      BY <1>1, <1>2, <2>6 DEF SlotsInOrder
    <3> HIDE DEF U
    <3>2. Slots \subseteq Int /\ Shards \subseteq Nat /\ \A j \in Shards : LastSlot(j) \in Int
      BY <1>2, LastSlots, FormationAssumption DEF Slots, Shards
    <3>3. i = 0 \/ (i - 1 \in Shards /\ i # 0)
      BY <2>1, <1>3, FormationAssumption
    <3>4. range = (IF i = 0 THEN 0 ELSE LastSlot(i - 1) + 1) .. LastSlot(i)
      BY DEF range, AllocRange
    <3>5. ASSUME NEW k \in range PROVE k \in given
      <4>1. k \in Slots /\ k <= LastSlot(i) /\ i <= i
        BY <2>1, <2>2, <3>2, <3>3, <3>4
      <4> QED BY <2>1, <4>1
    <3>6. ASSUME NEW k \in U PROVE k \in given
      <4>1. PICK j \in Shards : k \in Slots /\ k <= LastSlot(j) /\ j < i
        BY <3>1, <3>6
      <4>2. j <= i
        BY <2>1, <3>2, <4>1
      <4> QED BY <4>1, <4>2
    <3>7. ASSUME NEW k \in given, k \notin range PROVE k \in U
      <4>1. PICK j \in Shards : k <= LastSlot(j) /\ j <= i
        OBVIOUS
      <4>2. CASE j < i
        BY <3>1, <4>1, <4>2
      <4>3. CASE j = i
        <5>1. k \in Slots /\ k \in Int /\ k >= 0 /\ k <= LastSlot(i)
          BY <4>1, <4>3, <3>2 DEF Slots
        <5>2. i # 0 /\ i - 1 \in Shards /\ k <= LastSlot(i - 1) /\ i - 1 < i
          BY <2>1, <3>2, <3>3, <3>4, <3>7, <5>1
        <5> QED BY <3>1, <5>1, <5>2
      <4> QED BY <2>1, <3>2, <4>1, <4>2, <4>3
    <3> QED BY <3>5, <3>6, <3>7
  <2> HIDE DEF U, given
  <2>11. UNION {slots'[q] : q \in Pods} = given
    BY <2>8, <2>10 DEF U
  <2>12. SlotsOnMasters'
    <3>1. \A q \in Pods : slots'[q] # {} => ref[q] = q
      BY <1>2, <2>3, <2>7 DEF SlotsOnMasters, IsMaster
    <3>2. ASSUME NEW q \in Pods, NEW r \in Pods, q # r
          PROVE  slots'[q] \intersect slots'[r] = {}
      BY <1>2, <2>4, <2>7, <3>2 DEF SlotsOnMasters
    <3>3. \A q \in Pods : slots'[q] # {} => q = masterOf[q[1]]
      BY <1>3, <2>3, <2>7
    <3>4. ASSUME NEW q \in Pods, NEW r \in Pods, q # r, slots'[q] # {}, slots'[r] # {}
          PROVE  q[1] # r[1]
      BY <3>3, <3>4
    <3> QED BY <1>1, <3>1, <3>2, <3>4 DEF SlotsOnMasters, IsMaster
  <2>13. Following' /\ StatusKnown'
    BY <1>1, <1>2, <1>5, StatusKept DEF Following
  <2>14. PassKnows'
    BY <1>1, <1>2, <1>5 DEF PassKnows
  <2>15. \A q \in Pods : slots'[q] # {} => q = masterOf[q[1]]
    BY <1>3, <2>3, <2>7
  <2>16. MastersPicked'
    BY <1>1, <1>2, <1>3, <1>5, <2>15 DEF MastersPicked
  <2>17. \A q \in Pods : slots'[q] # {} => q[1] \in Shards
    BY <1>3, PodFacts
  <2>18. \A s \in Shards : slots'[masterOf[s]] = {} <=> masterOf[s] \in todo'
    <3>1. \A s \in Shards : slots[masterOf[s]] = {} <=> masterOf[s] \in todo
      BY <1>1, <1>2 DEF SlotsInOrder
    <3> QED BY <1>3, <1>5, <2>2, <2>7, <3>1
  <2>19. status = "Healthy" => "alloc" \in cut
    <3> SUFFICES ASSUME status = "Healthy", "alloc" \notin cut PROVE FALSE
      OBVIOUS
    <3>1. Formed
      BY <1>2 DEF SlotsInOrder
    <3>2. PICK x \in Pods : x[1] = p[1] /\ slots[x] # {}
      BY <2>3, <3>1 DEF Formed
    <3> QED BY <1>3, <2>3, <3>2
  <2>20. CASE todo # {p}
    <3>1. pc' = "alloc" /\ todo' # {}
      BY <1>1, <1>5, <2>20
    <3>2. UNION {slots'[q] : q \in Pods} =
            {k \in Slots : \E j \in Shards : k <= LastSlot(j) /\ j + Cardinality(todo') < MasterSize}
      BY <2>6, <2>11 DEF given
    <3>3. SlotsInOrder'
      BY <1>1, <1>5, <2>9, <2>17, <2>18, <2>19, <3>1, <3>2 DEF SlotsInOrder
    <3> QED BY <2>12, <2>13, <2>14, <2>16, <3>3 DEF SeenInv
  <2>21. CASE todo = {p}
    <3>1. pc' = "final" /\ todo' = {}
      BY <1>5, <2>21
    <3>2. i = MasterSize - 1
      <4>1. Cardinality(todo) = 1
        BY <2>21, FS_Singleton
      <4> QED BY <4>1 DEF i
    <3>3. UNION {slots'[q] : q \in Pods} = Slots
      <4>1. LastSlot(i) = NumSlots - 1 /\ i <= i
        BY <1>2, <2>1, <3>2, LastSlots, FormationAssumption
      <4>2. \A k \in Slots : k <= NumSlots - 1
        BY FormationAssumption DEF Slots
      <4>3. given = Slots
        BY <2>1, <4>1, <4>2 DEF given
      <4> QED BY <2>11, <4>3
    <3>4. ASSUME NEW s \in Shards
          PROVE  /\ masterOf[s] \in Pods /\ masterOf[s][1] = s /\ slots'[masterOf[s]] # {}
                 /\ ref[masterOf[s]] = masterOf[s]
                 /\ \A q \in Pods : q[1] = s => ref[q] = masterOf[s]
      BY <1>3, <2>18, <3>1
    <3>5. AllSlots'
      BY <2>9, <3>3, <3>4 DEF AllSlots
    <3>6. Formed'
      BY <1>1, <2>9, <3>3, <3>4 DEF Formed, IsMaster
    <3>7. SlotsInOrder'
      BY <2>9, <2>17, <3>1, <3>5, <3>6 DEF SlotsInOrder
    <3> QED BY <2>12, <2>13, <2>14, <2>16, <3>7 DEF SeenInv
  <2> QED BY <2>20, <2>21
<1> QED
  BY <1>1, <1>4, <1>5

\* RebalancedCluster moves slots among the masters that the pods follow.
LEMMA RebalanceStep ==
  ASSUME TypeOK, SeenInv, RebalancedCluster
  PROVE  SeenInv'
<1> DEFINE masters == {masterOf[s] : s \in Shards}
           owned == UNION {slots[p] : p \in masters}
<1>1. /\ pc = "rebalance" /\ pc' = "final" /\ conn = Pods /\ statusNodes = Pods
      /\ MasterSize' = MasterSize /\ ref' = ref /\ known' = known
      /\ configured = Pods /\ configured' = configured /\ cut' = cut
      /\ status' = status /\ statusNodes' = statusNodes /\ masterOf' = masterOf /\ conn' = conn
  BY DEF RebalancedCluster, SeenInv, PassKnows, crVars, passVars, history
<1>2. PICK to \in [owned -> masters] :
        slots' = [p \in Pods |-> IF p \in masters THEN {k \in owned : to[k] = p} ELSE slots[p]]
  BY DEF RebalancedCluster
<1>3. /\ SlotsOnMasters /\ SlotsInOrder /\ Following /\ MastersPicked /\ PassKnows
      /\ StatusKnown /\ masterOf \in [0 .. StatefulSets - 1 -> Pods]
      /\ MasterSize \in 1 .. StatefulSets
  BY DEF SeenInv, TypeOK
<1>4. /\ MasterSize = StatefulSets /\ Shards = 0 .. StatefulSets - 1
      /\ \A s \in Shards : masterOf[s] \in Pods /\ masterOf[s][1] = s
      /\ \A q \in Pods : slots[q] # {} => q = masterOf[q[1]]
      /\ \A q \in Pods : ref[q] = masterOf[q[1]]
      /\ "alloc" \in cut
  <2>1. MasterSize = StatefulSets
    BY <1>1, <1>3 DEF MastersPicked
  <2>2. Shards = 0 .. StatefulSets - 1
    BY <2>1 DEF Shards
  <2> QED BY <1>1, <1>3, <2>1, <2>2 DEF MastersPicked, SlotsInOrder
<1>5. \A q \in Pods : q \in masters <=> q = masterOf[q[1]]
  BY <1>4, PodFacts
<1> HIDE DEF masters, owned
<1>6. \A q \in Pods : /\ q \in masters => slots'[q] = {k \in owned : to[k] = q}
                      /\ q \notin masters => slots'[q] = {}
  BY <1>2, <1>4, <1>5
<1>7. SlotsOnMasters'
  BY <1>1, <1>4, <1>5, <1>6 DEF SlotsOnMasters, IsMaster
<1>8. Following' /\ StatusKnown'
  BY <1>1, <1>3, StatusKept DEF Following
<1>9. PassKnows' /\ MastersPicked'
  BY <1>1, <1>3 DEF PassKnows, MastersPicked
<1>10. SlotsInOrder'
  <2>1. \A q \in Pods : q[1] \in Shards'
    BY <1>1, <1>4, PodFacts DEF Shards
  <2> QED BY <1>1, <1>4, <2>1 DEF SlotsInOrder
<1> QED
  BY <1>7, <1>8, <1>9, <1>10 DEF SeenInv

(***************************************************************************)
(* The inductive invariant and what follows from it.                       *)
(***************************************************************************)
\* The clusters that a behaviour starts from have the types of the model.
LEMMA InitTypes ==
  ASSUME Init
  PROVE  TypeOK /\ MasterSize \in 1 .. StatefulSets
<1>1. StatefulSets \in Nat \ {0} /\ ClusterReplicas \in Nat \ {0} /\ 0 \in 0 .. MaxFaults
  BY FormationAssumption
<1>2. MasterSize \in 1 .. StatefulSets
  BY <1>1 DEF Init
<1>3. NoMasters \in [0 .. StatefulSets - 1 -> Pods]
  BY PodFacts DEF NoMasters
<1>4. /\ host \in HostMaps /\ known \in [Pods -> SUBSET Pods]
      /\ ghost \in [Pods -> {"none", "up", "fail", "handshake"}]
      /\ configured \subseteq Pods /\ statusNodes \subseteq Pods
      /\ ref \in [Pods -> Pods] /\ slots \in [Pods -> SUBSET Slots]
      /\ status \in {"Creating", "Scaling"}
  <2>1. CASE NewCluster
    BY <2>1 DEF NewCluster
  <2>2. CASE OneMoreReplica
    <3> DEFINE old == {p \in Pods : p[2] < ClusterReplicas}
    <3>1. host \in HostMaps
      BY <2>2, FormationAssumption DEF OneMoreReplica
    <3>2. \A p \in Pods : <<p[1], 0>> \in Pods /\ (p[1] \in Shards \/ MasterSize # StatefulSets)
      BY PodFacts DEF Shards
    <3>3. \A i \in Shards : AllocRange(i) \subseteq Slots
      BY <1>2, Ranges
    <3>4. slots = [p \in Pods |-> IF p[2] = 0 THEN AllocRange(p[1]) ELSE {}] /\ MasterSize = StatefulSets
      BY <2>2 DEF OneMoreReplica
    <3>5. slots \in [Pods -> SUBSET Slots]
      BY <3>2, <3>3, <3>4
    <3> QED BY <2>2, <3>1, <3>2, <3>5 DEF OneMoreReplica
  <2> QED BY <2>1, <2>2 DEF Init
<1>5. faults \in [FaultKinds -> 0 .. MaxFaults]
  BY <1>1 DEF Init
<1> QED
  BY <1>2, <1>3, <1>4, <1>5 DEF Init, TypeOK

\* A new cluster has nothing yet.
LEMMA InitNew ==
  ASSUME Init, NewCluster
  PROVE  SeenInv
<1>1. /\ pc = "idle" /\ status = "Creating" /\ statusNodes = {} /\ masterOf = NoMasters
      /\ \A p \in Pods : known[p] = {p} /\ ref[p] = p /\ slots[p] = {}
  BY DEF Init, NewCluster
<1>2. Following /\ StatusKnown /\ PassKnows /\ SlotsOnMasters
  BY <1>1 DEF Following, StatusKnown, PassKnows, SlotsOnMasters
<1>3. MastersPicked
  BY <1>1 DEF MastersPicked, NoMasters
<1>4. SlotsInOrder
  BY <1>1 DEF SlotsInOrder, NoSlots
<1> QED
  BY <1>2, <1>3, <1>4 DEF SeenInv

\* A cluster that gets one more replica has all its slots.
LEMMA InitReplica ==
  ASSUME Init, OneMoreReplica
  PROVE  SeenInv
<1> DEFINE old == {p \in Pods : p[2] < ClusterReplicas}
           Z(s) == <<s, 0>>
<1>1. /\ pc = "idle" /\ status = "Scaling" /\ statusNodes = old /\ masterOf = NoMasters
      /\ MasterSize = StatefulSets
      /\ \A p \in Pods : /\ known[p] = IF p \in old THEN old ELSE {p}
                         /\ ref[p] = IF p \in old THEN Z(p[1]) ELSE p
                         /\ slots[p] = IF p[2] = 0 THEN AllocRange(p[1]) ELSE {}
  BY DEF Init, OneMoreReplica
<1>2. /\ MasterSize \in 1 .. StatefulSets /\ Shards = 0 .. StatefulSets - 1
      /\ ClusterReplicas \in Nat \ {0}
  BY <1>1, InitTypes, FormationAssumption DEF Shards
<1>3. /\ \A s \in Shards : Z(s) \in old /\ Z(s)[1] = s /\ Z(s)[2] = 0
      /\ \A p \in Pods : p[1] \in Shards /\ (p[2] = 0 => p = Z(p[1]))
      /\ 0 \in Shards /\ old \subseteq Pods
  <2>1. ASSUME NEW s \in Shards PROVE Z(s) \in old /\ Z(s)[1] = s /\ Z(s)[2] = 0
    <3>1. Z(s) \in Pods /\ Z(s)[1] = s /\ Z(s)[2] = 0
      BY <1>2, PodFacts
    <3> QED BY <1>2, <3>1
  <2>2. \A p \in Pods : p[1] \in Shards
    BY <1>2, PodFacts
  <2>3. \A p, q \in Pods : p[1] = q[1] /\ p[2] = q[2] => p = q
    BY PodFacts
  <2>4. 0 \in Shards
    BY <1>2, PodFacts
  <2>5. old \subseteq Pods
    OBVIOUS
  <2> HIDE DEF Z, old
  <2>6. ASSUME NEW p \in Pods, p[2] = 0 PROVE p = Z(p[1])
    BY <2>1, <2>2, <2>3, <2>5, <2>6
  <2> QED BY <2>1, <2>2, <2>4, <2>5, <2>6
<1> HIDE DEF old, Z
<1>4. \A s \in Shards : Z(s) \in Pods /\ ref[Z(s)] = Z(s)
  BY <1>1, <1>3
<1>5. Following
  <2> SUFFICES ASSUME NEW p \in Pods
               PROVE  ref[p][1] = p[1] /\ (ref[p] # p => ref[ref[p]] # p)
    BY DEF Following
  <2>1. CASE p \in old
    <3>1. ref[p] = Z(p[1]) /\ p[1] \in Shards
      BY <1>1, <1>3, <2>1
    <3> QED BY <1>3, <1>4, <3>1
  <2>2. CASE p \notin old
    BY <1>1, <2>2
  <2> QED BY <2>1, <2>2
<1>6. StatusKnown
  <2>1. ASSUME NEW p \in Pods, ref[p] # p PROVE {p, ref[p]} \subseteq statusNodes
    <3>1. p \in old /\ ref[p] = Z(p[1]) /\ p[1] \in Shards
      BY <1>1, <1>3, <2>1
    <3> QED BY <1>1, <1>3, <3>1
  <2>2. \E x \in statusNodes : IsMaster(x)
    BY <1>1, <1>3, <1>4 DEF IsMaster
  <2>3. ASSUME NEW p \in Pods, NEW q \in Pods, q \in known[p], q \in statusNodes
        PROVE  statusNodes \subseteq known[p]
    <3>1. CASE p \in old
      BY <1>1, <3>1
    <3>2. CASE p \notin old
      <4>1. known[p] = {p}
        BY <1>1, <3>2
      <4>2. q = p
        BY <2>3, <4>1
      <4>3. q \in old
        BY <1>1, <2>3
      <4> QED BY <3>2, <4>2, <4>3
    <3> QED BY <3>1, <3>2
  <2>4. \A p \in Pods : p \in known[p]
    BY <1>1
  <2> QED BY <2>1, <2>2, <2>3, <2>4 DEF StatusKnown
<1>7. PassKnows
  BY <1>1 DEF PassKnows
<1>8. MastersPicked
  BY <1>1 DEF MastersPicked, NoMasters
<1>9. /\ \A i \in Shards : AllocRange(i) \subseteq Slots /\ AllocRange(i) # {}
      /\ \A i, j \in Shards : i # j => AllocRange(i) \intersect AllocRange(j) = {}
      /\ \A k \in Slots : \E i \in Shards : k \in AllocRange(i)
  BY <1>2, Ranges
<1>10. SlotsOnMasters
  <2>1. \A p \in Pods : slots[p] # {} => p = Z(p[1]) /\ slots[p] = AllocRange(p[1])
    BY <1>1, <1>3
  <2>2. \A p \in Pods : slots[p] # {} => IsMaster(p)
    BY <1>3, <1>4, <2>1 DEF IsMaster
  <2>3. ASSUME NEW p \in Pods, NEW q \in Pods, p # q, slots[p] # {}, slots[q] # {}
        PROVE  p[1] # q[1] /\ slots[p] \intersect slots[q] = {}
    BY <1>3, <1>9, <2>1, <2>3
  <2> QED BY <2>2, <2>3 DEF SlotsOnMasters
<1>11. AllSlots
  <2>1. ASSUME NEW s \in Shards PROVE Z(s) \in Pods /\ slots[Z(s)] = AllocRange(s)
    <3>1. Z(s) \in Pods /\ Z(s)[1] = s /\ Z(s)[2] = 0
      BY <1>3, <1>4
    <3> QED BY <1>1, <3>1
  <2>2. ASSUME NEW p \in Pods PROVE slots[p] \subseteq Slots
    <3>1. slots[p] \in {{}, AllocRange(p[1])} /\ p[1] \in Shards
      BY <1>1, <1>3
    <3>2. \A i \in Shards : AllocRange(i) \subseteq Slots
      BY <1>9
    <3> QED BY <3>1, <3>2
  <2>3. ASSUME NEW k \in Slots PROVE \E p \in Pods : k \in slots[p]
    <3>1. \A j \in Slots : \E i \in Shards : j \in AllocRange(i)
      BY <1>2, Ranges
    <3>2. PICK s \in Shards : k \in AllocRange(s)
      BY <3>1
    <3> QED BY <2>1, <3>2
  <2>4. UNION {slots[p] : p \in Pods} = Slots
    BY <2>2, <2>3
  <2> QED BY <1>3, <1>9, <2>1, <2>4 DEF AllSlots
<1>12. SlotsInOrder
  BY <1>1, <1>3, <1>11 DEF SlotsInOrder
<1> QED
  BY <1>5, <1>6, <1>7, <1>8, <1>10, <1>12 DEF SeenInv

\* The invariant holds in the beginning.
LEMMA InitIInv ==
  Init => IInv
<1> SUFFICES ASSUME Init PROVE IInv
  OBVIOUS
<1>1. TypeOK
  BY InitTypes
<1>2. MastersToAlloc
  BY DEF Init, MastersToAlloc
<1>3. SeenInv
  BY InitNew, InitReplica DEF Init
<1> QED
  BY <1>1, <1>2, <1>3 DEF IInv

\* Every step preserves the invariant.
LEMMA NextIInv ==
  IInv /\ [Next]_vars => IInv'
<1> SUFFICES ASSUME IInv, [Next]_vars PROVE IInv'
  OBVIOUS
<1>1. TypeOK /\ MastersToAlloc /\ TypeOK' /\ MastersToAlloc'
  BY TypeStep DEF IInv
<1>2. ASSUME faults'["blind"] = 0 PROVE SeenInv'
  <2>1. SeenInv
    BY <1>1, <1>2, SeenBefore DEF IInv
  <2>2. CASE UNCHANGED vars
    <3>1. /\ UNCHANGED <<MasterSize, ref, slots, configured, crVars, pc, passVars, cut>>
          /\ UNCHANGED <<known, statusNodes>>
      BY <2>2 DEF vars, nodeVars, crVars, history
    <3>2. StatusKnown'
      BY <2>1, <3>1, StatusKept DEF SeenInv
    <3> QED BY <1>1, <2>1, <3>1, <3>2, Learns
  <2>3. CASE \/ Gossip
             \/ \E p \in Pods : \/ GhostSpreads(p) \/ HandshakeEnds(p) \/ FlagGhost(p)
                                \/ FlagLive(p) \/ UnflagLive(p)
    BY <1>1, <2>1, <2>3, NodeStep
  <2>4. CASE \/ StartPass \/ HealFailed \/ HealUntrusted \/ NothingToHeal
             \/ AlreadyJoined \/ MeetNodes \/ CheckJoined \/ SetConfigIfNeed
    BY <1>1, <1>2, <2>1, <2>4, PassStep
  <2>5. CASE StoreStatus
    BY <1>1, <2>1, <2>5, StatusStep
  <2>6. CASE \E x \in Pods \union {Ghost} : ForgetNode(x)
    BY <1>1, <2>1, <2>6, ForgetStep
  <2>7. CASE DispatchFails \/ PlaceSlavesPanics \/ Crash
    BY <1>1, <2>1, <2>7, EndStep
  <2>8. CASE DispatchSome
    BY <1>1, <2>1, <2>8, DispatchStep DEF DispatchSome
  <2>9. CASE \E p \in Pods : AttachSlaveToMaster(p)
    BY <1>1, <2>1, <2>9, AttachStep
  <2>10. CASE \E p \in Pods : AllocSlots(p)
    BY <1>1, <2>1, <2>10, AllocStep
  <2>11. CASE Attached
    BY <1>1, <2>1, <2>11, AttachedStep
  <2>12. CASE RebalancedCluster
    BY <1>1, <2>1, <2>12, RebalanceStep
  <2>13. CASE SetClusterOK
    BY <1>1, <1>2, <2>1, <2>13, FinalStep
  <2> QED
    BY <2>2, <2>3, <2>4, <2>5, <2>6, <2>7, <2>8, <2>9, <2>10, <2>11, <2>12, <2>13
    DEF Next, Operator, GhostIsFlagged, TimesOut
<1> QED
  BY <1>1, <1>2 DEF IInv

\* The inductive invariant of the passes holds, whatever fails meanwhile.
THEOREM Invariance == Spec => []IInv
BY InitIInv, NextIInv, PTL DEF Spec

\* Every variable keeps its type: AllocSlots never gives out a slot that does
\* not exist, and the master of a StatefulSet is one of the pods.
THEOREM TypeCorrect == Spec => []TypeOK
<1>1. IInv => TypeOK
  BY DEF IInv
<1> QED
  BY <1>1, Invariance, PTL

\* As long as the passes see all the pods, slots are with masters only, with
\* one pod of a StatefulSet at most, and no slot has two owners, in a cluster of
\* any size, whichever masters PlaceMasters picks and wherever a pass is broken
\* off.
THEOREM SlotsSafe == Spec => [](faults["blind"] = 0 => SlotsOnMasters)
<1>1. IInv => (faults["blind"] = 0 => SlotsOnMasters)
  BY DEF IInv, SeenInv
<1> QED
  BY <1>1, Invariance, PTL

\* A cluster that Reconcile reports as Healthy is formed, unless AllocSlots was
\* broken off or a pass did not see all the pods.
THEOREM HealthyFormed == Spec => []HealthyMeansFormed
<1>1. IInv => HealthyMeansFormed
  BY DEF IInv, SeenInv, SlotsInOrder, HealthyMeansFormed
<1> QED
  BY <1>1, Invariance, PTL

\* No node of a cluster reported as Healthy has been made to forget a pod that
\* runs: the healer leaves alone what is in the status.
THEOREM MembersKept == Spec => []MembershipKept
<1>1. IInv => MembershipKept
  <2> SUFFICES ASSUME IInv, status = "Healthy", faults["blind"] = 0
               PROVE  statusNodes = Pods /\ \A p, q \in Pods : q \in known[p]
    BY DEF MembershipKept
  <2>1. TypeOK /\ SeenInv
    BY DEF IInv
  <2>2. statusNodes = Pods
    BY <2>1 DEF SeenInv, PassKnows
  <2> QED BY <2>1, <2>2, AllKnown
<1> QED
  BY <1>1, Invariance, PTL

-----------------------------------------------------------------------------
(***************************************************************************)
(* Where the masters run.                                                  *)
(***************************************************************************)
\* A step that leaves the roles and the slots alone keeps the spread masters.
LEMMA SpreadMastersKept ==
  ASSUME NEW X, SpreadMasters(X), UNCHANGED <<MasterSize, host, ref, slots>>
  PROVE  SpreadMasters(X)'
BY DEF SpreadMasters, SpreadOn, IsMaster, Shards

\* The same for the invariant, when the pass ends or goes on to a step in which
\* nothing new is picked.
LEMMA SpreadKept ==
  ASSUME SpreadInv, UNCHANGED <<MasterSize, host, ref, slots>>,
         faults'["blind"] = 0 => faults["blind"] = 0,
         \/ pc' \notin {"attach", "alloc"}
         \/ UNCHANGED <<pc, masterOf, branch>>
         \/ pc = "attach" /\ branch = "create" /\ pc' = "alloc" /\ masterOf' = masterOf
         \/ pc' = "attach" /\ branch' # "create"
  PROVE  SpreadInv'
<1> SUFFICES ASSUME faults'["blind"] = 0 PROVE
      /\ pc' = "alloc" \/ (pc' = "attach" /\ branch' = "create") =>
           SpreadOn(host, {masterOf[s] : s \in Shards})'
      /\ NoSlots' \/ (\E X \in SUBSET Pods : SpreadMasters(X)')
  BY DEF SpreadInv
<1>1. /\ pc = "alloc" \/ (pc = "attach" /\ branch = "create") =>
           SpreadOn(host, {masterOf[s] : s \in Shards})
      /\ NoSlots \/ \E X \in SUBSET Pods : SpreadMasters(X)
  BY DEF SpreadInv
<1>2. NoSlots' = NoSlots /\ Shards' = Shards
  BY DEF NoSlots, Shards
<1>3. NoSlots' \/ \E X \in SUBSET Pods : SpreadMasters(X)'
  BY <1>1, <1>2, SpreadMastersKept
<1>4. ASSUME pc' = "alloc" \/ (pc' = "attach" /\ branch' = "create")
      PROVE  SpreadOn(host, {masterOf[s] : s \in Shards})'
  <2>1. masterOf' = masterOf /\ SpreadOn(host, {masterOf[s] : s \in Shards})
    BY <1>1, <1>4
  <2>2. {masterOf[s] : s \in Shards}' = {masterOf[s] : s \in Shards} /\ host' = host
    BY <1>2, <2>1
  <2>3. PICK h, X : h = host /\ X = {masterOf[s] : s \in Shards}
    OBVIOUS
  <2>4. SpreadOn(h, X) /\ h = host' /\ X = {masterOf[s] : s \in Shards}'
    BY <2>1, <2>2, <2>3
  <2> QED BY <2>4
<1> QED BY <1>3, <1>4

\* The masters PlaceMasters picks when nobody has slots are spread: a StatefulSet
\* gets its master on a host that has one only when all its pods run on such
\* hosts.
LEMMA PickedSpread ==
  ASSUME TypeOK, SeenInv, conn = Pods, ~ CannotDispatch, NoSlots, MasterSize = StatefulSets,
         NEW m \in [0 .. StatefulSets - 1 -> Pods], DispatchMasters(m)
  PROVE  SpreadOn(host, {m[s] : s \in Shards})
<1>1. Shards = 0 .. StatefulSets - 1 /\ DOMAIN m = Shards /\ StatefulSets \in Nat
  BY FormationAssumption DEF Shards
<1>2. CurrentMasters = {} /\ \A s \in Shards : CurrentOf(s) = {}
  BY DEF NoSlots, CurrentMasters, CurrentOf
<1>3. \A s \in Shards : m[s] \in Pods /\ m[s][1] = s
  BY <1>1, Picked
<1>4. \A s \in Shards : m[s] \in PlaceMasters(s, m)
  BY <1>1, <1>2 DEF DispatchMasters
\* The later of two masters on one host had no choice.
<1>5. ASSUME NEW s \in Shards, NEW t \in Shards, s < t, host[m[s]] = host[m[t]],
             NEW y \in Pods, y[1] = t
      PROVE  \E u \in Shards : u # t /\ host[m[u]] = host[y]
  <2> DEFINE taken == {host[p] : p \in CurrentMasters \union {m[v] : v \in 0 .. t - 1}}
             free == {p \in NodesOf(t) : host[p] \notin taken}
  <2>1. s \in 0 .. t - 1
    BY <1>1, <1>5
  <2>2. host[m[t]] \in taken
    BY <1>5, <2>1
  <2>3. m[t] \in IF free # {} THEN free ELSE NodesOf(t)
    BY <1>4 DEF PlaceMasters
  <2>4. free = {}
    BY <2>2, <2>3
  <2>5. y \in NodesOf(t)
    BY <1>5 DEF NodesOf
  <2>6. host[y] \in taken
    BY <2>4, <2>5
  <2>7. PICK v \in 0 .. t - 1 : host[m[v]] = host[y]
    BY <1>2, <2>6
  <2>8. v \in Shards /\ v # t
    BY <1>1
  <2> QED BY <2>7, <2>8
<1> DEFINE X == {m[s] : s \in Shards}
<1>6. ASSUME NEW p \in X, NEW q \in X, p # q, host[p] = host[q]
      PROVE  \E x \in {p, q} : \A y \in Pods : y[1] = x[1] =>
               \E z \in X : z[1] # x[1] /\ host[z] = host[y]
  <2>1. PICK s \in Shards, t \in Shards : p = m[s] /\ q = m[t]
    OBVIOUS
  <2>2. s # t /\ s \in Int /\ t \in Int
    BY <1>1, <1>6, <2>1
  <2>3. CASE s < t
    <3>1. \A y \in Pods : y[1] = q[1] => \E z \in X : z[1] # q[1] /\ host[z] = host[y]
      BY <1>3, <1>5, <1>6, <2>1, <2>3
    <3> QED BY <3>1
  <2>4. CASE t < s
    <3>1. \A y \in Pods : y[1] = p[1] => \E z \in X : z[1] # p[1] /\ host[z] = host[y]
      BY <1>3, <1>5, <1>6, <2>1, <2>4
    <3> QED BY <3>1
  <2> QED BY <2>2, <2>3, <2>4
<1> QED BY <1>6 DEF SpreadOn

\* syncCluster picks masters.
LEMMA SpreadDispatch ==
  ASSUME TypeOK, SeenInv, SpreadInv, faults["blind"] = 0,
         NEW m \in [0 .. StatefulSets - 1 -> Pods], Dispatch(m)
  PROVE  SpreadInv'
<1>1. /\ MasterSize' = MasterSize /\ host' = host /\ ref' = ref /\ slots' = slots
      /\ faults' = faults /\ masterOf' = m /\ branch' = Branch
      /\ conn = Pods /\ ~ CannotDispatch /\ DispatchMasters(m)
      /\ pc' \in {"final", "attach"}
      /\ pc' = "attach" => \A p \in Pods : p[1] \in Shards
  BY DEF Dispatch, SeenInv, PassKnows, nodeVars, history
<1>2. CASE ~ (pc' = "attach" /\ branch' = "create")
  BY <1>1, <1>2, SpreadKept
<1>3. CASE pc' = "attach" /\ branch' = "create"
  <2>1. NoSlots
    <3>1. CurrentMasters = {}
      BY <1>1, <1>3 DEF Branch
    <3> QED BY <1>1, <3>1 DEF CurrentMasters, NoSlots, SeenInv, SlotsOnMasters
  <2>2. MasterSize = StatefulSets
    <3>1. StatefulSets \in Nat \ {0} /\ ClusterReplicas \in Nat /\ MasterSize \in 1 .. StatefulSets
      BY FormationAssumption DEF TypeOK
    <3>2. StatefulSets - 1 \in 0 .. StatefulSets - 1 /\ 0 \in 0 .. ClusterReplicas
      BY <3>1
    <3>3. PICK p \in Pods : p = <<StatefulSets - 1, 0>>
      BY <3>2 DEF Pods
    <3>4. StatefulSets - 1 \in 0 .. MasterSize - 1
      BY <1>1, <1>3, <3>3 DEF Shards
    <3> QED BY <3>1, <3>4
  <2>3. SpreadOn(host, {m[s] : s \in Shards})
    BY <1>1, <2>1, <2>2, PickedSpread
  <2>4. PICK h, X : h = host /\ X = {m[s] : s \in Shards}
    OBVIOUS
  <2>5. Shards' = Shards /\ NoSlots'
    BY <1>1, <2>1 DEF Shards, NoSlots
  <2>6. SpreadOn(h, X) /\ h = host' /\ X = {masterOf[s] : s \in Shards}'
    BY <1>1, <2>3, <2>4, <2>5
  <2>7. SpreadOn(host, {masterOf[s] : s \in Shards})'
    BY <2>6
  <2> QED BY <2>5, <2>7 DEF SpreadInv
<1> QED BY <1>2, <1>3

\* A REPLICATE takes none of the spread masters away: those with slots refuse,
\* and where one without slots is followed by its StatefulSet no other pod is a
\* master to follow.
LEMMA SpreadAttach ==
  ASSUME TypeOK, SeenInv, SpreadInv, faults["blind"] = 0, NEW p \in Pods, AttachSlaveToMaster(p)
  PROVE  SpreadInv'
<1> DEFINE y == masterOf[p[1]]
<1>1. /\ pc = "attach" /\ p \in todo
      /\ MasterSize' = MasterSize /\ host' = host /\ slots' = slots
      /\ pc' = pc /\ masterOf' = masterOf /\ branch' = branch
      /\ ref' = ref \/ (Replicates(p, y) /\ ref' = [ref EXCEPT ![p] = y])
  BY DEF AttachSlaveToMaster
<1>2. CASE ref' = ref
  BY <1>1, <1>2, SpreadKept
<1>3. CASE Replicates(p, y) /\ ref' = [ref EXCEPT ![p] = y]
  <2>1. /\ IsMaster(y) /\ slots[p] = {} /\ ref \in [Pods -> Pods]
        /\ y \in Pods /\ y[1] = p[1] /\ y # p /\ y # ref[p]
    <3>1. p[1] \in DOMAIN masterOf /\ masterOf \in [0 .. StatefulSets - 1 -> Pods]
      BY PodFacts DEF TypeOK
    <3> QED BY <1>1, <1>3, <3>1 DEF Replicates, SeenInv, MastersPicked, TypeOK
  <2> HIDE DEF y
  <2>2. \A q \in Pods : ref'[q] = IF q = p THEN y ELSE ref[q]
    BY <1>3, <2>1
  <2>3. ASSUME NEW X \in SUBSET Pods, SpreadMasters(X) PROVE SpreadMasters(X)'
    <3>1. \A x \in X : slots[x] = {} => \A q \in Pods : q[1] = x[1] => ref[q] = x
      BY <2>3 DEF SpreadMasters
    <3>2. \A x \in X : slots[x] = {} => x[1] # p[1]
      BY <2>1, <3>1 DEF IsMaster
    <3>3. p \notin X
      BY <2>1, <3>2
    <3>4. \A x \in X : IsMaster(x)'
      BY <2>2, <2>3, <3>3 DEF SpreadMasters, IsMaster
    <3>5. SpreadOn(host, X)'
      BY <1>1, <2>3 DEF SpreadMasters
    <3>6. /\ \A q \in Pods : slots'[q] # {} => q \in X
          /\ \A s \in Shards' : \E x \in X : x[1] = s
      BY <1>1, <2>3 DEF SpreadMasters, Shards
    <3>7. \A x \in X : slots'[x] = {} => \A q \in Pods : q[1] = x[1] => ref'[q] = x
      BY <1>1, <2>2, <3>1, <3>2
    <3> QED BY <3>4, <3>5, <3>6, <3>7 DEF SpreadMasters
  <2>4. NoSlots' = NoSlots /\ Shards' = Shards
    BY <1>1 DEF NoSlots, Shards
  <2>5. NoSlots' \/ \E X \in SUBSET Pods : SpreadMasters(X)'
    BY <2>3, <2>4 DEF SpreadInv
  <2>6. ASSUME branch' = "create" PROVE SpreadOn(host, {masterOf[s] : s \in Shards})'
    <3>1. SpreadOn(host, {masterOf[s] : s \in Shards})
      BY <1>1, <2>6 DEF SpreadInv
    <3>2. PICK h, X : h = host /\ X = {masterOf[s] : s \in Shards}
      OBVIOUS
    <3>3. SpreadOn(h, X) /\ h = host' /\ X = {masterOf[s] : s \in Shards}'
      BY <1>1, <2>4, <3>1, <3>2
    <3> QED BY <3>3
  <2>7. pc' = "attach"
    BY <1>1
  <2> QED BY <2>5, <2>6, <2>7 DEF SpreadInv
<1> QED BY <1>1, <1>2, <1>3

\* When every pod follows the master that was picked for its StatefulSet, and
\* these masters are spread, it does not matter which of them get slots.
LEMMA SpreadFollowed ==
  ASSUME NEW m, NEW X \in SUBSET Pods, X = {m[s] : s \in Shards}, SpreadOn(host, X),
         \A s \in Shards : m[s][1] = s,
         \A p \in Pods : ref[p] = m[p[1]],
         UNCHANGED <<MasterSize, host, ref>>,
         \A p \in Pods : slots'[p] # {} => p \in X
  PROVE  SpreadMasters(X)'
<1>1. \A x \in X : x \in Pods /\ x = m[x[1]]
  OBVIOUS
<1>2. \A x \in X : IsMaster(x)'
  BY <1>1 DEF IsMaster
<1>3. \A s \in Shards' : \E x \in X : x[1] = s
  BY DEF Shards
<1>4. \A x \in X : \A p \in Pods : p[1] = x[1] => ref'[p] = x
  BY <1>1
<1>5. SpreadOn(host, X)'
  OBVIOUS
<1> QED BY <1>2, <1>3, <1>4, <1>5 DEF SpreadMasters

\* AllocSlots gives slots to the masters that were picked.
LEMMA SpreadAlloc ==
  ASSUME IInv, SpreadInv, faults["blind"] = 0, NEW p \in Pods, AllocSlots(p)
  PROVE  SpreadInv'
<1>1. /\ pc = "alloc" /\ p \in todo
      /\ MasterSize' = MasterSize /\ host' = host /\ ref' = ref
      /\ \/ EndPass /\ slots' = slots
         \/ /\ pc' \in {"final", "alloc"} /\ masterOf' = masterOf
            /\ \E range : slots' = [slots EXCEPT ![p] = @ \union range]
  BY DEF AllocSlots
<1>2. CASE EndPass /\ slots' = slots
  BY <1>1, <1>2, SpreadKept DEF EndPass
<1>3. CASE /\ pc' \in {"final", "alloc"} /\ masterOf' = masterOf
           /\ \E range : slots' = [slots EXCEPT ![p] = @ \union range]
  <2>1. /\ TypeOK /\ MastersPicked /\ slots \in [Pods -> SUBSET Slots]
        /\ p \in {masterOf[s] : s \in Shards}
    BY <1>1 DEF IInv, SeenInv, MastersToAlloc, TypeOK
  <2>2. /\ \A s \in Shards : masterOf[s] \in Pods /\ masterOf[s][1] = s
        /\ \A q \in Pods : ref[q] = masterOf[q[1]] /\ q[1] \in Shards
        /\ \A q \in Pods : slots[q] # {} => q = masterOf[q[1]]
    <3>1. Shards = 0 .. StatefulSets - 1 /\ masterOf \in [0 .. StatefulSets - 1 -> Pods]
      BY <1>1, <2>1 DEF MastersPicked, Shards, TypeOK
    <3> QED BY <1>1, <2>1, <3>1, PodFacts DEF MastersPicked
  <2>3. PICK X \in SUBSET Pods : X = {masterOf[s] : s \in Shards}
    <3>1. {masterOf[s] : s \in Shards} \subseteq Pods
      BY <2>2
    <3> QED BY <3>1
  <2>4. SpreadOn(host, X)
    BY <1>1, <2>3 DEF SpreadInv
  <2>5. \A q \in Pods : slots'[q] # {} => q \in X
    BY <1>3, <2>1, <2>2, <2>3
  <2>6. SpreadMasters(X)'
    BY <1>1, <2>2, <2>3, <2>4, <2>5, SpreadFollowed
  <2>7. X = {masterOf[s] : s \in Shards}'
    BY <1>1, <1>3, <2>3 DEF Shards
  <2>8. SpreadOn(host, {masterOf[s] : s \in Shards})'
    BY <1>1, <2>4, <2>7
  <2> QED BY <2>6, <2>8 DEF SpreadInv
<1> QED BY <1>1, <1>2, <1>3

\* RebalancedCluster gives slots to the masters that have none and that are
\* spread with the others.
LEMMA SpreadRebalance ==
  ASSUME IInv, SpreadInv, faults["blind"] = 0, RebalancedCluster
  PROVE  SpreadInv'
<1> DEFINE masters == {masterOf[s] : s \in Shards}
<1>1. /\ pc = "rebalance" /\ pc' = "final"
      /\ MasterSize' = MasterSize /\ host' = host /\ ref' = ref
      /\ \A q \in Pods : q \notin masters => slots'[q] = slots[q]
  BY DEF RebalancedCluster
<1>2. NoSlots => NoSlots'
  <2> SUFFICES ASSUME NoSlots, NEW q \in Pods PROVE slots'[q] = {}
    BY DEF NoSlots
  <2>1. slots'[q] = slots[q] \/ slots'[q] \subseteq UNION {slots[x] : x \in masters}
    BY DEF RebalancedCluster
  <2>2. UNION {slots[x] : x \in masters} = {}
    <3>1. \A s \in Shards : s \in 0 .. StatefulSets - 1
      <4>1. MasterSize \in 1 .. StatefulSets /\ StatefulSets \in Nat
        BY FormationAssumption DEF IInv, TypeOK
      <4> QED BY <4>1 DEF Shards
    <3>2. masterOf \in [0 .. StatefulSets - 1 -> Pods]
      BY DEF IInv, TypeOK
    <3>3. \A x \in masters : x \in Pods
      BY <3>1, <3>2
    <3>4. \A x \in masters : slots[x] = {}
      BY <3>3 DEF NoSlots
    <3> HIDE DEF masters
    <3> QED BY <3>4
  <2>3. slots[q] = {}
    BY DEF NoSlots
  <2> HIDE DEF masters
  <2> QED BY <2>1, <2>2, <2>3
<1>3. CASE NoSlots
  BY <1>1, <1>2, <1>3 DEF SpreadInv
<1>4. CASE ~ NoSlots
  <2>1. PICK X \in SUBSET Pods : SpreadMasters(X)
    BY <1>4 DEF SpreadInv
  <2>2. /\ \A s \in Shards : masterOf[s] \in Pods /\ masterOf[s][1] = s
        /\ \A q \in Pods : ref[q] = masterOf[q[1]] /\ q[1] \in Shards
        /\ \A q \in Pods : slots[q] # {} => q = masterOf[q[1]]
    <3>1. TypeOK /\ MastersPicked
      BY DEF IInv, SeenInv
    <3>2. Shards = 0 .. StatefulSets - 1 /\ masterOf \in [0 .. StatefulSets - 1 -> Pods]
      BY <1>1, <3>1 DEF MastersPicked, Shards, TypeOK
    <3> QED BY <1>1, <3>1, <3>2, PodFacts DEF MastersPicked
  <2>3. X = masters
    <3>1. \A x \in X : x = masterOf[x[1]] /\ x[1] \in Shards
      BY <2>1, <2>2 DEF SpreadMasters, IsMaster
    <3>2. \A s \in Shards : \E x \in X : x[1] = s
      BY <2>1 DEF SpreadMasters
    <3> QED BY <3>1, <3>2
  <2>4. SpreadOn(host, X)
    BY <2>1 DEF SpreadMasters
  <2>5. \A q \in Pods : slots'[q] # {} => q \in X
    BY <1>1, <2>2, <2>3
  <2>6. SpreadMasters(X)'
    BY <1>1, <2>2, <2>3, <2>4, <2>5, SpreadFollowed
  <2> QED BY <1>1, <2>6 DEF SpreadInv
<1> QED BY <1>3, <1>4

\* The healer resets nobody.
LEMMA NobodyReset ==
  ASSUME TypeOK, SeenInv, NEW x \in Pods \union {Ghost}, ForgetNode(x)
  PROVE  ref' = ref
<1>1. PICK told \in {conn \ {x}} \union {conn \ {x, p} : p \in conn} :
        ref' = [p \in Pods |-> IF p \in {q \in told : ref[q] = x /\ x # q} THEN p ELSE ref[p]]
  BY DEF ForgetNode
<1>2. /\ x \notin statusNodes /\ told \subseteq Pods /\ ref \in [Pods -> Pods]
  BY PodFacts DEF ForgetNode, SeenInv, PassKnows, TypeOK
<1>3. \A q \in told : ~ (ref[q] = x /\ x # q)
  BY <1>2 DEF SeenInv, StatusKnown
<1> QED BY <1>1, <1>2, <1>3

\* It is so at the start.
LEMMA InitSpread ==
  ASSUME StartsSpread, Init
  PROVE  SpreadInv
<1>1. pc = "idle"
  BY DEF Init
<1>2. CASE NewCluster
  <2>1. NoSlots
    BY <1>2 DEF NewCluster, NoSlots
  <2> QED BY <1>1, <2>1 DEF SpreadInv
<1>3. CASE OneMoreReplica
  <2>1. /\ MasterSize = StatefulSets /\ host = CHOOSE h \in HostMaps : TRUE
        /\ \A p \in Pods : p[2] < ClusterReplicas => ref[p] = <<p[1], 0>>
        /\ \A p \in Pods : p[2] # 0 => slots[p] = {}
        /\ \A p \in Pods : p[2] = 0 => slots[p] = AllocRange(p[1])
    BY <1>3 DEF OneMoreReplica
  <2>2. /\ Shards = 0 .. StatefulSets - 1 /\ ClusterReplicas \in Nat \ {0}
    BY <2>1, FormationAssumption DEF Shards
  <2>3. \A s \in Shards : AllocRange(s) # {}
    <3>1. MasterSize \in Nat \ {0} /\ MasterSize <= StatefulSets
      BY <2>1, FormationAssumption
    <3> QED BY <3>1, Ranges
  <2>4. PICK X : X = {<<s, 0>> : s \in Shards}
    OBVIOUS
  <2>5. \A s \in Shards : <<s, 0>> \in Pods /\ <<s, 0>>[1] = s /\ <<s, 0>>[2] = 0
    BY <2>2, PodFacts
  <2>6. \A x \in X : x \in Pods /\ x[1] \in Shards /\ x[2] = 0 /\ x = <<x[1], 0>>
    BY <2>4, <2>5
  <2>7. \A x \in X : IsMaster(x) /\ slots[x] # {}
    BY <2>1, <2>2, <2>3, <2>6 DEF IsMaster
  <2>8. SpreadOn(host, X)
    BY <2>1, <2>2, <2>4 DEF StartsSpread
  <2>9. \A p \in Pods : slots[p] # {} => p \in X
    <3> SUFFICES ASSUME NEW p \in Pods, slots[p] # {} PROVE p \in X
      OBVIOUS
    <3>1. p[2] = 0 /\ p[1] \in Shards
      BY <2>1, <2>2, PodFacts
    <3>2. p = <<p[1], 0>>
      <4>1. PICK q \in Pods : q = <<p[1], 0>> /\ q[1] = p[1] /\ q[2] = 0
        BY <2>5, <3>1
      <4>2. p = q
        BY <3>1, <4>1, PodFacts
      <4> QED BY <4>1, <4>2
    <3> QED BY <2>4, <3>1, <3>2
  <2>10. \A s \in Shards : \E x \in X : x[1] = s
    BY <2>4, <2>5
  <2>11. SpreadMasters(X)
    BY <2>7, <2>8, <2>9, <2>10 DEF SpreadMasters
  <2>12. X \in SUBSET Pods
    BY <2>6
  <2> QED BY <1>1, <2>11, <2>12 DEF SpreadInv
<1> QED BY <1>2, <1>3 DEF Init

\* It stays so.
LEMMA NextSpread ==
  ASSUME IInv, SpreadInv, [Next]_vars
  PROVE  SpreadInv'
<1>1. TypeOK /\ (faults'["blind"] = 0 => faults["blind"] = 0)
  BY SeenBefore DEF IInv
<1> SUFFICES ASSUME faults'["blind"] = 0 PROVE SpreadInv'
  BY DEF SpreadInv
<1>2. faults["blind"] = 0 /\ SeenInv
  BY <1>1 DEF IInv
<1>3. CASE UNCHANGED vars
  BY <1>1, <1>3, SpreadKept DEF vars, nodeVars, passVars
<1>4. CASE \/ Gossip
           \/ \E p \in Pods : \/ GhostSpreads(p) \/ HandshakeEnds(p) \/ FlagGhost(p)
                              \/ FlagLive(p) \/ UnflagLive(p)
  <2>1. UNCHANGED <<MasterSize, host, ref, slots>> /\ UNCHANGED <<pc, masterOf, branch>>
    BY <1>4 DEF Gossip, GhostSpreads, HandshakeEnds, FlagGhost, FlagLive, UnflagLive, passVars
  <2> QED BY <1>1, <2>1, SpreadKept
<1>5. CASE \/ StartPass \/ HealFailed \/ HealUntrusted \/ NothingToHeal
           \/ AlreadyJoined \/ MeetNodes \/ CheckJoined \/ SetConfigIfNeed
           \/ StoreStatus \/ DispatchFails \/ PlaceSlavesPanics \/ Crash \/ SetClusterOK
  <2>1. UNCHANGED <<MasterSize, host, ref, slots>>
    BY <1>5 DEF StartPass, HealFailed, HealUntrusted, NothingToHeal, AlreadyJoined, MeetNodes,
                CheckJoined, SetConfigIfNeed, StoreStatus, DispatchFails, PlaceSlavesPanics, Crash,
                SetClusterOK, nodeVars
  <2>2. pc' \notin {"attach", "alloc"}
    BY <1>5 DEF StartPass, HealFailed, HealUntrusted, NothingToHeal, AlreadyJoined, MeetNodes,
                CheckJoined, SetConfigIfNeed, StoreStatus, DispatchFails, PlaceSlavesPanics, Crash,
                SetClusterOK, EndPass
  <2> QED BY <1>1, <2>1, <2>2, SpreadKept
<1>6. CASE \E x \in Pods \union {Ghost} : ForgetNode(x)
  <2>1. PICK x \in Pods \union {Ghost} : ForgetNode(x)
    BY <1>6
  <2>2. ref' = ref
    BY <1>1, <1>2, <2>1, NobodyReset
  <2>3. UNCHANGED <<MasterSize, host, slots>> /\ pc' \notin {"attach", "alloc"}
    BY <2>1 DEF ForgetNode, EndPass
  <2> QED BY <1>1, <2>2, <2>3, SpreadKept
<1>7. CASE DispatchSome
  BY <1>1, <1>2, <1>7, SpreadDispatch DEF DispatchSome
<1>8. CASE \E p \in Pods : AttachSlaveToMaster(p)
  BY <1>1, <1>2, <1>8, SpreadAttach
<1>9. CASE \E p \in Pods : AllocSlots(p)
  BY <1>2, <1>9, SpreadAlloc
<1>10. CASE Attached
  <2>1. UNCHANGED <<MasterSize, host, ref, slots>> /\ pc = "attach"
    BY <1>10 DEF Attached, nodeVars
  <2>2. EndPass \/ (pc' = NextOf(branch) /\ masterOf' = masterOf /\ branch' = branch)
    BY <1>10 DEF Attached
  <2>3. pc' \notin {"attach", "alloc"} \/ (branch = "create" /\ pc' = "alloc" /\ masterOf' = masterOf)
    BY <2>2 DEF EndPass, NextOf
  <2> QED BY <1>1, <2>1, <2>3, SpreadKept
<1>11. CASE RebalancedCluster
  BY <1>2, <1>11, SpreadRebalance
<1> QED
  BY <1>3, <1>4, <1>5, <1>6, <1>7, <1>8, <1>9, <1>10, <1>11
  DEF Next, Operator, GhostIsFlagged, TimesOut

\* Whatever pass is broken off, and wherever, the masters that have slots
\* (PlaceMasters, AllocSlots) belong to one spread choice for all StatefulSets.
THEOREM SpreadInvariance == StartsSpread => (Spec => []SpreadInv)
<1>1. StartsSpread /\ Init => SpreadInv
  BY InitSpread
<1>2. IInv /\ SpreadInv /\ [Next]_vars => SpreadInv'
  BY NextSpread
<1> QED BY <1>1, <1>2, Invariance, PTL DEF Spec

\* PlaceMasters spreads the masters over the hosts, also when creating the
\* cluster takes several passes that are broken off anywhere and pick anew: two
\* masters share a host only when one of them had no pod on a host without a
\* master.  A cluster that was formed before is assumed to have been spread.
THEOREM MastersSpread == StartsSpread => (Spec => []Spread)
<1>1. SpreadInv => Spread
  <2> SUFFICES ASSUME SpreadInv, faults["blind"] = 0,
                      NEW p \in Pods, NEW q \in Pods, slots[p] # {}, slots[q] # {},
                      p # q, host[p] = host[q]
               PROVE  \E x \in {p, q} : \A y \in Pods : y[1] = x[1] =>
                        \E z \in Pods : IsMaster(z) /\ z[1] # x[1] /\ host[z] = host[y]
    BY DEF Spread
  <2>1. PICK X \in SUBSET Pods : SpreadMasters(X)
    BY DEF SpreadInv, NoSlots
  <2>2. p \in X /\ q \in X /\ \A z \in X : z \in Pods /\ IsMaster(z)
    BY <2>1 DEF SpreadMasters
  <2>3. \E x \in {p, q} : \A y \in Pods : y[1] = x[1] =>
          \E z \in X : z[1] # x[1] /\ host[z] = host[y]
    BY <2>1, <2>2 DEF SpreadMasters, SpreadOn
  <2> QED BY <2>2, <2>3
<1> QED BY <1>1, SpreadInvariance, PTL
=============================================================================
