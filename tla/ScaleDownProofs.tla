--------------------------- MODULE ScaleDownProofs ----------------------------
(***************************************************************************)
(* With commands that do not fail, scaling down loses no acknowledged key, *)
(* wherever the operator stops; and unless it stops, every key can be read *)
(* at any moment, and a cluster reported healthy is scaled down.  For      *)
(* every number of nodes, slots, keys and passes.                          *)
(***************************************************************************)
EXTENDS ScaleDown, SlotDispatchProofs

\* There are finitely many hash slots, and None is no node.
LEMMA Basics ==
  /\ IsFiniteSet(Slots) /\ IsFiniteSet(Nodes)
  /\ Nowhere \notin Nodes /\ None \notin Nodes
  /\ Expect \in Nat \ {0} /\ Cardinality(Nodes) \in Nat
  /\ Nodes = 0 .. Cardinality(Nodes) - 1
  /\ Nodes \subseteq Nat
<1>1. IsFiniteSet(Slots)
  BY FS_Interval, RedisAssumption DEF Slots
<1>2. Cardinality(Nodes) \in Nat /\ Nodes = 0 .. Cardinality(Nodes) - 1
  BY ScaleDownAssumption, FS_CardinalityType
<1>3. Nodes \subseteq Nat
  <2> DEFINE c == Cardinality(Nodes)
  <2>1. c \in Nat /\ Nodes = 0 .. c - 1
    BY <1>2
  <2> HIDE DEF c
  <2> QED BY <2>1
<1> QED
  BY <1>1, <1>2, <1>3, ScaleDownAssumption, RedisAssumption

-----------------------------------------------------------------------------
(***************************************************************************)
(* What one command changes, point by point.                               *)
(***************************************************************************)
\* SETSLOT IMPORTING marks the slots that the node does not own.
LEMMA ImportingFacts ==
  ASSUME RedisTypeOK, NEW n \in Nodes, NEW S \in SUBSET Slots, NEW id \in Nodes,
         SetImporting(n, S, id)
  PROVE  /\ RedisTypeOK'
         /\ UNCHANGED <<owner, migrating, keys, epoch, currentEpoch, acked>>
         /\ \A s \in S : owner[n][s] # n => importing'[n][s] # None
BY Basics DEF SetImporting, RedisTypeOK, AcceptsImporting

\* SETSLOT MIGRATING marks the slots that the node owns.
LEMMA MigratingFacts ==
  ASSUME RedisTypeOK, NEW n \in Nodes, NEW S \in SUBSET Slots, NEW id \in Nodes,
         SetMigrating(n, S, id)
  PROVE  /\ RedisTypeOK'
         /\ UNCHANGED <<owner, importing, keys, epoch, currentEpoch, acked>>
         /\ \A m \in Nodes, r \in Slots : \/ migrating'[m][r] = migrating[m][r]
                                          \/ m = n /\ r \in S /\ migrating'[m][r] = id
         /\ \A s \in S : owner[n][s] = n => migrating'[n][s] = id
BY Basics DEF SetMigrating, RedisTypeOK, AcceptsMigrating

\* SETSLOT NODE keeps the types, and the keys.
LEMMA NodeType ==
  ASSUME RedisTypeOK, NEW n \in Nodes, NEW S \in SUBSET Slots, NEW id \in Nodes,
         SetNode(n, S, id)
  PROVE  RedisTypeOK' /\ UNCHANGED <<keys, acked>>
<1>1. owner' \in [Nodes -> [Slots -> Nodes \cup {None}]]
  BY DEF RedisTypeOK, SetNode
<1>2. migrating' \in [Nodes -> [Slots -> Nodes \cup {None}]]
  BY DEF RedisTypeOK, SetNode
<1>3. importing' \in [Nodes -> [Slots -> Nodes \cup {None}]]
  BY DEF RedisTypeOK, SetNode
<1>4. epoch' \in [Nodes -> Nat] /\ currentEpoch' \in Nat
  <2>1. \/ currentEpoch' = currentEpoch + 1 /\ epoch' = [epoch EXCEPT ![n] = currentEpoch + 1]
        \/ currentEpoch' = currentEpoch /\ epoch' = epoch
    BY DEF SetNode
  <2>2. epoch \in [Nodes -> Nat] /\ currentEpoch \in Nat /\ currentEpoch + 1 \in Nat
    BY DEF RedisTypeOK
  <2> QED
    BY <2>1, <2>2
<1> QED
  BY <1>1, <1>2, <1>3, <1>4 DEF RedisTypeOK, SetNode

\* SETSLOT NODE leaves the other nodes and slots alone.
LEMMA NodeElsewhere ==
  ASSUME RedisTypeOK, NEW n \in Nodes, NEW S \in SUBSET Slots, NEW id \in Nodes,
         SetNode(n, S, id)
  PROVE  /\ \A m \in Nodes, r \in Slots : m # n \/ r \notin S =>
              /\ owner'[m][r] = owner[m][r]
              /\ migrating'[m][r] = migrating[m][r]
              /\ importing'[m][r] = importing[m][r]
         /\ \A m \in Nodes, r \in Slots : migrating'[m][r] \in {None, migrating[m][r]}
         /\ \A m \in Nodes : m # n => epoch'[m] = epoch[m]
<1>1. \A m \in Nodes, r \in Slots : m # n \/ r \notin S => owner'[m][r] = owner[m][r]
  BY DEF RedisTypeOK, SetNode
<1>2. \A m \in Nodes, r \in Slots : m # n \/ r \notin S => migrating'[m][r] = migrating[m][r]
  BY DEF RedisTypeOK, SetNode
<1>3. \A m \in Nodes, r \in Slots : m # n \/ r \notin S => importing'[m][r] = importing[m][r]
  BY DEF RedisTypeOK, SetNode
<1>4. \A m \in Nodes, r \in Slots : migrating'[m][r] \in {None, migrating[m][r]}
  BY DEF RedisTypeOK, SetNode
<1>5. \A m \in Nodes : m # n => epoch'[m] = epoch[m]
  BY DEF RedisTypeOK, SetNode
<1> QED BY <1>1, <1>2, <1>3, <1>4, <1>5

\* SETSLOT NODE is refused only by an owner with keys.
LEMMA NodeHere ==
  ASSUME RedisTypeOK, NEW n \in Nodes, NEW S \in SUBSET Slots, NEW id \in Nodes,
         SetNode(n, S, id)
  PROVE  \A s \in S : (owner[n][s] = n /\ id # n => KeysIn(n, s) = {}) =>
           owner'[n][s] = id /\ (KeysIn(n, s) = {} => migrating'[n][s] = None)
<1> SUFFICES ASSUME NEW s \in S, owner[n][s] = n /\ id # n => KeysIn(n, s) = {}
             PROVE  owner'[n][s] = id /\ (KeysIn(n, s) = {} => migrating'[n][s] = None)
  OBVIOUS
<1>1. s \in S \cap AcceptsNode(n, id) /\ s \in Slots
  BY DEF AcceptsNode
<1> QED BY <1>1 DEF RedisTypeOK, SetNode

\* Only a node that takes over slots it imports gets a new configEpoch, which
\* is then the highest.
LEMMA NodeEpoch ==
  ASSUME RedisTypeOK, NEW n \in Nodes, NEW S \in SUBSET Slots, NEW id \in Nodes,
         SetNode(n, S, id)
  PROVE  /\ id # n => UNCHANGED <<epoch, currentEpoch>>
         /\ \/ UNCHANGED <<epoch, currentEpoch>>
            \/ currentEpoch' = currentEpoch + 1 /\ epoch'[n] = currentEpoch + 1
         /\ id = n /\ (\E s \in S : importing[n][s] # None) => epoch'[n] = currentEpoch'
<1> DEFINE P == S \cap AcceptsNode(n, id)
<1>1. IF TakesEpoch(n, P, id)
      THEN /\ currentEpoch' = currentEpoch + 1
           /\ epoch' = [epoch EXCEPT ![n] = currentEpoch + 1]
      ELSE UNCHANGED <<epoch, currentEpoch>>
  BY DEF SetNode
<1>2. id = n => P = S
  BY DEF AcceptsNode
<1> HIDE DEF P
<1>3. /\ id # n => UNCHANGED <<epoch, currentEpoch>>
      /\ \/ UNCHANGED <<epoch, currentEpoch>>
         \/ currentEpoch' = currentEpoch + 1 /\ epoch'[n] = currentEpoch + 1
  BY <1>1 DEF RedisTypeOK, TakesEpoch
<1>4. ASSUME id = n, NEW s \in S, importing[n][s] # None PROVE epoch'[n] = currentEpoch'
  <2>1. CASE TakesEpoch(n, P, id)
    BY <1>1, <2>1 DEF RedisTypeOK
  <2>2. CASE ~ TakesEpoch(n, P, id)
    <3>1. epoch[n] = currentEpoch
      BY <1>2, <1>4, <2>2 DEF TakesEpoch
    <3> QED BY <1>1, <2>2, <3>1
  <2> QED BY <2>1, <2>2
<1> QED BY <1>3, <1>4

\* SETSLOT NODE on the new owner.
LEMMA TakeFacts ==
  ASSUME RedisTypeOK, NEW n \in Nodes, NEW S \in SUBSET Slots, SetNode(n, S, n)
  PROVE  /\ RedisTypeOK'
         /\ UNCHANGED <<keys, acked>>
         /\ \A m \in Nodes, r \in Slots : m # n \/ r \notin S =>
              /\ owner'[m][r] = owner[m][r]
              /\ migrating'[m][r] = migrating[m][r]
              /\ importing'[m][r] = importing[m][r]
         /\ \A s \in S : owner'[n][s] = n
         /\ \A m \in Nodes, r \in Slots : migrating'[m][r] \in {None, migrating[m][r]}
         /\ \A m \in Nodes : m # n => epoch'[m] = epoch[m]
         /\ \/ UNCHANGED <<epoch, currentEpoch>>
            \/ currentEpoch' = currentEpoch + 1 /\ epoch'[n] = currentEpoch + 1
         /\ (\E s \in S : importing[n][s] # None) => epoch'[n] = currentEpoch'
<1>1. RedisTypeOK' /\ UNCHANGED <<keys, acked>>
  BY NodeType
<1>2. /\ \A m \in Nodes, r \in Slots : m # n \/ r \notin S =>
           /\ owner'[m][r] = owner[m][r]
           /\ migrating'[m][r] = migrating[m][r]
           /\ importing'[m][r] = importing[m][r]
      /\ \A m \in Nodes, r \in Slots : migrating'[m][r] \in {None, migrating[m][r]}
      /\ \A m \in Nodes : m # n => epoch'[m] = epoch[m]
  BY NodeElsewhere
<1>3. \A s \in S : owner'[n][s] = n
  BY NodeHere
<1>4. /\ \/ UNCHANGED <<epoch, currentEpoch>>
         \/ currentEpoch' = currentEpoch + 1 /\ epoch'[n] = currentEpoch + 1
      /\ (\E s \in S : importing[n][s] # None) => epoch'[n] = currentEpoch'
  BY NodeEpoch
<1> QED BY <1>1, <1>2, <1>3, <1>4

\* SETSLOT NODE on another node that has no key in the slots it owns.
LEMMA GiveFacts ==
  ASSUME RedisTypeOK, NEW n \in Nodes, NEW S \in SUBSET Slots, NEW id \in Nodes,
         SetNode(n, S, id), id # n,
         \A s \in S : owner[n][s] = n => KeysIn(n, s) = {}
  PROVE  /\ RedisTypeOK'
         /\ UNCHANGED <<keys, acked, epoch, currentEpoch>>
         /\ \A m \in Nodes, r \in Slots : m # n \/ r \notin S =>
              /\ owner'[m][r] = owner[m][r]
              /\ migrating'[m][r] = migrating[m][r]
              /\ importing'[m][r] = importing[m][r]
         /\ \A s \in S : owner'[n][s] = id
         /\ \A s \in S : KeysIn(n, s) = {} => migrating'[n][s] = None
         /\ \A m \in Nodes, r \in Slots : migrating'[m][r] \in {None, migrating[m][r]}
<1>1. RedisTypeOK' /\ UNCHANGED <<keys, acked>>
  BY NodeType
<1>2. /\ \A m \in Nodes, r \in Slots : m # n \/ r \notin S =>
           /\ owner'[m][r] = owner[m][r]
           /\ migrating'[m][r] = migrating[m][r]
           /\ importing'[m][r] = importing[m][r]
      /\ \A m \in Nodes, r \in Slots : migrating'[m][r] \in {None, migrating[m][r]}
  BY NodeElsewhere
<1>3. \A s \in S : owner'[n][s] = id /\ (KeysIn(n, s) = {} => migrating'[n][s] = None)
  BY NodeHere
<1>4. UNCHANGED <<epoch, currentEpoch>>
  BY NodeEpoch
<1> QED BY <1>1, <1>2, <1>3, <1>4

\* CLUSTER ADDSLOTS makes the node the owner of the slots.
LEMMA AddSlotsFacts ==
  ASSUME RedisTypeOK, NEW n \in Nodes, NEW S \in SUBSET Slots, AddSlots(n, S)
  PROVE  /\ RedisTypeOK'
         /\ UNCHANGED <<migrating, keys, epoch, currentEpoch, acked>>
         /\ \A m \in Nodes, r \in Slots : m # n \/ r \notin S => owner'[m][r] = owner[m][r]
         /\ \A s \in S : owner'[n][s] = n
<1>1. owner' \in [Nodes -> [Slots -> Nodes \cup {None}]]
  BY DEF AddSlots, RedisTypeOK
<1>2. importing' \in [Nodes -> [Slots -> Nodes \cup {None}]]
  BY DEF AddSlots, RedisTypeOK
<1>3. /\ \A m \in Nodes, r \in Slots : m # n \/ r \notin S => owner'[m][r] = owner[m][r]
      /\ \A s \in S : owner'[n][s] = n
  BY DEF AddSlots, RedisTypeOK
<1> QED BY <1>1, <1>2, <1>3 DEF AddSlots, RedisTypeOK

\* CLUSTER FORGET drops what the nodes N know of x.
LEMMA ForgetFacts ==
  ASSUME RedisTypeOK, NEW N \in SUBSET Nodes, NEW x \in Nodes, Forget(N, x)
  PROVE  /\ RedisTypeOK'
         /\ UNCHANGED <<keys, epoch, currentEpoch, acked>>
         /\ \A m \in Nodes, r \in Slots :
              owner'[m][r] = IF m \in N /\ owner[m][r] = x THEN None ELSE owner[m][r]
         /\ \A m \in Nodes, r \in Slots : migrating'[m][r] \in {None, migrating[m][r]}
<1>1. owner' \in [Nodes -> [Slots -> Nodes \cup {None}]]
  BY DEF Forget, RedisTypeOK
<1>2. migrating' \in [Nodes -> [Slots -> Nodes \cup {None}]]
  BY DEF Forget, RedisTypeOK
<1>3. importing' \in [Nodes -> [Slots -> Nodes \cup {None}]]
  BY DEF Forget, RedisTypeOK
<1>4. \A m \in Nodes, r \in Slots :
        owner'[m][r] = IF m \in N /\ owner[m][r] = x THEN None ELSE owner[m][r]
  BY DEF Forget, RedisTypeOK
<1>5. \A m \in Nodes, r \in Slots : migrating'[m][r] \in {None, migrating[m][r]}
  BY DEF Forget, RedisTypeOK
<1> QED BY <1>1, <1>2, <1>3, <1>4, <1>5 DEF Forget, RedisTypeOK

-----------------------------------------------------------------------------
(***************************************************************************)
(* The steps that send no command.                                         *)
(***************************************************************************)
\* What is said of the nodes and their keys holds while they do not change.
LEMMA SameCluster ==
  ASSUME IInv, UNCHANGED <<redisVars, sts>>
  PROVE  /\ RedisTypeOK' /\ MarksInv' /\ LoserInv' /\ LeaverInv'
         /\ SlotOwned' /\ AckedOwned' /\ NoKeyLoss'
<1> USE DEF redisVars, IInv
<1>1. RedisTypeOK'
  BY DEF TypeOK, RedisTypeOK
<1>2. MarksInv'
  BY DEF MarksInv
<1>3. LoserInv'
  BY DEF LoserInv, Loses, Owners, KeysIn
<1>4. LeaverInv'
  BY DEF LeaverInv
<1>5. SlotOwned' /\ AckedOwned' /\ NoKeyLoss'
  BY DEF SlotOwned, AckedOwned, NoKeyLoss
<1> QED BY <1>1, <1>2, <1>3, <1>4, <1>5

\* Between two passes nothing is said of a pass.
LEMMA BetweenPasses ==
  ASSUME IInv, pc' = "idle", sts' = sts
  PROVE  PassInv' /\ PlanInv' /\ MoveInv'
<1>1. PassInv'
  BY DEF PassInv, IInv, Dispatching, Grouping, Removing
<1>2. PlanInv'
  BY DEF PlanInv, Dispatching, Grouping
<1>3. MoveInv'
  BY DEF MoveInv
<1> QED BY <1>1, <1>2, <1>3

\* A pass ends, one way or the other.
LEMMA EndStep ==
  ASSUME IInv, pc' = "idle", UNCHANGED <<redisVars, sts, passVars, passes>>,
         members' \subseteq sts, status' \in {"Rebalancing", "Failed", "Healthy"},
         stopped' \in BOOLEAN
  PROVE  IInv'
<1>1. TypeOK'
  BY SameCluster DEF TypeOK, IInv, passVars
<1> QED BY <1>1, SameCluster, BetweenPasses DEF IInv

\* StartPass reads the slots of the nodes.
LEMMA StartPassStep ==
  ASSUME IInv, StartPass PROVE IInv'
<1> USE DEF StartPass
<1>1. TypeOK'
  <2>1. bom' \in [Nodes -> SUBSET Slots] /\ current' \in SUBSET Nodes
    BY DEF TypeOK, IInv, Owned
  <2>2. passes' \in 0 .. MaxPasses
    BY ScaleDownAssumption DEF TypeOK, IInv
  <2> QED
    BY <2>1, <2>2, SameCluster DEF TypeOK, IInv
<1>2. PassInv'
  <2>1. \A n \in sts : bom'[n] = Owned(n)'
    BY DEF redisVars, Owned, TypeOK, IInv
  <2>2. current' = {n \in sts : Owned(n)' # {}}
    BY DEF redisVars, Owned
  <2> QED
    BY <2>1, <2>2 DEF PassInv, IInv, Dispatching, Grouping, Removing
<1>3. PlanInv' /\ MoveInv'
  BY DEF PlanInv, Dispatching, Grouping, MoveInv
<1> QED BY <1>1, <1>2, <1>3, SameCluster DEF IInv

\* waitForClusterJoin lets the pass go on only if no slot has two owners.
LEMMA JoinStep ==
  ASSUME IInv, WaitForClusterJoin PROVE IInv'
<1> USE DEF WaitForClusterJoin
<1>1. CASE ~ InfosConsistent(sts)
  BY <1>1, EndStep DEF IInv, TypeOK
<1>2. CASE InfosConsistent(sts)
  <2>1. TypeOK'
    BY <1>2, SameCluster DEF TypeOK, IInv, passVars
  <2>2. \A p, q \in sts, s \in Slots : ~ Owners(p, q, s)'
    BY <1>2 DEF InfosConsistent, Owners, redisVars
  <2>3. PassInv'
    BY <1>2, <2>2 DEF PassInv, IInv, Dispatching, Grouping, Removing, Owned, redisVars, passVars
  <2>4. PlanInv' /\ MoveInv'
    BY <1>2 DEF PlanInv, Dispatching, Grouping, MoveInv
  <2> QED BY <2>1, <2>3, <2>4, SameCluster DEF IInv
<1> QED BY <1>1, <1>2

\* Nothing to do.
LEMMA NoOperationStep ==
  ASSUME IInv, NoOperation PROVE IInv'
BY EndStep DEF NoOperation, IInv, TypeOK

\* There are more nodes than masters to keep.
LEMMA Fewer ==
  ASSUME current \in SUBSET Nodes, Cardinality(current) > Expect
  PROVE  /\ Staying \subseteq Nodes /\ IsFiniteSet(current) /\ IsFiniteSet(Staying)
         /\ Staying # {} /\ Expect < Cardinality(Nodes) /\ Cardinality(current) \in Nat
         /\ Cardinality(current) <= Cardinality(Nodes)
<1> DEFINE c == Cardinality(Nodes)
           d == Cardinality(current)
<1>1. c \in Nat /\ Nodes = 0 .. c - 1 /\ Expect \in Nat \ {0}
  BY Basics
<1>2. IsFiniteSet(current) /\ d \in Nat /\ d <= c
  BY Basics, FS_Subset, FS_CardinalityType
<1>3. IsFiniteSet(Staying)
  BY Basics, FS_Interval DEF Staying
<1> HIDE DEF c, d
<1>4. d > Expect
  BY DEF d
<1>5. Expect < c
  BY <1>1, <1>2, <1>4
<1>6. 0 \in Staying
  BY <1>1 DEF Staying
<1>7. Staying \subseteq Nodes
  BY <1>1, <1>5 DEF Staying
<1> QED BY <1>2, <1>3, <1>5, <1>6, <1>7 DEF c, d

\* What the plan of a pass is made from.
LEMMA PlanGiven ==
  ASSUME IInv, pc = "sync", Cardinality(current) > Expect,
         NEW new \in SetToSeqs(Staying), NEW old \in SetToSeqs(current),
         NEW order \in SetToSeqs(current \cup {Nowhere})
  PROVE  Given(Nodes, Staying, current, bom, new, old, NumSlots, order)
BY Basics, Fewer, RedisAssumption DEF Given, IInv, TypeOK, Slots

\* A plan is made.
LEMMA PlanStep ==
  ASSUME IInv, PlanDispatch PROVE IInv'
<1> USE DEF PlanDispatch
<1>1. PICK new \in SetToSeqs(Staying), old \in SetToSeqs(current),
           order \in SetToSeqs(current \cup {Nowhere}) :
             plan' = feedMigInfo(bom, new, old, NumSlots, order)
  BY DEF Staying
<1>2. Given(Nodes, Staying, current, bom, new, old, NumSlots, order)
  BY <1>1, PlanGiven
<1>3. current \in SUBSET Nodes /\ current \subseteq sts
  BY DEF IInv, TypeOK, PassInv
<1>4. \A g \in plan' :
        /\ g \in [from : current \cup {Nowhere}, to : Staying, slots : SUBSET Slots]
        /\ g.from # g.to /\ g.slots # {}
        /\ g.from = Nowhere => \A s \in g.slots, n \in current : s \notin bom[n]
  BY <1>1, <1>2, PlanGroups DEF Slots
<1>5. TypeOK'
  <2>1. plan' \in SUBSET [from : Nodes \cup {Nowhere}, to : Nodes, slots : SUBSET Slots]
    BY <1>3, <1>4, Fewer
  <2> QED
    BY <2>1, SameCluster DEF TypeOK, IInv
<1>6. PassInv'
  <2>1. pc' = "dispatch" /\ UNCHANGED <<owner, sts, bom, current>>
    BY DEF redisVars
  <2> QED
    BY <2>1 DEF PassInv, IInv, Dispatching, Grouping, Removing, Owned, Owners
<1>7. PlanInv'
  <2>1. Todo' = plan'
    BY DEF Todo, Grouping
  <2>2. ASSUME NEW g \in plan', NEW h \in plan', g.from = Nowhere, g.slots \cap h.slots # {}
        PROVE  g = h
    <3>1. PICK s : s \in g.slots /\ s \in h.slots
      BY <2>2
    <3>2. \A m, n \in current : s \in bom[m] /\ s \in bom[n] => m = n
      BY <1>4, <2>2, <3>1
    <3> QED BY <1>1, <1>2, <3>1, <3>2, PlanOnce
  <2>3. ASSUME NEW g \in plan', g.from = Nowhere, NEW s \in g.slots, NEW n \in sts
        PROVE  owner[n][s] # n
    <3>1. s \in Slots /\ (n \in current => s \notin bom[n])
      BY <1>4, <2>3
    <3>2. s \notin bom[n]
      BY <3>1 DEF IInv, PassInv
    <3>3. Owned(n) \subseteq bom[n]
      BY DEF IInv, PassInv
    <3> QED BY <3>1, <3>2, <3>3 DEF Owned
  <2>4. pc' = "dispatch" /\ UNCHANGED <<owner, sts, current>>
    BY DEF redisVars
  <2>5. Staying \subseteq Nodes
    BY <1>3, Fewer
  <2> QED
    BY <1>4, <2>1, <2>2, <2>3, <2>4, <2>5 DEF PlanInv, Dispatching, Grouping
<1>8. MoveInv'
  BY DEF MoveInv
<1> QED BY <1>5, <1>6, <1>7, <1>8, SameCluster DEF IInv

\* Where a pass stands when it moves a group, or is about to.
LEMMA GroupFacts ==
  ASSUME IInv, pc \in Grouping
  PROVE  /\ to \in Staying /\ to \in Nodes /\ to \in sts /\ from # to
         /\ group.slots \in SUBSET Slots /\ group.slots # {}
         /\ group \notin plan /\ (from = Nowhere <=> pc = "addSlots")
         /\ pc # "addSlots" => from \in current /\ from \in sts /\ from \in Nodes
         /\ Todo = plan \cup {group} /\ pc # "idle" /\ current \subseteq sts
         /\ sts \subseteq Nodes /\ Staying \subseteq sts
<1>1. Todo = plan \cup {group}
  BY DEF Todo
<1>2. /\ Staying \subseteq Nodes /\ group.to \in Staying /\ group.from # group.to
      /\ group.from \in current \cup {Nowhere} /\ group.slots # {}
      /\ group \notin plan /\ (from = Nowhere <=> pc = "addSlots")
  BY <1>1 DEF IInv, PlanInv, Dispatching
<1>3. current \subseteq sts /\ sts \subseteq Nodes /\ Staying \subseteq sts /\ group.slots \in SUBSET Slots
  BY <1>2 DEF IInv, PassInv, TypeOK, Dispatching
<1>4. pc # "idle"
  BY DEF Grouping
<1> QED BY <1>1, <1>2, <1>3, <1>4 DEF from, to

\* The next group is taken.
LEMMA NextGroupStep ==
  ASSUME IInv, NextGroup PROVE IInv'
<1> USE DEF NextGroup
<1>1. PICK g \in plan : /\ group' = g
                        /\ plan' = plan \ {g}
                        /\ pc' = IF g.from = Nowhere THEN "addSlots" ELSE "importing"
  OBVIOUS
<1>2. pc' \in {"addSlots", "importing"} /\ UNCHANGED <<owner, sts, bom, current>>
  BY <1>1 DEF redisVars
<1>3. TypeOK'
  <2>1. group' \in [from : Nodes \cup {Nowhere}, to : Nodes \cup {Nowhere}, slots : SUBSET Slots]
    BY <1>1 DEF IInv, TypeOK
  <2> QED
    BY <1>1, <1>2, <2>1, SameCluster DEF TypeOK, IInv
<1>4. PassInv'
  BY <1>2 DEF PassInv, IInv, Dispatching, Grouping, Removing, Owned, Owners
<1>5. PlanInv'
  <2>1. Todo' = Todo
    BY <1>1, <1>2 DEF Todo, Grouping
  <2> QED
    BY <1>1, <1>2, <2>1 DEF PlanInv, IInv, Dispatching, Grouping, from
<1>6. MoveInv'
  BY <1>2 DEF MoveInv
<1> QED BY <1>3, <1>4, <1>5, <1>6, SameCluster DEF IInv

-----------------------------------------------------------------------------
(***************************************************************************)
(* The commands of DispatchSlotToNewMasters.                               *)
(***************************************************************************)
\* Lost slots are added to the target.
LEMMA AddLostSlotsStep ==
  ASSUME ~ CmdFails, IInv, AddLostSlots PROVE IInv'
<1> USE DEF AddLostSlots
<1>1. CASE UNCHANGED redisVars /\ Failed
  BY <1>1, EndStep DEF Failed, IInv, TypeOK
<1>2. CASE AcceptsAddSlots(to, group.slots) /\ AddSlots(to, group.slots) /\ GroupDone
           /\ UNCHANGED <<sts, members, current, plan, group, rest, i, status, passes, stopped>>
  <2>1. pc \in Grouping /\ pc \in Dispatching /\ RedisTypeOK
    BY DEF Grouping, Dispatching, IInv, TypeOK
  <2>2. /\ to \in Staying /\ to \in Nodes /\ to \in sts
        /\ group.slots \in SUBSET Slots /\ group \notin plan /\ from = Nowhere
        /\ Todo = plan \cup {group} /\ sts \subseteq Nodes /\ Staying \subseteq sts
    BY <2>1, GroupFacts
  <2>3. /\ RedisTypeOK'
        /\ UNCHANGED <<migrating, keys, epoch, currentEpoch, acked>>
        /\ \A m \in Nodes, r \in Slots : m # to \/ r \notin group.slots => owner'[m][r] = owner[m][r]
        /\ \A s \in group.slots : owner'[to][s] = to
    BY <1>2, <2>1, <2>2, AddSlotsFacts
  <2>4. /\ pc' = "dispatch" /\ bom' = [bom EXCEPT ![to] = @ \cup group.slots]
        /\ UNCHANGED <<sts, members, current, plan, group, rest, i, status, passes, stopped>>
    BY <1>2 DEF GroupDone
  <2>5. \A s \in group.slots, n \in sts : owner[n][s] # n
    BY <2>1, <2>2 DEF IInv, PlanInv, from
  <2>6. \A p, q \in sts, s \in Slots : ~ Owners(p, q, s)
    BY DEF IInv, PassInv
  <2>7. \A p, q \in sts, s \in Slots : ~ Owners(p, q, s)'
    <3> SUFFICES ASSUME NEW p \in sts, NEW q \in sts, NEW s \in Slots, p # q,
                        owner'[p][s] = p, owner'[q][s] = q
                 PROVE  FALSE
      BY DEF Owners
    <3>1. p \in Nodes /\ q \in Nodes
      BY <2>2
    <3>2. CASE s \in group.slots
      BY <2>3, <2>5, <3>1, <3>2
    <3>3. CASE s \notin group.slots
      BY <2>3, <2>6, <3>1, <3>3 DEF Owners
    <3> QED BY <3>2, <3>3
  <2>8. \A m \in sts, r \in Slots : owner[m][r] = m => owner'[m][r] = m
    BY <2>2, <2>3
  <2>9. TypeOK'
    <3>1. bom' \in [Nodes -> SUBSET Slots]
      BY <2>2, <2>4 DEF IInv, TypeOK
    <3> QED BY <2>3, <2>4, <3>1 DEF IInv, TypeOK
  <2>10. MarksInv'
    BY <2>3 DEF IInv, MarksInv
  <2>11. LoserInv'
    BY <2>4, <2>7 DEF LoserInv, Loses
  <2>12. LeaverInv'
    <3> SUFFICES ASSUME NEW n \in sts \ Staying, NEW k \in keys[n] PROVE owner'[n][SlotOf[k]] = n
      BY <2>3, <2>4 DEF LeaverInv
    <3>1. n \in Nodes /\ k \in Keys
      BY <2>2 DEF IInv, TypeOK, RedisTypeOK
    <3>2. SlotOf[k] \in Slots
      BY <3>1, RedisAssumption
    <3>3. owner[n][SlotOf[k]] = n
      BY DEF IInv, LeaverInv
    <3> QED BY <2>8, <3>2, <3>3
  <2>13. SlotOwned'
    <3> SUFFICES ASSUME NEW s \in Slots, NEW n \in sts, owner'[n][s] # None
                 PROVE  \E m \in sts : owner'[m][s] = m
      BY <2>4 DEF SlotOwned
    <3>1. CASE s \in group.slots
      BY <2>2, <2>3, <3>1
    <3>2. CASE s \notin group.slots
      <4>1. owner[n][s] # None
        BY <2>2, <2>3, <3>2
      <4>2. PICK m \in sts : owner[m][s] = m
        BY <4>1 DEF IInv, SlotOwned
      <4> QED BY <2>8, <4>2
    <3> QED BY <3>1, <3>2
  <2>14. AckedOwned'
    <3> SUFFICES ASSUME NEW k \in acked PROVE \E n \in sts : owner'[n][SlotOf[k]] = n
      BY <2>3, <2>4 DEF AckedOwned
    <3>1. SlotOf[k] \in Slots
      BY RedisAssumption DEF IInv, TypeOK, RedisTypeOK
    <3>2. PICK n \in sts : owner[n][SlotOf[k]] = n
      BY DEF IInv, AckedOwned
    <3> QED BY <2>8, <3>1, <3>2
  <2>15. NoKeyLoss'
    BY <2>3, <2>4 DEF IInv, NoKeyLoss
  <2>16. PassInv'
    <3>1. \A n \in sts : Owned(n)' \subseteq bom'[n]
      <4> SUFFICES ASSUME NEW n \in sts, NEW s \in Slots, owner'[n][s] = n PROVE s \in bom'[n]
        BY DEF Owned
      <4>1. Owned(n) \subseteq bom[n] /\ n \in Nodes
        BY <2>2 DEF IInv, PassInv
      <4>2. bom[n] \subseteq bom'[n] /\ (n = to => group.slots \subseteq bom'[n])
        BY <2>2, <2>4, <4>1 DEF IInv, TypeOK
      <4>3. CASE n = to /\ s \in group.slots
        BY <4>2, <4>3
      <4>4. CASE ~ (n = to /\ s \in group.slots)
        BY <2>3, <4>1, <4>2, <4>4 DEF Owned
      <4> QED BY <4>3, <4>4
    <3>2. \A n \in Nodes : n \in Staying => n \in sts'
      BY <2>4 DEF IInv, PassInv
    <3>3. current' \subseteq sts'
      BY <2>1, <2>4 DEF IInv, PassInv
    <3> QED
      BY <2>4, <2>7, <3>1, <3>2, <3>3 DEF PassInv, Dispatching, Grouping, Removing
  <2>17. PlanInv'
    <3>1. Todo' = plan
      BY <2>4 DEF Todo, Grouping
    <3>2. plan \subseteq Todo /\ group \in Todo
      BY <2>2
    <3>3. ASSUME NEW g \in plan, g.from = Nowhere, NEW s \in g.slots, NEW n \in sts
          PROVE  owner'[n][s] # n
      <4>1. s \notin group.slots
        BY <2>1, <2>2, <3>2, <3>3 DEF IInv, PlanInv, from
      <4>2. s \in Slots /\ n \in Nodes
        BY <2>2, <3>3 DEF IInv, TypeOK
      <4>3. owner[n][s] # n
        BY <2>1, <3>2, <3>3 DEF IInv, PlanInv
      <4> QED BY <2>3, <4>1, <4>2, <4>3
    <3> QED
      BY <2>1, <2>4, <3>1, <3>2, <3>3 DEF IInv, PlanInv, Dispatching, Grouping
  <2>18. MoveInv'
    BY <2>4 DEF MoveInv
  <2> QED
    BY <2>9, <2>10, <2>11, <2>12, <2>13, <2>14, <2>15, <2>16, <2>17, <2>18 DEF IInv
<1> QED BY <1>1, <1>2

\* A step inside a group that leaves the owners and what the pass knows alone.
LEMMA SameOwners ==
  ASSUME IInv, pc \in Grouping \ {"addSlots"}, pc' \in Grouping \ {"addSlots"},
         pc \notin {"nodeFrom", "tell"}, pc' \notin {"nodeFrom", "tell"},
         UNCHANGED <<owner, sts, members, passVars, passes, stopped, status>>
  PROVE  PassInv' /\ PlanInv'
<1>1. PassInv'
  <2>1. UNCHANGED <<bom, current, group, i>>
    BY DEF passVars
  <2> QED
    BY <2>1 DEF IInv, PassInv, Grouping, Dispatching, Removing, Owners, Owned
<1>2. PlanInv'
  <2>1. Todo' = Todo /\ UNCHANGED <<current, group, plan>>
    BY DEF Todo, passVars
  <2> QED
    BY <2>1 DEF IInv, PlanInv, Dispatching, from
<1> QED BY <1>1, <1>2

\* Only the marks of a node change.
LEMMA SameKeys ==
  ASSUME IInv, UNCHANGED <<owner, keys, epoch, currentEpoch, acked, sts>>,
         \A n \in Nodes, s \in Slots :
           migrating'[n][s] = migrating[n][s] \/ migrating'[n][s] \in Staying,
         Staying \subseteq Nodes
  PROVE  MarksInv' /\ LoserInv' /\ LeaverInv' /\ SlotOwned' /\ AckedOwned' /\ NoKeyLoss'
<1>1. MarksInv'
  BY DEF IInv, MarksInv
<1>2. LoserInv'
  <2> SUFFICES ASSUME NEW p \in sts, NEW q \in sts, NEW s \in Slots, Loses(p, q, s)
               PROVE  migrating'[p][s] # None /\ KeysIn(p, s) = {}
    BY DEF LoserInv, Loses, Owners, KeysIn
  <2>1. migrating[p][s] # None /\ KeysIn(p, s) = {}
    BY DEF IInv, LoserInv
  <2>2. p \in Nodes
    BY DEF IInv, TypeOK
  <2> QED BY <2>1, <2>2, Basics
<1>3. LeaverInv' /\ SlotOwned' /\ AckedOwned' /\ NoKeyLoss'
  BY DEF IInv, LeaverInv, SlotOwned, AckedOwned, NoKeyLoss
<1> QED BY <1>1, <1>2, <1>3

\* The target starts to import.
LEMMA ImportingStep ==
  ASSUME ~ CmdFails, IInv, Importing PROVE IInv'
<1> USE DEF Importing
<1>1. pc \in Grouping \ {"addSlots"} /\ RedisTypeOK
  BY DEF Grouping, IInv, TypeOK
<1>2. /\ to \in Nodes /\ from \in Nodes /\ group.slots \in SUBSET Slots
      /\ sts \subseteq Nodes /\ Staying \subseteq sts
  BY <1>1, GroupFacts
<1>3. SetImporting(to, group.slots, from)
  OBVIOUS
<1>4. /\ RedisTypeOK'
      /\ UNCHANGED <<owner, migrating, keys, epoch, currentEpoch, acked>>
      /\ \A s \in group.slots : owner[to][s] # to => importing'[to][s] # None
  BY <1>1, <1>2, <1>3, ImportingFacts
<1>5. UNCHANGED <<sts, members, passVars, passes, stopped>>
  BY DEF Goto, Failed
<1>6. MarksInv' /\ LoserInv' /\ LeaverInv' /\ SlotOwned' /\ AckedOwned' /\ NoKeyLoss'
  <2>1. Staying \subseteq Nodes
    BY <1>2
  <2> QED BY <1>4, <1>5, <2>1, SameKeys
<1>7. CASE Failed
  <2>1. TypeOK'
    BY <1>4, <1>7 DEF Failed, IInv, TypeOK, passVars
  <2> QED BY <1>6, <1>7, <2>1, BetweenPasses DEF Failed, IInv
<1>8. CASE group.slots \subseteq AcceptsImporting(to) /\ Goto("migrating")
  <2>1. TypeOK'
    BY <1>4, <1>8 DEF Goto, IInv, TypeOK, passVars
  <2>2. PassInv' /\ PlanInv'
    BY <1>1, <1>4, <1>8, SameOwners DEF Goto, Grouping
  <2>3. MoveInv'
    BY <1>4, <1>8 DEF Goto, MoveInv, passVars, to, AcceptsImporting
  <2> QED BY <1>6, <2>1, <2>2, <2>3 DEF IInv
<1> QED BY <1>7, <1>8

\* The source starts to migrate.
LEMMA MigratingStep ==
  ASSUME ~ CmdFails, IInv, Migrating PROVE IInv'
<1> USE DEF Migrating
<1>1. pc \in Grouping \ {"addSlots"} /\ RedisTypeOK
  BY DEF Grouping, IInv, TypeOK
<1>2. /\ to \in Staying /\ to \in Nodes /\ from \in Nodes /\ group.slots \in SUBSET Slots
      /\ sts \subseteq Nodes /\ Staying \subseteq sts
  BY <1>1, GroupFacts
<1>3. SetMigrating(from, group.slots, to)
  OBVIOUS
<1>4. /\ RedisTypeOK'
      /\ UNCHANGED <<owner, importing, keys, epoch, currentEpoch, acked>>
      /\ \A m \in Nodes, r \in Slots :
           \/ migrating'[m][r] = migrating[m][r]
           \/ m = from /\ r \in group.slots /\ migrating'[m][r] = to
      /\ \A s \in group.slots : owner[from][s] = from => migrating'[from][s] = to
  <2>1. PICK f \in Nodes, t \in Nodes, S \in SUBSET Slots : f = from /\ t = to /\ S = group.slots
    BY <1>2
  <2>2. SetMigrating(f, S, t)
    BY <1>3, <2>1
  <2>3. /\ RedisTypeOK'
        /\ UNCHANGED <<owner, importing, keys, epoch, currentEpoch, acked>>
        /\ \A m \in Nodes, r \in Slots : \/ migrating'[m][r] = migrating[m][r]
                                         \/ m = f /\ r \in S /\ migrating'[m][r] = t
        /\ \A s \in S : owner[f][s] = f => migrating'[f][s] = t
    <3> HIDE DEF Migrating
    <3>1. RedisTypeOK
      BY <1>1
    <3> QED BY <2>2, <3>1, MigratingFacts
  <2> QED BY <2>1, <2>3
<1>5. UNCHANGED <<sts, members, passVars, passes, stopped>>
  BY DEF Goto, Failed
<1>6. MarksInv' /\ LoserInv' /\ LeaverInv' /\ SlotOwned' /\ AckedOwned' /\ NoKeyLoss'
  <2>1. Staying \subseteq Nodes
    BY <1>2
  <2> QED BY <1>2, <1>4, <1>5, <2>1, SameKeys
<1>7. CASE Failed
  <2>1. TypeOK'
    BY <1>4, <1>7 DEF Failed, IInv, TypeOK, passVars
  <2> QED BY <1>6, <1>7, <2>1, BetweenPasses DEF Failed, IInv
<1>8. CASE group.slots \subseteq AcceptsMigrating(from) /\ Goto("keys")
  <2>1. TypeOK'
    BY <1>4, <1>8 DEF Goto, IInv, TypeOK, passVars
  <2>2. PassInv' /\ PlanInv'
    BY <1>1, <1>4, <1>8, SameOwners DEF Goto, Grouping
  <2>3. MoveInv'
    BY <1>4, <1>8 DEF Goto, IInv, MoveInv, passVars, from, to, AcceptsMigrating
  <2> QED BY <1>6, <2>1, <2>2, <2>3 DEF IInv
<1> QED BY <1>7, <1>8

\* The keys of the group move, one after the other.
LEMMA MigrateKeysStep ==
  ASSUME ~ CmdFails, IInv, MigrateKeys PROVE IInv'
<1> USE DEF MigrateKeys
<1>1. pc \in Grouping \ {"addSlots"} /\ RedisTypeOK /\ pc = "keys"
  BY DEF Grouping, IInv, TypeOK
<1>2. /\ to \in Staying /\ to \in Nodes /\ from \in Nodes /\ group.slots \in SUBSET Slots
      /\ sts \subseteq Nodes /\ Staying \subseteq sts /\ from # to /\ to \in sts
  BY <1>1, GroupFacts
<1>3. \A s \in group.slots : /\ importing[to][s] # None /\ owner[to][s] # to
                             /\ owner[from][s] = from /\ migrating[from][s] = to
  BY <1>1 DEF IInv, MoveInv
<1>4. CASE GroupKeys = {} /\ UNCHANGED redisVars /\ Goto("nodeTo")
  <2>1. TypeOK'
    BY <1>4, SameCluster DEF Goto, IInv, TypeOK, passVars
  <2>2. PassInv' /\ PlanInv'
    BY <1>1, <1>4, SameOwners DEF Goto, Grouping, redisVars
  <2>3. MoveInv'
    BY <1>3, <1>4 DEF Goto, MoveInv, passVars, from, to, redisVars, GroupKeys
  <2> QED BY <1>4, <2>1, <2>2, <2>3, SameCluster DEF IInv, Goto
<1>5. ASSUME NEW k \in GroupKeys, Migrate(from, to, k), Goto("keys") PROVE IInv'
  <2>1. UNCHANGED <<owner, migrating, importing, epoch, currentEpoch, acked, sts, group>>
    BY <1>5 DEF Migrate, Goto, tables, passVars
  <2>2. k \in Keys /\ SlotOf[k] \in group.slots
    BY <1>1, <1>2, <1>5 DEF GroupKeys, RedisTypeOK
  <2>3. keys' \in [Nodes -> SUBSET Keys] /\ RedisTypeOK'
    BY <1>1, <1>2, <1>5, <2>1, <2>2 DEF Migrate, RedisTypeOK
  <2>4. \A n \in Nodes : /\ n = from => keys'[n] = keys[n] \ {k}
                         /\ n = to => keys'[n] = keys[n] \cup {k}
                         /\ n # from /\ n # to => keys'[n] = keys[n]
    BY <1>1, <1>2, <1>5 DEF Migrate, RedisTypeOK
  <2>5. TypeOK'
    BY <1>5, <2>3 DEF Goto, IInv, TypeOK, passVars
  <2>6. MarksInv'
    BY <2>1 DEF IInv, MarksInv
  <2>7. LoserInv'
    <3> SUFFICES ASSUME NEW p \in sts, NEW q \in sts, NEW s \in Slots, Loses(p, q, s)
                 PROVE  FALSE
      BY <2>1 DEF LoserInv, Loses, Owners
    <3> QED BY <1>1 DEF IInv, PassInv, Loses
  <2>8. LeaverInv'
    <3> SUFFICES ASSUME NEW n \in sts \ Staying, NEW j \in keys'[n] PROVE owner[n][SlotOf[j]] = n
      BY <2>1 DEF LeaverInv
    <3>1. n \in Nodes /\ n # to
      BY <1>2
    <3>2. j \in keys[n]
      BY <2>4, <3>1
    <3> QED BY <3>2 DEF IInv, LeaverInv
  <2>9. SlotOwned' /\ AckedOwned'
    BY <2>1 DEF IInv, SlotOwned, AckedOwned
  <2>10. NoKeyLoss'
    <3> SUFFICES ASSUME NEW j \in acked PROVE \E n \in sts : j \in keys'[n]
      BY <2>1 DEF NoKeyLoss
    <3>1. PICK n \in sts : j \in keys[n]
      BY DEF IInv, NoKeyLoss
    <3>2. CASE j = k
      BY <1>2, <2>4, <3>2
    <3>3. CASE j # k
      BY <1>2, <2>4, <3>1, <3>3
    <3> QED BY <3>2, <3>3
  <2>11. PassInv' /\ PlanInv'
    BY <1>1, <1>5, <2>1, SameOwners DEF Goto, Grouping
  <2>12. MoveInv'
    BY <1>3, <1>5, <2>1 DEF Goto, MoveInv, passVars, from, to
  <2> QED
    BY <2>5, <2>6, <2>7, <2>8, <2>9, <2>10, <2>11, <2>12 DEF IInv
<1>6. ASSUME NEW k \in GroupKeys PROVE AcceptsRestore(to, SlotOf[k])
  BY <1>3, <1>6 DEF GroupKeys, AcceptsRestore
<1> QED BY <1>4, <1>5, <1>6

\* SETSLOT NODE on the target: it owns the slots of the group, with the
\* highest configEpoch, and the source is about to lose them.
LEMMA NodeToStep ==
  ASSUME ~ CmdFails, IInv, NodeTo PROVE IInv'
<1> USE DEF NodeTo
<1>1. pc \in Grouping \ {"addSlots"} /\ RedisTypeOK /\ pc = "nodeTo" /\ pc \in Dispatching
  BY DEF Grouping, Dispatching, IInv, TypeOK
<1>2. /\ to \in Staying /\ to \in Nodes /\ from \in Nodes /\ group.slots \in SUBSET Slots
      /\ sts \subseteq Nodes /\ Staying \subseteq sts /\ from # to /\ to \in sts /\ from \in sts
      /\ group.slots # {} /\ group \notin plan /\ Todo = plan \cup {group}
  BY <1>1, GroupFacts
<1>3. \A s \in group.slots : /\ importing[to][s] # None /\ owner[to][s] # to
                             /\ owner[from][s] = from /\ migrating[from][s] = to
  BY <1>1 DEF IInv, MoveInv
<1>4. GroupKeys = {}
  BY <1>1 DEF IInv, MoveInv
<1>5. SetNode(to, group.slots, to) /\ Goto("nodeFrom")
  OBVIOUS
<1>6. /\ RedisTypeOK'
      /\ UNCHANGED <<keys, acked>>
      /\ \A m \in Nodes, r \in Slots : m # to \/ r \notin group.slots =>
           /\ owner'[m][r] = owner[m][r]
           /\ migrating'[m][r] = migrating[m][r]
           /\ importing'[m][r] = importing[m][r]
      /\ \A s \in group.slots : owner'[to][s] = to
      /\ \A m \in Nodes, r \in Slots : migrating'[m][r] \in {None, migrating[m][r]}
      /\ \A m \in Nodes : m # to => epoch'[m] = epoch[m]
      /\ \/ UNCHANGED <<epoch, currentEpoch>>
         \/ currentEpoch' = currentEpoch + 1 /\ epoch'[to] = currentEpoch + 1
      /\ (\E s \in group.slots : importing[to][s] # None) => epoch'[to] = currentEpoch'
  <2>1. PICK t \in Nodes, S \in SUBSET Slots : t = to /\ S = group.slots
    BY <1>2
  <2>2. SetNode(t, S, t)
    BY <1>5, <2>1
  <2>3. /\ RedisTypeOK'
        /\ UNCHANGED <<keys, acked>>
        /\ \A m \in Nodes, r \in Slots : m # t \/ r \notin S =>
             /\ owner'[m][r] = owner[m][r]
             /\ migrating'[m][r] = migrating[m][r]
             /\ importing'[m][r] = importing[m][r]
        /\ \A s \in S : owner'[t][s] = t
        /\ \A m \in Nodes, r \in Slots : migrating'[m][r] \in {None, migrating[m][r]}
        /\ \A m \in Nodes : m # t => epoch'[m] = epoch[m]
        /\ \/ UNCHANGED <<epoch, currentEpoch>>
           \/ currentEpoch' = currentEpoch + 1 /\ epoch'[t] = currentEpoch + 1
        /\ (\E s \in S : importing[t][s] # None) => epoch'[t] = currentEpoch'
    <3> HIDE DEF NodeTo
    <3>1. RedisTypeOK
      BY <1>1
    <3> QED BY <2>2, <3>1, TakeFacts, Zenon
  <2> QED BY <2>1, <2>3
<1>7. /\ pc' = "nodeFrom" /\ passes' = passes /\ stopped' = stopped /\ status' = status
      /\ UNCHANGED <<sts, members, bom, current, plan, group, rest, i>>
  BY <1>5 DEF Goto, passVars
<1>8. \A p, q \in sts, s \in Slots : ~ Owners(p, q, s)
  BY <1>1 DEF IInv, PassInv
<1>9. \A p \in sts, s \in Slots : owner[p][s] = p => owner'[p][s] = p
  BY <1>2, <1>6
<1>10. ASSUME NEW p \in sts, NEW q \in sts, NEW s \in Slots, Owners(p, q, s)'
       PROVE  s \in group.slots /\ {p, q} = {from, to}
  <2>1. p \in Nodes /\ q \in Nodes /\ p # q /\ owner'[p][s] = p /\ owner'[q][s] = q
    BY <1>2, <1>10 DEF Owners
  <2>2. s \in group.slots
    BY <1>6, <1>8, <2>1 DEF Owners
  <2>3. \A x \in sts : owner[x][s] = x => x = from
    BY <1>2, <1>3, <1>8, <2>2 DEF Owners
  <2>4. p \in {from, to} /\ q \in {from, to}
    BY <1>6, <2>1, <2>3
  <2> QED BY <2>1, <2>2, <2>4
<1>11. epoch'[to] = currentEpoch'
  BY <1>2, <1>3, <1>6
<1>12. /\ \A n \in Nodes : epoch'[n] > 0 /\ epoch'[n] <= currentEpoch'
       /\ \A m, n \in Nodes : epoch'[m] = epoch'[n] => m = n
       /\ epoch'[from] < epoch'[to]
  <2>1. epoch \in [Nodes -> Nat] /\ currentEpoch \in Nat
    BY <1>1 DEF RedisTypeOK
  <2>2. /\ \A n \in Nodes : epoch[n] > 0 /\ epoch[n] <= currentEpoch
        /\ \A m, n \in Nodes : epoch[m] = epoch[n] => m = n
    BY DEF IInv, MarksInv
  <2>3. CASE UNCHANGED <<epoch, currentEpoch>>
    BY <1>2, <1>11, <2>1, <2>2, <2>3
  <2>4. CASE currentEpoch' = currentEpoch + 1 /\ epoch'[to] = currentEpoch + 1
    BY <1>2, <1>6, <2>1, <2>2, <2>4
  <2> QED BY <1>6, <2>3, <2>4
<1>13. TypeOK'
  BY <1>6, <1>7 DEF IInv, TypeOK
<1>14. MarksInv'
  BY <1>6, <1>12 DEF IInv, MarksInv
<1>15. LoserInv'
  <2> SUFFICES ASSUME NEW p \in sts, NEW q \in sts, NEW s \in Slots, Loses(p, q, s)'
               PROVE  migrating'[p][s] # None /\ KeysIn(p, s)' = {}
    BY <1>7 DEF LoserInv
  <2>1. s \in group.slots /\ {p, q} = {from, to} /\ epoch'[p] < epoch'[q]
    BY <1>10 DEF Loses
  <2>2. p = from /\ q = to
    <3>1. epoch'[from] \in Nat /\ epoch'[to] \in Nat
      BY <1>2, <1>6 DEF RedisTypeOK
    <3>2. ~ (epoch'[to] < epoch'[from]) /\ ~ (epoch'[from] < epoch'[from]) /\ ~ (epoch'[to] < epoch'[to])
      BY <1>12, <3>1
    <3> QED BY <2>1, <3>2
  <2>3. migrating'[from][s] = to
    BY <1>2, <1>3, <1>6, <2>1
  <2>4. KeysIn(from, s) = {}
    BY <1>4, <2>1 DEF GroupKeys, KeysIn
  <2> QED
    BY <1>2, <1>6, <2>2, <2>3, <2>4, Basics DEF KeysIn
<1>16. LeaverInv'
  <2> SUFFICES ASSUME NEW n \in sts \ Staying, NEW k \in keys[n] PROVE owner'[n][SlotOf[k]] = n
    BY <1>6, <1>7 DEF LeaverInv
  <2>1. SlotOf[k] \in Slots
    BY <1>1, <1>2, RedisAssumption DEF RedisTypeOK
  <2>2. owner[n][SlotOf[k]] = n
    BY DEF IInv, LeaverInv
  <2> QED BY <1>9, <2>1, <2>2
<1>17. SlotOwned'
  <2> SUFFICES ASSUME NEW s \in Slots, NEW n \in sts, owner'[n][s] # None
               PROVE  \E m \in sts : owner'[m][s] = m
    BY <1>7 DEF SlotOwned
  <2>1. CASE s \in group.slots
    BY <1>2, <1>6, <2>1
  <2>2. CASE s \notin group.slots
    <3>1. owner[n][s] # None
      BY <1>2, <1>6, <2>2
    <3>2. PICK m \in sts : owner[m][s] = m
      BY <3>1 DEF IInv, SlotOwned
    <3> QED BY <1>9, <3>2
  <2> QED BY <2>1, <2>2
<1>18. AckedOwned'
  <2> SUFFICES ASSUME NEW k \in acked PROVE \E n \in sts : owner'[n][SlotOf[k]] = n
    BY <1>6, <1>7 DEF AckedOwned
  <2>1. SlotOf[k] \in Slots
    BY <1>1, RedisAssumption DEF RedisTypeOK
  <2>2. PICK n \in sts : owner[n][SlotOf[k]] = n
    BY DEF IInv, AckedOwned
  <2> QED BY <1>9, <2>1, <2>2
<1>19. NoKeyLoss'
  BY <1>6, <1>7 DEF IInv, NoKeyLoss
<1>20. PassInv'
  <2>1. ASSUME NEW n \in sts
        PROVE  Owned(n)' \subseteq bom'[n] \cup (IF n = to THEN group.slots ELSE {})
    <3> SUFFICES ASSUME NEW s \in Slots, owner'[n][s] = n, ~ (n = to /\ s \in group.slots)
                 PROVE  s \in bom'[n]
      BY DEF Owned
    <3>1. owner[n][s] = n
      BY <1>2, <1>6
    <3>2. Owned(n) \subseteq bom[n]
      BY <1>1 DEF IInv, PassInv
    <3> QED BY <1>7, <3>1, <3>2 DEF Owned
  <2>2. \A n \in Nodes : n \in Staying => n \in sts'
    BY <1>7 DEF IInv, PassInv
  <2>3. current' \subseteq sts'
    BY <1>1, <1>7 DEF IInv, PassInv
  <2>4. to' = to /\ from' = from
    BY <1>7 DEF from, to
  <2> QED
    BY <1>7, <1>10, <2>1, <2>2, <2>3, <2>4 DEF PassInv, Dispatching, Grouping, Removing
<1>21. PlanInv'
  <2>1. Todo' = Todo
    BY <1>1, <1>7 DEF Todo, Grouping
  <2>2. ASSUME NEW g \in Todo, g.from = Nowhere, NEW s \in g.slots, NEW n \in sts
        PROVE  owner'[n][s] # n
    <3>1. g # group
      <4>1. from # Nowhere
        BY <1>1, GroupFacts
      <4> QED BY <2>2, <4>1 DEF from
    <3>2. s \notin group.slots
      BY <1>1, <1>2, <2>2, <3>1 DEF IInv, PlanInv
    <3>3. s \in Slots /\ n \in Nodes
      BY <1>2, <2>2, <3>1 DEF IInv, TypeOK
    <3>4. owner[n][s] # n
      BY <1>1, <2>2 DEF IInv, PlanInv
    <3> QED BY <1>6, <3>2, <3>3, <3>4
  <2>3. pc' \in Grouping /\ pc' # "addSlots" /\ from' = from
    BY <1>7 DEF Grouping, from
  <2> QED
    BY <1>1, <1>2, <1>7, <2>1, <2>2, <2>3 DEF IInv, PlanInv, Dispatching, Grouping
<1>22. MoveInv'
  <2>1. from' = from /\ to' = to
    BY <1>7 DEF from, to
  <2>2. \A s \in group.slots : migrating'[from][s] = to
    BY <1>2, <1>3, <1>6
  <2> QED BY <1>6, <1>7, <1>12, <2>1, <2>2 DEF MoveInv
<1> QED
  BY <1>13, <1>14, <1>15, <1>16, <1>17, <1>18, <1>19, <1>20, <1>21, <1>22 DEF IInv


\* SETSLOT NODE, to the owner of the slots, on a node m that has no key in
\* those of them it owns itself.
LEMMA HandOver ==
  ASSUME IInv, pc \in {"nodeFrom", "tell"}, NEW m \in sts, m # to,
         \A s \in group.slots : owner[m][s] = m => KeysIn(m, s) = {},
         SetNode(m, group.slots, to), UNCHANGED <<sts, group, plan>>
  PROVE  /\ RedisTypeOK' /\ MarksInv' /\ LeaverInv' /\ SlotOwned' /\ AckedOwned' /\ NoKeyLoss'
         /\ UNCHANGED <<keys, acked, epoch, currentEpoch>>
         /\ \A n \in Nodes, r \in Slots : n # m \/ r \notin group.slots =>
              /\ owner'[n][r] = owner[n][r]
              /\ migrating'[n][r] = migrating[n][r]
         /\ \A s \in group.slots : owner'[m][s] = to
         /\ \A s \in group.slots : KeysIn(m, s) = {} => migrating'[m][s] = None
         /\ \A s \in group.slots : owner'[to][s] = to
         /\ \A n \in sts, s \in Slots : owner'[n][s] = n => owner[n][s] = n
<1>1. pc \in Grouping \ {"addSlots"} /\ RedisTypeOK /\ pc \in Dispatching
  BY DEF Grouping, Dispatching, IInv, TypeOK
<1>2. /\ to \in Staying /\ to \in Nodes /\ to \in sts /\ group.slots \in SUBSET Slots
      /\ sts \subseteq Nodes /\ Staying \subseteq sts /\ m \in Nodes
  BY <1>1, GroupFacts
<1>3. /\ RedisTypeOK'
      /\ UNCHANGED <<keys, acked, epoch, currentEpoch>>
      /\ \A n \in Nodes, r \in Slots : n # m \/ r \notin group.slots =>
           /\ owner'[n][r] = owner[n][r]
           /\ migrating'[n][r] = migrating[n][r]
      /\ \A s \in group.slots : owner'[m][s] = to
      /\ \A s \in group.slots : KeysIn(m, s) = {} => migrating'[m][s] = None
      /\ \A n \in Nodes, r \in Slots : migrating'[n][r] \in {None, migrating[n][r]}
  <2>1. PICK t \in Nodes, S \in SUBSET Slots : t = to /\ S = group.slots
    BY <1>2
  <2>2. SetNode(m, S, t) /\ t # m /\ \A s \in S : owner[m][s] = m => KeysIn(m, s) = {}
    BY <2>1
  <2>3. /\ RedisTypeOK'
        /\ UNCHANGED <<keys, acked, epoch, currentEpoch>>
        /\ \A n \in Nodes, r \in Slots : n # m \/ r \notin S =>
             /\ owner'[n][r] = owner[n][r]
             /\ migrating'[n][r] = migrating[n][r]
        /\ \A s \in S : owner'[m][s] = t
        /\ \A s \in S : KeysIn(m, s) = {} => migrating'[m][s] = None
        /\ \A n \in Nodes, r \in Slots : migrating'[n][r] \in {None, migrating[n][r]}
    <3>1. RedisTypeOK /\ m \in Nodes
      BY <1>1, <1>2
    <3>2. /\ RedisTypeOK'
          /\ UNCHANGED <<keys, acked, epoch, currentEpoch>>
          /\ \A n \in Nodes, r \in Slots : n # m \/ r \notin S =>
               /\ owner'[n][r] = owner[n][r]
               /\ migrating'[n][r] = migrating[n][r]
               /\ importing'[n][r] = importing[n][r]
          /\ \A s \in S : owner'[m][s] = t
          /\ \A s \in S : KeysIn(m, s) = {} => migrating'[m][s] = None
          /\ \A n \in Nodes, r \in Slots : migrating'[n][r] \in {None, migrating[n][r]}
      BY <2>2, <3>1, GiveFacts, Zenon
    <3> QED BY <3>2
  <2> QED BY <2>1, <2>3
<1>4. \A s \in group.slots : owner'[to][s] = to
  <2>1. \A s \in group.slots : owner[to][s] = to
    BY DEF IInv, MoveInv
  <2> QED BY <1>2, <1>3, <2>1
<1>5. \A n \in sts, s \in Slots : owner'[n][s] = n => owner[n][s] = n
  BY <1>2, <1>3
<1>6. MarksInv'
  BY <1>3 DEF IInv, MarksInv
<1>7. LeaverInv'
  <2> SUFFICES ASSUME NEW n \in sts \ Staying, NEW k \in keys[n] PROVE owner'[n][SlotOf[k]] = n
    BY <1>3 DEF LeaverInv
  <2>1. SlotOf[k] \in Slots /\ n \in Nodes
    BY <1>1, <1>2, RedisAssumption DEF RedisTypeOK
  <2>2. owner[n][SlotOf[k]] = n
    BY DEF IInv, LeaverInv
  <2>3. n # m \/ SlotOf[k] \notin group.slots
    BY <2>2 DEF KeysIn
  <2> QED BY <1>3, <2>1, <2>2, <2>3
<1>8. SlotOwned'
  <2> SUFFICES ASSUME NEW s \in Slots, NEW n \in sts, owner'[n][s] # None
               PROVE  \E x \in sts : owner'[x][s] = x
    BY DEF SlotOwned
  <2>1. CASE s \in group.slots
    BY <1>2, <1>4, <2>1
  <2>2. CASE s \notin group.slots
    <3>1. owner[n][s] # None
      BY <1>2, <1>3, <2>2
    <3>2. PICK x \in sts : owner[x][s] = x
      BY <3>1 DEF IInv, SlotOwned
    <3> QED BY <1>2, <1>3, <2>2, <3>2
  <2> QED BY <2>1, <2>2
<1>9. AckedOwned'
  <2> SUFFICES ASSUME NEW k \in acked PROVE \E n \in sts : owner'[n][SlotOf[k]] = n
    BY <1>3 DEF AckedOwned
  <2>1. SlotOf[k] \in Slots
    BY <1>1, RedisAssumption DEF RedisTypeOK
  <2>2. PICK n \in sts : owner[n][SlotOf[k]] = n
    BY DEF IInv, AckedOwned
  <2>3. CASE SlotOf[k] \in group.slots
    BY <1>2, <1>4, <2>3
  <2>4. CASE SlotOf[k] \notin group.slots
    BY <1>2, <1>3, <2>1, <2>2, <2>4
  <2> QED BY <2>3, <2>4
<1>10. NoKeyLoss'
  BY <1>3 DEF IInv, NoKeyLoss
<1> QED BY <1>3, <1>4, <1>5, <1>6, <1>7, <1>8, <1>9, <1>10

\* The plan while the slots of the group are handed over.
LEMMA HandOverPlan ==
  ASSUME IInv, pc \in {"nodeFrom", "tell"}, pc' = "tell", UNCHANGED <<sts, current, group, plan>>,
         \A n \in sts, s \in Slots : owner'[n][s] = n => owner[n][s] = n
  PROVE  PlanInv'
<1>1. pc \in Grouping /\ pc \in Dispatching
  BY DEF Grouping, Dispatching
<1>2. Todo' = Todo /\ Todo = plan \cup {group} /\ from' = from
  BY <1>1 DEF Todo, Grouping, from
<1>3. ASSUME NEW g \in Todo, g.from = Nowhere, NEW s \in g.slots, NEW n \in sts
      PROVE  owner'[n][s] # n
  <2>1. s \in Slots
    BY <1>2, <1>3 DEF IInv, TypeOK
  <2>2. owner[n][s] # n
    BY <1>1, <1>3 DEF IInv, PlanInv
  <2> QED BY <2>1, <2>2
<1> QED
  BY <1>1, <1>2, <1>3 DEF IInv, PlanInv, Dispatching, Grouping

\* SETSLOT NODE on the source, which has no key left.
LEMMA NodeFromStep ==
  ASSUME ~ CmdFails, IInv, NodeFrom PROVE IInv'
<1> USE DEF NodeFrom
<1>1. pc \in Grouping \ {"addSlots"} /\ RedisTypeOK /\ pc = "nodeFrom" /\ pc \in Dispatching
  BY DEF Grouping, Dispatching, IInv, TypeOK
<1>2. /\ to \in Staying /\ to \in Nodes /\ from \in Nodes /\ group.slots \in SUBSET Slots
      /\ sts \subseteq Nodes /\ Staying \subseteq sts /\ from # to /\ to \in sts /\ from \in sts
      /\ current \subseteq sts
  BY <1>1, GroupFacts
<1>3. SetNode(from, group.slots, to)
  OBVIOUS
<1>4. /\ pc' = "tell" /\ UNCHANGED <<sts, members, current, plan, group, i, status, passes, stopped>>
      /\ bom' = [bom EXCEPT ![from] = @ \ group.slots]
      /\ rest' = {m \in (current \cup 0 .. Expect - 1) \ {from, to} : bom'[m] # {}}
  OBVIOUS
<1> HIDE DEF NodeFrom
<1>5. \A s \in group.slots : owner[from][s] = from => KeysIn(from, s) = {}
  <2> SUFFICES ASSUME NEW s \in group.slots, owner[from][s] = from PROVE KeysIn(from, s) = {}
    OBVIOUS
  <2>1. owner[to][s] = to /\ epoch[from] < epoch[to]
    BY <1>1 DEF IInv, MoveInv
  <2>2. Loses(from, to, s)
    BY <1>2, <2>1 DEF Loses, Owners
  <2> QED BY <1>2, <2>2 DEF IInv, LoserInv
<1>6. /\ RedisTypeOK' /\ MarksInv' /\ LeaverInv' /\ SlotOwned' /\ AckedOwned' /\ NoKeyLoss'
      /\ UNCHANGED <<keys, acked, epoch, currentEpoch>>
      /\ \A s \in group.slots : owner'[from][s] = to
      /\ \A s \in group.slots : owner'[to][s] = to
      /\ \A n \in sts, s \in Slots : owner'[n][s] = n => owner[n][s] = n
  <2>1. PICK f \in sts : f = from
    BY <1>2
  <2>2. /\ f # to /\ \A s \in group.slots : owner[f][s] = f => KeysIn(f, s) = {}
        /\ SetNode(f, group.slots, to)
    BY <1>2, <1>3, <1>5, <2>1
  <2>3. /\ RedisTypeOK' /\ MarksInv' /\ LeaverInv' /\ SlotOwned' /\ AckedOwned' /\ NoKeyLoss'
        /\ UNCHANGED <<keys, acked, epoch, currentEpoch>>
        /\ \A s \in group.slots : owner'[f][s] = to
        /\ \A s \in group.slots : owner'[to][s] = to
        /\ \A n \in sts, s \in Slots : owner'[n][s] = n => owner[n][s] = n
    BY <1>1, <1>4, <2>2, HandOver
  <2> QED BY <2>1, <2>3
<1>7. \A p, q \in sts, s \in Slots : ~ Owners(p, q, s)'
  <2> SUFFICES ASSUME NEW p \in sts, NEW q \in sts, NEW s \in Slots, p # q,
                      owner'[p][s] = p, owner'[q][s] = q
               PROVE  FALSE
    BY DEF Owners
  <2>1. Owners(p, q, s)
    BY <1>6 DEF Owners
  <2>2. s \in group.slots /\ {p, q} = {from, to}
    BY <1>1, <2>1 DEF IInv, PassInv
  <2>3. p = from \/ q = from
    BY <2>2
  <2> QED BY <1>2, <1>6, <2>2, <2>3
<1>8. LoserInv'
  BY <1>4, <1>7 DEF LoserInv, Loses
<1>9. rest' \subseteq sts \ {from, to}
  BY <1>2, <1>4 DEF Staying
<1>10. TypeOK'
  <2>1. bom' \in [Nodes -> SUBSET Slots] /\ rest' \in SUBSET Nodes
    BY <1>2, <1>4, <1>9 DEF IInv, TypeOK
  <2> QED BY <1>4, <1>6, <2>1 DEF IInv, TypeOK
<1>11. PassInv'
  <2>1. ASSUME NEW n \in sts
        PROVE  Owned(n)' \subseteq bom'[n] \cup (IF n = to THEN group.slots ELSE {})
    <3> SUFFICES ASSUME NEW s \in Slots, owner'[n][s] = n, ~ (n = to /\ s \in group.slots)
                 PROVE  s \in bom'[n]
      BY DEF Owned
    <3>1. owner[n][s] = n
      BY <1>6
    <3>2. Owned(n) \subseteq bom[n] \cup (IF n = to THEN group.slots ELSE {})
      BY <1>1 DEF IInv, PassInv
    <3>3. s \in bom[n]
      BY <3>1, <3>2 DEF Owned
    <3>4. n # from \/ s \notin group.slots
      BY <1>2, <1>6
    <3> QED BY <1>2, <1>4, <3>3, <3>4 DEF IInv, TypeOK
  <2>2. \A n \in Nodes : n \in Staying => n \in sts'
    BY <1>4 DEF IInv, PassInv
  <2>3. to' = to /\ from' = from /\ current' \subseteq sts'
    BY <1>2, <1>4 DEF from, to
  <2> QED
    BY <1>4, <1>7, <2>1, <2>2, <2>3 DEF PassInv, Dispatching, Grouping, Removing
<1>12. PlanInv'
  BY <1>1, <1>4, <1>6, HandOverPlan
<1>13. MoveInv'
  BY <1>4, <1>6, <1>9 DEF MoveInv, from, to
<1> QED BY <1>6, <1>8, <1>10, <1>11, <1>12, <1>13 DEF IInv

\* SETSLOT NODE on another master, which owns none of the slots.
LEMMA TellStep ==
  ASSUME ~ CmdFails, IInv, Tell PROVE IInv'
<1> USE DEF Tell
<1>1. pc \in Grouping \ {"addSlots"} /\ RedisTypeOK /\ pc = "tell" /\ pc \in Dispatching
  BY DEF Grouping, Dispatching, IInv, TypeOK
<1>2. /\ to \in Staying /\ to \in Nodes /\ group.slots \in SUBSET Slots
      /\ sts \subseteq Nodes /\ Staying \subseteq sts /\ to \in sts /\ current \subseteq sts
  BY <1>1, GroupFacts
<1>3. PICK m \in rest : SetNode(m, group.slots, to) /\ rest' = rest \ {m}
  OBVIOUS
<1>4. /\ pc' = pc
      /\ UNCHANGED <<sts, members, bom, current, plan, group, i, status, passes, stopped>>
  OBVIOUS
<1> HIDE DEF Tell
<1>5. rest \subseteq sts \ {from, to}
  BY <1>1 DEF IInv, MoveInv
<1>6. \A p, q \in sts, s \in Slots : ~ Owners(p, q, s)
  BY <1>1 DEF IInv, PassInv
<1>7. \A s \in group.slots : owner[m][s] # m
  <2>1. \A s \in group.slots : owner[to][s] = to
    BY <1>1 DEF IInv, MoveInv
  <2> QED BY <1>2, <1>5, <1>6, <2>1 DEF Owners
<1>8. /\ RedisTypeOK' /\ MarksInv' /\ LeaverInv' /\ SlotOwned' /\ AckedOwned' /\ NoKeyLoss'
      /\ UNCHANGED <<keys, acked, epoch, currentEpoch>>
      /\ \A s \in group.slots : owner'[to][s] = to
      /\ \A n \in sts, s \in Slots : owner'[n][s] = n => owner[n][s] = n
  <2>1. m \in sts /\ m # to /\ pc \in {"nodeFrom", "tell"}
    BY <1>1, <1>5
  <2> QED BY <1>3, <1>4, <1>7, <2>1, HandOver
<1>9. \A p, q \in sts, s \in Slots : ~ Owners(p, q, s)'
  BY <1>6, <1>8 DEF Owners
<1>10. LoserInv'
  BY <1>4, <1>9 DEF LoserInv, Loses
<1>11. TypeOK'
  BY <1>3, <1>4, <1>8 DEF IInv, TypeOK
<1>12. PassInv'
  <2>1. ASSUME NEW n \in sts
        PROVE  Owned(n)' \subseteq bom'[n] \cup (IF n = to THEN group.slots ELSE {})
    <3>1. Owned(n) \subseteq bom[n] \cup (IF n = to THEN group.slots ELSE {})
      BY <1>1 DEF IInv, PassInv
    <3> QED BY <1>4, <1>8, <3>1 DEF Owned
  <2>2. \A n \in Nodes : n \in Staying => n \in sts'
    BY <1>4 DEF IInv, PassInv
  <2>3. to' = to /\ from' = from /\ current' \subseteq sts' /\ pc' = "tell"
    BY <1>1, <1>2, <1>4 DEF from, to
  <2> QED
    BY <1>4, <1>9, <2>1, <2>2, <2>3 DEF PassInv, Dispatching, Grouping, Removing
<1>13. PlanInv'
  BY <1>1, <1>4, <1>8, HandOverPlan
<1>14. MoveInv'
  BY <1>1, <1>3, <1>4, <1>5, <1>8 DEF MoveInv, from, to
<1> QED BY <1>8, <1>10, <1>11, <1>12, <1>13, <1>14 DEF IInv

\* The group is done.
LEMMA EndGroupStep ==
  ASSUME IInv, EndGroup PROVE IInv'
<1> USE DEF EndGroup
<1>1. pc \in Grouping \ {"addSlots"} /\ pc = "tell" /\ pc \in Dispatching
  BY DEF Grouping, Dispatching
<1>2. /\ to \in Nodes /\ group.slots \in SUBSET Slots /\ current \subseteq sts /\ sts \subseteq Nodes
      /\ Todo = plan \cup {group}
  BY <1>1, GroupFacts
<1>3. /\ pc' = "dispatch" /\ bom' = [bom EXCEPT ![to] = @ \cup group.slots]
      /\ UNCHANGED <<redisVars, sts, members, current, plan, group, rest, i, status, passes, stopped>>
  BY DEF GroupDone
<1> HIDE DEF EndGroup
<1>4. RedisTypeOK' /\ owner' = owner /\ sts' = sts
  BY <1>3, SameCluster DEF redisVars
<1>5. TypeOK'
  <2>1. bom' \in [Nodes -> SUBSET Slots]
    BY <1>2, <1>3 DEF IInv, TypeOK
  <2> QED BY <1>3, <1>4, <2>1 DEF IInv, TypeOK
<1>6. PassInv'
  <2>1. ASSUME NEW n \in sts PROVE Owned(n)' \subseteq bom'[n]
    <3>1. Owned(n) \subseteq bom[n] \cup (IF n = to THEN group.slots ELSE {})
      BY <1>1 DEF IInv, PassInv
    <3>2. bom[n] \cup (IF n = to THEN group.slots ELSE {}) \subseteq bom'[n]
      BY <1>2, <1>3 DEF IInv, TypeOK
    <3> QED BY <1>4, <3>1, <3>2 DEF Owned
  <2>2. \A n \in Nodes : n \in Staying => n \in sts'
    BY <1>3 DEF IInv, PassInv
  <2>3. \A p, q \in sts, s \in Slots : ~ Owners(p, q, s)'
    BY <1>1, <1>4 DEF IInv, PassInv, Owners
  <2> QED
    BY <1>2, <1>3, <2>1, <2>2, <2>3 DEF PassInv, Dispatching, Grouping, Removing
<1>7. PlanInv'
  <2>1. Todo' = plan /\ plan \subseteq Todo
    BY <1>2, <1>3 DEF Todo, Grouping
  <2> QED
    BY <1>1, <1>3, <1>4, <2>1 DEF IInv, PlanInv, Dispatching, Grouping
<1>8. MoveInv'
  BY <1>3 DEF MoveInv
<1> QED BY <1>3, <1>5, <1>6, <1>7, <1>8, SameCluster DEF IInv

-----------------------------------------------------------------------------
(***************************************************************************)
(* scalingDown.                                                            *)
(***************************************************************************)
\* The removal starts with the last StatefulSet.
LEMMA StartScalingDownStep ==
  ASSUME IInv, StartScalingDown PROVE IInv'
<1> USE DEF StartScalingDown
<1>1. pc = "dispatch" /\ pc \in Dispatching
  BY DEF Dispatching
<1>2. current \in SUBSET Nodes /\ Cardinality(current) > Expect
  BY <1>1 DEF IInv, TypeOK, PlanInv
<1>3. /\ Cardinality(current) \in Nat /\ Cardinality(current) <= Cardinality(Nodes)
      /\ Expect \in Nat \ {0} /\ Cardinality(Nodes) \in Nat
  BY <1>2, Fewer, Basics
<1>4. i' \in -1 .. Cardinality(Nodes) /\ Expect <= i' + 1 /\ i' < Cardinality(current)
  <2> DEFINE c == Cardinality(Nodes)
             d == Cardinality(current)
  <2>1. c \in Nat /\ d \in Nat /\ d <= c /\ d > Expect /\ Expect \in Nat /\ i' = d - 1
    BY <1>2, <1>3
  <2> HIDE DEF c, d
  <2>2. i' \in -1 .. c /\ Expect <= i' + 1 /\ i' < d
    BY <2>1
  <2> QED BY <2>2 DEF c, d
<1>5. TypeOK'
  BY <1>4, SameCluster DEF IInv, TypeOK
<1>6. PassInv'
  <2>1. pc' = "remove" /\ UNCHANGED <<owner, sts, bom, current>>
    BY DEF redisVars
  <2>2. \A p, q \in sts, s \in Slots : ~ Owners(p, q, s)'
    BY <1>1, <2>1 DEF IInv, PassInv, Owners
  <2>3. \A n \in sts : Owned(n)' \subseteq bom'[n]
    BY <1>1, <2>1 DEF IInv, PassInv, Owned
  <2>4. \A n \in Nodes : n \in Staying => n \in sts'
    BY <2>1 DEF IInv, PassInv
  <2> QED
    BY <1>4, <2>1, <2>2, <2>3, <2>4 DEF PassInv, Dispatching, Grouping, Removing
<1>7. PlanInv' /\ MoveInv'
  BY DEF PlanInv, MoveInv, Dispatching, Grouping
<1> QED BY <1>5, <1>6, <1>7, SameCluster DEF IInv

\* What is known while StatefulSets are removed.
LEMMA RemovingFacts ==
  ASSUME IInv, pc \in Removing
  PROVE  /\ \A p, q \in sts, s \in Slots : ~ Owners(p, q, s)
         /\ \A n \in sts : Owned(n) \subseteq bom[n]
         /\ Expect <= i + 1 /\ i < Cardinality(current) /\ i \in Int
         /\ Expect \in Nat \ {0} /\ Cardinality(current) \in Nat
         /\ sts \subseteq Nodes /\ \A n \in Nodes : n \in Staying => n \in sts
<1>1. Cardinality(current) \in Nat
  <2>1. current \in SUBSET Nodes
    BY DEF IInv, TypeOK
  <2> QED BY <2>1, Basics, FS_Subset, FS_CardinalityType
<1>2. i \in Int
  BY Basics DEF IInv, TypeOK
<1> QED
  BY <1>1, <1>2, Basics DEF IInv, PassInv, TypeOK, Removing

\* The node has no slot, or the pass fails.
LEMMA CheckEmptyStep ==
  ASSUME IInv, CheckEmpty PROVE IInv'
<1> USE DEF CheckEmpty
<1>1. CASE UNCHANGED redisVars /\ Failed
  BY <1>1, EndStep DEF Failed, IInv, TypeOK
<1>2. CASE i \in sts /\ bom[i] = {} /\ UNCHANGED redisVars /\ Goto("forget")
  <2>1. pc \in Removing
    BY DEF Removing
  <2>2. /\ pc' = "forget"
        /\ UNCHANGED <<owner, sts, members, bom, current, plan, group, rest, i, status, passes, stopped>>
    BY <1>2 DEF Goto, passVars, redisVars
  <2>3. i \notin Staying
    BY RemovingFacts, <2>1 DEF Staying
  <2>4. TypeOK'
    BY <1>2, <2>2, SameCluster DEF IInv, TypeOK
  <2>5. PassInv'
    BY <1>2, <2>1, <2>2, <2>3, RemovingFacts DEF PassInv, Dispatching, Grouping, Removing, Owned, Owners
  <2>6. PlanInv' /\ MoveInv'
    BY <2>2 DEF PlanInv, MoveInv, Dispatching, Grouping
  <2> QED BY <1>2, <2>2, <2>4, <2>5, <2>6, SameCluster DEF IInv
<1> QED BY <1>1, <1>2

\* The node that goes owns no slot.
LEMMA Emptied ==
  ASSUME IInv, pc \in {"forget", "delete"}
  PROVE  /\ i \in sts \ Staying /\ i \in Nodes /\ i >= Expect
         /\ \A s \in Slots : owner[i][s] # i
         /\ keys[i] = {}
<1>1. pc \in Removing /\ pc # "idle"
  BY DEF Removing
<1>2. i \in sts \ Staying /\ bom[i] = {} /\ i \in Nodes
  BY DEF IInv, PassInv, TypeOK
<1>3. Owned(i) = {}
  BY <1>1, <1>2, RemovingFacts
<1>4. \A s \in Slots : owner[i][s] # i
  BY <1>3 DEF Owned
<1>5. keys[i] = {}
  <2> SUFFICES ASSUME NEW k \in keys[i] PROVE FALSE
    OBVIOUS
  <2>1. SlotOf[k] \in Slots
    BY <1>2, RedisAssumption DEF IInv, TypeOK, RedisTypeOK
  <2>2. owner[i][SlotOf[k]] = i
    BY <1>2 DEF IInv, LeaverInv
  <2> QED BY <1>4, <2>1, <2>2
<1>6. i >= Expect
  BY <1>1, <1>2, RemovingFacts, Basics DEF Staying
<1> QED BY <1>2, <1>4, <1>5, <1>6

\* The other nodes forget a node that owns nothing.
LEMMA ForgetNodeStep ==
  ASSUME ~ CmdFails, IInv, ForgetNode PROVE IInv'
<1> USE DEF ForgetNode
<1>1. pc = "forget" /\ pc \in {"forget", "delete"} /\ pc \in Removing
  BY DEF Removing
<1>2. /\ i \in sts \ Staying /\ i \in Nodes /\ i >= Expect
      /\ \A s \in Slots : owner[i][s] # i
  BY <1>1, Emptied
<1>3. Forget(Connected, i)
  OBVIOUS
<1>4. /\ pc' = "delete" /\ members' = members \ {i}
      /\ UNCHANGED <<sts, bom, current, plan, group, rest, i, status, passes, stopped>>
  BY DEF passVars
<1> HIDE DEF ForgetNode
<1>5. Connected \in SUBSET Nodes /\ sts \subseteq Nodes /\ RedisTypeOK
  BY DEF Connected, IInv, TypeOK
<1>6. /\ RedisTypeOK'
      /\ UNCHANGED <<keys, epoch, currentEpoch, acked>>
      /\ \A m \in Nodes, r \in Slots :
           owner'[m][r] = owner[m][r] \/ (owner'[m][r] = None /\ owner[m][r] = i)
      /\ \A m \in Nodes, r \in Slots : migrating'[m][r] \in {None, migrating[m][r]}
  <2>1. PICK x \in Nodes, N \in SUBSET Nodes : x = i /\ N = Connected
    BY <1>2, <1>5
  <2>2. Forget(N, x)
    BY <1>3, <2>1
  <2>3. /\ RedisTypeOK'
        /\ UNCHANGED <<keys, epoch, currentEpoch, acked>>
        /\ \A m \in Nodes, r \in Slots :
             owner'[m][r] = IF m \in N /\ owner[m][r] = x THEN None ELSE owner[m][r]
        /\ \A m \in Nodes, r \in Slots : migrating'[m][r] \in {None, migrating[m][r]}
    BY <1>5, <2>2, ForgetFacts
  <2> QED BY <2>1, <2>3
<1>7. \A n \in sts, s \in Slots : owner'[n][s] = n <=> owner[n][s] = n
  BY <1>2, <1>5, <1>6, Basics
<1>8. TypeOK'
  BY <1>4, <1>6 DEF IInv, TypeOK
<1>9. MarksInv'
  BY <1>6 DEF IInv, MarksInv
<1>10. \A p, q \in sts, s \in Slots : ~ Owners(p, q, s)'
  BY <1>1, <1>7, RemovingFacts DEF Owners
<1>11. LoserInv'
  BY <1>4, <1>10 DEF LoserInv, Loses
<1>12. LeaverInv'
  <2> SUFFICES ASSUME NEW n \in sts \ Staying, NEW k \in keys[n] PROVE owner'[n][SlotOf[k]] = n
    BY <1>4, <1>6 DEF LeaverInv
  <2>1. SlotOf[k] \in Slots
    BY <1>5, RedisAssumption DEF RedisTypeOK
  <2>2. owner[n][SlotOf[k]] = n
    BY DEF IInv, LeaverInv
  <2> QED BY <1>7, <2>1, <2>2
<1>13. SlotOwned'
  <2> SUFFICES ASSUME NEW s \in Slots, NEW n \in sts, owner'[n][s] # None
               PROVE  \E m \in sts : owner'[m][s] = m
    BY <1>4 DEF SlotOwned
  <2>1. owner[n][s] # None
    BY <1>5, <1>6
  <2>2. PICK m \in sts : owner[m][s] = m
    BY <2>1 DEF IInv, SlotOwned
  <2> QED BY <1>7, <2>2
<1>14. AckedOwned'
  <2> SUFFICES ASSUME NEW k \in acked PROVE \E n \in sts : owner'[n][SlotOf[k]] = n
    BY <1>4, <1>6 DEF AckedOwned
  <2>1. SlotOf[k] \in Slots
    BY <1>5, RedisAssumption DEF RedisTypeOK
  <2>2. PICK n \in sts : owner[n][SlotOf[k]] = n
    BY DEF IInv, AckedOwned
  <2> QED BY <1>7, <2>1, <2>2
<1>15. NoKeyLoss'
  BY <1>4, <1>6 DEF IInv, NoKeyLoss
<1>16. PassInv'
  <2>1. \A n \in sts : Owned(n)' \subseteq bom'[n]
    BY <1>1, <1>4, <1>7, RemovingFacts DEF Owned
  <2>2. bom[i] = {}
    BY <1>1 DEF IInv, PassInv
  <2> QED
    BY <1>1, <1>2, <1>4, <1>10, <2>1, <2>2, RemovingFacts
    DEF PassInv, Dispatching, Grouping, Removing
<1>17. PlanInv' /\ MoveInv'
  BY <1>4 DEF PlanInv, MoveInv, Dispatching, Grouping
<1> QED
  BY <1>8, <1>9, <1>11, <1>12, <1>13, <1>14, <1>15, <1>16, <1>17 DEF IInv

\* The StatefulSet of a node that owns nothing goes, and no key with it.
LEMMA DeleteStep ==
  ASSUME ~ CmdFails, IInv, DeleteStatefulSet PROVE IInv'
<1> USE DEF DeleteStatefulSet
<1>1. pc = "delete" /\ pc \in {"forget", "delete"} /\ pc \in Removing
  BY DEF Removing
<1>2. /\ i \in sts \ Staying /\ i \in Nodes /\ i >= Expect /\ keys[i] = {}
      /\ \A s \in Slots : owner[i][s] # i
  BY <1>1, Emptied
<1>3. /\ sts' = sts \ {i} /\ keys' = [keys EXCEPT ![i] = {}] /\ i' = i - 1 /\ pc' = "remove"
      /\ UNCHANGED <<owner, migrating, importing, epoch, currentEpoch, acked, members, bom, current,
                     plan, group, rest, status, passes, stopped>>
  BY DEF tables
<1> HIDE DEF DeleteStatefulSet
<1>4. keys' = keys
  BY <1>2, <1>3 DEF IInv, TypeOK, RedisTypeOK
<1>5. RedisTypeOK' /\ sts \subseteq Nodes
  BY <1>3, <1>4 DEF IInv, TypeOK, RedisTypeOK
<1>6. i \notin members
  BY <1>1 DEF IInv, PassInv
<1>7. /\ i' \in -1 .. Cardinality(Nodes) /\ Expect <= i' + 1 /\ i' < Cardinality(current)
  <2> DEFINE c == Cardinality(Nodes)
             d == Cardinality(current)
  <2>1. c \in Nat /\ i \in -1 .. c
    BY Basics DEF IInv, TypeOK
  <2>2. d \in Nat /\ i < d /\ Expect \in Nat \ {0}
    BY <1>1, RemovingFacts
  <2> HIDE DEF c, d
  <2>3. i' \in -1 .. c /\ Expect <= i' + 1 /\ i' < d
    BY <1>2, <1>3, <2>1, <2>2
  <2> QED BY <2>3 DEF c, d
<1>8. TypeOK'
  BY <1>3, <1>5, <1>6, <1>7 DEF IInv, TypeOK
<1>9. MarksInv'
  BY <1>3 DEF IInv, MarksInv
<1>10. \A p, q \in sts, s \in Slots : ~ Owners(p, q, s)
  BY <1>1, RemovingFacts
<1>11. LoserInv'
  BY <1>3, <1>10 DEF LoserInv, Loses, Owners
<1>12. LeaverInv'
  BY <1>3, <1>4 DEF IInv, LeaverInv
<1>13. SlotOwned'
  <2> SUFFICES ASSUME NEW s \in Slots, NEW n \in sts, owner[n][s] # None
               PROVE  \E m \in sts \ {i} : owner[m][s] = m
    BY <1>3 DEF SlotOwned
  <2>1. PICK m \in sts : owner[m][s] = m
    BY DEF IInv, SlotOwned
  <2> QED BY <1>2, <2>1
<1>14. AckedOwned'
  <2> SUFFICES ASSUME NEW k \in acked PROVE \E n \in sts \ {i} : owner[n][SlotOf[k]] = n
    BY <1>3 DEF AckedOwned
  <2>1. SlotOf[k] \in Slots
    BY RedisAssumption DEF IInv, TypeOK, RedisTypeOK
  <2>2. PICK n \in sts : owner[n][SlotOf[k]] = n
    BY DEF IInv, AckedOwned
  <2> QED BY <1>2, <2>1, <2>2
<1>15. NoKeyLoss'
  <2> SUFFICES ASSUME NEW k \in acked PROVE \E n \in sts \ {i} : k \in keys[n]
    BY <1>3, <1>4 DEF NoKeyLoss
  <2>1. PICK n \in sts : k \in keys[n]
    BY DEF IInv, NoKeyLoss
  <2> QED BY <1>2, <2>1
<1>16. PassInv'
  <2>1. \A n \in sts : Owned(n)' \subseteq bom'[n]
    BY <1>1, <1>3, RemovingFacts DEF Owned
  <2>2. \A p, q \in sts', s \in Slots : ~ Owners(p, q, s)'
    BY <1>3, <1>10 DEF Owners
  <2>3. \A n \in Nodes : n \in Staying => n \in sts'
    BY <1>1, <1>2, <1>3, RemovingFacts
  <2> QED
    BY <1>3, <1>7, <2>1, <2>2, <2>3 DEF PassInv, Dispatching, Grouping, Removing
<1>17. PlanInv' /\ MoveInv'
  BY <1>3 DEF PlanInv, MoveInv, Dispatching, Grouping
<1> QED
  BY <1>8, <1>9, <1>11, <1>12, <1>13, <1>14, <1>15, <1>16, <1>17 DEF IInv

\* The pass ends.
LEMMA FinishStep ==
  ASSUME IInv, FinishPass PROVE IInv'
BY EndStep DEF FinishPass, IInv, TypeOK

\* The operator stops.
LEMMA CrashStep ==
  ASSUME IInv, Crash PROVE IInv'
BY EndStep DEF Crash, IInv, TypeOK

-----------------------------------------------------------------------------
(***************************************************************************)
(* Clients and the cluster bus.                                            *)
(***************************************************************************)
\* A step of the environment that changes no table, no pass and no owner.
LEMMA BusPass ==
  ASSUME IInv, UNCHANGED <<sts, members, passVars, pc, status, passes, stopped>>,
         \A n \in sts, s \in Slots : owner'[n][s] = n => owner[n][s] = n
  PROVE  PassInv' /\ PlanInv'
<1>1. UNCHANGED <<bom, current, plan, group, rest, i>> /\ from' = from /\ to' = to
  BY DEF passVars, from, to
<1>2. PassInv'
  <2>1. pc \notin {"idle", "join"} => \A p, q \in sts, s \in Slots : Owners(p, q, s)' =>
          pc = "nodeFrom" /\ s \in group.slots /\ {p, q} = {from, to}
    BY DEF IInv, PassInv, Owners
  <2>2. pc # "idle" => \A n \in sts : Owned(n)' \subseteq
          bom[n] \cup (IF pc \in {"nodeFrom", "tell"} /\ n = to THEN group.slots ELSE {})
    BY DEF IInv, PassInv, Owned
  <2>3. /\ \A n \in Nodes : n \in Staying => n \in sts
        /\ pc \in {"join", "sync"} \cup Dispatching => current \subseteq sts
        /\ pc \in {"join", "sync"} => \A n \in sts \ current : bom[n] = {}
        /\ pc \in Removing => Expect <= i + 1 /\ i < Cardinality(current)
        /\ pc \in {"forget", "delete"} => i \in sts \ Staying /\ bom[i] = {}
        /\ pc = "delete" => i \notin members
    BY DEF IInv, PassInv
  <2> QED BY <1>1, <2>1, <2>2, <2>3 DEF PassInv
<1>3. PlanInv'
  <2>1. Todo' = Todo
    BY <1>1 DEF Todo
  <2>2. \A g \in Todo : g.slots \subseteq Slots
    BY DEF Todo, IInv, TypeOK
  <2> QED BY <1>1, <2>1, <2>2 DEF IInv, PlanInv
<1> QED BY <1>2, <1>3

\* A key is created on node t, by the owner n of its slot or by the node it
\* sends the client to.
LEMMA WriteStep ==
  ASSUME IInv, NEW k \in Keys, NEW n \in sts, NEW t \in sts,
         (ClientWrite(k, n) /\ t = n) \/ ClientAskWrite(k, n, t),
         UNCHANGED <<sts, members, passVars, pc, status, passes, stopped>>
  PROVE  IInv'
<1> DEFINE s == SlotOf[k]
<1>1. /\ keys' = [keys EXCEPT ![t] = @ \cup {k}] /\ acked' = acked \cup {k}
      /\ UNCHANGED <<owner, migrating, importing, epoch, currentEpoch>>
      /\ owner[n][s] = n
      /\ \/ t = n /\ migrating[n][s] = None
         \/ migrating[n][s] = t /\ owner[t][s] # t
  BY DEF ClientWrite, ClientAskWrite, tables
<1>2. sts \subseteq Nodes /\ n \in Nodes /\ t \in Nodes /\ s \in Slots /\ RedisTypeOK
  BY RedisAssumption DEF IInv, TypeOK
<1>3. RedisTypeOK'
  BY <1>1, <1>2 DEF RedisTypeOK
<1>4. \A m \in Nodes : keys'[m] = IF m = t THEN keys[m] \cup {k} ELSE keys[m]
  BY <1>1, <1>2 DEF RedisTypeOK
<1> HIDE DEF s
<1>5. TypeOK'
  BY <1>3 DEF IInv, TypeOK, passVars
<1>6. MarksInv'
  BY <1>1 DEF IInv, MarksInv
<1>7. LoserInv'
  <2> SUFFICES ASSUME NEW p \in sts, NEW q \in sts, NEW r \in Slots, Loses(p, q, r)
               PROVE  migrating[p][r] # None /\ KeysIn(p, r)' = {}
    BY <1>1 DEF LoserInv, Loses, Owners
  <2>1. migrating[p][r] # None /\ KeysIn(p, r) = {}
    BY DEF IInv, LoserInv
  <2>2. p # t \/ r # s
    BY <1>1, <2>1 DEF Loses, Owners
  <2> QED BY <1>2, <1>4, <2>1, <2>2 DEF KeysIn, s
<1>8. LeaverInv'
  <2> SUFFICES ASSUME NEW m \in sts \ Staying, NEW j \in keys'[m] PROVE owner[m][SlotOf[j]] = m
    BY <1>1 DEF LeaverInv
  <2>1. CASE j \in keys[m]
    BY <2>1 DEF IInv, LeaverInv
  <2>2. CASE j \notin keys[m]
    <3>1. m = t /\ j = k
      BY <1>2, <1>4, <2>2
    <3>2. migrating[n][s] \in Staying \cup {None}
      BY <1>2 DEF IInv, MarksInv
    <3>3. t = n
      BY <1>1, <1>2, <3>1, <3>2, Basics
    <3> QED BY <1>1, <3>1, <3>3 DEF s
  <2> QED BY <2>1, <2>2
<1>9. SlotOwned'
  BY <1>1 DEF IInv, SlotOwned
<1>10. AckedOwned'
  BY <1>1 DEF IInv, AckedOwned, s
<1>11. NoKeyLoss'
  <2> SUFFICES ASSUME NEW j \in acked \cup {k} PROVE \E m \in sts : j \in keys'[m]
    BY <1>1 DEF NoKeyLoss
  <2>1. CASE j = k
    BY <1>2, <1>4, <2>1
  <2>2. CASE j # k
    <3>1. PICK m \in sts : j \in keys[m]
      BY <2>2 DEF IInv, NoKeyLoss
    <3> QED BY <1>2, <1>4, <3>1
  <2> QED BY <2>1, <2>2
<1>12. PassInv' /\ PlanInv'
  BY <1>1, BusPass
<1>13. MoveInv'
  <2>1. UNCHANGED <<group, rest>> /\ from' = from /\ to' = to
    BY DEF passVars, from, to
  <2>2. ASSUME pc = "nodeTo" PROVE GroupKeys' = {}
    <3>1. pc \in Grouping \ {"addSlots"}
      BY <2>2 DEF Grouping
    <3>2. from \in Nodes
      BY <3>1, GroupFacts
    <3>3. GroupKeys = {}
      BY <2>2 DEF IInv, MoveInv
    <3>4. \A r \in group.slots : owner[from][r] = from /\ migrating[from][r] = to /\ to \in Nodes
      BY <2>2, <3>1, GroupFacts DEF IInv, MoveInv
    <3>5. ~ (from = t /\ s \in group.slots)
      BY <1>1, <3>4, Basics
    <3> QED BY <1>2, <1>4, <2>1, <3>2, <3>3, <3>5 DEF GroupKeys, s
  <2> QED BY <1>1, <2>1, <2>2 DEF IInv, MoveInv
<1> QED
  BY <1>5, <1>6, <1>7, <1>8, <1>9, <1>10, <1>11, <1>12, <1>13 DEF IInv

\* What a node that hears from another one changes: nothing but owners, and
\* never a key, because whoever loses a slot has no key in it.
LEMMA GossipFacts ==
  ASSUME IInv, NEW p \in members, NEW q \in members, Gossip(p, q)
  PROVE  /\ p \in sts /\ q \in sts /\ p \in Nodes /\ q \in Nodes
         /\ UNCHANGED <<keys, migrating, importing, epoch, currentEpoch, acked>>
         /\ RedisTypeOK'
         /\ \A n \in Nodes, s \in Slots : n # p \/ s \notin Rebound(p, q) => owner'[n][s] = owner[n][s]
         /\ \A s \in Rebound(p, q) : owner'[p][s] = q /\ owner[q][s] = q /\ p # q
         /\ \A s \in Rebound(p, q) : owner[p][s] = p => Loses(p, q, s)
         /\ \A n \in sts, s \in Slots : owner'[n][s] = n => owner[n][s] = n
<1>1. p \in sts /\ q \in sts /\ p \in Nodes /\ q \in Nodes /\ RedisTypeOK
  BY DEF IInv, TypeOK
<1>2. \A s \in Rebound(p, q) : owner[q][s] = q /\ p # q /\ s \in Slots
  BY DEF Rebound
<1>3. \A s \in Rebound(p, q) : owner[p][s] = p => Loses(p, q, s)
  BY <1>1, <1>2, Basics DEF Rebound, Loses, Owners
<1>4. \A s \in Rebound(p, q) : owner[p][s] = p => KeysIn(p, s) = {}
  BY <1>1, <1>2, <1>3 DEF IInv, LoserInv
<1>5. keys' = keys
  <2>1. {k \in keys[p] : ~ (SlotOf[k] \in Rebound(p, q) /\ owner[p][SlotOf[k]] = p)} = keys[p]
    BY <1>4 DEF KeysIn
  <2>2. keys' = [keys EXCEPT ![p] =
           {k \in keys[p] : ~ (SlotOf[k] \in Rebound(p, q) /\ owner[p][SlotOf[k]] = p)}]
    BY DEF Gossip
  <2> QED BY <1>1, <2>1, <2>2 DEF RedisTypeOK
<1>6. /\ \A n \in Nodes, s \in Slots : n # p \/ s \notin Rebound(p, q) => owner'[n][s] = owner[n][s]
      /\ \A s \in Rebound(p, q) : owner'[p][s] = q
  BY <1>1, <1>2 DEF Gossip, RedisTypeOK
<1>7. RedisTypeOK'
  <2>1. owner' \in [Nodes -> [Slots -> Nodes \cup {None}]]
    BY <1>1 DEF Gossip, RedisTypeOK
  <2> QED BY <1>1, <1>5, <2>1 DEF Gossip, RedisTypeOK
<1>8. \A n \in sts, s \in Slots : owner'[n][s] = n => owner[n][s] = n
  <2>1. sts \subseteq Nodes
    BY DEF IInv, TypeOK
  <2> QED BY <1>1, <1>2, <1>6, <2>1
<1> QED BY <1>1, <1>2, <1>3, <1>4, <1>5, <1>6, <1>7, <1>8 DEF Gossip

\* A claim is heard.
LEMMA GossipStep ==
  ASSUME IInv, NEW p \in members, NEW q \in members, Gossip(p, q),
         UNCHANGED <<sts, members, passVars, pc, status, passes, stopped>>
  PROVE  IInv'
<1>1. /\ p \in sts /\ q \in sts /\ p \in Nodes /\ q \in Nodes
      /\ UNCHANGED <<keys, migrating, importing, epoch, currentEpoch, acked>>
      /\ RedisTypeOK'
      /\ \A n \in Nodes, s \in Slots : n # p \/ s \notin Rebound(p, q) => owner'[n][s] = owner[n][s]
      /\ \A s \in Rebound(p, q) : owner'[p][s] = q /\ owner[q][s] = q /\ p # q
      /\ \A s \in Rebound(p, q) : owner[p][s] = p => Loses(p, q, s)
      /\ \A n \in sts, s \in Slots : owner'[n][s] = n => owner[n][s] = n
  BY GossipFacts
<1>2. sts \subseteq Nodes /\ RedisTypeOK
  BY DEF IInv, TypeOK
<1>3. \A n \in sts, s \in Slots : owner[n][s] = n =>
        owner'[n][s] = n \/ (n = p /\ Loses(p, q, s) /\ owner'[q][s] = q)
  BY <1>1, <1>2
<1>4. TypeOK'
  BY <1>1 DEF IInv, TypeOK, passVars
<1>5. MarksInv'
  BY <1>1 DEF IInv, MarksInv
<1>6. LoserInv'
  <2> SUFFICES ASSUME NEW x \in sts, NEW y \in sts, NEW s \in Slots, Loses(x, y, s)'
               PROVE  migrating'[x][s] # None /\ KeysIn(x, s)' = {}
    BY DEF LoserInv
  <2>1. Loses(x, y, s)
    BY <1>1 DEF Loses, Owners
  <2> QED BY <1>1, <2>1 DEF IInv, LoserInv, KeysIn
<1>7. LeaverInv'
  <2> SUFFICES ASSUME NEW n \in sts \ Staying, NEW k \in keys[n] PROVE owner'[n][SlotOf[k]] = n
    BY <1>1 DEF LeaverInv
  <2>1. SlotOf[k] \in Slots
    BY <1>2, RedisAssumption DEF RedisTypeOK
  <2>2. owner[n][SlotOf[k]] = n
    BY DEF IInv, LeaverInv
  <2>3. ~ Loses(n, q, SlotOf[k])
    BY <1>1, <2>1 DEF IInv, LoserInv, KeysIn
  <2> QED BY <1>3, <2>1, <2>2, <2>3
<1>8. SlotOwned'
  <2> SUFFICES ASSUME NEW s \in Slots, NEW n \in sts, owner'[n][s] # None
               PROVE  \E m \in sts : owner'[m][s] = m
    BY DEF SlotOwned
  <2>1. CASE s \in Rebound(p, q)
    BY <1>1, <2>1
  <2>2. CASE s \notin Rebound(p, q)
    <3>1. owner[n][s] # None
      BY <1>1, <1>2, <2>2
    <3>2. PICK m \in sts : owner[m][s] = m
      BY <3>1 DEF IInv, SlotOwned
    <3> QED BY <1>1, <1>2, <2>2, <3>2
  <2> QED BY <2>1, <2>2
<1>9. AckedOwned'
  <2> SUFFICES ASSUME NEW k \in acked PROVE \E n \in sts : owner'[n][SlotOf[k]] = n
    BY <1>1 DEF AckedOwned
  <2>1. SlotOf[k] \in Slots
    BY <1>2, RedisAssumption DEF RedisTypeOK
  <2>2. PICK n \in sts : owner[n][SlotOf[k]] = n
    BY DEF IInv, AckedOwned
  <2> QED BY <1>1, <1>3, <2>1, <2>2
<1>10. NoKeyLoss'
  BY <1>1 DEF IInv, NoKeyLoss
<1>11. PassInv' /\ PlanInv'
  BY <1>1, BusPass
<1>12. MoveInv'
  <2>1. UNCHANGED <<group, rest>> /\ from' = from /\ to' = to
    BY DEF passVars, from, to
  <2>2. pc \in {"migrating", "keys", "nodeTo", "nodeFrom", "tell"} =>
          /\ from \in sts /\ to \in sts /\ group.slots \subseteq Slots /\ from # to
          /\ \A x, y \in sts, s \in Slots : Owners(x, y, s) =>
               pc = "nodeFrom" /\ s \in group.slots /\ {x, y} = {from, to}
    BY GroupFacts DEF Grouping, IInv, PassInv
  <2>3. ASSUME pc \in {"migrating", "keys", "nodeTo"}, NEW s \in group.slots
        PROVE  owner'[to][s] # to
    <3>1. owner[to][s] # to
      BY <2>3 DEF IInv, MoveInv
    <3> QED BY <1>1, <2>2, <2>3, <3>1
  <2>4. ASSUME pc \in {"keys", "nodeTo"}, NEW s \in group.slots PROVE owner'[from][s] = from
    <3>1. owner[from][s] = from
      BY <2>4 DEF IInv, MoveInv
    <3>2. s \in Slots /\ from \in sts /\ ~ Loses(from, q, s)
      BY <1>1, <2>2, <2>4 DEF Loses
    <3> QED BY <1>3, <3>1, <3>2
  <2>5. ASSUME pc \in {"nodeFrom", "tell"}, NEW s \in group.slots PROVE owner'[to][s] = to
    <3>1. owner[to][s] = to
      BY <2>5 DEF IInv, MoveInv
    <3>2. s \in Slots /\ to \in sts /\ from \in Nodes /\ to \in Nodes
      BY <1>2, <2>2, <2>5
    <3>3. ASSUME Loses(to, q, s) PROVE FALSE
      <4>1. pc = "nodeFrom" /\ {to, q} = {from, to}
        BY <1>1, <2>2, <2>5, <3>2, <3>3 DEF Loses
      <4>2. q = from
        BY <2>2, <2>5, <4>1
      <4>3. epoch[from] < epoch[to] /\ epoch[to] < epoch[from]
        BY <3>3, <4>1, <4>2 DEF IInv, MoveInv, Loses
      <4>4. epoch[from] \in Nat /\ epoch[to] \in Nat
        BY <1>2, <3>2 DEF RedisTypeOK
      <4> QED BY <4>3, <4>4
    <3> QED BY <1>3, <3>1, <3>2, <3>3
  <2>6. pc = "nodeTo" => GroupKeys' = {}
    BY <1>1, <2>1 DEF IInv, MoveInv, GroupKeys
  <2> QED BY <1>1, <2>1, <2>3, <2>4, <2>5, <2>6 DEF IInv, MoveInv
<1> QED
  BY <1>4, <1>5, <1>6, <1>7, <1>8, <1>9, <1>10, <1>11, <1>12 DEF IInv

\* A step of the environment.
LEMMA BusStep ==
  ASSUME IInv, Bus PROVE IInv'
<1>1. UNCHANGED <<sts, members, passVars, pc, status, passes, stopped>>
  BY DEF Bus
<1>2. \/ \E k \in Keys, n \in sts : ClientWrite(k, n)
      \/ \E k \in Keys, n, t \in sts : ClientAskWrite(k, n, t)
      \/ \E p, q \in members : Gossip(p, q)
  BY DEF Bus, Environment
<1>3. CASE \E k \in Keys, n \in sts : ClientWrite(k, n)
  BY <1>1, <1>3, WriteStep
<1>4. CASE \E k \in Keys, n, t \in sts : ClientAskWrite(k, n, t)
  BY <1>1, <1>4, WriteStep
<1>5. CASE \E p, q \in members : Gossip(p, q)
  BY <1>1, <1>5, GossipStep
<1> QED BY <1>2, <1>3, <1>4, <1>5

-----------------------------------------------------------------------------
(***************************************************************************)
(* The invariant, and what it says of the keys.                            *)
(***************************************************************************)
\* The cluster starts with every slot owned by one node at most, all nodes
\* agreeing, and the keys with the owners.
LEMMA InitIInv == Init => IInv
<1> SUFFICES ASSUME Init PROVE IInv
  OBVIOUS
<1>1. PICK assigned \in Assignments :
        /\ \A m \in Nodes : \E s \in Slots : assigned[s] = m
        /\ RedisInit(assigned, [n \in Nodes |-> n + 1])
  BY DEF Init
<1>2. /\ sts = Nodes /\ members = Nodes /\ pc = "idle" /\ status = "Rebalancing"
      /\ bom = [n \in Nodes |-> {}] /\ current = {} /\ plan = {} /\ group = NoGroup
      /\ rest = {} /\ i = 0 /\ passes = 0 /\ stopped = FALSE
  BY DEF Init
<1>3. assigned \in [Slots -> Nodes \cup {None}]
  BY ScaleDownAssumption
<1>4. /\ owner = [n \in Nodes |-> assigned]
      /\ migrating = [n \in Nodes |-> [s \in Slots |-> None]]
      /\ importing = [n \in Nodes |-> [s \in Slots |-> None]]
      /\ acked \in SUBSET {k \in Keys : assigned[SlotOf[k]] # None}
      /\ keys = [n \in Nodes |-> {k \in acked : assigned[SlotOf[k]] = n}]
      /\ epoch = [n \in Nodes |-> n + 1]
      /\ currentEpoch = Cardinality(Nodes)
  BY <1>1 DEF RedisInit
<1>5. RedisTypeOK
  <2>1. owner \in [Nodes -> [Slots -> Nodes \cup {None}]]
    BY <1>3, <1>4
  <2>2. /\ migrating \in [Nodes -> [Slots -> Nodes \cup {None}]]
        /\ importing \in [Nodes -> [Slots -> Nodes \cup {None}]]
    BY <1>4
  <2>3. epoch \in [Nodes -> Nat] /\ currentEpoch \in Nat
    BY <1>4, Basics
  <2>4. keys \in [Nodes -> SUBSET Keys] /\ acked \in SUBSET Keys
    BY <1>4
  <2> QED BY <2>1, <2>2, <2>3, <2>4 DEF RedisTypeOK
<1>6. TypeOK
  <2>1. i \in -1 .. Cardinality(Nodes) /\ passes \in 0 .. MaxPasses
    BY <1>2, Basics, ScaleDownAssumption
  <2>2. group \in [from : Nodes \cup {Nowhere}, to : Nodes \cup {Nowhere}, slots : SUBSET Slots]
    BY <1>2 DEF NoGroup
  <2> QED BY <1>2, <1>5, <2>1, <2>2 DEF TypeOK
<1>7. MarksInv
  <2> DEFINE c == Cardinality(Nodes)
  <2>1. c \in Nat /\ Nodes = 0 .. c - 1 /\ currentEpoch = c
    BY <1>4, Basics
  <2> HIDE DEF c
  <2>2. \A n \in Nodes : epoch[n] = n + 1 /\ n \in Nat /\ n + 1 <= c
    BY <1>4, <2>1
  <2>3. \A n \in Nodes : epoch[n] > 0 /\ epoch[n] <= currentEpoch
    BY <2>1, <2>2
  <2>4. \A m, n \in Nodes : epoch[m] = epoch[n] => m = n
    BY <2>2
  <2>5. \A n \in Nodes, s \in Slots : migrating[n][s] = None
    BY <1>4
  <2> QED BY <2>3, <2>4, <2>5 DEF MarksInv
<1>8. LoserInv
  BY <1>2, <1>4 DEF LoserInv, Loses, Owners
<1>9. LeaverInv
  BY <1>2, <1>4 DEF LeaverInv
<1>10. PassInv /\ PlanInv /\ MoveInv
  BY <1>2 DEF PassInv, PlanInv, MoveInv, Dispatching, Grouping, Removing
<1>11. SlotOwned
  BY <1>2, <1>3, <1>4 DEF SlotOwned
<1>12. ASSUME NEW k \in acked
       PROVE  \E n \in sts : k \in keys[n] /\ owner[n][SlotOf[k]] = n
  <2>1. k \in Keys /\ assigned[SlotOf[k]] # None
    BY <1>4
  <2>2. SlotOf[k] \in Slots
    BY <2>1, RedisAssumption
  <2>3. assigned[SlotOf[k]] \in Nodes
    BY <1>3, <2>1, <2>2
  <2> QED BY <1>2, <1>4, <2>3
<1>13. AckedOwned /\ NoKeyLoss
  BY <1>12 DEF AckedOwned, NoKeyLoss
<1> QED BY <1>6, <1>7, <1>8, <1>9, <1>10, <1>11, <1>13 DEF IInv

\* Nothing changes.
LEMMA StutterStep ==
  ASSUME IInv, UNCHANGED vars PROVE IInv'
<1>1. /\ UNCHANGED <<redisVars, sts, members, passVars, pc, status, passes, stopped>>
      /\ UNCHANGED <<owner, migrating, importing, keys, epoch, currentEpoch, acked>>
      /\ UNCHANGED <<bom, current, plan, group, rest, i>> /\ from' = from /\ to' = to
  BY DEF vars, redisVars, passVars, from, to
<1>2. TypeOK'
  BY <1>1, SameCluster DEF IInv, TypeOK
<1>3. PassInv' /\ PlanInv'
  BY <1>1, BusPass
<1>4. MoveInv'
  BY <1>1 DEF IInv, MoveInv, GroupKeys
<1> QED BY <1>1, <1>2, <1>3, <1>4, SameCluster DEF IInv

\* Every step preserves the invariant.
LEMMA NextIInv ==
  ASSUME ~ CmdFails PROVE IInv /\ [Next]_vars => IInv'
<1> SUFFICES ASSUME IInv, [Next]_vars PROVE IInv'
  OBVIOUS
<1>1. CASE UNCHANGED vars
  BY <1>1, StutterStep
<1>2. CASE Bus
  BY <1>2, BusStep
<1>3. CASE Crash
  BY <1>3, CrashStep
<1>4. CASE StartPass \/ WaitForClusterJoin \/ NoOperation \/ PlanDispatch \/ NextGroup
  BY <1>4, StartPassStep, JoinStep, NoOperationStep, PlanStep, NextGroupStep
<1>5. CASE AddLostSlots \/ Importing \/ Migrating \/ MigrateKeys
  BY <1>5, AddLostSlotsStep, ImportingStep, MigratingStep, MigrateKeysStep
<1>6. CASE NodeTo \/ NodeFrom \/ Tell \/ EndGroup
  BY <1>6, NodeToStep, NodeFromStep, TellStep, EndGroupStep
<1>7. CASE StartScalingDown \/ CheckEmpty \/ ForgetNode \/ DeleteStatefulSet \/ FinishPass
  BY <1>7, StartScalingDownStep, CheckEmptyStep, ForgetNodeStep, DeleteStep, FinishStep
<1> QED BY <1>1, <1>2, <1>3, <1>4, <1>5, <1>6, <1>7 DEF Next, Operator

\* With commands that do not fail, the invariant holds at every moment of
\* every scale-down, wherever the operator stops.
THEOREM Invariance == ASSUME ~ CmdFails PROVE Spec => []IInv
BY InitIInv, NextIInv, PTL DEF Spec

\* With commands that do not fail, no acknowledged key is lost: not over the
\* bus, not with a StatefulSet that scalingDown deletes, and not when the
\* operator stops in the middle and starts again.
THEOREM KeySafety == ASSUME ~ CmdFails PROVE Spec => []NoKeyLoss
<1>1. IInv => NoKeyLoss
  BY DEF IInv
<1> QED BY <1>1, Invariance, PTL

\* With commands that do not fail, a slot that a running node believes
\* assigned is owned by a running node (the order of migration.go:92).
THEOREM SlotsOwned == ASSUME ~ CmdFails PROVE Spec => []SlotOwned
<1>1. IInv => SlotOwned
  BY DEF IInv
<1> QED BY <1>1, Invariance, PTL

-----------------------------------------------------------------------------
(***************************************************************************)
(* Scale-downs in which the operator does not stop.                        *)
(***************************************************************************)
Calm == SourcesInv /\ KeysInv /\ StatusInv

\* The steps that change no node say nothing new of the keys.
LEMMA QuietKeys ==
  ASSUME Calm, UNCHANGED <<redisVars, sts>>,
         pc \notin {"keys", "nodeTo", "nodeFrom"}, pc' \notin {"keys", "nodeTo", "nodeFrom"}
  PROVE  /\ KeysInv'
         /\ \A p, q \in sts, s \in Slots : ~ Owners(p, q, s)
         /\ \A p, q \in sts', s \in Slots : ~ Owners(p, q, s)'
<1> USE DEF redisVars
<1>1. /\ \A k \in acked, n \in sts : owner[n][SlotOf[k]] = n => k \in keys[n]
      /\ \A n \in Nodes, s \in Slots : migrating[n][s] = None
  BY DEF Calm, KeysInv
<1>2. KeysInv'
  BY <1>1 DEF KeysInv
<1>3. \A p, q \in sts, s \in Slots : ~ Owners(p, q, s)
  BY DEF Calm, SourcesInv
<1> QED BY <1>2, <1>3 DEF Owners

\* StartPass reads the slots as they are.
LEMMA CalmStartPass ==
  ASSUME IInv, Calm, StartPass PROVE Calm'
<1> USE DEF StartPass
<1>1. KeysInv' /\ \A p, q \in sts', s \in Slots : ~ Owners(p, q, s)'
  BY QuietKeys
<1>2. SourcesInv'
  <2>1. \A n \in sts : bom'[n] = Owned(n)'
    BY DEF redisVars, Owned, TypeOK, IInv
  <2> QED BY <1>1, <2>1 DEF SourcesInv, Dispatching, Grouping, Removing
<1>3. StatusInv'
  BY DEF Calm, StatusInv, redisVars, Owned, Dispatching, Grouping, Removing
<1> QED BY <1>1, <1>2, <1>3 DEF Calm

\* waitForClusterJoin changes nothing that matters.
LEMMA CalmJoin ==
  ASSUME IInv, Calm, WaitForClusterJoin PROVE Calm'
<1> USE DEF WaitForClusterJoin
<1>1. KeysInv' /\ \A p, q \in sts', s \in Slots : ~ Owners(p, q, s)'
  BY QuietKeys
<1>2. pc' \in {"sync", "idle"} /\ UNCHANGED <<bom, owner, sts, status>>
  BY DEF passVars, redisVars
<1>3. SourcesInv'
  BY <1>1, <1>2 DEF Calm, SourcesInv, Owned, Dispatching, Grouping, Removing
<1>4. StatusInv'
  BY <1>2 DEF Calm, StatusInv, Owned, Dispatching, Grouping, Removing
<1> QED BY <1>1, <1>3, <1>4 DEF Calm

\* As many masters with slots as the cluster should have: nobody else is
\* there, since before the scale-down every node has a slot.
LEMMA CalmNoOperation ==
  ASSUME IInv, Calm, NoOperation PROVE Calm'
<1> USE DEF NoOperation
<1>1. KeysInv' /\ \A p, q \in sts', s \in Slots : ~ Owners(p, q, s)'
  BY QuietKeys
<1>2. pc' = "idle" /\ sts' = sts /\ status' = "Healthy"
  OBVIOUS
<1>3. SourcesInv'
  BY <1>1, <1>2 DEF SourcesInv, Dispatching, Grouping, Removing
<1>4. sts = Staying
  <2>1. CASE status = "Healthy"
    BY <2>1 DEF Calm, StatusInv
  <2>2. CASE status # "Healthy"
    <3>1. sts = Nodes /\ \A n \in Nodes : Owned(n) # {}
      BY <2>2 DEF Calm, StatusInv
    <3>2. \A n \in sts : bom[n] = Owned(n)
      BY DEF Calm, SourcesInv
    <3>3. current \subseteq sts /\ \A n \in sts \ current : bom[n] = {}
      BY DEF IInv, PassInv
    <3>4. current = Nodes
      BY <3>1, <3>2, <3>3
    <3>5. Nodes = 0 .. Cardinality(Nodes) - 1 /\ Cardinality(Nodes) = Expect
      BY <3>4, Basics
    <3> QED BY <3>1, <3>5 DEF Staying
  <2> QED BY <2>1, <2>2
<1>5. StatusInv'
  BY <1>2, <1>4 DEF StatusInv, Dispatching, Grouping, Removing
<1> QED BY <1>1, <1>3, <1>5 DEF Calm

\* The plan has every slot of the masters that go, once.
LEMMA CalmPlan ==
  ASSUME IInv, Calm, PlanDispatch PROVE Calm'
<1> USE DEF PlanDispatch
<1>1. KeysInv' /\ \A p, q \in sts', s \in Slots : ~ Owners(p, q, s)'
  BY QuietKeys
<1>2. PICK new \in SetToSeqs(Staying), old \in SetToSeqs(current),
           order \in SetToSeqs(current \cup {Nowhere}) :
             plan' = feedMigInfo(bom, new, old, NumSlots, order)
  BY DEF Staying
<1>3. Given(Nodes, Staying, current, bom, new, old, NumSlots, order)
  BY <1>2, PlanGiven
<1>4. pc = "sync" /\ pc' = "dispatch" /\ UNCHANGED <<owner, sts, bom, current>>
      /\ Cardinality(current) > Expect
  BY DEF redisVars
<1> HIDE DEF PlanDispatch
<1>5. current \in SUBSET Nodes /\ current \subseteq sts /\ \A n \in sts \ current : bom[n] = {}
  BY <1>4 DEF IInv, TypeOK, PassInv
<1>6. \A n \in sts : bom[n] = Owned(n)
  BY <1>4 DEF Calm, SourcesInv
<1>7. sts = Nodes /\ current = Nodes
  <2>1. status # "Healthy"
    <3> SUFFICES ASSUME sts = Staying PROVE FALSE
      BY <1>4 DEF Calm, StatusInv
    <3>1. IsFiniteSet(Staying) /\ Cardinality(Staying) = Expect
      BY Basics, FS_Interval DEF Staying
    <3>2. Cardinality(current) <= Expect
      BY <1>5, <3>1, FS_Subset
    <3>3. Cardinality(current) \in Nat /\ Expect \in Nat
      BY <1>4, <1>5, Fewer, Basics
    <3> QED BY <1>4, <3>2, <3>3
  <2>2. sts = Nodes /\ \A n \in Nodes : Owned(n) # {}
    BY <1>4, <2>1 DEF Calm, StatusInv
  <2> QED BY <1>5, <1>6, <2>2
<1>8. \A m, n \in Nodes, s \in Slots : s \in bom[m] /\ s \in bom[n] => m = n
  <2>1. \A p, q \in sts, s \in Slots : ~ Owners(p, q, s)
    BY <1>4 DEF Calm, SourcesInv
  <2> QED BY <1>6, <1>7, <2>1 DEF Owned, Owners
<1>9. \A n \in Nodes : bom[n] \subseteq Slots
  BY DEF IInv, TypeOK
<1>10. SourcesInv'
  <2>1. Todo' = plan'
    BY <1>4 DEF Todo, Grouping
  <2>2. \A g \in plan' :
          /\ g.slots \subseteq Slots
          /\ g.from \in current \cup {Nowhere}
          /\ g.from # Nowhere => g.slots \subseteq bom[g.from]
    BY <1>2, <1>3, PlanGroups DEF Slots
  <2>3. ASSUME NEW g \in plan', NEW h \in plan', g.slots \cap h.slots # {} PROVE g = h
    <3>1. PICK s \in Slots : s \in g.slots /\ s \in h.slots
      BY <2>2, <2>3
    <3>2. \A m, n \in current : s \in bom[m] /\ s \in bom[n] => m = n
      BY <1>7, <1>8
    <3> QED BY <1>2, <1>3, <3>1, <3>2, PlanOnce
  <2>4. ASSUME NEW g \in plan' PROVE g.from = Nowhere \/ g.slots \subseteq Owned(g.from)'
    <3>1. CASE g.from # Nowhere
      <4>1. g.from \in sts /\ g.slots \subseteq bom[g.from]
        BY <1>7, <2>2, <3>1
      <4> QED BY <1>4, <1>6, <4>1 DEF Owned
    <3> QED BY <3>1
  <2>5. ASSUME NEW n \in Nodes \ Staying, NEW s \in bom[n]
        PROVE  \E g \in plan' : g.from = n /\ s \in g.slots
    <3>1. n \in current \ Staying /\ \A m \in current : s \in bom[m] => m = n
      BY <1>7, <1>8, <1>9
    <3> QED BY <1>2, <1>3, <3>1, PlanComplete
  <2> QED
    BY <1>1, <1>4, <2>1, <2>3, <2>4, <2>5 DEF SourcesInv, Dispatching, Grouping, Removing
<1>11. StatusInv'
  BY <1>4, <1>7 DEF StatusInv, Dispatching, Grouping, Removing
<1> QED BY <1>1, <1>10, <1>11 DEF Calm

\* Taking a group changes nothing that is still to be done.
LEMMA CalmNextGroup ==
  ASSUME IInv, Calm, NextGroup PROVE Calm'
<1> USE DEF NextGroup
<1>1. pc' \in {"addSlots", "importing"} /\ pc = "dispatch"
      /\ UNCHANGED <<owner, sts, bom, current>>
  BY DEF redisVars
<1>2. KeysInv' /\ \A p, q \in sts', s \in Slots : ~ Owners(p, q, s)'
  BY <1>1, QuietKeys
<1>3. Todo' = Todo
  BY DEF Todo, Grouping
<1> HIDE DEF NextGroup
<1>4. pc \in Dispatching /\ pc' \in Dispatching
  BY <1>1 DEF Dispatching, Grouping
<1>5. SourcesInv'
  <2>1. /\ \A g, h \in Todo : g.slots \cap h.slots # {} => g = h
        /\ \A g \in Todo : g.from = Nowhere \/ g.slots \subseteq Owned(g.from)
        /\ \A n \in Nodes \ Staying : \A s \in bom[n] : \E g \in Todo : g.from = n /\ s \in g.slots
    BY <1>1, <1>4 DEF Calm, SourcesInv
  <2> QED BY <1>1, <1>2, <1>3, <2>1 DEF SourcesInv, Owned, Removing
<1>6. StatusInv'
  BY <1>1, <1>4 DEF Calm, StatusInv, Removing
<1> QED BY <1>2, <1>5, <1>6 DEF Calm

\* What a calm pass knows about the group it moves.
LEMMA CalmGroup ==
  ASSUME IInv, Calm, pc \in Grouping
  PROVE  /\ \A g, h \in plan \cup {group} : g.slots \cap h.slots # {} => g = h
         /\ \A g \in plan : g.from = Nowhere \/ g.slots \subseteq Owned(g.from)
         /\ from = Nowhere \/ group.slots \subseteq Owned(from) \/ pc \in {"nodeFrom", "tell"}
         /\ \A n \in Nodes \ Staying : \A s \in bom[n] :
              \E g \in plan \cup {group} : g.from = n /\ s \in g.slots
         /\ sts = Nodes /\ current = Nodes
         /\ pc # "nodeFrom" => \A p, q \in sts, s \in Slots : ~ Owners(p, q, s)
<1>1. pc \in Dispatching /\ Todo = plan \cup {group} /\ group \notin plan
  BY GroupFacts DEF Dispatching
<1>2. sts = Nodes /\ current = Nodes
  BY <1>1 DEF Calm, StatusInv
<1> QED BY <1>1, <1>2 DEF Calm, SourcesInv, from

\* No key was ever written to a lost slot, so its new owner misses none; and
\* nobody thinks that a lost slot is assigned, so it can be added.
LEMMA CalmAddLostSlots ==
  ASSUME ~ CmdFails, IInv, IInv', Calm, AddLostSlots PROVE Calm'
<1> USE DEF AddLostSlots
<1>1. pc \in Grouping /\ pc \in Dispatching /\ RedisTypeOK /\ pc = "addSlots"
  BY DEF Grouping, Dispatching, IInv, TypeOK
<1>2. /\ to \in Staying /\ to \in Nodes /\ to \in sts
      /\ group.slots \in SUBSET Slots /\ group \notin plan /\ from = Nowhere
      /\ Todo = plan \cup {group}
  BY <1>1, GroupFacts
<1>3. \A s \in group.slots, n \in sts : owner[n][s] # n
  BY <1>1, <1>2 DEF IInv, PlanInv, from
<1>4. AcceptsAddSlots(to, group.slots)
  <2> SUFFICES ASSUME NEW s \in group.slots, owner[to][s] # None PROVE FALSE
    BY DEF AcceptsAddSlots
  <2>1. \E n \in sts : owner[n][s] = n
    BY <1>2 DEF IInv, SlotOwned
  <2> QED BY <1>3, <2>1
<1>5. AddSlots(to, group.slots) /\ GroupDone
      /\ UNCHANGED <<sts, members, current, plan, group, rest, i, status, passes, stopped>>
  BY <1>4
<1> HIDE DEF AddLostSlots
<1>6. /\ UNCHANGED <<migrating, keys, epoch, currentEpoch, acked>>
      /\ \A m \in Nodes, r \in Slots : m # to \/ r \notin group.slots => owner'[m][r] = owner[m][r]
      /\ \A s \in group.slots : owner'[to][s] = to
  BY <1>1, <1>2, <1>5, AddSlotsFacts
<1>7. pc' = "dispatch" /\ bom' = [bom EXCEPT ![to] = @ \cup group.slots]
  BY <1>5 DEF GroupDone
<1>8. \A n \in Nodes, s \in Slots : owner[n][s] = n => owner'[n][s] = n
  BY <1>2, <1>6
<1>9. SourcesInv'
  <2>1. Todo' = plan
    BY <1>5, <1>7 DEF Todo, Grouping
  <2>2. \A p, q \in sts', s \in Slots : ~ Owners(p, q, s)'
    BY <1>7 DEF IInv, PassInv
  <2>3. ASSUME NEW g \in plan PROVE g.from = Nowhere \/ g.slots \subseteq Owned(g.from)'
    <3>1. CASE g.from # Nowhere
      <4>1. g.slots \subseteq Owned(g.from) /\ g.from \in Nodes
        BY <1>1, <3>1, CalmGroup DEF IInv, TypeOK
      <4> QED BY <1>8, <4>1 DEF Owned
    <3> QED BY <3>1
  <2>4. ASSUME NEW n \in Nodes \ Staying, NEW s \in bom'[n]
        PROVE  \E g \in plan : g.from = n /\ s \in g.slots
    <3>1. s \in bom[n]
      BY <1>2, <1>7, <2>4 DEF IInv, TypeOK
    <3>2. PICK g \in plan \cup {group} : g.from = n /\ s \in g.slots
      BY <1>1, <3>1, CalmGroup
    <3>3. g # group
      BY <1>2, <3>2, Basics DEF from
    <3> QED BY <3>2, <3>3
  <2> QED
    BY <1>1, <1>5, <1>7, <2>1, <2>2, <2>3, <2>4, CalmGroup DEF SourcesInv, Dispatching, Grouping, Removing
<1>10. KeysInv'
  <2>1. /\ \A k \in acked, n \in sts : owner[n][SlotOf[k]] = n => k \in keys[n]
        /\ \A n \in Nodes, s \in Slots : migrating[n][s] = None
    BY <1>1 DEF Calm, KeysInv
  <2>2. ASSUME NEW k \in acked, NEW n \in sts, owner'[n][SlotOf[k]] = n PROVE k \in keys[n]
    <3>1. SlotOf[k] \in Slots /\ n \in Nodes
      BY <1>1, RedisAssumption DEF RedisTypeOK, IInv, TypeOK
    <3>2. SlotOf[k] \notin group.slots
      BY <1>3 DEF IInv, AckedOwned
    <3> QED BY <1>6, <2>1, <2>2, <3>1, <3>2
  <2> QED BY <1>5, <1>6, <1>7, <2>1, <2>2 DEF KeysInv
<1>11. StatusInv'
  BY <1>1, <1>5, <1>7, CalmGroup DEF StatusInv, Dispatching, Grouping, Removing
<1> QED BY <1>9, <1>10, <1>11 DEF Calm

\* A step inside a group that leaves the owners alone.
LEMMA CalmSameOwners ==
  ASSUME IInv, Calm, pc \in {"importing", "migrating", "keys"},
         pc' \in {"migrating", "keys", "nodeTo"},
         UNCHANGED <<owner, sts, members, passVars, passes, stopped, status>>
  PROVE  SourcesInv' /\ StatusInv'
<1>1. pc \in Grouping /\ pc' \in Grouping /\ pc \in Dispatching /\ pc' \in Dispatching
  BY DEF Dispatching, Grouping
<1>2. UNCHANGED <<bom, current, group, plan>> /\ Todo' = Todo
  BY <1>1 DEF passVars, Todo
<1>3. SourcesInv'
  <2>1. /\ \A g, h \in Todo : g.slots \cap h.slots # {} => g = h
        /\ \A g \in Todo : g.from = Nowhere \/ g.slots \subseteq Owned(g.from)
        /\ \A n \in Nodes \ Staying : \A s \in bom[n] : \E g \in Todo : g.from = n /\ s \in g.slots
    BY <1>1 DEF Calm, SourcesInv
  <2>2. \A p, q \in sts, s \in Slots : ~ Owners(p, q, s)
    BY <1>1 DEF Calm, SourcesInv
  <2> QED BY <1>2, <2>1, <2>2 DEF SourcesInv, Owned, Owners, Removing
<1>4. StatusInv'
  BY <1>1, <1>2 DEF Calm, StatusInv, Removing
<1> QED BY <1>3, <1>4

\* The target owns none of the slots, which are with the source, so it
\* accepts to import them all.
LEMMA CalmImporting ==
  ASSUME ~ CmdFails, IInv, Calm, Importing PROVE Calm'
<1> USE DEF Importing
<1>1. pc \in Grouping \ {"addSlots"} /\ RedisTypeOK /\ pc = "importing"
  BY DEF Grouping, IInv, TypeOK
<1>2. /\ to \in Nodes /\ from \in Nodes /\ from # Nowhere /\ group.slots \in SUBSET Slots
      /\ from # to /\ to \in sts /\ from \in sts
  BY <1>1, GroupFacts
<1>3. group.slots \subseteq AcceptsImporting(to)
  <2> SUFFICES ASSUME NEW s \in group.slots, owner[to][s] = to PROVE FALSE
    BY <1>2 DEF AcceptsImporting
  <2>1. owner[from][s] = from
    BY <1>1, <1>2, CalmGroup DEF Owned
  <2>2. ~ Owners(from, to, s)
    BY <1>1, <1>2, CalmGroup
  <2> QED BY <1>2, <2>1, <2>2 DEF Owners
<1>4. SetImporting(to, group.slots, from) /\ Goto("migrating")
  BY <1>3
<1> HIDE DEF Importing
<1>5. UNCHANGED <<owner, migrating, keys, acked, sts, members, passVars, passes, stopped, status>>
      /\ pc' = "migrating"
  BY <1>4 DEF SetImporting, Goto
<1>6. SourcesInv' /\ StatusInv'
  BY <1>1, <1>5, CalmSameOwners
<1>7. KeysInv'
  BY <1>1, <1>5 DEF Calm, KeysInv
<1> QED BY <1>6, <1>7 DEF Calm

\* The source owns the slots and accepts to migrate them all.
LEMMA CalmMigrating ==
  ASSUME ~ CmdFails, IInv, Calm, Migrating PROVE Calm'
<1> USE DEF Migrating
<1>1. pc \in Grouping \ {"addSlots"} /\ RedisTypeOK /\ pc = "migrating"
  BY DEF Grouping, IInv, TypeOK
<1>2. /\ to \in Nodes /\ from \in Nodes /\ from # Nowhere /\ group.slots \in SUBSET Slots
  BY <1>1, GroupFacts
<1>3. group.slots \subseteq AcceptsMigrating(from)
  BY <1>1, <1>2, CalmGroup DEF AcceptsMigrating, Owned
<1>4. SetMigrating(from, group.slots, to) /\ Goto("keys")
  BY <1>3
<1> HIDE DEF Migrating
<1>5. /\ UNCHANGED <<owner, importing, keys, acked, sts, members, passVars, passes, stopped, status, group>>
      /\ pc' = "keys" /\ from' = from
  BY <1>4 DEF SetMigrating, Goto, passVars, from
<1>6. \A m \in Nodes, r \in Slots :
        migrating'[m][r] = migrating[m][r] \/ (m = from /\ r \in group.slots)
  BY <1>1, <1>2, <1>4 DEF SetMigrating, RedisTypeOK
<1>7. SourcesInv' /\ StatusInv'
  BY <1>1, <1>5, CalmSameOwners
<1>8. KeysInv'
  <2>1. /\ \A k \in acked, n \in sts : owner[n][SlotOf[k]] = n => k \in keys[n]
        /\ \A n \in Nodes, s \in Slots : migrating[n][s] = None
    BY <1>1 DEF Calm, KeysInv
  <2> QED BY <1>5, <1>6, <2>1 DEF KeysInv
<1> QED BY <1>7, <1>8 DEF Calm

\* A key that has left the source is with the target.
LEMMA CalmMigrateKeys ==
  ASSUME ~ CmdFails, IInv, Calm, MigrateKeys PROVE Calm'
<1> USE DEF MigrateKeys
<1>1. pc \in Grouping \ {"addSlots"} /\ RedisTypeOK /\ pc = "keys"
  BY DEF Grouping, IInv, TypeOK
<1>2. /\ to \in Nodes /\ from \in Nodes /\ group.slots \in SUBSET Slots /\ sts \subseteq Nodes
      /\ from # to /\ to \in sts
  BY <1>1, GroupFacts
<1>3. \A s \in group.slots : importing[to][s] # None /\ owner[to][s] # to
  BY <1>1 DEF IInv, MoveInv
<1>4. CASE UNCHANGED redisVars /\ Goto("nodeTo")
  <2>1. UNCHANGED <<owner, migrating, keys, acked, sts, members, passVars, passes, stopped, status, group>>
        /\ pc' = "nodeTo" /\ from' = from /\ to' = to
    BY <1>4 DEF Goto, redisVars, passVars, from, to
  <2>2. SourcesInv' /\ StatusInv'
    BY <1>1, <2>1, CalmSameOwners
  <2>3. KeysInv'
    BY <1>1, <2>1 DEF Calm, KeysInv
  <2> QED BY <2>2, <2>3 DEF Calm
<1>5. ASSUME NEW k \in GroupKeys, Migrate(from, to, k), Goto("keys") PROVE Calm'
  <2>1. UNCHANGED <<owner, migrating, acked, sts, members, passVars, passes, stopped, status, group>>
        /\ pc' = "keys" /\ from' = from /\ to' = to
    BY <1>5 DEF Migrate, Goto, tables, passVars, from, to
  <2>2. \A n \in Nodes : /\ n = from => keys'[n] = keys[n] \ {k}
                         /\ n = to => keys'[n] = keys[n] \cup {k}
                         /\ n # from /\ n # to => keys'[n] = keys[n]
    BY <1>1, <1>2, <1>5 DEF Migrate, RedisTypeOK
  <2>3. SlotOf[k] \in group.slots
    BY <1>5 DEF GroupKeys
  <2>4. SourcesInv' /\ StatusInv'
    BY <1>1, <2>1, CalmSameOwners
  <2>5. KeysInv'
    <3>1. ASSUME NEW j \in acked, NEW n \in sts, owner[n][SlotOf[j]] = n
          PROVE  \/ j \in keys'[n]
                 \/ n = from /\ SlotOf[j] \in group.slots /\ j \in keys'[to]
      <4>1. \/ j \in keys[n]
            \/ n = from /\ SlotOf[j] \in group.slots /\ j \in keys[to]
        BY <3>1 DEF Calm, KeysInv
      <4> QED BY <1>2, <2>2, <2>3, <4>1
    <3>2. \A n \in Nodes, s \in Slots : migrating[n][s] # None => n = from /\ s \in group.slots
      BY DEF Calm, KeysInv
    <3> QED BY <2>1, <3>1, <3>2 DEF KeysInv
  <2> QED BY <2>4, <2>5 DEF Calm
<1>6. ASSUME NEW k \in GroupKeys PROVE AcceptsRestore(to, SlotOf[k])
  BY <1>3, <1>6 DEF GroupKeys, AcceptsRestore
<1> QED BY <1>4, <1>5, <1>6

\* The target takes the slots when the source has no key left in them, so all
\* their keys are with the target.
LEMMA CalmNodeTo ==
  ASSUME ~ CmdFails, IInv, Calm, NodeTo PROVE Calm'
<1> USE DEF NodeTo
<1>1. pc \in Grouping \ {"addSlots"} /\ RedisTypeOK /\ pc = "nodeTo"
  BY DEF Grouping, IInv, TypeOK
<1>2. /\ to \in Nodes /\ from \in Nodes /\ group.slots \in SUBSET Slots /\ sts \subseteq Nodes
      /\ from # to /\ to \in sts /\ from \in sts /\ from # Nowhere
      /\ Todo = plan \cup {group} /\ group \notin plan
  BY <1>1, GroupFacts
<1>3. SetNode(to, group.slots, to) /\ Goto("nodeFrom")
  OBVIOUS
<1> HIDE DEF NodeTo
<1>4. /\ UNCHANGED <<keys, acked>>
      /\ \A m \in Nodes, r \in Slots : m # to \/ r \notin group.slots => owner'[m][r] = owner[m][r]
      /\ \A s \in group.slots : owner'[to][s] = to
      /\ \A m \in Nodes, r \in Slots : migrating'[m][r] \in {None, migrating[m][r]}
  <2>1. PICK t \in Nodes, S \in SUBSET Slots : t = to /\ S = group.slots
    BY <1>2
  <2>2. RedisTypeOK /\ SetNode(t, S, t)
    BY <1>1, <1>3, <2>1
  <2>3. /\ UNCHANGED <<keys, acked>>
        /\ \A m \in Nodes, r \in Slots : m # t \/ r \notin S =>
             /\ owner'[m][r] = owner[m][r]
             /\ migrating'[m][r] = migrating[m][r]
             /\ importing'[m][r] = importing[m][r]
        /\ \A s \in S : owner'[t][s] = t
        /\ \A m \in Nodes, r \in Slots : migrating'[m][r] \in {None, migrating[m][r]}
    BY <2>2, TakeFacts, Zenon
  <2> QED BY <2>1, <2>3
<1>5. /\ UNCHANGED <<sts, members, bom, current, plan, group, status>>
      /\ pc' = "nodeFrom" /\ from' = from /\ to' = to
  BY <1>3 DEF Goto, passVars, from, to
<1>6. \A n \in Nodes, s \in Slots : owner[n][s] = n => owner'[n][s] = n
  BY <1>2, <1>4
<1>7. SourcesInv'
  <2>1. Todo' = plan \cup {group} /\ group' = group
    BY <1>5 DEF Todo, Grouping
  <2>2. ASSUME NEW g \in plan PROVE g.from = Nowhere \/ g.slots \subseteq Owned(g.from)'
    <3>1. CASE g.from # Nowhere
      <4>1. g.slots \subseteq Owned(g.from) /\ g.from \in Nodes
        BY <1>1, <3>1, CalmGroup DEF IInv, TypeOK
      <4> QED BY <1>6, <4>1 DEF Owned
    <3> QED BY <3>1
  <2> QED
    BY <1>1, <1>5, <2>1, <2>2, CalmGroup DEF SourcesInv, Dispatching, Grouping, Removing
<1>8. KeysInv'
  <2>1. GroupKeys = {}
    BY <1>1 DEF IInv, MoveInv
  <2>2. ASSUME NEW k \in acked, SlotOf[k] \in group.slots PROVE k \in keys[to]
    <3>1. owner[from][SlotOf[k]] = from
      BY <1>1, <2>2 DEF IInv, MoveInv
    <3>2. k \notin keys[from]
      BY <2>1, <2>2 DEF GroupKeys
    <3> QED BY <1>2, <3>1, <3>2 DEF Calm, KeysInv
  <2>3. ASSUME NEW k \in acked, NEW n \in sts, owner'[n][SlotOf[k]] = n
        PROVE  \/ k \in keys[n]
               \/ n = from /\ SlotOf[k] \in group.slots /\ k \in keys[to]
    <3>1. SlotOf[k] \in Slots /\ n \in Nodes
      BY <1>1, <1>2, RedisAssumption DEF RedisTypeOK
    <3>2. CASE n = to /\ SlotOf[k] \in group.slots
      BY <2>2, <3>2
    <3>3. CASE ~ (n = to /\ SlotOf[k] \in group.slots)
      <4>1. owner[n][SlotOf[k]] = n
        BY <1>4, <2>3, <3>1, <3>3
      <4> QED BY <4>1 DEF Calm, KeysInv
    <3> QED BY <3>2, <3>3
  <2>4. \A n \in Nodes, s \in Slots : migrating'[n][s] # None => n = from /\ s \in group.slots
    BY <1>4 DEF Calm, KeysInv
  <2>5. \A s \in group.slots : KeysIn(from, s) = {}
    BY <2>1 DEF GroupKeys, KeysIn
  <2> QED BY <1>4, <1>5, <2>3, <2>4, <2>5 DEF KeysInv, KeysIn
<1>9. StatusInv'
  BY <1>1, <1>5, CalmGroup DEF StatusInv, Dispatching, Grouping, Removing
<1> QED BY <1>7, <1>8, <1>9 DEF Calm

\* The source hands the slots over: nothing is migrating any more.
LEMMA CalmNodeFrom ==
  ASSUME ~ CmdFails, IInv, IInv', Calm, NodeFrom PROVE Calm'
<1> USE DEF NodeFrom
<1>1. pc \in Grouping \ {"addSlots"} /\ RedisTypeOK /\ pc = "nodeFrom"
  BY DEF Grouping, IInv, TypeOK
<1>2. /\ to \in Nodes /\ from \in Nodes /\ group.slots \in SUBSET Slots /\ sts \subseteq Nodes
      /\ from # to /\ to \in sts /\ from \in sts /\ from # Nowhere
      /\ Todo = plan \cup {group} /\ group \notin plan
  BY <1>1, GroupFacts
<1>3. /\ pc' = "tell" /\ UNCHANGED <<sts, members, current, plan, group, i, status, passes, stopped>>
      /\ bom' = [bom EXCEPT ![from] = @ \ group.slots]
      /\ SetNode(from, group.slots, to)
  OBVIOUS
<1> HIDE DEF NodeFrom
<1>4. \A s \in group.slots : KeysIn(from, s) = {}
  BY <1>1 DEF Calm, KeysInv
<1>5. /\ UNCHANGED <<keys, acked>>
      /\ \A n \in Nodes, r \in Slots : n # from \/ r \notin group.slots =>
              owner'[n][r] = owner[n][r] /\ migrating'[n][r] = migrating[n][r]
      /\ \A s \in group.slots : owner'[from][s] = to
      /\ \A s \in group.slots : migrating'[from][s] = None
      /\ \A n \in sts, s \in Slots : owner'[n][s] = n => owner[n][s] = n
  <2>1. PICK f \in sts : f = from
    BY <1>2
  <2>2. /\ f # to /\ \A s \in group.slots : owner[f][s] = f => KeysIn(f, s) = {}
        /\ SetNode(f, group.slots, to)
    BY <1>2, <1>3, <1>4, <2>1
  <2>3. /\ UNCHANGED <<keys, acked>>
        /\ \A n \in Nodes, r \in Slots : n # f \/ r \notin group.slots =>
             owner'[n][r] = owner[n][r] /\ migrating'[n][r] = migrating[n][r]
        /\ \A s \in group.slots : owner'[f][s] = to
        /\ \A s \in group.slots : KeysIn(f, s) = {} => migrating'[f][s] = None
        /\ \A n \in sts, s \in Slots : owner'[n][s] = n => owner[n][s] = n
    BY <1>1, <1>3, <2>2, HandOver
  <2> QED BY <1>4, <2>1, <2>3
<1>6. from' = from /\ to' = to
  BY <1>3 DEF from, to
<1>7. SourcesInv'
  <2>1. Todo' = plan \cup {group}
    BY <1>3 DEF Todo, Grouping
  <2>2. \A p, q \in sts', s \in Slots : ~ Owners(p, q, s)'
    BY <1>3 DEF IInv, PassInv
  <2>3. ASSUME NEW g \in plan PROVE g.from = Nowhere \/ g.slots \subseteq Owned(g.from)'
    <3>1. CASE g.from # Nowhere
      <4>1. g.slots \subseteq Owned(g.from) /\ g.from \in Nodes
        BY <1>1, <3>1, CalmGroup DEF IInv, TypeOK
      <4>2. g.slots \cap group.slots = {}
        BY <1>1, <1>2, CalmGroup
      <4> QED BY <1>5, <4>1, <4>2 DEF Owned
    <3> QED BY <3>1
  <2>4. ASSUME NEW n \in Nodes \ Staying, NEW s \in bom'[n]
        PROVE  \E g \in plan \cup {group} : g.from = n /\ s \in g.slots
    <3>1. s \in bom[n]
      BY <1>2, <1>3, <2>4 DEF IInv, TypeOK
    <3> QED BY <1>1, <3>1, CalmGroup
  <2>5. group.slots \cap bom'[from] = {}
    BY <1>2, <1>3 DEF IInv, TypeOK
  <2> QED
    BY <1>1, <1>3, <1>6, <2>1, <2>2, <2>3, <2>4, <2>5, CalmGroup
    DEF SourcesInv, Dispatching, Grouping, Removing
<1>8. KeysInv'
  <2>1. ASSUME NEW k \in acked, NEW n \in sts, owner'[n][SlotOf[k]] = n PROVE k \in keys[n]
    <3>1. SlotOf[k] \in Slots /\ n \in Nodes
      BY <1>1, <1>2, RedisAssumption DEF RedisTypeOK
    <3>2. owner[n][SlotOf[k]] = n /\ ~ (n = from /\ SlotOf[k] \in group.slots)
      BY <1>2, <1>5, <2>1, <3>1
    <3> QED BY <3>2 DEF Calm, KeysInv
  <2>2. \A n \in Nodes, s \in Slots : migrating'[n][s] = None
    <3>1. \A n \in Nodes, s \in Slots : migrating[n][s] # None => n = from /\ s \in group.slots
      BY DEF Calm, KeysInv
    <3> QED BY <1>5, <3>1
  <2> QED BY <1>3, <1>5, <2>1, <2>2 DEF KeysInv
<1>9. StatusInv'
  BY <1>1, <1>3, CalmGroup DEF StatusInv, Dispatching, Grouping, Removing
<1> QED BY <1>7, <1>8, <1>9 DEF Calm

\* Another master is told.
LEMMA CalmTell ==
  ASSUME ~ CmdFails, IInv, IInv', Calm, Tell PROVE Calm'
<1> USE DEF Tell
<1>1. pc \in Grouping \ {"addSlots"} /\ RedisTypeOK /\ pc = "tell"
  BY DEF Grouping, IInv, TypeOK
<1>2. /\ to \in Nodes /\ from \in Nodes /\ group.slots \in SUBSET Slots /\ sts \subseteq Nodes
      /\ from # to /\ to \in sts /\ from \in sts /\ from # Nowhere
      /\ Todo = plan \cup {group} /\ group \notin plan
  BY <1>1, GroupFacts
<1>3. PICK m \in rest : SetNode(m, group.slots, to) /\ rest' = rest \ {m}
  OBVIOUS
<1>4. pc' = "tell" /\ UNCHANGED <<sts, members, bom, current, plan, group, i, status, passes, stopped>>
  OBVIOUS
<1> HIDE DEF Tell
<1>5. m \in sts /\ m # to /\ m \in Nodes
  BY <1>1, <1>2 DEF IInv, MoveInv
<1>6. \A s \in group.slots : owner[m][s] # m
  <2>1. \A s \in group.slots : owner[to][s] = to
    BY <1>1 DEF IInv, MoveInv
  <2>2. \A p, q \in sts, s \in Slots : ~ Owners(p, q, s)
    BY <1>1, CalmGroup
  <2> QED BY <1>2, <1>5, <2>1, <2>2 DEF Owners
<1>7. /\ UNCHANGED <<keys, acked>>
      /\ \A n \in Nodes, r \in Slots : n # m \/ r \notin group.slots =>
           owner'[n][r] = owner[n][r] /\ migrating'[n][r] = migrating[n][r]
      /\ \A s \in group.slots : owner'[m][s] = to
      /\ \A s \in group.slots : KeysIn(m, s) = {} => migrating'[m][s] = None
      /\ \A n \in sts, s \in Slots : owner'[n][s] = n => owner[n][s] = n
  BY <1>1, <1>3, <1>4, <1>5, <1>6, HandOver
<1>8. \A n \in Nodes, s \in Slots : owner[n][s] = n => owner'[n][s] = n
  BY <1>5, <1>6, <1>7
<1>9. SourcesInv'
  <2>1. Todo' = plan \cup {group} /\ from' = from
    BY <1>4 DEF Todo, Grouping, from
  <2>2. \A p, q \in sts', s \in Slots : ~ Owners(p, q, s)'
    BY <1>4 DEF IInv, PassInv
  <2>3. ASSUME NEW g \in plan PROVE g.from = Nowhere \/ g.slots \subseteq Owned(g.from)'
    <3>1. CASE g.from # Nowhere
      <4>1. g.slots \subseteq Owned(g.from) /\ g.from \in Nodes
        BY <1>1, <3>1, CalmGroup DEF IInv, TypeOK
      <4> QED BY <1>8, <4>1 DEF Owned
    <3> QED BY <3>1
  <2>4. group.slots \cap bom[from] = {}
    BY <1>1 DEF Calm, SourcesInv
  <2> QED
    BY <1>1, <1>4, <2>1, <2>2, <2>3, <2>4, CalmGroup DEF SourcesInv, Dispatching, Grouping, Removing
<1>10. KeysInv'
  <2>1. /\ \A k \in acked, n \in sts : owner[n][SlotOf[k]] = n => k \in keys[n]
        /\ \A n \in Nodes, s \in Slots : migrating[n][s] = None
    BY <1>1 DEF Calm, KeysInv
  <2>2. ASSUME NEW k \in acked, NEW n \in sts, owner'[n][SlotOf[k]] = n PROVE k \in keys[n]
    <3>1. SlotOf[k] \in Slots
      BY <1>1, RedisAssumption DEF RedisTypeOK
    <3> QED BY <1>7, <2>1, <2>2, <3>1
  <2>3. \A n \in Nodes, s \in Slots : migrating'[n][s] = None
    <3>1. \A n \in Nodes, s \in Slots : migrating'[n][s] \in {None, migrating[n][s]}
      <4>1. PICK t \in Nodes, S \in SUBSET Slots : t = to /\ S = group.slots
        BY <1>2
      <4>2. RedisTypeOK /\ SetNode(m, S, t)
        BY <1>1, <1>3, <4>1
      <4> QED BY <1>5, <4>2, NodeElsewhere
    <3> QED BY <2>1, <3>1
  <2> QED BY <1>4, <1>7, <2>2, <2>3 DEF KeysInv
<1>11. StatusInv'
  BY <1>1, <1>4, CalmGroup DEF StatusInv, Dispatching, Grouping, Removing
<1> QED BY <1>9, <1>10, <1>11 DEF Calm

\* The group is done; its source has none of its slots any more.
LEMMA CalmEndGroup ==
  ASSUME IInv, Calm, EndGroup PROVE Calm'
<1> USE DEF EndGroup
<1>1. pc \in Grouping \ {"addSlots"} /\ pc = "tell"
  BY DEF Grouping
<1>2. /\ to \in Nodes /\ to \in Staying /\ group.slots \in SUBSET Slots
  BY <1>1, GroupFacts
<1>3. /\ pc' = "dispatch" /\ bom' = [bom EXCEPT ![to] = @ \cup group.slots]
      /\ UNCHANGED <<redisVars, sts, members, current, plan, group, rest, i, status, passes, stopped>>
  BY DEF GroupDone
<1> HIDE DEF EndGroup
<1>4. KeysInv' /\ \A p, q \in sts', s \in Slots : ~ Owners(p, q, s)'
  BY <1>1, <1>3, QuietKeys
<1>5. SourcesInv'
  <2>1. Todo' = plan /\ owner' = owner
    BY <1>3 DEF Todo, Grouping, redisVars
  <2>2. ASSUME NEW n \in Nodes \ Staying, NEW s \in bom'[n]
        PROVE  \E g \in plan : g.from = n /\ s \in g.slots
    <3>1. s \in bom[n]
      BY <1>2, <1>3, <2>2 DEF IInv, TypeOK
    <3>2. PICK g \in plan \cup {group} : g.from = n /\ s \in g.slots
      BY <1>1, <3>1, CalmGroup
    <3>3. g # group
      BY <1>1, <3>1, <3>2 DEF Calm, SourcesInv, from
    <3> QED BY <3>2, <3>3
  <2> QED
    BY <1>1, <1>3, <1>4, <2>1, <2>2, CalmGroup DEF SourcesInv, Dispatching, Grouping, Removing, Owned
<1>6. StatusInv'
  BY <1>1, <1>3, CalmGroup DEF StatusInv, Dispatching, Grouping, Removing
<1> QED BY <1>4, <1>5, <1>6 DEF Calm

\* Every group is moved: the masters that go have no slot left.
LEMMA CalmStartScalingDown ==
  ASSUME IInv, Calm, StartScalingDown PROVE Calm'
<1> USE DEF StartScalingDown
<1>1. KeysInv' /\ \A p, q \in sts', s \in Slots : ~ Owners(p, q, s)'
  BY QuietKeys
<1>2. pc \in Dispatching /\ Todo = {}
  BY DEF Dispatching, Todo, Grouping
<1>3. SourcesInv'
  BY <1>1, <1>2 DEF Calm, SourcesInv, Dispatching, Grouping, Removing
<1>4. sts = Nodes /\ current = Nodes
  BY <1>2 DEF Calm, StatusInv
<1>5. sts' = 0 .. i'
  BY <1>4, Basics
<1>6. StatusInv'
  BY <1>4, <1>5 DEF StatusInv, Dispatching, Grouping, Removing
<1> QED BY <1>1, <1>3, <1>6 DEF Calm

\* The StatefulSet exists and its node has no slot: the pass does not fail.
LEMMA CalmCheckEmpty ==
  ASSUME ~ CmdFails, IInv, Calm, CheckEmpty PROVE Calm'
<1> USE DEF CheckEmpty
<1>1. pc \in Removing
  BY DEF Removing
<1>2. sts = 0 .. i /\ \A n \in Nodes \ Staying : bom[n] = {}
  BY <1>1 DEF Calm, StatusInv, SourcesInv
<1>3. i \in sts /\ i \in Nodes \ Staying
  BY <1>1, <1>2, RemovingFacts DEF Staying
<1>4. UNCHANGED redisVars /\ Goto("forget")
  BY <1>2, <1>3
<1>5. UNCHANGED <<redisVars, sts, bom, current, i>> /\ pc' = "forget"
  BY <1>4 DEF Goto, passVars
<1>6. KeysInv' /\ \A p, q \in sts', s \in Slots : ~ Owners(p, q, s)'
  BY <1>5, QuietKeys
<1>7. SourcesInv'
  BY <1>2, <1>5, <1>6 DEF SourcesInv, Dispatching, Grouping, Removing
<1>8. StatusInv'
  BY <1>1, <1>5 DEF Calm, StatusInv, Dispatching, Grouping, Removing
<1> QED BY <1>6, <1>7, <1>8 DEF Calm

\* The other nodes forget a node that owns nothing: every slot stays with its
\* owner.
LEMMA CalmForgetNode ==
  ASSUME ~ CmdFails, IInv, Calm, ForgetNode PROVE Calm'
<1> USE DEF ForgetNode
<1>1. pc = "forget" /\ pc \in {"forget", "delete"} /\ pc \in Removing
  BY DEF Removing
<1>2. i \in Nodes /\ \A s \in Slots : owner[i][s] # i
  BY <1>1, Emptied
<1>3. Forget(Connected, i)
  OBVIOUS
<1>4. pc' = "delete" /\ UNCHANGED <<sts, bom, current, i>>
  BY DEF passVars
<1> HIDE DEF ForgetNode
<1>5. Connected \in SUBSET Nodes /\ sts \subseteq Nodes /\ RedisTypeOK
  BY DEF Connected, IInv, TypeOK
<1>6. /\ UNCHANGED <<keys, acked>>
      /\ \A m \in Nodes, r \in Slots :
           owner'[m][r] = owner[m][r] \/ owner'[m][r] = None
      /\ \A m \in Nodes, r \in Slots : migrating'[m][r] \in {None, migrating[m][r]}
  <2>1. PICK x \in Nodes, N \in SUBSET Nodes : x = i /\ N = Connected
    BY <1>2, <1>5
  <2>2. Forget(N, x)
    BY <1>3, <2>1
  <2>3. /\ UNCHANGED <<keys, epoch, currentEpoch, acked>>
        /\ \A m \in Nodes, r \in Slots :
             owner'[m][r] = IF m \in N /\ owner[m][r] = x THEN None ELSE owner[m][r]
        /\ \A m \in Nodes, r \in Slots : migrating'[m][r] \in {None, migrating[m][r]}
    BY <1>5, <2>2, ForgetFacts
  <2> QED BY <2>3
<1>7. \A n \in sts, s \in Slots : owner'[n][s] = n => owner[n][s] = n
  BY <1>5, <1>6, Basics
<1>8. SourcesInv'
  <2>1. \A p, q \in sts, s \in Slots : ~ Owners(p, q, s)'
    BY <1>1, <1>7, RemovingFacts DEF Owners
  <2>2. \A n \in Nodes \ Staying : bom[n] = {}
    BY <1>1 DEF Calm, SourcesInv
  <2> QED BY <1>4, <2>1, <2>2 DEF SourcesInv, Dispatching, Grouping, Removing
<1>9. KeysInv'
  <2>1. /\ \A k \in acked, n \in sts : owner[n][SlotOf[k]] = n => k \in keys[n]
        /\ \A n \in Nodes, s \in Slots : migrating[n][s] = None
    BY <1>1 DEF Calm, KeysInv
  <2>2. ASSUME NEW k \in acked, NEW n \in sts, owner'[n][SlotOf[k]] = n PROVE k \in keys[n]
    <3>1. SlotOf[k] \in Slots
      BY <1>5, RedisAssumption DEF RedisTypeOK
    <3> QED BY <1>7, <2>1, <2>2, <3>1
  <2>3. \A n \in Nodes, s \in Slots : migrating'[n][s] = None
    BY <1>6, <2>1
  <2> QED BY <1>4, <1>6, <2>2, <2>3 DEF KeysInv
<1>10. StatusInv'
  BY <1>1, <1>4 DEF Calm, StatusInv, Dispatching, Grouping, Removing
<1> QED BY <1>8, <1>9, <1>10 DEF Calm

\* The last StatefulSet goes.
LEMMA CalmDelete ==
  ASSUME ~ CmdFails, IInv, Calm, DeleteStatefulSet PROVE Calm'
<1> USE DEF DeleteStatefulSet
<1>1. pc = "delete" /\ pc \in {"forget", "delete"} /\ pc \in Removing
  BY DEF Removing
<1>2. i \in Nodes /\ i \in Int /\ keys[i] = {}
  BY <1>1, Emptied, Basics
<1>3. /\ sts' = sts \ {i} /\ keys' = [keys EXCEPT ![i] = {}] /\ i' = i - 1 /\ pc' = "remove"
      /\ UNCHANGED <<owner, migrating, importing, epoch, currentEpoch, acked, members, bom, current>>
  BY DEF tables
<1> HIDE DEF DeleteStatefulSet
<1>4. keys' = keys
  BY <1>2, <1>3 DEF IInv, TypeOK, RedisTypeOK
<1>5. SourcesInv'
  <2>1. \A p, q \in sts', s \in Slots : ~ Owners(p, q, s)'
    BY <1>1, <1>3, RemovingFacts DEF Owners
  <2>2. \A n \in Nodes \ Staying : bom[n] = {}
    BY <1>1 DEF Calm, SourcesInv
  <2> QED BY <1>3, <2>1, <2>2 DEF SourcesInv, Dispatching, Grouping, Removing
<1>6. KeysInv'
  <2>1. /\ \A k \in acked, n \in sts : owner[n][SlotOf[k]] = n => k \in keys[n]
        /\ \A n \in Nodes, s \in Slots : migrating[n][s] = None
    BY <1>1 DEF Calm, KeysInv
  <2> QED BY <1>3, <1>4, <2>1 DEF KeysInv
<1>7. StatusInv'
  <2>1. sts = 0 .. i /\ current = Nodes
    BY <1>1 DEF Calm, StatusInv
  <2>2. sts' = 0 .. i'
    BY <1>2, <1>3, <2>1
  <2> QED BY <1>3, <2>1, <2>2 DEF StatusInv, Dispatching, Grouping, Removing
<1> QED BY <1>5, <1>6, <1>7 DEF Calm

\* The pass ends with the masters that stay, and no others.
LEMMA CalmFinish ==
  ASSUME IInv, Calm, FinishPass PROVE Calm'
<1> USE DEF FinishPass
<1>1. pc \in Removing
  BY DEF Removing
<1>2. KeysInv' /\ \A p, q \in sts', s \in Slots : ~ Owners(p, q, s)'
  BY QuietKeys
<1>3. SourcesInv'
  BY <1>2 DEF SourcesInv, Dispatching, Grouping, Removing
<1>4. sts = Staying
  <2>1. i = Expect - 1
    BY <1>1, RemovingFacts
  <2> QED BY <1>1, <2>1 DEF Calm, StatusInv, Staying
<1>5. StatusInv'
  BY <1>4 DEF StatusInv, Dispatching, Grouping, Removing
<1> QED BY <1>2, <1>3, <1>5 DEF Calm

\* A client's write: the key is with every owner of its slot, or on its way
\* with the slot; a source that has been emptied stays empty.
LEMMA CalmWrite ==
  ASSUME IInv, Calm, NEW k \in Keys, NEW n \in sts, NEW t \in sts,
         (ClientWrite(k, n) /\ t = n) \/ ClientAskWrite(k, n, t),
         UNCHANGED <<sts, members, passVars, pc, status, passes, stopped>>
  PROVE  Calm'
<1> DEFINE s == SlotOf[k]
<1>1. /\ keys' = [keys EXCEPT ![t] = @ \cup {k}] /\ acked' = acked \cup {k}
      /\ UNCHANGED <<owner, migrating, importing, epoch, currentEpoch>>
      /\ owner[n][s] = n
      /\ \/ t = n /\ migrating[n][s] = None
         \/ migrating[n][s] = t /\ owner[t][s] # t
  BY DEF ClientWrite, ClientAskWrite, tables
<1>2. sts \subseteq Nodes /\ n \in Nodes /\ t \in Nodes /\ s \in Slots /\ RedisTypeOK
  BY RedisAssumption DEF IInv, TypeOK
<1>3. \A m \in Nodes : keys'[m] = IF m = t THEN keys[m] \cup {k} ELSE keys[m]
  BY <1>1, <1>2 DEF RedisTypeOK
<1>4. UNCHANGED <<bom, current, plan, group, rest, i>> /\ from' = from /\ to' = to
  BY DEF passVars, from, to
<1>5. SourcesInv'
  <2>1. Todo' = Todo
    BY <1>4 DEF Todo
  <2> QED BY <1>1, <1>4, <2>1 DEF Calm, SourcesInv, Owners, Owned
<1>6. StatusInv'
  BY <1>1, <1>4 DEF Calm, StatusInv, Owned
<1>7. /\ pc \in {"keys", "nodeTo", "nodeFrom"} => \A r \in group.slots : migrating[from][r] = to
      /\ pc = "nodeFrom" => \A r \in group.slots : owner[to][r] = to
  BY DEF IInv, MoveInv
<1>8. pc \in {"keys", "nodeTo", "nodeFrom"} => to \in Nodes /\ from \in Nodes /\ from # to
  BY GroupFacts DEF Grouping
<1>9. migrating[n][s] # None => pc \in {"keys", "nodeTo", "nodeFrom"} /\ n = from /\ s \in group.slots
  BY <1>2 DEF Calm, KeysInv
<1>10. ASSUME NEW m \in sts, m # n, owner[m][s] = m
       PROVE  pc = "nodeFrom" /\ s \in group.slots /\ {m, n} = {from, to}
  <2>1. Owners(m, n, s)
    BY <1>1, <1>10 DEF Owners
  <2>2. pc = "nodeFrom"
    BY <1>2, <2>1 DEF Calm, SourcesInv
  <2> QED BY <1>2, <2>1, <2>2 DEF IInv, PassInv
<1> HIDE DEF s
<1>11. ASSUME migrating[n][s] # None
       PROVE  /\ pc \in {"keys", "nodeTo"} /\ n = from /\ t = to /\ s \in group.slots
  BY <1>1, <1>7, <1>9, <1>11
<1>12. ASSUME NEW m \in sts, owner[m][s] = m
       PROVE  \/ k \in keys'[m]
              \/ /\ pc \in {"keys", "nodeTo", "nodeFrom"} /\ m = from
                 /\ s \in group.slots /\ k \in keys'[to]
  <2>1. k \in keys'[t]
    BY <1>2, <1>3
  <2>2. CASE migrating[n][s] = None
    <3>1. t = n
      BY <1>1, <1>2, <2>2, Basics
    <3>2. CASE m = n
      BY <2>1, <3>1, <3>2
    <3>3. CASE m # n
      <4>1. pc = "nodeFrom" /\ s \in group.slots /\ {m, n} = {from, to}
        BY <1>10, <1>12, <3>3
      <4>2. n # from
        BY <1>7, <1>8, <2>2, <4>1, Basics
      <4>3. n = to /\ m = from
        BY <3>3, <4>1, <4>2
      <4> QED BY <2>1, <3>1, <4>1, <4>3
    <3> QED BY <3>2, <3>3
  <2>3. CASE migrating[n][s] # None
    <3>1. m = n
      BY <1>10, <1>11, <1>12, <2>3
    <3> QED BY <1>11, <2>1, <2>3, <3>1
  <2> QED BY <2>2, <2>3
<1>13. KeysInv'
  <2>1. ASSUME NEW j \in acked', NEW m \in sts, owner[m][SlotOf[j]] = m
        PROVE  \/ j \in keys'[m]
               \/ /\ pc \in {"keys", "nodeTo", "nodeFrom"} /\ m = from
                  /\ SlotOf[j] \in group.slots /\ j \in keys'[to]
    <3>1. CASE j = k
      BY <1>12, <2>1, <3>1 DEF s
    <3>2. CASE j # k
      <4>1. j \in acked
        BY <1>1, <3>2
      <4>2. \/ j \in keys[m]
            \/ /\ pc \in {"keys", "nodeTo", "nodeFrom"} /\ m = from
               /\ SlotOf[j] \in group.slots /\ j \in keys[to]
        BY <2>1, <4>1 DEF Calm, KeysInv
      <4> QED BY <1>2, <1>3, <1>8, <4>2
    <3> QED BY <3>1, <3>2
  <2>2. ASSUME pc = "nodeFrom", NEW r \in group.slots PROVE KeysIn(from, r)' = {}
    <3>1. KeysIn(from, r) = {}
      BY <2>2 DEF Calm, KeysInv
    <3>2. r = s => from # t
      BY <1>1, <1>7, <1>8, <1>11, <2>2, Basics
    <3>3. keys'[from] \subseteq keys[from] \cup {k} /\ (from # t => keys'[from] = keys[from])
      BY <1>3, <1>8, <2>2
    <3> QED BY <1>4, <3>1, <3>2, <3>3 DEF KeysIn, s
  <2>3. \A m \in Nodes, r \in Slots : migrating[m][r] # None =>
          pc \in {"keys", "nodeTo", "nodeFrom"} /\ m = from /\ r \in group.slots
    BY DEF Calm, KeysInv
  <2> QED BY <1>1, <1>4, <2>1, <2>2, <2>3 DEF KeysInv
<1> QED BY <1>5, <1>6, <1>13 DEF Calm

\* A claim that is heard takes a slot from its owner only between the two
\* SETSLOT NODE of its own group.
LEMMA CalmGossip ==
  ASSUME IInv, Calm, NEW p \in members, NEW q \in members, Gossip(p, q),
         UNCHANGED <<sts, members, passVars, pc, status, passes, stopped>>
  PROVE  Calm'
<1>1. /\ p \in sts /\ q \in sts /\ p \in Nodes /\ q \in Nodes
      /\ UNCHANGED <<keys, migrating, acked>>
      /\ \A n \in Nodes, s \in Slots : n # p \/ s \notin Rebound(p, q) => owner'[n][s] = owner[n][s]
      /\ \A s \in Rebound(p, q) : owner[p][s] = p => Loses(p, q, s)
      /\ \A n \in sts, s \in Slots : owner'[n][s] = n => owner[n][s] = n
  BY GossipFacts
<1>2. sts \subseteq Nodes /\ RedisTypeOK
  BY DEF IInv, TypeOK
<1>3. UNCHANGED <<bom, current, plan, group, rest, i>> /\ from' = from /\ to' = to
  BY DEF passVars, from, to
<1>4. \A n \in Nodes, s \in Slots : owner[n][s] = n =>
        owner'[n][s] = n \/ (pc = "nodeFrom" /\ s \in group.slots)
  <2> SUFFICES ASSUME NEW n \in Nodes, NEW s \in Slots, owner[n][s] = n, owner'[n][s] # n
               PROVE  pc = "nodeFrom" /\ s \in group.slots
    OBVIOUS
  <2>1. n = p /\ s \in Rebound(p, q)
    BY <1>1
  <2>2. Owners(p, q, s)
    BY <1>1, <2>1 DEF Loses
  <2>3. pc = "nodeFrom"
    BY <1>1, <2>2 DEF Calm, SourcesInv
  <2> QED BY <1>1, <2>2, <2>3 DEF IInv, PassInv
<1>5. pc # "nodeFrom" => \A n \in sts : Owned(n)' = Owned(n)
  BY <1>1, <1>2, <1>4 DEF Owned
<1>6. SourcesInv'
  <2>1. Todo' = Todo
    BY <1>3 DEF Todo
  <2>2. \A x, y \in sts, s \in Slots : Owners(x, y, s)' => pc = "nodeFrom"
    BY <1>1 DEF Calm, SourcesInv, Owners
  <2>3. ASSUME pc \in Dispatching, NEW g \in Todo
        PROVE  \/ g.from = Nowhere \/ g.slots \subseteq Owned(g.from)'
               \/ (g = group /\ pc \in {"nodeFrom", "tell"})
    <3>1. CASE g.from # Nowhere /\ g.slots \subseteq Owned(g.from) /\ ~ (g = group /\ pc = "nodeFrom")
      <4>1. g.from \in Nodes
        BY <3>1 DEF Todo, IInv, TypeOK
      <4>2. ASSUME NEW s \in g.slots PROVE owner'[g.from][s] = g.from
        <5>1. s \in Slots /\ owner[g.from][s] = g.from
          BY <3>1 DEF Owned
        <5>2. ~ (pc = "nodeFrom" /\ s \in group.slots)
          <6> SUFFICES ASSUME pc = "nodeFrom", s \in group.slots PROVE FALSE
            OBVIOUS
          <6>1. group \in Todo
            BY DEF Todo, Grouping
          <6>2. g = group
            BY <2>3, <6>1 DEF Calm, SourcesInv
          <6> QED BY <3>1, <6>2
        <5> QED BY <1>4, <4>1, <5>1, <5>2
      <4> QED BY <3>1, <4>2 DEF Owned
    <3> QED BY <2>3, <3>1 DEF Calm, SourcesInv
  <2> QED BY <1>3, <1>5, <2>1, <2>2, <2>3 DEF Calm, SourcesInv
<1>7. KeysInv'
  <2>1. \A k \in acked : SlotOf[k] \in Slots
    BY <1>2, RedisAssumption DEF RedisTypeOK
  <2>2. \A k \in acked, n \in sts : owner'[n][SlotOf[k]] = n => owner[n][SlotOf[k]] = n
    BY <1>1, <2>1
  <2> QED BY <1>1, <1>3, <2>2 DEF Calm, KeysInv, KeysIn
<1>8. StatusInv'
  BY <1>3, <1>5 DEF Calm, StatusInv
<1> QED BY <1>6, <1>7, <1>8 DEF Calm

\* A step of the environment.
LEMMA CalmBus ==
  ASSUME IInv, Calm, Bus PROVE Calm'
<1>1. UNCHANGED <<sts, members, passVars, pc, status, passes, stopped>>
  BY DEF Bus
<1>2. \/ \E k \in Keys, n \in sts : ClientWrite(k, n)
      \/ \E k \in Keys, n, t \in sts : ClientAskWrite(k, n, t)
      \/ \E p, q \in members : Gossip(p, q)
  BY DEF Bus, Environment
<1>3. CASE \E k \in Keys, n \in sts : ClientWrite(k, n)
  BY <1>1, <1>3, CalmWrite
<1>4. CASE \E k \in Keys, n, t \in sts : ClientAskWrite(k, n, t)
  BY <1>1, <1>4, CalmWrite
<1>5. CASE \E p, q \in members : Gossip(p, q)
  BY <1>1, <1>5, CalmGossip
<1> QED BY <1>2, <1>3, <1>4, <1>5

\* Nothing changes.
LEMMA CalmStutter ==
  ASSUME Calm, UNCHANGED vars PROVE Calm'
<1>1. /\ UNCHANGED <<owner, migrating, keys, acked, sts, pc, status>>
      /\ UNCHANGED <<bom, current, plan, group, i>> /\ from' = from /\ to' = to
  BY DEF vars, redisVars, passVars, from, to
<1>2. Todo' = Todo
  BY <1>1 DEF Todo
<1>3. SourcesInv'
  BY <1>1, <1>2 DEF Calm, SourcesInv, Owners, Owned
<1>4. KeysInv'
  BY <1>1 DEF Calm, KeysInv, KeysIn
<1>5. StatusInv'
  BY <1>1 DEF Calm, StatusInv, Owned
<1> QED BY <1>3, <1>4, <1>5 DEF Calm

\* The cluster starts with the keys at the owners of their slots, nothing on
\* the move, and every node owning a slot.
LEMMA InitCalm == Init => CalmInv
<1> SUFFICES ASSUME Init PROVE CalmInv
  OBVIOUS
<1>1. PICK assigned \in Assignments :
        /\ \A m \in Nodes : \E s \in Slots : assigned[s] = m
        /\ RedisInit(assigned, [n \in Nodes |-> n + 1])
  BY DEF Init
<1>2. sts = Nodes /\ pc = "idle" /\ status = "Rebalancing"
  BY DEF Init
<1>3. /\ owner = [n \in Nodes |-> assigned]
      /\ migrating = [n \in Nodes |-> [s \in Slots |-> None]]
      /\ keys = [n \in Nodes |-> {k \in acked : assigned[SlotOf[k]] = n}]
  BY <1>1 DEF RedisInit
<1>4. SourcesInv
  BY <1>2, <1>3 DEF SourcesInv, Owners, Dispatching, Grouping, Removing
<1>5. KeysInv
  BY <1>2, <1>3 DEF KeysInv
<1>6. StatusInv
  BY <1>1, <1>2, <1>3 DEF StatusInv, Owned, Dispatching, Grouping, Removing
<1> QED BY <1>4, <1>5, <1>6 DEF CalmInv

\* An operator that has stopped once has stopped.
LEMMA StoppedStays ==
  ASSUME stopped, [Next]_vars PROVE stopped'
<1>1. CASE UNCHANGED vars
  BY <1>1 DEF vars
<1>2. CASE Bus \/ Crash
  BY <1>2 DEF Bus, Crash
<1>3. CASE StartPass \/ WaitForClusterJoin \/ NoOperation \/ PlanDispatch \/ NextGroup
  BY <1>3 DEF StartPass, WaitForClusterJoin, NoOperation, PlanDispatch, NextGroup
<1>4. CASE AddLostSlots \/ Importing \/ Migrating \/ MigrateKeys
  BY <1>4 DEF AddLostSlots, Importing, Migrating, MigrateKeys, Goto, Failed
<1>5. CASE NodeTo \/ NodeFrom \/ Tell \/ EndGroup
  BY <1>5 DEF NodeTo, NodeFrom, Tell, EndGroup, Goto
<1>6. CASE StartScalingDown \/ CheckEmpty \/ ForgetNode \/ DeleteStatefulSet \/ FinishPass
  BY <1>6 DEF StartScalingDown, CheckEmpty, ForgetNode, DeleteStatefulSet, FinishPass, Goto, Failed
<1> QED BY <1>1, <1>2, <1>3, <1>4, <1>5, <1>6 DEF Next, Operator

\* Every step preserves what is said of the operator that does not stop.
LEMMA NextCalm ==
  ASSUME ~ CmdFails PROVE IInv /\ CalmInv /\ [Next]_vars => CalmInv'
<1> SUFFICES ASSUME IInv, CalmInv, [Next]_vars PROVE CalmInv'
  OBVIOUS
<1>1. CASE stopped
  BY <1>1, StoppedStays DEF CalmInv
<1>2. CASE ~ stopped
  <2>1. Calm
    BY <1>2 DEF CalmInv, Calm
  <2>2. IInv'
    BY NextIInv
  <2>3. CASE Crash
    BY <2>3 DEF Crash, CalmInv
  <2>4. Calm' => CalmInv'
    BY DEF Calm, CalmInv
  <2>5. CASE UNCHANGED vars
    BY <2>1, <2>4, <2>5, CalmStutter
  <2>6. CASE Bus
    BY <2>1, <2>4, <2>6, CalmBus
  <2>7. CASE StartPass \/ WaitForClusterJoin \/ NoOperation \/ PlanDispatch \/ NextGroup
    BY <2>1, <2>4, <2>7, CalmStartPass, CalmJoin, CalmNoOperation, CalmPlan, CalmNextGroup
  <2>8. CASE AddLostSlots \/ Importing \/ Migrating \/ MigrateKeys
    BY <2>1, <2>2, <2>4, <2>8, CalmAddLostSlots, CalmImporting, CalmMigrating, CalmMigrateKeys
  <2>9. CASE NodeTo \/ NodeFrom \/ Tell \/ EndGroup
    BY <2>1, <2>2, <2>4, <2>9, CalmNodeTo, CalmNodeFrom, CalmTell, CalmEndGroup
  <2>10. CASE StartScalingDown \/ CheckEmpty \/ ForgetNode \/ DeleteStatefulSet \/ FinishPass
    BY <2>1, <2>4, <2>10, CalmStartScalingDown, CalmCheckEmpty, CalmForgetNode, CalmDelete, CalmFinish
  <2> QED BY <2>3, <2>5, <2>6, <2>7, <2>8, <2>9, <2>10 DEF Next, Operator
<1> QED BY <1>1, <1>2

\* With commands that do not fail, the whole invariant holds: until the
\* operator stops, every slot that is to be moved is with its source, every
\* acknowledged key with the owner of its slot or on its way, and no pass
\* fails; and IInv wherever it stops.
THEOREM CalmInvariance == ASSUME ~ CmdFails PROVE Spec => []Inv
<1>1. Init => Inv
  BY InitIInv, InitCalm DEF Inv
<1>2. Inv /\ [Next]_vars => Inv'
  BY NextIInv, NextCalm DEF Inv
<1> QED BY <1>1, <1>2, PTL DEF Spec

\* What has left the source of a slot is where the source sends the clients.
LEMMA OnItsWay ==
  ASSUME IInv, CalmInv, ~ stopped, NEW k \in acked, NEW n \in sts, owner[n][SlotOf[k]] = n,
         k \notin keys[n]
  PROVE  /\ to \in sts \ {n} /\ to # None
         /\ migrating[n][SlotOf[k]] = to /\ k \in keys[to] /\ AcceptsRestore(to, SlotOf[k])
<1>1. /\ pc \in {"keys", "nodeTo", "nodeFrom"} /\ n = from
      /\ SlotOf[k] \in group.slots /\ k \in keys[to]
  BY DEF CalmInv, KeysInv
<1>2. to \in sts \ {n} /\ to \in Nodes
  BY <1>1, GroupFacts DEF Grouping
<1>3. migrating[n][SlotOf[k]] = to /\ AcceptsRestore(to, SlotOf[k])
  BY <1>1 DEF IInv, MoveInv, AcceptsRestore
<1> QED BY <1>1, <1>2, <1>3, Basics

\* With commands that do not fail, and until the operator stops, a node that
\* owns a slot which is not migrating has every acknowledged key of the slot.
THEOREM NoFalseMisses == ASSUME ~ CmdFails PROVE Spec => []NoFalseMiss
<1>1. Inv => NoFalseMiss
  BY OnItsWay DEF NoFalseMiss, Inv
<1> QED BY <1>1, CalmInvariance, PTL

\* With commands that do not fail, and until the operator stops, a client
\* that follows MOVED and ASK finds every acknowledged key.
THEOREM KeysReachable == ASSUME ~ CmdFails PROVE Spec => []KeyReachable
<1>1. ASSUME Inv PROVE KeyReachable
  <2> SUFFICES ASSUME ~ stopped, NEW k \in acked
               PROVE  \E n \in sts :
                        LET s == SlotOf[k] IN
                        /\ owner[n][s] = n
                        /\ \/ k \in keys[n]
                           \/ \E t \in sts \ {n} :
                                migrating[n][s] = t /\ k \in keys[t] /\ AcceptsRestore(t, s)
    BY DEF KeyReachable
  <2>1. PICK n \in sts : owner[n][SlotOf[k]] = n
    BY <1>1 DEF Inv, IInv, AckedOwned
  <2>2. CASE k \in keys[n]
    BY <2>1, <2>2
  <2>3. CASE k \notin keys[n]
    BY <1>1, <2>1, <2>3, OnItsWay DEF Inv
  <2> QED BY <2>2, <2>3
<1> QED BY <1>1, CalmInvariance, PTL

\* With commands that do not fail, a cluster that is reported healthy, by an
\* operator that has not stopped, has the StatefulSets that stay and no others.
THEOREM HealthyIsScaledDown == ASSUME ~ CmdFails PROVE Spec => []HealthyMeansScaledDown
<1>1. Inv => HealthyMeansScaledDown
  BY DEF Inv, CalmInv, StatusInv, HealthyMeansScaledDown, Staying
<1> QED BY <1>1, CalmInvariance, PTL

-----------------------------------------------------------------------------
(***************************************************************************)
(* Types, whichever commands fail.                                         *)
(***************************************************************************)
TypeInv ==
  /\ TypeOK
  /\ pc \in Dispatching => Staying \subseteq Nodes
  /\ pc \in Grouping => to \in Nodes /\ (from = Nowhere => pc = "addSlots")
  /\ pc \in {"forget", "delete"} => i \in Nodes /\ i >= Expect
  /\ pc = "delete" => i \notin members

\* The nodes that a group is moved between.
LEMMA GroupTypes ==
  ASSUME TypeInv, pc \in Grouping
  PROVE  /\ to \in Nodes /\ group.slots \in SUBSET Slots /\ pc \in Dispatching
         /\ Staying \subseteq Nodes
         /\ pc # "addSlots" => from \in Nodes
BY DEF TypeInv, TypeOK, from, to, Dispatching

\* The pass reads the infos, waits for the nodes and makes a plan.
LEMMA TypeBegin ==
  ASSUME TypeInv, StartPass \/ WaitForClusterJoin \/ NoOperation \/ PlanDispatch \/ NextGroup
  PROVE  TypeInv'
<1>1. CASE StartPass
  <2>1. passes' \in 0 .. MaxPasses
    BY <1>1, ScaleDownAssumption DEF StartPass, TypeInv, TypeOK
  <2> QED
    BY <1>1, <2>1 DEF StartPass, TypeInv, TypeOK, RedisTypeOK, redisVars, Owned, Dispatching, Grouping
<1>2. CASE WaitForClusterJoin
  BY <1>2 DEF WaitForClusterJoin, TypeInv, TypeOK, RedisTypeOK, redisVars, passVars, Dispatching, Grouping
<1>3. CASE NoOperation
  BY <1>3 DEF NoOperation, TypeInv, TypeOK, RedisTypeOK, redisVars, passVars, Dispatching, Grouping
<1>4. CASE PlanDispatch
  <2>1. PICK new \in SetToSeqs(Staying), old \in SetToSeqs(current),
             order \in SetToSeqs(current \cup {Nowhere}) :
               plan' = feedMigInfo(bom, new, old, NumSlots, order)
    BY <1>4 DEF PlanDispatch, Staying
  <2>2. current \in SUBSET Nodes /\ Cardinality(current) > Expect
    BY <1>4 DEF PlanDispatch, TypeInv, TypeOK
  <2>3. Given(Nodes, Staying, current, bom, new, old, NumSlots, order)
    BY <2>1, <2>2, Basics, Fewer, RedisAssumption DEF Given, TypeInv, TypeOK, Slots
  <2>4. \A g \in plan' : g \in [from : current \cup {Nowhere}, to : Staying, slots : SUBSET Slots]
    BY <2>1, <2>3, PlanGroups DEF Slots
  <2>5. plan' \in SUBSET [from : Nodes \cup {Nowhere}, to : Nodes, slots : SUBSET Slots]
    BY <2>2, <2>4, Fewer
  <2> QED
    BY <1>4, <2>2, <2>5, Fewer
    DEF PlanDispatch, TypeInv, TypeOK, RedisTypeOK, redisVars, Dispatching, Grouping
<1>5. CASE NextGroup
  <2>1. PICK g \in plan : /\ group' = g /\ plan' = plan \ {g}
                          /\ pc' = IF g.from = Nowhere THEN "addSlots" ELSE "importing"
    BY <1>5 DEF NextGroup
  <2>2. group' \in [from : Nodes \cup {Nowhere}, to : Nodes \cup {Nowhere}, slots : SUBSET Slots]
        /\ group'.to \in Nodes /\ Staying \subseteq Nodes
    BY <1>5, <2>1 DEF NextGroup, TypeInv, TypeOK, Dispatching
  <2>3. pc' \in {"addSlots", "importing"} /\ (group'.from = Nowhere => pc' = "addSlots")
    BY <2>1
  <2>4. TypeOK'
    BY <1>5, <2>1, <2>2, <2>3 DEF NextGroup, TypeInv, TypeOK, RedisTypeOK, redisVars
  <2> QED
    BY <2>2, <2>3, <2>4 DEF TypeInv, Dispatching, Grouping, from, to
<1> QED BY <1>1, <1>2, <1>3, <1>4, <1>5

\* A step inside a group, or the end of the pass.
LEMMA TypeInGroup ==
  ASSUME TypeInv, pc \in Grouping, RedisTypeOK', rest' \in SUBSET Nodes,
         bom' \in [Nodes -> SUBSET Slots], status' \in {"Rebalancing", "Failed", "Healthy"},
         UNCHANGED <<sts, members, current, plan, group, i, passes, stopped>>,
         pc' \in {"idle", "dispatch"} \cup (Grouping \ {"addSlots"}), pc # "addSlots" \/ pc' \notin Grouping
  PROVE  TypeInv'
<1>1. to' = to /\ from' = from
  BY DEF from, to
<1>2. TypeOK'
  BY DEF TypeInv, TypeOK, Grouping
<1> QED BY <1>1, <1>2, GroupTypes DEF TypeInv, Dispatching, Grouping

\* Lost slots are added.
LEMMA TypeAddLostSlots ==
  ASSUME TypeInv, AddLostSlots PROVE TypeInv'
<1>1. pc \in Grouping /\ pc = "addSlots" /\ RedisTypeOK
  BY DEF AddLostSlots, Grouping, TypeInv, TypeOK
<1>2. to \in Nodes /\ group.slots \in SUBSET Slots
  BY <1>1, GroupTypes
<1>3. RedisTypeOK'
  <2>1. CASE AddSlots(to, group.slots)
    BY <1>1, <1>2, <2>1 DEF AddSlots, RedisTypeOK
  <2>2. CASE UNCHANGED redisVars
    BY <1>1, <2>2 DEF redisVars, RedisTypeOK
  <2> QED BY <2>1, <2>2 DEF AddLostSlots
<1>4. bom' \in [Nodes -> SUBSET Slots]
  BY <1>2 DEF AddLostSlots, GroupDone, Failed, passVars, TypeInv, TypeOK
<1>5. /\ rest' = rest /\ status' \in {status, "Failed"} /\ pc' \in {"idle", "dispatch"}
      /\ UNCHANGED <<sts, members, current, plan, group, i, passes, stopped>>
  BY DEF AddLostSlots, GroupDone, Failed, passVars
<1>6. rest' \in SUBSET Nodes /\ status' \in {"Rebalancing", "Failed", "Healthy"} /\ pc' \notin Grouping
  BY <1>5 DEF TypeInv, TypeOK, Grouping
<1> QED BY <1>1, <1>3, <1>4, <1>5, <1>6, TypeInGroup

\* A command of a group that leaves the pass where it was, but for pc.
LEMMA TypeCommand ==
  ASSUME TypeInv, Importing \/ Migrating \/ MigrateKeys \/ NodeTo PROVE TypeInv'
<1>1. pc \in Grouping /\ pc # "addSlots" /\ RedisTypeOK
  BY DEF Importing, Migrating, MigrateKeys, NodeTo, Grouping, TypeInv, TypeOK
<1>2. PICK f \in Nodes, t \in Nodes : f = from /\ t = to
  BY <1>1, GroupTypes
<1>3. group.slots \in SUBSET Slots
  BY <1>1, GroupTypes
<1>4. \/ UNCHANGED redisVars
      \/ \E P \in SUBSET group.slots :
           SetImporting(to, P, from) \/ SetMigrating(from, P, to) \/ SetNode(to, P, to)
      \/ \E k \in GroupKeys : Migrate(from, to, k) \/ CopyOnly(to, k)
  <2>1. CASE Importing
    BY <2>1 DEF Importing
  <2>2. CASE Migrating
    BY <2>2 DEF Migrating
  <2>3. CASE MigrateKeys
    BY <2>3 DEF MigrateKeys
  <2>4. CASE NodeTo
    BY <2>4 DEF NodeTo
  <2> QED BY <2>1, <2>2, <2>3, <2>4
<1>5. RedisTypeOK'
  <2>1. CASE UNCHANGED redisVars
    BY <1>1, <2>1 DEF redisVars, RedisTypeOK
  <2>2. ASSUME NEW P \in SUBSET Slots, SetImporting(t, P, f) PROVE RedisTypeOK'
    BY <1>1, <2>2, ImportingFacts
  <2>3. ASSUME NEW P \in SUBSET Slots, SetMigrating(f, P, t) PROVE RedisTypeOK'
    BY <1>1, <2>3, MigratingFacts
  <2>4. ASSUME NEW P \in SUBSET Slots, SetNode(t, P, t) PROVE RedisTypeOK'
    BY <1>1, <2>4, NodeType
  <2>5. ASSUME NEW k \in GroupKeys, Migrate(f, t, k) \/ CopyOnly(t, k) PROVE RedisTypeOK'
    <3>1. k \in Keys
      BY <1>1, <1>2 DEF GroupKeys, RedisTypeOK
    <3> QED BY <1>1, <2>5, <3>1 DEF Migrate, CopyOnly, tables, RedisTypeOK
  <2> QED BY <1>2, <1>3, <1>4, <2>1, <2>2, <2>3, <2>4, <2>5
<1>6. /\ pc' \in {"idle", "migrating", "keys", "nodeTo", "nodeFrom"} /\ status' \in {status, "Failed"}
      /\ UNCHANGED <<sts, members, bom, current, plan, group, rest, i, passes, stopped>>
  <2>1. CASE Importing
    BY <2>1 DEF Importing, Goto, Failed, passVars
  <2>2. CASE Migrating
    BY <2>2 DEF Migrating, Goto, Failed, passVars
  <2>3. CASE MigrateKeys
    BY <2>3 DEF MigrateKeys, Goto, passVars
  <2>4. CASE NodeTo
    BY <2>4 DEF NodeTo, Goto, passVars
  <2> QED BY <2>1, <2>2, <2>3, <2>4
<1>7. rest' \in SUBSET Nodes /\ bom' \in [Nodes -> SUBSET Slots] /\ status' \in {"Rebalancing", "Failed", "Healthy"}
  BY <1>6 DEF TypeInv, TypeOK
<1>8. pc' \in {"idle", "dispatch"} \cup (Grouping \ {"addSlots"})
  BY <1>6 DEF Grouping
<1> QED BY <1>1, <1>5, <1>6, <1>7, <1>8, TypeInGroup

\* The old owner and the other masters are told, and the group is done.
LEMMA TypeTell ==
  ASSUME TypeInv, NodeFrom \/ Tell \/ EndGroup PROVE TypeInv'
<1>1. pc \in Grouping /\ pc # "addSlots" /\ RedisTypeOK
  BY DEF NodeFrom, Tell, EndGroup, Grouping, TypeInv, TypeOK
<1>2. PICK f \in Nodes, t \in Nodes : f = from /\ t = to
  BY <1>1, GroupTypes
<1>3. group.slots \in SUBSET Slots /\ Staying \subseteq Nodes
  BY <1>1, GroupTypes
<1>4. rest \in SUBSET Nodes /\ current \in SUBSET Nodes /\ bom \in [Nodes -> SUBSET Slots]
  BY DEF TypeInv, TypeOK
<1>5. \/ UNCHANGED redisVars
      \/ \E m \in Nodes, P \in SUBSET group.slots : SetNode(m, P, to)
  <2>1. CASE NodeFrom
    BY <1>2, <2>1 DEF NodeFrom
  <2>2. CASE Tell
    BY <1>4, <2>2 DEF Tell
  <2>3. CASE EndGroup
    BY <2>3 DEF EndGroup
  <2> QED BY <2>1, <2>2, <2>3
<1>6. RedisTypeOK'
  <2>1. CASE UNCHANGED redisVars
    BY <1>1, <2>1 DEF redisVars, RedisTypeOK
  <2>2. ASSUME NEW m \in Nodes, NEW P \in SUBSET Slots, SetNode(m, P, t) PROVE RedisTypeOK'
    BY <1>1, <2>2, NodeType
  <2> QED BY <1>2, <1>3, <1>5, <2>1, <2>2
<1>7. bom' \in [Nodes -> SUBSET Slots]
  <2>1. CASE NodeFrom
    BY <1>4, <2>1 DEF NodeFrom
  <2>2. CASE Tell
    BY <1>4, <2>2 DEF Tell
  <2>3. CASE EndGroup
    BY <1>2, <1>3, <1>4, <2>3 DEF EndGroup, GroupDone
  <2> QED BY <2>1, <2>2, <2>3
<1>8. rest' \in SUBSET Nodes
  <2>1. CASE NodeFrom
    BY <1>3, <1>4, <2>1 DEF NodeFrom, Staying
  <2>2. CASE Tell
    BY <1>4, <2>2 DEF Tell
  <2>3. CASE EndGroup
    BY <1>4, <2>3 DEF EndGroup
  <2> QED BY <2>1, <2>2, <2>3
<1>9. /\ pc' \in {"dispatch", "tell"} /\ status' = status
      /\ UNCHANGED <<sts, members, current, plan, group, i, passes, stopped>>
  BY DEF NodeFrom, Tell, EndGroup, GroupDone
<1>10. pc' \in {"idle", "dispatch"} \cup (Grouping \ {"addSlots"})
       /\ status' \in {"Rebalancing", "Failed", "Healthy"}
  BY <1>9 DEF Grouping, TypeInv, TypeOK
<1> QED BY <1>1, <1>6, <1>7, <1>8, <1>9, <1>10, TypeInGroup

\* StatefulSets are removed: a node leaves the cluster before its StatefulSet.
LEMMA TypeRemove ==
  ASSUME TypeInv,
         StartScalingDown \/ CheckEmpty \/ ForgetNode \/ DeleteStatefulSet \/ FinishPass \/ Crash
  PROVE  TypeInv'
<1> USE DEF TypeInv, Dispatching, Grouping
<1>1. CASE StartScalingDown
  <2>1. current \in SUBSET Nodes
    BY DEF TypeOK
  <2>2. Cardinality(current) \in Nat /\ Cardinality(current) <= Cardinality(Nodes) /\ Cardinality(Nodes) \in Nat
    BY <2>1, Basics, FS_Subset, FS_CardinalityType
  <2>3. i' = Cardinality(current) - 1
    BY <1>1 DEF StartScalingDown
  <2>4. i' \in -1 .. Cardinality(Nodes)
    BY <2>2, <2>3
  <2> QED BY <1>1, <2>4 DEF StartScalingDown, TypeOK, RedisTypeOK, redisVars
<1>2. CASE CheckEmpty
  <2>1. CASE Failed
    BY <1>2, <2>1 DEF CheckEmpty, Failed, TypeOK, RedisTypeOK, redisVars, passVars, Goto
  <2>2. CASE i \in sts /\ Goto("forget")
    BY <1>2, <2>2 DEF CheckEmpty, Goto, Failed, TypeOK, RedisTypeOK, redisVars, passVars
  <2> QED BY <1>2, <2>1, <2>2 DEF CheckEmpty
<1>3. CASE ForgetNode
  <2>1. PICK N \in SUBSET Nodes, x \in Nodes : x = i /\ Forget(N, x)
    BY <1>3 DEF ForgetNode, Connected, TypeOK
  <2>2. RedisTypeOK'
    BY <2>1, ForgetFacts DEF TypeOK
  <2>3. /\ pc' = "delete" /\ members' = members \ {i}
        /\ UNCHANGED <<sts, bom, current, plan, group, rest, i, status, passes, stopped>>
    BY <1>3 DEF ForgetNode, passVars
  <2>4. i \in Nodes /\ i >= Expect
    BY <1>3 DEF ForgetNode
  <2> QED BY <2>2, <2>3, <2>4 DEF TypeOK
<1>4. CASE DeleteStatefulSet
  <2>1. i \in Nodes /\ i >= Expect /\ i \notin members
    BY <1>4 DEF DeleteStatefulSet
  <2>2. RedisTypeOK'
    BY <1>4 DEF DeleteStatefulSet, tables, TypeOK, RedisTypeOK
  <2>3. members' \in SUBSET sts' /\ sts' \in SUBSET Nodes
    BY <1>4, <2>1 DEF DeleteStatefulSet, TypeOK
  <2>4. i' \in -1 .. Cardinality(Nodes)
    BY <1>4, <2>1, Basics DEF DeleteStatefulSet
  <2> QED BY <1>4, <2>2, <2>3, <2>4 DEF DeleteStatefulSet, TypeOK
<1>5. CASE FinishPass
  BY <1>5 DEF FinishPass, TypeOK, RedisTypeOK, redisVars, passVars
<1>6. CASE Crash
  BY <1>6 DEF Crash, TypeOK, RedisTypeOK, redisVars, passVars
<1> QED BY <1>1, <1>2, <1>3, <1>4, <1>5, <1>6

\* The environment.
LEMMA TypeBus ==
  ASSUME TypeInv, Bus \/ UNCHANGED vars PROVE TypeInv'
<1>1. /\ UNCHANGED <<sts, members, pc, status, passes, stopped>>
      /\ UNCHANGED <<bom, current, plan, group, rest, i>> /\ from' = from /\ to' = to
  BY DEF Bus, vars, passVars, from, to
<1>2. RedisTypeOK /\ sts \subseteq Nodes /\ members \subseteq Nodes
  BY DEF TypeInv, TypeOK
<1>3. RedisTypeOK'
  <2>1. CASE UNCHANGED vars
    BY <1>2, <2>1 DEF vars, redisVars, RedisTypeOK
  <2>2. ASSUME NEW k \in Keys, NEW n \in Nodes, NEW t \in Nodes,
               ClientWrite(k, n) \/ ClientAskWrite(k, n, t)
        PROVE  RedisTypeOK'
    <3>1. PICK m \in Nodes : keys' = [keys EXCEPT ![m] = @ \cup {k}]
      BY <2>2 DEF ClientWrite, ClientAskWrite
    <3>2. keys' \in [Nodes -> SUBSET Keys]
      BY <1>2, <3>1 DEF RedisTypeOK
    <3>3. acked' = acked \cup {k} /\ UNCHANGED <<owner, migrating, importing, epoch, currentEpoch>>
      BY <2>2 DEF ClientWrite, ClientAskWrite, tables
    <3> QED BY <1>2, <3>2, <3>3 DEF RedisTypeOK
  <2>3. ASSUME NEW p \in Nodes, NEW q \in Nodes, Gossip(p, q) PROVE RedisTypeOK'
    <3>1. owner' \in [Nodes -> [Slots -> Nodes \cup {None}]]
      BY <1>2, <2>3 DEF Gossip, RedisTypeOK
    <3>2. keys' \in [Nodes -> SUBSET Keys]
      BY <1>2, <2>3 DEF Gossip, RedisTypeOK
    <3> QED BY <1>2, <2>3, <3>1, <3>2 DEF Gossip, RedisTypeOK
  <2> QED BY <1>2, <2>1, <2>2, <2>3 DEF Bus, Environment
<1> QED BY <1>1, <1>3 DEF TypeInv, TypeOK

\* Whichever commands fail and wherever the operator stops, every variable
\* keeps its type: no node is a member of the cluster without a StatefulSet,
\* and no group names a node that does not exist.
THEOREM TypeCorrect == Spec => []TypeOK
<1>1. Init => TypeInv
  BY InitIInv DEF Init, IInv, TypeInv, Dispatching, Grouping
<1>2. TypeInv /\ [Next]_vars => TypeInv'
  BY TypeBegin, TypeAddLostSlots, TypeCommand, TypeTell, TypeRemove, TypeBus DEF Next, Operator
<1>3. TypeInv => TypeOK
  BY DEF TypeInv
<1> QED BY <1>1, <1>2, <1>3, PTL DEF Spec
===============================================================================
