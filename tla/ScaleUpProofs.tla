---------------------------- MODULE ScaleUpProofs -----------------------------
(***************************************************************************)
(* ScaleUp never loses an acknowledged key, with failing commands and      *)
(* operator crashes; it implements the abstract handover of slots; and a   *)
(* scale-up that nothing disturbs leaves every master with its share and   *)
(* every owner with its keys: for every number of nodes, slots, keys and   *)
(* passes.  Only the last of these use HandoverAssumption.                 *)
(***************************************************************************)
EXTENDS ScaleUpHandover, FiniteSetTheorems, TLAPS


\* There is at least one master.
LEMMA NumNodesType == NumNodes \in Nat /\ NumNodes > 0
<1>1. IsFiniteSet(Nodes) /\ Nodes # {}
  BY ScaleUpAssumption
<1> QED
  BY <1>1, FS_CardinalityType, FS_EmptySet DEF NumNodes

\* There are finitely many hash slots.
LEMMA SlotsFinite == IsFiniteSet(Slots)
BY FS_Interval, RedisAssumption DEF Slots

\* The balances RebalancedCluster starts from are integers.
LEMMA BalanceType ==
  ASSUME bom \in [Nodes -> SUBSET Slots], NEW first,
         NEW below, below = {n \in Nodes : RawBalance(n) < 0}
  PROVE  AdjustedBalance(below, first) \in [Nodes -> Int]
<1>1. Expected \in Int
  BY NumNodesType, RedisAssumption DEF Expected
<1>2. ASSUME NEW n \in Nodes PROVE RawBalance(n) \in Int
  <2>1. IsFiniteSet(bom[n])
    BY SlotsFinite, FS_Subset
  <2> QED
    BY <1>1, <2>1, FS_CardinalityType DEF RawBalance
<1>3. TotalBalance \in Int
  <2>1. IsFiniteSet(Nodes \X Slots)
    BY SlotsFinite, ScaleUpAssumption, FS_Product
  <2>2. IsFiniteSet({p \in Nodes \X Slots : p[2] \in bom[p[1]]})
    BY <2>1, FS_Subset
  <2> QED
    BY <1>1, <2>2, NumNodesType, FS_CardinalityType DEF TotalBalance
<1>4. ASSUME NEW n \in below PROVE TotalBalance \div Cardinality(below) \in Int
  <2>1. IsFiniteSet(below) /\ below # {}
    BY <1>4, ScaleUpAssumption, FS_Subset
  <2>2. Cardinality(below) \in Nat /\ Cardinality(below) > 0
    BY <2>1, FS_CardinalityType, FS_EmptySet
  <2> QED
    BY <1>3, <2>2
<1> QED
  BY <1>2, <1>3, <1>4 DEF AdjustedBalance

-----------------------------------------------------------------------------
(***************************************************************************)
(* What one command changes, point by point.                               *)
(***************************************************************************)
\* SETSLOT IMPORTING marks the slot on a node that does not own it.
LEMMA SetImportingFacts ==
  ASSUME RedisTypeOK, NEW n \in Nodes, NEW s \in Slots, NEW id \in Nodes,
         SetImporting(n, {s}, id)
  PROVE  /\ RedisTypeOK'
         /\ UNCHANGED <<owner, migrating, keys, epoch, currentEpoch, acked>>
         /\ \A m \in Nodes, r \in Slots :
              importing[m][r] # None => importing'[m][r] # None
         /\ owner[n][s] # n => importing'[n][s] # None
BY RedisAssumption DEF SetImporting, RedisTypeOK, AcceptsImporting

\* SETSLOT MIGRATING marks the slot on its owner.
LEMMA SetMigratingFacts ==
  ASSUME RedisTypeOK, NEW n \in Nodes, NEW s \in Slots, NEW id \in Nodes,
         SetMigrating(n, {s}, id)
  PROVE  /\ RedisTypeOK'
         /\ UNCHANGED <<owner, importing, keys, epoch, currentEpoch, acked>>
         /\ \A m \in Nodes, r \in Slots :
              migrating[m][r] # None => migrating'[m][r] # None
         /\ owner[n][s] = n => migrating'[n][s] # None
BY RedisAssumption DEF SetMigrating, RedisTypeOK, AcceptsMigrating

\* SETSLOT NODE changes one slot of one node; only a node that takes over a
\* slot it imports gets a new configEpoch, which is then the highest.
LEMMA SetNodeFacts ==
  ASSUME RedisTypeOK, NEW n \in Nodes, NEW s \in Slots, NEW id \in Nodes,
         SetNode(n, {s}, id)
  PROVE  /\ RedisTypeOK'
         /\ UNCHANGED <<keys, acked>>
         /\ \A m \in Nodes, r \in Slots : m # n \/ r # s =>
              /\ owner'[m][r] = owner[m][r]
              /\ migrating'[m][r] = migrating[m][r]
              /\ importing'[m][r] = importing[m][r]
         /\ owner'[n][s] = id \/ (owner'[n][s] = owner[n][s] /\ migrating'[n][s] = migrating[n][s])
         /\ \A m \in Nodes : m # n => epoch'[m] = epoch[m]
         /\ id # n => UNCHANGED <<epoch, currentEpoch>>
         /\ \/ UNCHANGED <<epoch, currentEpoch>>
            \/ currentEpoch' = currentEpoch + 1 /\ epoch'[n] = currentEpoch + 1
         /\ id = n /\ importing[n][s] # None =>
              /\ epoch'[n] = currentEpoch'
              /\ epoch'[n] > 0
<1> DEFINE P == {s} \cap AcceptsNode(n, id)
<1>1. P \in SUBSET {s}
  OBVIOUS
<1>2. /\ owner' = [owner EXCEPT ![n] = [r \in Slots |-> IF r \in P THEN id ELSE owner[n][r]]]
      /\ migrating' = [migrating EXCEPT ![n] =
            [r \in Slots |-> IF r \in P /\ KeysIn(n, r) = {} THEN None ELSE migrating[n][r]]]
      /\ importing' = [importing EXCEPT ![n] =
            [r \in Slots |-> IF r \in P /\ id = n THEN None ELSE importing[n][r]]]
      /\ IF TakesEpoch(n, P, id)
         THEN /\ currentEpoch' = currentEpoch + 1
              /\ epoch' = [epoch EXCEPT ![n] = currentEpoch + 1]
         ELSE UNCHANGED <<epoch, currentEpoch>>
      /\ UNCHANGED <<keys, acked>>
  BY DEF SetNode
<1>3. id = n => s \in P
  BY DEF AcceptsNode
<1> HIDE DEF P
<1>4. RedisTypeOK'
  <2>1. owner' \in [Nodes -> [Slots -> Nodes \cup {None}]]
    BY <1>2 DEF RedisTypeOK
  <2>2. migrating' \in [Nodes -> [Slots -> Nodes \cup {None}]]
    BY <1>2 DEF RedisTypeOK
  <2>3. importing' \in [Nodes -> [Slots -> Nodes \cup {None}]]
    BY <1>2 DEF RedisTypeOK
  <2>4. epoch' \in [Nodes -> Nat] /\ currentEpoch' \in Nat
    <3>1. \/ currentEpoch' = currentEpoch + 1 /\ epoch' = [epoch EXCEPT ![n] = currentEpoch + 1]
          \/ currentEpoch' = currentEpoch /\ epoch' = epoch
      BY <1>2
    <3>2. epoch \in [Nodes -> Nat] /\ currentEpoch \in Nat
      BY DEF RedisTypeOK
    <3>3. currentEpoch + 1 \in Nat
      BY <3>2
    <3> QED
      BY <3>1, <3>2, <3>3
  <2> QED
    BY <1>2, <2>1, <2>2, <2>3, <2>4 DEF RedisTypeOK
<1>5. \A m \in Nodes, r \in Slots : m # n \/ r # s =>
              /\ owner'[m][r] = owner[m][r]
              /\ migrating'[m][r] = migrating[m][r]
              /\ importing'[m][r] = importing[m][r]
  BY <1>1, <1>2 DEF RedisTypeOK
<1>6. owner'[n][s] = id \/ (owner'[n][s] = owner[n][s] /\ migrating'[n][s] = migrating[n][s])
  BY <1>2 DEF RedisTypeOK
<1>7. /\ \A m \in Nodes : m # n => epoch'[m] = epoch[m]
      /\ id # n => UNCHANGED <<epoch, currentEpoch>>
      /\ \/ UNCHANGED <<epoch, currentEpoch>>
         \/ currentEpoch' = currentEpoch + 1 /\ epoch'[n] = currentEpoch + 1
  BY <1>2 DEF RedisTypeOK, TakesEpoch
<1>8. id = n /\ importing[n][s] # None => epoch'[n] = currentEpoch' /\ epoch'[n] > 0
  BY <1>2, <1>3 DEF RedisTypeOK, TakesEpoch
<1> QED
  BY <1>2, <1>4, <1>5, <1>6, <1>7, <1>8

\* The bus only takes slots, and the keys in them, away from losers.
LEMMA GossipFacts ==
  ASSUME RedisTypeOK, NEW p \in Nodes, NEW q \in Nodes, Gossip(p, q)
  PROVE  /\ RedisTypeOK'
         /\ UNCHANGED <<migrating, importing, epoch, currentEpoch, acked>>
         /\ \A n \in Nodes, s \in Slots :
              owner'[n][s] = n => owner[n][s] = n
         /\ \A n \in Nodes, s \in Slots :
              owner[n][s] = n /\ owner'[n][s] # n => n = p /\ Loses(p, q, s)
         /\ \A n \in Nodes : keys'[n] \subseteq keys[n]
         /\ \A n \in Nodes : \A k \in keys[n] :
              k \notin keys'[n] => n = p /\ Loses(p, q, SlotOf[k])
<1>1. /\ owner' = [owner EXCEPT ![p] =
            [s \in Slots |-> IF s \in Rebound(p, q) THEN q ELSE owner[p][s]]]
      /\ keys' = [keys EXCEPT ![p] =
            {k \in keys[p] : ~ (SlotOf[k] \in Rebound(p, q) /\ owner[p][SlotOf[k]] = p)}]
      /\ UNCHANGED <<migrating, importing, epoch, currentEpoch, acked>>
  BY DEF Gossip, RedisTypeOK
<1>2. RedisTypeOK'
  BY <1>1 DEF RedisTypeOK
<1>3. ASSUME NEW s \in Rebound(p, q) PROVE owner[p][s] = p => Loses(p, q, s)
  BY RedisAssumption DEF Rebound, Loses, RedisTypeOK
<1>4. \A s \in Rebound(p, q) : p # q
  BY DEF Rebound
<1>5. \A n \in Nodes, s \in Slots : owner'[n][s] = n => owner[n][s] = n
  BY <1>1, <1>4 DEF RedisTypeOK
<1>6. \A n \in Nodes, s \in Slots :
        owner[n][s] = n /\ owner'[n][s] # n => n = p /\ Loses(p, q, s)
  BY <1>1, <1>3 DEF RedisTypeOK
<1>7. \A n \in Nodes : keys'[n] \subseteq keys[n]
  BY <1>1 DEF RedisTypeOK
<1>8. \A n \in Nodes : \A k \in keys[n] :
        k \notin keys'[n] => n = p /\ Loses(p, q, SlotOf[k])
  BY <1>1, <1>3 DEF RedisTypeOK
<1> QED
  BY <1>1, <1>2, <1>5, <1>6, <1>7, <1>8

\* A key created by a client: on an owner whose slot is not migrating, or on
\* a node that does not own the slot.
LEMMA WriteFacts ==
  ASSUME RedisTypeOK, NEW k \in Keys, NEW n \in Nodes, NEW t \in Nodes,
         ClientWrite(k, n) \/ ClientAskWrite(k, t, n)
  PROVE  /\ RedisTypeOK'
         /\ UNCHANGED tables
         /\ acked' = acked \cup {k}
         /\ keys' = [keys EXCEPT ![n] = @ \cup {k}]
         /\ owner[n][SlotOf[k]] # n \/ migrating[n][SlotOf[k]] = None
BY DEF ClientWrite, ClientAskWrite, RedisTypeOK, tables

-----------------------------------------------------------------------------
(***************************************************************************)
(* The invariant's parts under the steps that change little.               *)
(***************************************************************************)
\* A step that leaves owners, keys and epochs alone and clears no MIGRATING
\* mark preserves the parts of the invariant that speak of Redis alone.
LEMMA MarksOnly ==
  ASSUME EpochInv, LoserInv, NoKeyLoss,
         UNCHANGED <<owner, keys, epoch, currentEpoch, acked>>,
         \A m \in Nodes, r \in Slots : migrating[m][r] # None => migrating'[m][r] # None
  PROVE  /\ EpochInv' /\ LoserInv' /\ NoKeyLoss'
         /\ \A p, q \in Nodes, s \in Slots : Loses(p, q, s)' <=> Loses(p, q, s)
<1>1. \A p, q \in Nodes, s \in Slots : Loses(p, q, s)' <=> Loses(p, q, s)
  BY DEF Loses
<1>2. EpochInv'
  BY DEF EpochInv
<1>3. LoserInv'
  BY <1>1 DEF LoserInv, KeysIn
<1>4. NoKeyLoss'
  BY DEF NoKeyLoss
<1> QED
  BY <1>1, <1>2, <1>3, <1>4

\* A command that fails, or a crash, ends the pass: nothing is promised of
\* the pass any more.
LEMMA PassEnded ==
  ASSUME IInv, RedisTypeOK', pc' = "idle", UNCHANGED <<passVars, passes>>,
         status' \in {"Scaling", "Failed", "Healthy"}
  PROVE  TypeOK' /\ PassInv' /\ LoopInv' /\ MoveInv'
<1>1. TypeOK'
  BY DEF IInv, TypeOK, passVars, PCs
<1>2. PassInv' /\ LoopInv' /\ MoveInv'
  BY DEF IInv, PassInv, LoopInv, MoveInv, passVars, Rebalancing, Moving, src, dst
<1> QED
  BY <1>1, <1>2

\* While a slot is moved its source and its target are two different nodes,
\* and the source of the move is no loser in the slot.
LEMMA MoveFacts ==
  ASSUME IInv, pc \in Moving
  PROVE  /\ dst \in Nodes /\ src \in Nodes /\ dst # src
         /\ dstIdx \in 1 .. NumNodes /\ srcIdx \in 1 .. NumNodes
         /\ slot \in Slots /\ slot \in bom[src]
         /\ \A q \in Nodes, s \in Slots : ~ Loses(dst, q, s)
         /\ pc # "nodeSource" => \A q \in Nodes : ~ Loses(src, q, slot)
<1> USE NumNodesType
<1>1. dstIdx \in 1 .. NumNodes /\ srcIdx \in 1 .. NumNodes /\ dstIdx < srcIdx
  BY DEF IInv, TypeOK, LoopInv, Rebalancing, Moving
<1>2. dst \in Nodes /\ src \in Nodes /\ dst # src
  BY <1>1 DEF IInv, TypeOK, LoopInv, dst, src
<1>3. slot \in Slots /\ slot \in bom[src]
  BY DEF IInv, TypeOK, LoopInv
<1>4. ASSUME NEW q \in Nodes, NEW s \in Slots, Loses(dst, q, s) PROVE FALSE
  <2>1. PICK j \in srcIdx .. NumNodes : dst = sn[j]
    BY <1>2, <1>4 DEF IInv, PassInv, Rebalancing
  <2>2. j \in 1 .. NumNodes /\ j # dstIdx
    BY <1>1, <2>1
  <2> QED
    BY <1>1, <2>1, <2>2 DEF IInv, LoopInv, dst
<1>5. ASSUME NEW q \in Nodes, pc # "nodeSource", Loses(src, q, slot) PROVE FALSE
  BY <1>2, <1>3, <1>5 DEF IInv, PassInv, Rebalancing
<1> QED
  BY <1>1, <1>2, <1>3, <1>4, <1>5

-----------------------------------------------------------------------------
(***************************************************************************)
(* One lemma per group of actions: the invariant is preserved.             *)
(***************************************************************************)
\* The actions of a pass that send no command to Redis.
LEMMA PassStep ==
  ASSUME IInv,
         \/ StartPass \/ WaitForClusterJoin \/ NoOperation \/ StartRebalance
         \/ PlanMoves \/ UpdateBalance \/ FinishPass \/ Crash \/ UNCHANGED vars
  PROVE  IInv'
<1> USE NumNodesType
<1>1. UNCHANGED redisVars
  BY DEF StartPass, WaitForClusterJoin, NoOperation, StartRebalance, PlanMoves,
         UpdateBalance, FinishPass, Crash, vars
<1>2. RedisTypeOK'
  BY <1>1 DEF IInv, TypeOK, RedisTypeOK, redisVars
<1>3. /\ EpochInv' /\ LoserInv' /\ NoKeyLoss'
      /\ \A p, q \in Nodes, s \in Slots : Loses(p, q, s)' <=> Loses(p, q, s)
  BY <1>1, MarksOnly DEF IInv, redisVars
<1>4. CASE StartPass
  <2>1. TypeOK'
    BY <1>2, <1>4, ScaleUpAssumption DEF StartPass, IInv, TypeOK, PCs, Owned
  <2>2. PassInv' /\ LoopInv' /\ MoveInv'
    BY <1>4 DEF StartPass, IInv, PassInv, LoopInv, MoveInv, Rebalancing, Moving
  <2> QED
    BY <1>3, <2>1, <2>2 DEF IInv
<1>5. CASE WaitForClusterJoin
  <2>1. TypeOK'
    BY <1>2, <1>5 DEF WaitForClusterJoin, IInv, TypeOK, PCs, passVars
  <2>2. InfosConsistent(Nodes) => \A p, q \in Nodes, s \in Slots : ~ Loses(p, q, s)
    BY DEF InfosConsistent, Loses
  <2>3. pc' = "idle" \/ (pc' = "sync" /\ InfosConsistent(Nodes))
    BY <1>5 DEF WaitForClusterJoin
  <2>4. PassInv' /\ LoopInv' /\ MoveInv'
    BY <1>3, <1>5, <2>2, <2>3
    DEF WaitForClusterJoin, IInv, PassInv, LoopInv, MoveInv, Rebalancing, Moving, passVars
  <2> QED
    BY <1>3, <2>1, <2>4 DEF IInv
<1>6. CASE NoOperation \/ FinishPass \/ Crash
  <2>1. pc' = "idle" /\ UNCHANGED <<passVars, passes>>
    BY <1>6 DEF NoOperation, FinishPass, Crash
  <2>2. status' \in {"Scaling", "Failed", "Healthy"}
    BY <1>6 DEF NoOperation, FinishPass, Crash, IInv, TypeOK
  <2> QED
    BY <1>2, <1>3, <2>1, <2>2, PassEnded DEF IInv
<1>7. CASE StartRebalance
  <2>1. \A p, q \in Nodes, s \in Slots : ~ Loses(p, q, s)
    BY <1>7 DEF StartRebalance, IInv, PassInv
  <2>2. balance' \in [Nodes -> Int]
    <3> DEFINE below == {n \in Nodes : RawBalance(n) < 0}
    <3>1. PICK first \in Firsts(below) : balance' = AdjustedBalance(below, first)
      BY <1>7 DEF StartRebalance
    <3>2. bom \in [Nodes -> SUBSET Slots]
      BY DEF IInv, TypeOK
    <3>3. AdjustedBalance(below, first) \in [Nodes -> Int]
      BY <3>2, BalanceType
    <3> QED
      BY <3>1, <3>3
  <2>3. /\ sn' \in [1 .. NumNodes -> Nodes]
        /\ \A i, j \in 1 .. NumNodes : sn'[i] = sn'[j] => i = j
    BY <1>7 DEF StartRebalance
  <2>4. TypeOK'
    BY <1>2, <1>7, <2>2, <2>3 DEF StartRebalance, IInv, TypeOK, PCs
  <2>5. PassInv' /\ LoopInv' /\ MoveInv'
    BY <1>3, <1>7, <2>1, <2>3
    DEF StartRebalance, IInv, PassInv, LoopInv, MoveInv, Rebalancing, Moving
  <2> QED
    BY <1>3, <2>4, <2>5 DEF IInv
<1>8. CASE PlanMoves
  <2>1. table' \in SUBSET bom[src] /\ src \in Nodes
    BY <1>8 DEF PlanMoves, ReshardTable, IInv, TypeOK, LoopInv, Rebalancing, src
  <2>2. \/ pc' = "update" /\ slot' = slot
        \/ pc' = "importing" /\ slot' \in table'
    BY <1>8 DEF PlanMoves, NextSlot
  <2>3. table' \in SUBSET Slots /\ slot' \in Slots
    BY <2>1, <2>2 DEF IInv, TypeOK
  <2>4. TypeOK'
    BY <1>2, <1>8, <2>2, <2>3 DEF PlanMoves, IInv, TypeOK, PCs
  <2>5. PassInv'
    BY <1>3, <1>8, <2>2 DEF PlanMoves, IInv, PassInv, Rebalancing, Moving
  <2>6. LoopInv' /\ MoveInv'
    BY <1>8, <2>1, <2>2
    DEF PlanMoves, IInv, LoopInv, MoveInv, Rebalancing, Moving, src
  <2> QED
    BY <1>3, <2>4, <2>5, <2>6 DEF IInv
<1>9. CASE UpdateBalance
  <2>1. dst \in Nodes /\ src \in Nodes
    BY <1>9 DEF UpdateBalance, IInv, TypeOK, LoopInv, Rebalancing, dst, src
  <2>2. NumMoved \in Int
    BY <2>1 DEF NumMoved, Abs, IInv, TypeOK
  <2>3. balance' \in [Nodes -> Int]
    BY <1>9, <2>1, <2>2 DEF UpdateBalance, IInv, TypeOK
  <2>4. dstIdx' \in {dstIdx, dstIdx + 1} /\ srcIdx' \in {srcIdx, srcIdx - 1}
    BY <1>9 DEF UpdateBalance
  <2>5. dstIdx \in 1 .. NumNodes /\ srcIdx \in 1 .. NumNodes /\ dstIdx < srcIdx
    BY <1>9 DEF UpdateBalance, IInv, TypeOK, LoopInv
  <2>6. TypeOK'
    BY <1>2, <1>9, <2>3, <2>4, <2>5 DEF UpdateBalance, IInv, TypeOK, PCs
  <2>7. ASSUME NEW p \in Nodes, NEW q \in Nodes, NEW s \in Slots, Loses(p, q, s)
        PROVE  /\ \E j \in srcIdx' .. NumNodes : p = sn[j]
               /\ s \notin bom[p]
    <3>1. /\ \E j \in srcIdx .. NumNodes : p = sn[j]
          /\ s \notin bom[p]
      BY <1>9, <2>7 DEF UpdateBalance, IInv, PassInv, Rebalancing
    <3> QED
      BY <2>4, <2>5, <3>1
  <2>8. PassInv' /\ LoopInv' /\ MoveInv'
    BY <1>3, <1>9, <2>4, <2>5, <2>7
    DEF UpdateBalance, IInv, PassInv, LoopInv, MoveInv, Rebalancing, Moving, src
  <2> QED
    BY <1>3, <2>6, <2>8 DEF IInv
<1>10. CASE UNCHANGED vars
  <2>1. TypeOK'
    BY <1>2, <1>10 DEF vars, passVars, IInv, TypeOK
  <2>2. PassInv' /\ LoopInv' /\ MoveInv'
    BY <1>3, <1>10
    DEF vars, passVars, redisVars, IInv, PassInv, LoopInv, MoveInv, Rebalancing, Moving, dst, src, KeysIn
  <2> QED
    BY <1>3, <2>1, <2>2 DEF IInv
<1> QED
  BY <1>4, <1>5, <1>6, <1>7, <1>8, <1>9, <1>10

\* The commands that open the slot: a mark on the target, one on the source.
LEMMA OpenSlot ==
  ASSUME IInv, Importing \/ Migrating
  PROVE  IInv'
<1>1. dst \in Nodes /\ src \in Nodes /\ slot \in Slots /\ RedisTypeOK
  BY MoveFacts DEF Importing, Migrating, Moving, IInv, TypeOK
<1>2. \/ UNCHANGED redisVars
      \/ Importing /\ SetImporting(dst, {slot}, dst)
      \/ Migrating /\ SetMigrating(src, {slot}, src)
  BY DEF Importing, Migrating
<1>3. /\ RedisTypeOK'
      /\ UNCHANGED <<owner, keys, epoch, currentEpoch, acked>>
      /\ \A m \in Nodes, r \in Slots : migrating[m][r] # None => migrating'[m][r] # None
      /\ \A m \in Nodes, r \in Slots : importing[m][r] # None => importing'[m][r] # None
  <2>1. CASE UNCHANGED redisVars
    BY <1>1, <2>1 DEF redisVars, RedisTypeOK
  <2>2. CASE SetImporting(dst, {slot}, dst)
    BY <1>1, <2>2, SetImportingFacts
  <2>3. CASE SetMigrating(src, {slot}, src)
    BY <1>1, <2>3, SetMigratingFacts
  <2> QED
    BY <1>2, <2>1, <2>2, <2>3
<1>4. /\ EpochInv' /\ LoserInv' /\ NoKeyLoss'
      /\ \A p, q \in Nodes, s \in Slots : Loses(p, q, s)' <=> Loses(p, q, s)
  BY <1>3, MarksOnly DEF IInv
<1>5. CASE Failed
  BY <1>3, <1>4, <1>5, PassEnded DEF Failed, IInv
<1>6. CASE Importing /\ ~ Failed
  <2>1. /\ slot \in AcceptsImporting(dst) /\ SetImporting(dst, {slot}, dst)
        /\ pc = "importing" /\ pc' = "migrating" /\ UNCHANGED <<passVars, status, passes>>
    BY <1>6 DEF Importing, Goto
  <2>2. owner[dst][slot] # dst /\ importing'[dst][slot] # None
    BY <1>1, <2>1, SetImportingFacts DEF AcceptsImporting
  <2>3. TypeOK'
    BY <1>3, <2>1 DEF IInv, TypeOK, PCs, passVars
  <2>4. PassInv' /\ LoopInv' /\ MoveInv'
    BY <1>3, <1>4, <2>1, <2>2
    DEF passVars, IInv, PassInv, LoopInv, MoveInv, Rebalancing, Moving, dst, src
  <2> QED
    BY <1>4, <2>3, <2>4 DEF IInv
<1>7. CASE Migrating /\ ~ Failed
  <2>1. /\ slot \in AcceptsMigrating(src) /\ SetMigrating(src, {slot}, src)
        /\ pc = "migrating" /\ pc' = "keys" /\ UNCHANGED <<passVars, status, passes>>
    BY <1>7 DEF Migrating, Goto
  <2>2. owner[src][slot] = src /\ migrating'[src][slot] # None
    BY <1>1, <2>1, SetMigratingFacts DEF AcceptsMigrating
  <2>3. TypeOK'
    BY <1>3, <2>1 DEF IInv, TypeOK, PCs, passVars
  <2>4. importing'[dst][slot] # None /\ owner[dst][slot] # dst
    BY <1>1, <1>3, <2>1 DEF IInv, MoveInv
  <2>5. PassInv' /\ LoopInv' /\ MoveInv'
    BY <1>3, <1>4, <2>1, <2>2, <2>4
    DEF passVars, IInv, PassInv, LoopInv, MoveInv, Rebalancing, Moving, dst, src
  <2> QED
    BY <1>4, <2>3, <2>5 DEF IInv
<1> QED
  BY <1>5, <1>6, <1>7

\* Moving the keys: they go to a node that does not own the slot yet, so no
\* loser gets one, and the slot is handed over once the source has none left.
LEMMA MoveKeys ==
  ASSUME IInv, MigrateKeysInSlot
  PROVE  IInv'
<1>1. /\ dst \in Nodes /\ src \in Nodes /\ dst # src /\ slot \in Slots /\ RedisTypeOK
      /\ pc = "keys"
  BY MoveFacts DEF MigrateKeysInSlot, Moving, IInv, TypeOK
<1>2. CASE UNCHANGED redisVars
  <2>1. RedisTypeOK'
    BY <1>1, <1>2 DEF redisVars, RedisTypeOK
  <2>2. /\ EpochInv' /\ LoserInv' /\ NoKeyLoss'
        /\ \A p, q \in Nodes, s \in Slots : Loses(p, q, s)' <=> Loses(p, q, s)
    BY <1>2, MarksOnly DEF IInv, redisVars
  <2>3. CASE Failed
    BY <2>1, <2>2, <2>3, PassEnded DEF Failed, IInv
  <2>4. CASE Goto("nodeTarget") /\ KeysIn(src, slot) = {}
    <3>1. TypeOK'
      BY <2>1, <2>4 DEF Goto, IInv, TypeOK, PCs, passVars
    <3>2. PassInv' /\ LoopInv' /\ MoveInv'
      BY <1>1, <1>2, <2>2, <2>4
      DEF Goto, passVars, redisVars, IInv, PassInv, LoopInv, MoveInv, Rebalancing, Moving,
          dst, src, KeysIn
    <3> QED
      BY <2>2, <3>1, <3>2 DEF IInv
  <2>5. CASE Goto("keys")
    <3>1. UNCHANGED vars
      BY <1>1, <1>2, <2>5 DEF Goto, vars
    <3> QED
      BY <3>1, PassStep
  <2> QED
    BY <1>2, <2>3, <2>4, <2>5 DEF MigrateKeysInSlot
<1>3. CASE ~ UNCHANGED redisVars
  <2>1. PICK k \in KeysIn(src, slot) :
          /\ Migrate(src, dst, k) \/ CopyOnly(dst, k)
          /\ Failed \/ Goto("keys")
    BY <1>3 DEF MigrateKeysInSlot
  <2>2. k \in Keys /\ SlotOf[k] = slot /\ k \in keys[src]
    BY <1>1, <2>1 DEF KeysIn, RedisTypeOK
  <2>3. /\ UNCHANGED <<owner, migrating, importing, epoch, currentEpoch, acked>>
        /\ keys' \in [Nodes -> SUBSET Keys]
        /\ \A n \in Nodes : keys'[n] \subseteq keys[n] \cup (IF n = dst THEN {k} ELSE {})
        /\ \A n \in Nodes : keys[n] \subseteq keys'[n] \cup {k}
        /\ k \in keys'[dst]
    BY <1>1, <2>1, <2>2 DEF Migrate, CopyOnly, tables, RedisTypeOK
  <2>4. RedisTypeOK'
    BY <1>1, <2>3 DEF RedisTypeOK
  <2>5. \A p, q \in Nodes, s \in Slots : Loses(p, q, s)' <=> Loses(p, q, s)
    BY <2>3 DEF Loses
  <2>6. EpochInv'
    BY <2>3 DEF IInv, EpochInv
  <2>7. LoserInv'
    <3> SUFFICES ASSUME NEW p \in Nodes, NEW q \in Nodes, NEW s \in Slots, Loses(p, q, s)
                 PROVE  migrating[p][s] # None /\ KeysIn(p, s)' = {}
      BY <2>3, <2>5 DEF LoserInv
    <3>1. migrating[p][s] # None /\ KeysIn(p, s) = {}
      BY DEF IInv, LoserInv
    <3>2. owner[dst][slot] # dst
      BY <1>1 DEF IInv, MoveInv
    <3>3. p # dst \/ s # slot
      BY <3>2 DEF Loses
    <3>4. KeysIn(p, s)' = {}
      BY <2>2, <2>3, <3>1, <3>3 DEF KeysIn
    <3> QED
      BY <3>1, <3>4
  <2>8. NoKeyLoss'
    BY <1>1, <2>3 DEF IInv, NoKeyLoss
  <2>9. CASE Failed
    BY <2>4, <2>6, <2>7, <2>8, <2>9, PassEnded DEF Failed, IInv
  <2>10. CASE Goto("keys")
    <3>1. TypeOK'
      BY <2>4, <2>10 DEF Goto, IInv, TypeOK, PCs, passVars
    <3>2. PassInv' /\ LoopInv' /\ MoveInv'
      BY <1>1, <2>3, <2>5, <2>10
      DEF Goto, passVars, IInv, PassInv, LoopInv, MoveInv, Rebalancing, Moving, dst, src
    <3> QED
      BY <2>6, <2>7, <2>8, <3>1, <3>2 DEF IInv
  <2> QED
    BY <2>1, <2>9, <2>10
<1> QED
  BY <1>2, <1>3

\* SETSLOT NODE on the target makes it the owner with the highest epoch.  The
\* other owners of the slot become losers: the source, emptied and marked,
\* and those that already were losers to it.
LEMMA TakeSlot ==
  ASSUME IInv, NodeTarget
  PROVE  IInv'
<1>1. /\ dst \in Nodes /\ src \in Nodes /\ dst # src /\ slot \in Slots /\ RedisTypeOK
      /\ pc = "nodeTarget" /\ slot \in bom[src]
      /\ \A q \in Nodes, s \in Slots : ~ Loses(dst, q, s)
      /\ \A q \in Nodes : ~ Loses(src, q, slot)
  BY MoveFacts DEF NodeTarget, Moving, IInv, TypeOK
<1>2. pc' = "nodeSource" /\ UNCHANGED <<passVars, status, passes>>
  BY DEF NodeTarget, Goto
<1>3. /\ importing[dst][slot] # None /\ owner[src][slot] = src
      /\ migrating[src][slot] # None /\ KeysIn(src, slot) = {}
  BY <1>1 DEF IInv, MoveInv
<1>4. CASE UNCHANGED redisVars
  <2>1. RedisTypeOK'
    BY <1>1, <1>4 DEF redisVars, RedisTypeOK
  <2>2. /\ EpochInv' /\ LoserInv' /\ NoKeyLoss'
        /\ \A p, q \in Nodes, s \in Slots : Loses(p, q, s)' <=> Loses(p, q, s)
    BY <1>4, MarksOnly DEF IInv, redisVars
  <2>3. TypeOK'
    BY <1>2, <2>1 DEF IInv, TypeOK, PCs, passVars
  <2>4. PassInv' /\ LoopInv' /\ MoveInv'
    BY <1>1, <1>2, <2>2
    DEF passVars, IInv, PassInv, LoopInv, MoveInv, Rebalancing, Moving, dst, src
  <2> QED
    BY <2>2, <2>3, <2>4 DEF IInv
<1>5. CASE SetNode(dst, {slot}, dst)
  <2>1. /\ RedisTypeOK'
        /\ UNCHANGED <<keys, acked>>
        /\ \A m \in Nodes, r \in Slots : m # dst \/ r # slot =>
             owner'[m][r] = owner[m][r] /\ migrating'[m][r] = migrating[m][r]
        /\ \A m \in Nodes : m # dst => epoch'[m] = epoch[m]
        /\ \/ UNCHANGED <<epoch, currentEpoch>>
           \/ currentEpoch' = currentEpoch + 1 /\ epoch'[dst] = currentEpoch + 1
        /\ epoch'[dst] = currentEpoch' /\ epoch'[dst] > 0
    <3>1. ASSUME NEW n \in Nodes, NEW s \in Slots, SetNode(n, {s}, n),
                 importing[n][s] # None
          PROVE  /\ RedisTypeOK'
                 /\ UNCHANGED <<keys, acked>>
                 /\ \A m \in Nodes, r \in Slots : m # n \/ r # s =>
                      owner'[m][r] = owner[m][r] /\ migrating'[m][r] = migrating[m][r]
                 /\ \A m \in Nodes : m # n => epoch'[m] = epoch[m]
                 /\ \/ UNCHANGED <<epoch, currentEpoch>>
                    \/ currentEpoch' = currentEpoch + 1 /\ epoch'[n] = currentEpoch + 1
                 /\ epoch'[n] = currentEpoch' /\ epoch'[n] > 0
      <4>1. RedisTypeOK
        BY <1>1
      <4>2. RedisTypeOK' /\ UNCHANGED <<keys, acked>>
        BY <3>1, <4>1, SetNodeFacts, Zenon
      <4>3. \A m \in Nodes, r \in Slots : m # n \/ r # s =>
              /\ owner'[m][r] = owner[m][r]
              /\ migrating'[m][r] = migrating[m][r]
              /\ importing'[m][r] = importing[m][r]
        BY <3>1, <4>1, SetNodeFacts, Zenon
      <4>4. \A m \in Nodes : m # n => epoch'[m] = epoch[m]
        BY <3>1, <4>1, SetNodeFacts, Zenon
      <4>5. /\ epoch'[n] = currentEpoch' /\ epoch'[n] > 0
            /\ \/ UNCHANGED <<epoch, currentEpoch>>
               \/ currentEpoch' = currentEpoch + 1 /\ epoch'[n] = currentEpoch + 1
        BY <3>1, <4>1, SetNodeFacts, Zenon
      <4> QED
        BY <4>2, <4>3, <4>4, <4>5
    <3> QED
      BY <1>1, <1>3, <1>5, <3>1
  <2>2. /\ epoch \in [Nodes -> Nat] /\ currentEpoch \in Nat
        /\ epoch' \in [Nodes -> Nat] /\ currentEpoch' \in Nat
    BY <1>1, <2>1 DEF RedisTypeOK
  <2>3. EpochInv
    BY DEF IInv
  <2>4. EpochInv'
    BY <1>1, <2>1, <2>2, <2>3 DEF EpochInv
  <2>5. ASSUME NEW p \in Nodes, NEW q \in Nodes, NEW s \in Slots, Loses(p, q, s)'
        PROVE  p # dst /\ (Loses(p, q, s) \/ (s = slot /\ (p = src \/ Loses(p, src, slot))))
    <3>1. p # dst
      BY <2>1, <2>2, <2>4, <2>5 DEF Loses, EpochInv
    <3>2. p # q /\ owner[p][s] = p /\ epoch'[p] = epoch[p] /\ epoch'[p] < epoch'[q] /\ owner'[q][s] = q
      BY <2>1, <2>2, <2>5, <3>1 DEF Loses
    <3>3. CASE q # dst
      BY <2>1, <2>2, <3>1, <3>2, <3>3 DEF Loses
    <3>4. CASE q = dst /\ s # slot
      <4>1. owner[dst][s] = dst /\ ~ Loses(dst, p, s)
        BY <1>1, <2>1, <3>2, <3>4
      <4>2. epoch[p] # epoch[dst] /\ ~ (epoch[dst] < epoch[p])
        BY <1>1, <2>2, <2>3, <3>1, <3>2, <4>1 DEF EpochInv, Loses
      <4>3. epoch[p] < epoch[dst]
        BY <1>1, <2>2, <4>2
      <4> QED
        BY <3>1, <3>2, <3>4, <4>1, <4>3 DEF Loses
    <3>5. CASE q = dst /\ s = slot /\ p # src
      <4>1. ~ Loses(src, p, slot)
        BY <1>1
      <4>2. epoch[p] # epoch[src] /\ ~ (epoch[src] < epoch[p])
        BY <1>1, <1>3, <2>2, <2>3, <3>2, <3>5, <4>1 DEF EpochInv, Loses
      <4>3. epoch[p] < epoch[src]
        BY <1>1, <2>2, <4>2
      <4> QED
        BY <1>3, <3>1, <3>2, <3>5, <4>3 DEF Loses
    <3> QED
      BY <3>1, <3>3, <3>4, <3>5
  <2>6. LoserInv'
    <3> SUFFICES ASSUME NEW p \in Nodes, NEW q \in Nodes, NEW s \in Slots, Loses(p, q, s)'
                 PROVE  migrating'[p][s] # None /\ KeysIn(p, s)' = {}
      BY DEF LoserInv
    <3>1. migrating[p][s] # None /\ KeysIn(p, s) = {}
      BY <1>1, <1>3, <2>5 DEF IInv, LoserInv
    <3> QED
      BY <2>1, <2>5, <3>1 DEF KeysIn
  <2>7. NoKeyLoss'
    BY <2>1 DEF IInv, NoKeyLoss
  <2>8. TypeOK'
    BY <1>2, <2>1 DEF IInv, TypeOK, PCs, passVars
  <2>9. PassInv'
    <3> SUFFICES ASSUME NEW p \in Nodes, NEW q \in Nodes, NEW s \in Slots, Loses(p, q, s)'
                 PROVE  /\ \E j \in srcIdx .. NumNodes : p = sn[j]
                        /\ s \notin bom[p] \/ (p = src /\ s = slot)
      BY <1>2 DEF PassInv, passVars, src
    <3>1. CASE p = src /\ s = slot
      <4>1. srcIdx \in srcIdx .. NumNodes
        BY <1>1, MoveFacts, NumNodesType DEF Moving
      <4> QED
        BY <3>1, <4>1 DEF src
    <3>2. CASE \E r \in Nodes : Loses(p, r, s)
      BY <1>1, <3>2 DEF IInv, PassInv, Rebalancing, Moving
    <3> QED
      BY <1>1, <2>5, <3>1, <3>2
  <2>10. LoopInv' /\ MoveInv'
    BY <1>1, <1>2 DEF passVars, IInv, LoopInv, MoveInv, Rebalancing, Moving, dst, src
  <2> QED
    BY <2>4, <2>6, <2>7, <2>8, <2>9, <2>10 DEF IInv
<1> QED
  BY <1>4, <1>5 DEF NodeTarget

\* SETSLOT NODE on the source takes its claim away, or changes nothing.
LEMMA GiveSlot ==
  ASSUME IInv, NodeSource
  PROVE  IInv'
<1>1. /\ dst \in Nodes /\ src \in Nodes /\ dst # src /\ slot \in Slots
      /\ pc = "nodeSource" /\ RedisTypeOK
  BY MoveFacts DEF NodeSource, Moving, IInv, TypeOK
<1>2. /\ bom' = [bom EXCEPT ![src] = @ \ {slot}]
      /\ table' = table \ {slot}
      /\ \/ pc' = "update" /\ slot' = slot
         \/ pc' = "importing" /\ slot' \in table'
      /\ UNCHANGED <<balance, sn, dstIdx, srcIdx, status, passes>>
  BY DEF NodeSource, NextSlot
<1>3. /\ RedisTypeOK'
      /\ UNCHANGED <<keys, acked, epoch, currentEpoch>>
      /\ \A m \in Nodes, r \in Slots :
           owner'[m][r] = m => owner[m][r] = m /\ migrating'[m][r] = migrating[m][r]
  <2>1. CASE UNCHANGED redisVars
    BY <1>1, <2>1 DEF redisVars, RedisTypeOK
  <2>2. CASE SetNode(src, {slot}, dst)
    <3>1. ASSUME NEW n \in Nodes, NEW s \in Slots, NEW id \in Nodes, id # n, SetNode(n, {s}, id)
          PROVE  /\ RedisTypeOK'
                 /\ UNCHANGED <<keys, acked>> /\ UNCHANGED <<epoch, currentEpoch>>
                 /\ \A m \in Nodes, r \in Slots : m # n \/ r # s =>
                      /\ owner'[m][r] = owner[m][r]
                      /\ migrating'[m][r] = migrating[m][r]
                      /\ importing'[m][r] = importing[m][r]
                 /\ owner'[n][s] = id \/ (owner'[n][s] = owner[n][s] /\ migrating'[n][s] = migrating[n][s])
      <4>1. RedisTypeOK
        BY <1>1
      <4>2. RedisTypeOK' /\ UNCHANGED <<keys, acked>>
        BY <3>1, <4>1, SetNodeFacts, Zenon
      <4>3. UNCHANGED <<epoch, currentEpoch>>
        BY <3>1, <4>1, SetNodeFacts, Zenon
      <4>4. \A m \in Nodes, r \in Slots : m # n \/ r # s =>
              /\ owner'[m][r] = owner[m][r]
              /\ migrating'[m][r] = migrating[m][r]
              /\ importing'[m][r] = importing[m][r]
        BY <3>1, <4>1, SetNodeFacts, Zenon
      <4>5. owner'[n][s] = id \/ (owner'[n][s] = owner[n][s] /\ migrating'[n][s] = migrating[n][s])
        BY <3>1, <4>1, SetNodeFacts, Zenon
      <4> QED
        BY <4>2, <4>3, <4>4, <4>5
    <3> QED
      BY <1>1, <2>2, <3>1
  <2> QED
    BY <2>1, <2>2 DEF NodeSource
<1>4. \A p, q \in Nodes, s \in Slots : Loses(p, q, s)' => Loses(p, q, s)
  BY <1>3 DEF Loses
<1>5. EpochInv'
  BY <1>3 DEF IInv, EpochInv
<1>6. LoserInv'
  <2> SUFFICES ASSUME NEW p \in Nodes, NEW q \in Nodes, NEW s \in Slots, Loses(p, q, s)'
               PROVE  migrating'[p][s] # None /\ KeysIn(p, s)' = {}
    BY DEF LoserInv
  <2>1. migrating[p][s] # None /\ KeysIn(p, s) = {}
    BY <1>4 DEF IInv, LoserInv
  <2>2. migrating'[p][s] = migrating[p][s]
    BY <1>3 DEF Loses
  <2> QED
    BY <1>3, <2>1, <2>2 DEF KeysIn
<1>7. NoKeyLoss'
  BY <1>3 DEF IInv, NoKeyLoss
<1>8. TypeOK'
  BY <1>1, <1>2, <1>3 DEF IInv, TypeOK, PCs
<1>9. PassInv'
  <2> SUFFICES ASSUME NEW p \in Nodes, NEW q \in Nodes, NEW s \in Slots, Loses(p, q, s)'
               PROVE  /\ \E j \in srcIdx .. NumNodes : p = sn[j]
                      /\ s \notin bom'[p]
    BY <1>2 DEF PassInv
  <2>1. /\ \E j \in srcIdx .. NumNodes : p = sn[j]
        /\ s \notin bom[p] \/ (p = src /\ s = slot)
    BY <1>1, <1>4 DEF IInv, PassInv, Rebalancing, Moving
  <2> QED
    BY <1>1, <1>2, <2>1 DEF IInv, TypeOK
<1>10. LoopInv' /\ MoveInv'
  <2>1. table' \subseteq bom'[src] /\ src' = src
    BY <1>1, <1>2 DEF IInv, TypeOK, LoopInv, Moving, src
  <2>2. LoopInv
    BY DEF IInv
  <2>3. pc' \in {"update", "importing"}
    BY <1>2
  <2>4. LoopInv'
    BY <1>1, <1>2, <2>1, <2>2 DEF LoopInv, Rebalancing, Moving
  <2>5. MoveInv'
    BY <2>3 DEF MoveInv
  <2> QED
    BY <2>4, <2>5
<1> QED
  BY <1>5, <1>6, <1>7, <1>8, <1>9, <1>10 DEF IInv

\* Clients and the cluster bus.
LEMMA BusStep ==
  ASSUME IInv, Bus
  PROVE  IInv'
<1>1. UNCHANGED <<passVars, pc, status, passes>> /\ RedisTypeOK
  BY DEF Bus, IInv, TypeOK
<1>2. pc \in {"keys", "nodeTarget"} => /\ owner[src][slot] = src /\ src \in Nodes /\ slot \in Slots
                                       /\ migrating[src][slot] # None
                                       /\ \A q \in Nodes : ~ Loses(src, q, slot)
  BY MoveFacts DEF IInv, MoveInv, Moving
<1>3. pc \in {"migrating", "keys", "nodeTarget"} =>
        dst \in Nodes /\ slot \in Slots /\ importing[dst][slot] # None /\ owner[dst][slot] # dst
  BY MoveFacts DEF IInv, MoveInv, Moving
<1>4. ASSUME RedisTypeOK' PROVE TypeOK'
  BY <1>1, <1>4 DEF IInv, TypeOK, passVars
<1>5. LoopInv'
  BY <1>1 DEF IInv, LoopInv, passVars, src
<1>6. ASSUME \A p, q \in Nodes, s \in Slots : Loses(p, q, s)' => Loses(p, q, s) PROVE PassInv'
  BY <1>1, <1>6 DEF IInv, PassInv, passVars, src
<1>7. CASE \E k \in Keys, n, t \in Nodes : ClientWrite(k, n) \/ ClientAskWrite(k, t, n)
  <2>1. PICK k \in Keys, n \in Nodes, t \in Nodes : ClientWrite(k, n) \/ ClientAskWrite(k, t, n)
    BY <1>7
  <2>2. /\ RedisTypeOK' /\ UNCHANGED <<owner, migrating, importing, epoch, currentEpoch>>
        /\ acked' = acked \cup {k}
        /\ keys' = [keys EXCEPT ![n] = @ \cup {k}]
        /\ owner[n][SlotOf[k]] # n \/ migrating[n][SlotOf[k]] = None
    BY <1>1, <2>1, WriteFacts DEF tables
  <2>3. \A p, q \in Nodes, s \in Slots : Loses(p, q, s)' <=> Loses(p, q, s)
    BY <2>2 DEF Loses
  <2>4. \A p \in Nodes, s \in Slots :
          owner[p][s] = p /\ migrating[p][s] # None /\ KeysIn(p, s) = {} => KeysIn(p, s)' = {}
    BY <1>1, <2>2 DEF KeysIn, RedisTypeOK
  <2>5. EpochInv'
    BY <2>2 DEF IInv, EpochInv
  <2>6. LoserInv'
    <3> SUFFICES ASSUME NEW p \in Nodes, NEW q \in Nodes, NEW s \in Slots, Loses(p, q, s)
                 PROVE  migrating[p][s] # None /\ KeysIn(p, s)' = {}
      BY <2>2, <2>3 DEF LoserInv
    <3>1. migrating[p][s] # None /\ KeysIn(p, s) = {} /\ owner[p][s] = p
      BY DEF IInv, LoserInv, Loses
    <3> QED
      BY <2>4, <3>1
  <2>7. NoKeyLoss'
    BY <1>1, <2>2 DEF IInv, NoKeyLoss, RedisTypeOK
  <2>8. pc = "nodeTarget" => KeysIn(src, slot)' = {}
    <3>1. pc = "nodeTarget" => KeysIn(src, slot) = {}
      BY DEF IInv, MoveInv
    <3>2. UNCHANGED <<src, slot>>
      BY <1>1 DEF passVars, src
    <3> QED
      BY <1>2, <2>4, <3>1, <3>2 DEF KeysIn
  <2>9. MoveInv'
    BY <1>1, <1>2, <1>3, <2>2, <2>8 DEF MoveInv, passVars, dst, src
  <2> QED
    BY <1>4, <1>5, <1>6, <2>2, <2>3, <2>5, <2>6, <2>7, <2>9 DEF IInv
<1>8. CASE \E p, q \in Nodes : Gossip(p, q)
  <2>1. PICK p \in Nodes, q \in Nodes : Gossip(p, q)
    BY <1>8
  <2>2. /\ RedisTypeOK'
        /\ UNCHANGED <<migrating, importing, epoch, currentEpoch, acked>>
        /\ \A n \in Nodes, s \in Slots : owner'[n][s] = n => owner[n][s] = n
        /\ \A n \in Nodes, s \in Slots :
             owner[n][s] = n /\ owner'[n][s] # n => n = p /\ Loses(p, q, s)
        /\ \A n \in Nodes : keys'[n] \subseteq keys[n]
        /\ \A n \in Nodes : \A k \in keys[n] :
             k \notin keys'[n] => n = p /\ Loses(p, q, SlotOf[k])
    BY <1>1, <2>1, GossipFacts
  <2>3. \A m, n \in Nodes, s \in Slots : Loses(m, n, s)' => Loses(m, n, s)
    BY <2>2 DEF Loses
  <2>4. \A n \in Nodes : keys'[n] = keys[n]
    <3> SUFFICES ASSUME NEW n \in Nodes, NEW k \in keys[n], k \notin keys'[n] PROVE FALSE
      BY <2>2
    <3>1. k \in Keys /\ SlotOf[k] \in Slots
      BY <1>1, RedisAssumption DEF RedisTypeOK
    <3>2. k \in KeysIn(p, SlotOf[k]) /\ Loses(p, q, SlotOf[k])
      BY <2>2 DEF KeysIn
    <3> QED
      BY <2>1, <3>1, <3>2 DEF IInv, LoserInv
  <2>5. EpochInv'
    BY <2>2 DEF IInv, EpochInv
  <2>6. LoserInv'
    BY <2>2, <2>3, <2>4 DEF IInv, LoserInv, KeysIn
  <2>7. NoKeyLoss'
    BY <2>2, <2>4 DEF IInv, NoKeyLoss
  <2>8. MoveInv'
    <3>1. pc \in {"keys", "nodeTarget"} => owner'[src][slot] = src
      BY <1>2, <2>1, <2>2
    <3>2. pc \in {"migrating", "keys", "nodeTarget"} => owner'[dst][slot] # dst
      BY <1>3, <2>2
    <3>3. UNCHANGED <<src, dst, slot>>
      BY <1>1 DEF passVars, src, dst
    <3>4. pc = "nodeTarget" => KeysIn(src, slot)' = {}
      BY <1>2, <2>4, <3>3 DEF IInv, MoveInv, KeysIn
    <3> QED
      BY <1>1, <1>2, <1>3, <2>2, <3>1, <3>2, <3>3, <3>4 DEF MoveInv
  <2> QED
    BY <1>4, <1>5, <1>6, <2>2, <2>3, <2>5, <2>6, <2>7, <2>8 DEF IInv
<1> QED
  BY <1>7, <1>8 DEF Bus, Environment

-----------------------------------------------------------------------------
\* Before the first pass every slot has one owner.
LEMMA InitIInv == Init => IInv
<1> SUFFICES ASSUME Init PROVE IInv
  OBVIOUS
<1> USE NumNodesType
<1>1. PICK assigned \in [Slots -> InitMasters] : RedisInit(assigned, InitEpoch)
  BY DEF Init
<1>2. /\ \A n \in Nodes, s \in Slots : owner[n][s] = assigned[s]
      /\ epoch = InitEpoch /\ currentEpoch = NumNodes
      /\ keys = [n \in Nodes |-> {k \in acked : assigned[SlotOf[k]] = n}]
      /\ acked \in SUBSET Keys
  BY <1>1 DEF RedisInit, NumNodes
<1>3. \A s \in Slots : assigned[s] \in InitMasters /\ assigned[s] \in Nodes
  BY ScaleUpAssumption
<1>4. RedisTypeOK
  <2>1. InitEpoch \in [Nodes -> Nat]
    BY ScaleUpAssumption DEF NumNodes
  <2> QED
    BY <1>1, <1>2, <1>3, <2>1 DEF RedisInit, RedisTypeOK
<1>5. TypeOK
  BY <1>4, ScaleUpAssumption, RedisAssumption DEF Init, TypeOK, PCs, Slots
<1>6. \A p, q \in Nodes, s \in Slots : ~ Loses(p, q, s)
  BY <1>2 DEF Loses
<1>7. EpochInv
  BY <1>2, <1>3, ScaleUpAssumption DEF EpochInv, NumNodes
<1>8. NoKeyLoss
  BY <1>2, <1>3, RedisAssumption DEF NoKeyLoss
<1>9. LoserInv /\ PassInv
  BY <1>6 DEF LoserInv, PassInv
<1>10. LoopInv /\ MoveInv
  BY DEF Init, LoopInv, MoveInv, Rebalancing, Moving
<1> QED
  BY <1>5, <1>7, <1>8, <1>9, <1>10 DEF IInv

\* Every step of the operator, of the clients and of the bus preserves it.
LEMMA NextIInv == IInv /\ [Next]_vars => IInv'
BY PassStep, OpenSlot, MoveKeys, TakeSlot, GiveSlot, BusStep DEF Next, Operator

\* The inductive invariant holds of every behaviour of a scale-up: whoever is
\* about to lose a slot over the bus has been emptied by MigrateKeysInSlot and
\* redirects writes, because waitForClusterJoin let the pass start only when
\* no slot had two owners.
THEOREM Invariance == Spec => []IInv
BY InitIInv, NextIInv, PTL DEF Spec

\* The model is type correct.
THEOREM TypeCorrect == Spec => []TypeOK
<1>1. IInv => TypeOK
  BY DEF IInv
<1> QED
  BY <1>1, Invariance, PTL

\* A scale-up never loses an acknowledged key, whatever commands of moveSlot
\* fail and wherever the operator stops.
THEOREM KeySafety == Spec => []NoKeyLoss
<1>1. IInv => NoKeyLoss
  BY DEF IInv
<1> QED
  BY <1>1, Invariance, PTL

-----------------------------------------------------------------------------
(***************************************************************************)
(* Sums over the nodes.                                                    *)
(***************************************************************************)
\* The units of f are finitely many, and are what their name says.
LEMMA UnitsFacts ==
  ASSUME NEW f \in [Nodes -> Nat]
  PROVE  /\ IsFiniteSet(Units(f))
         /\ \A n \in Nodes, i \in Int : <<n, i>> \in Units(f) <=> 1 <= i /\ i <= f[n]
         /\ \A p \in Units(f) : \E n \in Nodes, i \in Int : i \in 1 .. f[n] /\ p = <<n, i>>
<1> DEFINE D == {{n} \X (1 .. f[n]) : n \in Nodes}
<1>1. IsFiniteSet(D)
  <2>1. IsFiniteSet(Nodes)
    BY ScaleUpAssumption
  <2>2. [n \in Nodes |-> {n} \X (1 .. f[n])] \in Surjection(Nodes, D)
    BY DEF Surjection
  <2> QED BY <2>1, <2>2, FS_Surjection
<1>2. ASSUME NEW T \in D PROVE IsFiniteSet(T)
  <2>1. PICK n \in Nodes : T = {n} \X (1 .. f[n])
    OBVIOUS
  <2>2. IsFiniteSet({n})
    BY FS_Singleton
  <2>3. IsFiniteSet(1 .. f[n])
    <3>1. 1 \in Int /\ f[n] \in Int
      OBVIOUS
    <3> QED BY <3>1, FS_Interval
  <2> QED BY <2>1, <2>2, <2>3, FS_Product
<1>3. IsFiniteSet(Units(f))
  BY <1>1, <1>2, FS_UNION DEF Units
<1>4. \A n \in Nodes, i \in Int : <<n, i>> \in Units(f) <=> 1 <= i /\ i <= f[n]
  BY DEF Units
<1>5. \A p \in Units(f) : \E n \in Nodes, i \in Int : i \in 1 .. f[n] /\ p = <<n, i>>
  BY DEF Units
<1> QED BY <1>3, <1>4, <1>5

\* Sums are natural numbers, and zero only when every term is.
LEMMA SumZero ==
  ASSUME NEW f \in [Nodes -> Nat]
  PROVE  Sum(f) \in Nat /\ (Sum(f) = 0 <=> \A n \in Nodes : f[n] = 0)
<1>1. Sum(f) \in Nat /\ (Sum(f) = 0 <=> Units(f) = {})
  BY UnitsFacts, FS_CardinalityType, FS_EmptySet DEF Sum
<1>2. ASSUME Units(f) = {}, NEW n \in Nodes PROVE f[n] = 0
  <2>1. <<n, 1>> \notin Units(f)
    BY <1>2
  <2>2. f[n] \in Nat /\ 1 \in Int
    OBVIOUS
  <2>3. <<n, 1>> \in Units(f) <=> 1 <= 1 /\ 1 <= f[n]
    BY <2>2, UnitsFacts
  <2> QED BY <2>1, <2>2, <2>3
<1>3. ASSUME \A n \in Nodes : f[n] = 0 PROVE Units(f) = {}
  BY <1>3, UnitsFacts
<1> QED BY <1>1, <1>2, <1>3

\* The sum of two functions is the sum of their sums.
LEMMA SumAdd ==
  ASSUME NEW f \in [Nodes -> Nat], NEW g \in [Nodes -> Nat], NEW h \in [Nodes -> Nat],
         \A n \in Nodes : h[n] = f[n] + g[n]
  PROVE  Sum(h) = Sum(f) + Sum(g)
<1> DEFINE S == Units(h) \ Units(f)
           F == [p \in Units(g) |-> <<p[1], f[p[1]] + p[2]>>]
<1>1. Units(f) \subseteq Units(h)
  <2> SUFFICES ASSUME NEW p \in Units(f) PROVE p \in Units(h)
    OBVIOUS
  <2>1. PICK n \in Nodes, i \in Int : i \in 1 .. f[n] /\ p = <<n, i>>
    BY UnitsFacts
  <2>2. i \in Int /\ 1 <= i /\ i <= h[n]
    BY <2>1
  <2> QED BY <2>1, <2>2, UnitsFacts
<1>2. ASSUME NEW p \in Units(g) PROVE F[p] \in S
  <2>1. PICK n \in Nodes, i \in Int : i \in 1 .. g[n] /\ p = <<n, i>>
    BY UnitsFacts
  <2>2. F[p] = <<n, f[n] + i>>
    BY <2>1
  <2>3. /\ f[n] + i \in Int /\ 1 <= f[n] + i /\ f[n] + i <= h[n]
        /\ ~ f[n] + i <= f[n]
    BY <2>1
  <2>4. <<n, f[n] + i>> \in Units(h) /\ <<n, f[n] + i>> \notin Units(f)
    BY <2>3, UnitsFacts
  <2> QED BY <2>2, <2>4
<1>3. ASSUME NEW p \in Units(g), NEW q \in Units(g), F[p] = F[q] PROVE p = q
  <2>1. PICK n \in Nodes, i \in Int : i \in 1 .. g[n] /\ p = <<n, i>>
    BY UnitsFacts
  <2>2. PICK m \in Nodes, j \in Int : j \in 1 .. g[m] /\ q = <<m, j>>
    BY UnitsFacts
  <2>3. n = m /\ f[n] + i = f[m] + j
    BY <1>3, <2>1, <2>2
  <2>4. i = j
    BY <2>1, <2>2, <2>3
  <2> QED BY <2>1, <2>2, <2>3, <2>4
<1>4. ASSUME NEW r \in S PROVE \E p \in Units(g) : F[p] = r
  <2>1. PICK n \in Nodes, i \in Int : i \in 1 .. h[n] /\ r = <<n, i>>
    BY UnitsFacts
  <2>2. i \in Int /\ ~ i <= f[n]
    BY <2>1, UnitsFacts
  <2>3. i - f[n] \in Int /\ 1 <= i - f[n] /\ i - f[n] <= g[n]
    BY <2>1, <2>2
  <2>4. <<n, i - f[n]>> \in Units(g)
    BY <2>3, UnitsFacts
  <2>5. F[<<n, i - f[n]>>] = <<n, f[n] + (i - f[n])>>
    BY <2>4
  <2>6. f[n] + (i - f[n]) = i
    BY <2>1
  <2> QED BY <2>1, <2>4, <2>5, <2>6
<1>5. F \in Bijection(Units(g), S)
  <2> HIDE DEF S
  <2>1. F \in [Units(g) -> S]
    BY <1>2
  <2> HIDE DEF F
  <2> QED BY <1>3, <1>4, <2>1 DEF Bijection, Injection, Surjection, IsInjective
<1> HIDE DEF F
<1>6. Cardinality(S) = Sum(g)
  <2>1. ExistsBijection(Units(g), S)
    BY <1>5 DEF ExistsBijection
  <2>2. IsFiniteSet(Units(g))
    BY UnitsFacts
  <2> QED BY <2>1, <2>2, FS_Bijection DEF Sum
<1>7. Cardinality(S) = Sum(h) - Cardinality(Units(h) \cap Units(f))
  <2>1. IsFiniteSet(Units(h))
    BY UnitsFacts
  <2> QED BY <2>1, FS_Difference DEF Sum
<1>8. Units(h) \cap Units(f) = Units(f)
  BY <1>1
<1>9. Sum(f) \in Nat /\ Sum(g) \in Nat /\ Sum(h) \in Nat
  BY SumZero
<1>10. Sum(g) = Sum(h) - Sum(f)
  BY <1>6, <1>7, <1>8 DEF Sum
<1> QED BY <1>9, <1>10

\* So many times the same.
LEMMA SumOn ==
  ASSUME NEW T \in SUBSET Nodes, NEW c \in Nat, NEW f \in [Nodes -> Nat],
         \A n \in Nodes : f[n] = IF n \in T THEN c ELSE 0
  PROVE  Sum(f) = Cardinality(T) * c
<1>1. ASSUME NEW p \in Units(f) PROVE p \in T \X (1 .. c)
  <2>1. PICK n \in Nodes, i \in Int : i \in 1 .. f[n] /\ p = <<n, i>>
    BY UnitsFacts
  <2>2. n \in T /\ f[n] = c
    BY <2>1
  <2> QED BY <2>1, <2>2
<1>2. ASSUME NEW p \in T \X (1 .. c) PROVE p \in Units(f)
  <2>1. PICK n \in T, i \in 1 .. c : p = <<n, i>>
    OBVIOUS
  <2>2. n \in Nodes /\ i \in Int /\ 1 <= i /\ i <= f[n]
    BY <2>1
  <2> QED BY <2>1, <2>2, UnitsFacts
<1>3. Units(f) = T \X (1 .. c)
  BY <1>1, <1>2
<1>4. IsFiniteSet(T)
  BY ScaleUpAssumption, FS_Subset
<1>5. IsFiniteSet(1 .. c) /\ Cardinality(1 .. c) = c
  <2>1. 1 \in Int /\ c \in Int
    OBVIOUS
  <2> QED BY <2>1, FS_Interval
<1> QED BY <1>3, <1>4, <1>5, FS_Product DEF Sum

\* The sizes of sets of slots add up to the number of pairs.
LEMMA SumSizes ==
  ASSUME NEW B \in [Nodes -> SUBSET Slots], NEW f \in [Nodes -> Nat],
         \A n \in Nodes : f[n] = Cardinality(B[n])
  PROVE  Sum(f) = Cardinality({p \in Nodes \X Slots : p[2] \in B[p[1]]})
<1> DEFINE P == {p \in Nodes \X Slots : p[2] \in B[p[1]]}
           G == [n \in Nodes |-> CHOOSE b : b \in Bijection(1 .. f[n], B[n])]
           F == [u \in Units(f) |-> <<u[1], G[u[1]][u[2]]>>]
<1>1. ASSUME NEW n \in Nodes PROVE G[n] \in Bijection(1 .. f[n], B[n])
  <2>1. IsFiniteSet(B[n])
    BY SlotsFinite, FS_Subset
  <2>2. ExistsBijection(1 .. f[n], B[n])
    BY <2>1, FS_CardinalityType
  <2> QED BY <2>2 DEF ExistsBijection
<1> HIDE DEF G
<1>2. ASSUME NEW n \in Nodes
      PROVE  /\ \A i \in 1 .. f[n] : G[n][i] \in B[n]
             /\ \A i, j \in 1 .. f[n] : G[n][i] = G[n][j] => i = j
             /\ \A s \in B[n] : \E i \in 1 .. f[n] : G[n][i] = s
  BY <1>1 DEF Bijection, Injection, Surjection, IsInjective
<1>3. ASSUME NEW u \in Units(f) PROVE F[u] \in P
  <2>1. PICK n \in Nodes, i \in Int : i \in 1 .. f[n] /\ u = <<n, i>>
    BY UnitsFacts
  <2>2. F[u] = <<n, G[n][i]>>
    BY <2>1
  <2>3. G[n][i] \in B[n] /\ B[n] \subseteq Slots
    BY <1>2, <2>1
  <2> QED BY <2>2, <2>3
<1>4. ASSUME NEW u \in Units(f), NEW v \in Units(f), F[u] = F[v] PROVE u = v
  <2>1. PICK n \in Nodes, i \in Int : i \in 1 .. f[n] /\ u = <<n, i>>
    BY UnitsFacts
  <2>2. PICK m \in Nodes, j \in Int : j \in 1 .. f[m] /\ v = <<m, j>>
    BY UnitsFacts
  <2>3. n = m /\ G[n][i] = G[m][j]
    BY <1>4, <2>1, <2>2
  <2>4. i = j
    BY <1>2, <2>1, <2>2, <2>3
  <2> QED BY <2>1, <2>2, <2>3, <2>4
<1>5. ASSUME NEW p \in P PROVE \E u \in Units(f) : F[u] = p
  <2>1. PICK n \in Nodes, s \in Slots : s \in B[n] /\ p = <<n, s>>
    OBVIOUS
  <2>2. PICK i \in 1 .. f[n] : G[n][i] = s
    BY <1>2, <2>1
  <2>3. <<n, i>> \in Units(f)
    BY UnitsFacts
  <2> QED BY <2>1, <2>2, <2>3
<1>6. F \in Bijection(Units(f), P)
  <2> HIDE DEF P
  <2>1. F \in [Units(f) -> P]
    BY <1>3
  <2> HIDE DEF F
  <2> QED BY <1>4, <1>5, <2>1 DEF Bijection, Injection, Surjection, IsInjective
<1> HIDE DEF F
<1>7. ExistsBijection(Units(f), P) /\ IsFiniteSet(Units(f))
  BY <1>6, UnitsFacts DEF ExistsBijection
<1> QED BY <1>7, FS_Bijection DEF Sum

-----------------------------------------------------------------------------
(***************************************************************************)
(* RebalancedCluster's arithmetic.                                         *)
(***************************************************************************)
\* computeReshardTable takes as many slots as it is asked for, if the source
\* has as many.
LEMMA TableSize ==
  ASSUME bom \in [Nodes -> SUBSET Slots], NEW n \in Nodes, NEW num \in Nat,
         num <= Cardinality(bom[n])
  PROVE  Cardinality(ReshardTable(n, num)) = num
<1> DEFINE S == bom[n]
           c == Cardinality(S)
           Low(s) == {t \in S : t < s}
           rank == [s \in S |-> Cardinality(Low(s))]
           T == {s \in S : rank[s] < num}
<1>1. IsFiniteSet(S) /\ c \in Nat /\ S \subseteq Int
  BY SlotsFinite, FS_Subset, FS_CardinalityType, RedisAssumption DEF Slots
<1>2. ASSUME NEW s \in S PROVE IsFiniteSet(Low(s)) /\ Cardinality(Low(s)) \in 0 .. c - 1
  <2>1. Low(s) \subseteq S \ {s}
    BY <1>1
  <2>2. IsFiniteSet(S \ {s}) /\ Cardinality(S \ {s}) = c - 1
    BY <1>1, FS_RemoveElement
  <2>3. IsFiniteSet(Low(s)) /\ Cardinality(Low(s)) <= c - 1
    BY <2>1, <2>2, FS_Subset
  <2>4. Cardinality(Low(s)) \in Nat
    BY <2>3, FS_CardinalityType
  <2> HIDE DEF c, Low
  <2> QED BY <1>1, <2>3, <2>4
<1>3. ASSUME NEW s \in S, NEW t \in S, s < t PROVE rank[s] < rank[t]
  <2>1. Low(s) \cup {s} \subseteq Low(t)
    BY <1>1, <1>3
  <2>2. s \notin Low(s)
    BY <1>1
  <2>3. Cardinality(Low(s) \cup {s}) = Cardinality(Low(s)) + 1
    BY <1>2, <2>2, FS_AddElement
  <2>4. Cardinality(Low(s) \cup {s}) <= Cardinality(Low(t))
    BY <1>2, <2>1, FS_Subset
  <2>5. Cardinality(Low(s)) \in Int /\ Cardinality(Low(t)) \in Int
    BY <1>2
  <2>6. rank[s] = Cardinality(Low(s)) /\ rank[t] = Cardinality(Low(t))
    OBVIOUS
  <2> HIDE DEF Low, rank
  <2> QED BY <2>3, <2>4, <2>5, <2>6
<1>4. rank \in [S -> 0 .. c - 1]
  <2> HIDE DEF c, Low
  <2> QED BY <1>2
<1> HIDE DEF rank
<1>5. ASSUME NEW s \in S, NEW t \in S, rank[s] = rank[t] PROVE s = t
  <2>1. s \in Int /\ t \in Int /\ rank[s] \in Int /\ rank[t] \in Int
    BY <1>1, <1>4
  <2>2. ~ s < t
    BY <1>3, <1>5, <2>1
  <2>3. ~ t < s
    BY <1>3, <1>5, <2>1
  <2> QED BY <2>1, <2>2, <2>3
<1>6. rank \in Injection(S, 0 .. c - 1)
  BY <1>4, <1>5 DEF Injection, IsInjective
<1>7. IsFiniteSet(0 .. c - 1) /\ Cardinality(0 .. c - 1) = c
  <2>1. 0 \in Int /\ c - 1 \in Int
    BY <1>1
  <2> HIDE DEF c
  <2> QED BY <1>1, <2>1, FS_Interval
<1>8. rank \in Surjection(S, 0 .. c - 1)
  BY <1>6, <1>7, FS_Injection
<1> DEFINE r == [s \in T |-> rank[s]]
<1>9. r \in Bijection(T, 0 .. num - 1)
  <2> HIDE DEF c, S
  <2>1. r \in [T -> 0 .. num - 1]
    <3>1. \A s \in S : rank[s] \in Int /\ 0 <= rank[s]
      BY <1>1, <1>4
    <3>2. \A s \in T : rank[s] \in 0 .. num - 1
      BY <3>1
    <3> QED BY <3>2
  <2>2. \A s, t \in T : r[s] = r[t] => s = t
    BY <1>5
  <2>3. ASSUME NEW i \in 0 .. num - 1 PROVE \E s \in T : r[s] = i
    <3>1. i \in 0 .. c - 1 /\ i < num
      BY <1>1 DEF c, S
    <3>2. PICK s \in S : rank[s] = i
      BY <1>8, <3>1 DEF Surjection
    <3>3. s \in T
      BY <3>1, <3>2
    <3> QED BY <3>2, <3>3
  <2> HIDE DEF r, T
  <2> QED BY <2>1, <2>2, <2>3 DEF Bijection, Injection, Surjection, IsInjective
<1>10. IsFiniteSet(T)
  BY <1>1, FS_Subset
<1>11. Cardinality(T) = Cardinality(0 .. num - 1)
  <2>1. ExistsBijection(T, 0 .. num - 1)
    BY <1>9 DEF ExistsBijection
  <2> HIDE DEF T
  <2> QED BY <1>10, <2>1, FS_Bijection
<1>12. Cardinality(0 .. num - 1) = num
  <2>1. 0 \in Int /\ num - 1 \in Int
    OBVIOUS
  <2> QED BY <2>1, FS_Interval
<1>13. T = ReshardTable(n, num)
  BY DEF ReshardTable, rank
<1> QED BY <1>11, <1>12, <1>13

\* The even share and the slots that are left over.
LEMMA Shares ==
  /\ Expected \in Nat /\ Expected > 0
  /\ Spare \in Nat
  /\ NumSlots = NumNodes * Expected + Spare
<1>1. /\ NumSlots \in Nat /\ NumNodes \in Nat /\ NumNodes > 0 /\ NumNodes <= NumSlots
  BY NumNodesType, RedisAssumption, HandoverAssumption
<1>2. ASSUME NEW a \in Nat, NEW b \in Nat, b > 0, b <= a
      PROVE  a \div b \in Nat /\ a \div b > 0 /\ a % b \in Nat /\ a = b * (a \div b) + (a % b)
  <2>1. a \div b \in Int /\ a % b \in 0 .. b - 1 /\ a = b * (a \div b) + (a % b)
    BY <1>2
  <2>2. a \div b > 0
    <3> DEFINE q == a \div b
               r == a % b
    <3>1. q \in Int /\ r \in Int /\ r < b /\ a = b * q + r
      BY <2>1
    <3> HIDE DEF q, r
    <3>2. ~ q <= 0
      <4>1. q <= 0 => b * q <= 0
        BY <1>2, <3>1
      <4>2. b * q > 0
        BY <1>2, <3>1
      <4> QED BY <3>1, <4>1, <4>2
    <3>3. q > 0
      BY <3>1, <3>2
    <3> QED BY <3>3 DEF q
  <2> QED BY <2>1, <2>2
<1> QED BY <1>1, <1>2 DEF Expected, Spare

\* A term is at most the sum.
LEMMA SumTerm ==
  ASSUME NEW f \in [Nodes -> Nat], NEW n \in Nodes
  PROVE  f[n] <= Sum(f)
<1> DEFINE g == [m \in Nodes |-> IF m \in {n} THEN f[n] ELSE 0]
           h == [m \in Nodes |-> IF m = n THEN 0 ELSE f[m]]
<1>1. g \in [Nodes -> Nat] /\ h \in [Nodes -> Nat]
  OBVIOUS
<1>2. \A m \in Nodes : f[m] = g[m] + h[m]
  OBVIOUS
<1>3. \A m \in Nodes : g[m] = IF m \in {n} THEN f[n] ELSE 0
  OBVIOUS
<1>4. {n} \in SUBSET Nodes /\ f[n] \in Nat /\ Cardinality({n}) = 1
  BY FS_Singleton
<1> HIDE DEF g, h
<1>5. Sum(g) = Cardinality({n}) * f[n]
  BY <1>1, <1>3, <1>4, SumOn
<1>6. Sum(f) = Sum(g) + Sum(h)
  BY <1>1, <1>2, SumAdd
<1>7. Sum(h) \in Nat
  BY <1>1, SumZero
<1> QED BY <1>4, <1>5, <1>6, <1>7

\* Surplus and deficit are natural numbers.
LEMMA SurplusType ==
  ASSUME NEW b \in [Nodes -> Int]
  PROVE  Surplus(b) \in [Nodes -> Nat] /\ Deficit(b) \in [Nodes -> Nat]
BY DEF Surplus, Deficit

\* The infos of GetClusterInfos, in which every slot has one owner.
Complete ==
  /\ bom \in [Nodes -> SUBSET Slots]
  /\ \A s \in Slots : \E n \in Nodes : s \in bom[n]
  /\ \A m, n \in Nodes, s \in Slots : s \in bom[m] /\ s \in bom[n] => m = n

\* The balances add up to the slots that are left over.
LEMMA TotalIsSpare ==
  ASSUME Complete
  PROVE  /\ TotalBalance = Spare
         /\ Cardinality({p \in Nodes \X Slots : p[2] \in bom[p[1]]}) = NumSlots
<1> DEFINE P == {p \in Nodes \X Slots : p[2] \in bom[p[1]]}
           F == [p \in P |-> p[2]]
<1>1. F \in [P -> Slots]
  OBVIOUS
<1>2. ASSUME NEW p \in P, NEW q \in P, F[p] = F[q] PROVE p = q
  <2>1. p[1] \in Nodes /\ q[1] \in Nodes /\ p[2] \in Slots /\ p[2] = q[2]
    BY <1>2
  <2>2. p[2] \in bom[p[1]] /\ p[2] \in bom[q[1]]
    BY <1>2, <2>1
  <2>3. p[1] = q[1]
    BY <2>1, <2>2 DEF Complete
  <2>4. p = <<p[1], p[2]>> /\ q = <<q[1], q[2]>>
    OBVIOUS
  <2> QED BY <2>1, <2>3, <2>4
<1>3. ASSUME NEW s \in Slots PROVE \E p \in P : F[p] = s
  <2>1. PICK n \in Nodes : s \in bom[n]
    BY DEF Complete
  <2>2. <<n, s>> \in P /\ F[<<n, s>>] = s
    BY <2>1
  <2> QED BY <2>2
<1>4. F \in Bijection(P, Slots)
  <2> HIDE DEF P, F
  <2> QED BY <1>1, <1>2, <1>3 DEF Bijection, Injection, Surjection, IsInjective
<1> HIDE DEF F
<1>5. IsFiniteSet(P)
  <2>1. IsFiniteSet(Nodes \X Slots)
    BY ScaleUpAssumption, SlotsFinite, FS_Product
  <2> QED BY <2>1, FS_Subset
<1>6. Cardinality(Slots) = Cardinality(P)
  <2>1. ExistsBijection(P, Slots)
    BY <1>4 DEF ExistsBijection
  <2> HIDE DEF P
  <2> QED BY <1>5, <2>1, FS_Bijection
<1>7. Cardinality(Slots) = NumSlots
  <2>1. 0 \in Int /\ NumSlots - 1 \in Int /\ NumSlots > 0
    BY RedisAssumption
  <2>2. Cardinality(0 .. NumSlots - 1) = NumSlots
    BY <2>1, FS_Interval, RedisAssumption
  <2> QED BY <2>2 DEF Slots
<1>8. Cardinality(P) - NumNodes * Expected = Spare
  BY <1>6, <1>7, Shares, NumNodesType, RedisAssumption
<1> QED BY <1>6, <1>7, <1>8 DEF TotalBalance

\* The loop that hands out the surplus leaves balances that aim, for each
\* node, at its share and at most the spare slots more, and that add up to 0.
LEMMA StartBalances ==
  ASSUME Complete, \E n \in Nodes : bom[n] = {},
         NEW below, below = {n \in Nodes : RawBalance(n) < 0},
         NEW first \in Firsts(below),
         NEW b, b = AdjustedBalance(below, first)
  PROVE  /\ b \in [Nodes -> Int]
         /\ Sum(Surplus(b)) = Sum(Deficit(b))
         /\ \A n \in Nodes : /\ Expected <= Cardinality(bom[n]) - b[n]
                             /\ Cardinality(bom[n]) - b[n] <= Expected + Spare
<1> DEFINE size == [n \in Nodes |-> Cardinality(bom[n])]
           q == TotalBalance \div Cardinality(below)
           even == [n \in Nodes |-> IF n \in Nodes THEN Expected ELSE 0]
           round == [n \in Nodes |-> IF n \in below THEN q ELSE 0]
           odd == [n \in Nodes |-> IF n \in first THEN 1 ELSE 0]
           extra == [n \in Nodes |-> IF TotalBalance > 0 THEN round[n] + odd[n] ELSE 0]
           goal == [n \in Nodes |-> even[n] + extra[n]]
           all == [n \in Nodes |-> Surplus(b)[n] + goal[n]]
<1>1. bom \in [Nodes -> SUBSET Slots]
  BY DEF Complete
<1>2. b \in [Nodes -> Int]
  BY <1>1, BalanceType
<1>3. TotalBalance = Spare /\ Spare \in Nat /\ Expected \in Nat /\ Expected > 0
  BY TotalIsSpare, Shares
<1>4. size \in [Nodes -> Nat]
  <2>1. ASSUME NEW n \in Nodes PROVE Cardinality(bom[n]) \in Nat
    BY <1>1, SlotsFinite, FS_Subset, FS_CardinalityType
  <2> QED BY <2>1
<1>5. IsFiniteSet(below) /\ Cardinality(below) \in Nat /\ Cardinality(below) > 0 /\ below \in SUBSET Nodes
  <2>1. PICK n \in Nodes : bom[n] = {}
    OBVIOUS
  <2>2. RawBalance(n) = 0 - Expected
    BY <2>1, FS_EmptySet DEF RawBalance
  <2>3. n \in below
    BY <1>3, <2>2
  <2>4. below \in SUBSET Nodes /\ below # {}
    BY <2>3
  <2>5. IsFiniteSet(below)
    BY <2>4, ScaleUpAssumption, FS_Subset
  <2>6. Cardinality(below) \in Nat /\ Cardinality(below) # 0
    BY <2>4, <2>5, FS_CardinalityType, FS_EmptySet
  <2> QED BY <2>4, <2>5, <2>6
<1>6. q \in Nat /\ (TotalBalance % Cardinality(below)) \in Nat
      /\ TotalBalance = Cardinality(below) * q + (TotalBalance % Cardinality(below))
  <2>1. ASSUME NEW x \in Nat, NEW d \in Nat, d > 0
        PROVE  x \div d \in Nat /\ (x % d) \in Nat /\ x = d * (x \div d) + (x % d)
    BY <2>1
  <2> QED BY <1>3, <1>5, <2>1
<1>7. /\ first \in SUBSET below
      /\ TotalBalance > 0 => Cardinality(first) = TotalBalance % Cardinality(below)
  BY DEF Firsts
<1> HIDE DEF q
<1>8. /\ even \in [Nodes -> Nat] /\ round \in [Nodes -> Nat] /\ odd \in [Nodes -> Nat]
      /\ extra \in [Nodes -> Nat] /\ goal \in [Nodes -> Nat]
  <2>1. even \in [Nodes -> Nat] /\ round \in [Nodes -> Nat] /\ odd \in [Nodes -> Nat]
    BY <1>3, <1>6
  <2> HIDE DEF even, round, odd
  <2>2. extra \in [Nodes -> Nat]
    BY <2>1
  <2> HIDE DEF extra
  <2>3. goal \in [Nodes -> Nat]
    BY <2>1, <2>2
  <2> QED BY <2>1, <2>2, <2>3
<1>9. Sum(even) = NumNodes * Expected
  <2>1. Nodes \in SUBSET Nodes /\ \A n \in Nodes : even[n] = IF n \in Nodes THEN Expected ELSE 0
    OBVIOUS
  <2> HIDE DEF even
  <2> QED BY <1>3, <1>8, <2>1, SumOn DEF NumNodes
<1>10. Sum(extra) = TotalBalance
  <2>1. CASE TotalBalance > 0
    <3>1. \A n \in Nodes : extra[n] = round[n] + odd[n]
      BY <2>1
    <3>2. \A n \in Nodes : round[n] = IF n \in below THEN q ELSE 0
      OBVIOUS
    <3>3. \A n \in Nodes : odd[n] = IF n \in first THEN 1 ELSE 0
      OBVIOUS
    <3> HIDE DEF round, odd, extra
    <3>4. Sum(round) = Cardinality(below) * q
      BY <1>5, <1>6, <1>8, <3>2, SumOn
    <3>5. first \in SUBSET Nodes /\ 1 \in Nat
      BY <1>5, <1>7
    <3>6. Sum(odd) = Cardinality(first) * 1
      BY <1>8, <3>3, <3>5, SumOn
    <3>7. Sum(extra) = Sum(round) + Sum(odd)
      BY <1>8, <3>1, SumAdd
    <3> QED BY <1>5, <1>6, <1>7, <2>1, <3>4, <3>6, <3>7
  <2>2. CASE ~ TotalBalance > 0
    <3>1. TotalBalance = 0
      BY <1>3, <2>2
    <3>2. \A n \in Nodes : extra[n] = 0
      BY <2>2
    <3> HIDE DEF extra
    <3> QED BY <1>8, <3>1, <3>2, SumZero
  <2> QED BY <2>1, <2>2
<1>11. ASSUME NEW n \in Nodes
       PROVE  /\ b[n] = size[n] - Expected - extra[n]
              /\ size[n] = Cardinality(bom[n])
              /\ extra[n] <= Spare
  <2>1. size[n] = Cardinality(bom[n]) /\ size[n] \in Nat
    BY <1>4
  <2>2. b[n] = IF TotalBalance > 0 /\ n \in below
               THEN RawBalance(n) - q - (IF n \in first THEN 1 ELSE 0)
               ELSE RawBalance(n)
    BY DEF AdjustedBalance, q
  <2>3. RawBalance(n) = size[n] - Expected
    BY <2>1 DEF RawBalance
  <2>4. extra[n] = IF TotalBalance > 0 /\ n \in below THEN q + (IF n \in first THEN 1 ELSE 0) ELSE 0
    BY <1>6, <1>7
  <2>5. extra[n] <= Sum(extra)
    BY <1>8, SumTerm
  <2>6. b[n] = size[n] - Expected - extra[n]
    BY <1>3, <1>6, <2>1, <2>2, <2>3, <2>4
  <2> HIDE DEF extra
  <2> QED BY <1>3, <1>10, <2>1, <2>5, <2>6
<1>12. ASSUME NEW n \in Nodes
       PROVE  /\ Expected <= Cardinality(bom[n]) - b[n]
              /\ Cardinality(bom[n]) - b[n] <= Expected + Spare
  <2>1. extra[n] \in Nat /\ size[n] \in Nat
    BY <1>4, <1>8
  <2> HIDE DEF extra, size
  <2> QED BY <1>3, <1>11, <2>1
<1>13. Sum(size) = NumSlots
  <2>1. \A n \in Nodes : size[n] = Cardinality(bom[n])
    OBVIOUS
  <2> HIDE DEF size
  <2>2. Sum(size) = Cardinality({p \in Nodes \X Slots : p[2] \in bom[p[1]]})
    BY <1>1, <1>4, <2>1, SumSizes
  <2> QED BY <2>2, TotalIsSpare
<1>14. Sum(goal) = NumNodes * Expected + Spare
  <2>1. \A n \in Nodes : goal[n] = even[n] + extra[n]
    OBVIOUS
  <2> HIDE DEF goal, even, extra
  <2> QED BY <1>3, <1>8, <1>9, <1>10, <2>1, SumAdd
<1>15. Surplus(b) \in [Nodes -> Nat] /\ Deficit(b) \in [Nodes -> Nat]
  BY <1>2, SurplusType
<1>16. all \in [Nodes -> Nat]
  <2> HIDE DEF goal
  <2>1. \A n \in Nodes : Surplus(b)[n] \in Nat /\ goal[n] \in Nat
    BY <1>8, <1>15
  <2>2. \A n \in Nodes : Surplus(b)[n] + goal[n] \in Nat
    BY <2>1
  <2> QED BY <2>2
<1>17. Sum(all) = Sum(Surplus(b)) + Sum(goal)
  <2>1. \A n \in Nodes : all[n] = Surplus(b)[n] + goal[n]
    OBVIOUS
  <2> HIDE DEF goal, all
  <2> QED BY <1>8, <1>15, <1>16, <2>1, SumAdd
<1>18. Sum(all) = Sum(Deficit(b)) + Sum(size)
  <2>1. ASSUME NEW n \in Nodes PROVE all[n] = Deficit(b)[n] + size[n]
    <3>1. all[n] = Surplus(b)[n] + (Expected + extra[n])
      OBVIOUS
    <3>2. b[n] \in Int /\ extra[n] \in Nat /\ size[n] \in Nat
      BY <1>2, <1>4, <1>8
    <3>3. Surplus(b)[n] = IF b[n] > 0 THEN b[n] ELSE 0
      BY DEF Surplus
    <3>4. Deficit(b)[n] = IF b[n] < 0 THEN - b[n] ELSE 0
      BY DEF Deficit
    <3> HIDE DEF all, extra, size
    <3> QED BY <1>3, <1>11, <3>1, <3>2, <3>3, <3>4
  <2> HIDE DEF all, size
  <2> QED BY <1>4, <1>15, <1>16, <2>1, SumAdd
<1>19. Sum(Surplus(b)) \in Nat /\ Sum(Deficit(b)) \in Nat
  BY <1>15, SumZero
<1>20. Sum(Surplus(b)) = Sum(Deficit(b))
  <2>1. NumSlots = NumNodes * Expected + Spare /\ NumSlots \in Nat
    BY Shares, RedisAssumption
  <2> QED BY <1>13, <1>14, <1>17, <1>18, <1>19, <2>1
<1> QED BY <1>2, <1>12, <1>20

\* Balances that add up to 0 are all 0 when none is negative, or none positive.
LEMMA OneSided ==
  ASSUME NEW b \in [Nodes -> Int], Sum(Surplus(b)) = Sum(Deficit(b)),
         (\A n \in Nodes : b[n] >= 0) \/ (\A n \in Nodes : b[n] <= 0)
  PROVE  \A n \in Nodes : b[n] = 0
<1>1. Surplus(b) \in [Nodes -> Nat] /\ Deficit(b) \in [Nodes -> Nat]
  BY SurplusType
<1>2. \A n \in Nodes : /\ Surplus(b)[n] = (IF b[n] > 0 THEN b[n] ELSE 0)
                       /\ Deficit(b)[n] = (IF b[n] < 0 THEN - b[n] ELSE 0)
  BY DEF Surplus, Deficit
<1>3. (\A n \in Nodes : Surplus(b)[n] = 0) \/ (\A n \in Nodes : Deficit(b)[n] = 0)
  BY <1>2
<1>4. Sum(Surplus(b)) = 0 /\ Sum(Deficit(b)) = 0
  BY <1>1, <1>3, SumZero
<1>5. \A n \in Nodes : Surplus(b)[n] = 0 /\ Deficit(b)[n] = 0
  BY <1>1, <1>4, SumZero
<1>6. ASSUME NEW n \in Nodes PROVE b[n] = 0
  <2>1. b[n] \in Int
    OBVIOUS
  <2> QED BY <1>2, <1>5, <2>1
<1> QED BY <1>6

\* The sorted list has every node.
LEMMA SortedAll ==
  ASSUME TypeOK, LoopInv
  PROVE  \A n \in Nodes : \E i \in 1 .. NumNodes : sn[i] = n
<1>1. sn \in Injection(1 .. NumNodes, Nodes)
  BY DEF TypeOK, LoopInv, Injection, IsInjective
<1>2. IsFiniteSet(1 .. NumNodes) /\ Cardinality(1 .. NumNodes) = NumNodes
  <2>1. 1 \in Int /\ NumNodes \in Int /\ NumNodes > 0
    BY NumNodesType
  <2> QED BY <2>1, FS_Interval
<1>3. IsFiniteSet(Nodes) /\ Cardinality(Nodes) = NumNodes
  BY ScaleUpAssumption DEF NumNodes
<1>4. sn \in Surjection(1 .. NumNodes, Nodes)
  BY <1>1, <1>2, <1>3, FS_Injection
<1> QED BY <1>4 DEF Surjection

\* As long as the indexes have not met, the destination lacks slots and the
\* source has some to spare.
LEMMA Signs ==
  ASSUME TypeOK, LoopInv, BalanceInv, pc \in Rebalancing, dstIdx < srcIdx
  PROVE  /\ dst \in Nodes /\ src \in Nodes /\ dst # src
         /\ balance[dst] \in Int /\ balance[src] \in Int
         /\ balance[dst] <= 0 /\ 0 <= balance[src]
         /\ NumMoved \in Nat /\ NumMoved <= balance[src] /\ NumMoved <= - balance[dst]
<1>1. /\ dstIdx \in 1 .. NumNodes /\ srcIdx \in 1 .. NumNodes /\ NumNodes \in Nat
      /\ sn \in [1 .. NumNodes -> Nodes] /\ balance \in [Nodes -> Int]
  BY NumNodesType DEF TypeOK
<1>2. dst \in Nodes /\ src \in Nodes /\ dst # src
  BY <1>1 DEF LoopInv, dst, src
<1>3. /\ Sum(Surplus(balance)) = Sum(Deficit(balance))
      /\ \A i \in 1 .. NumNodes : i < dstIdx \/ srcIdx < i => balance[sn[i]] = 0
      /\ \A i, j \in 1 .. NumNodes : i < j /\ balance[sn[j]] < 0 => balance[sn[i]] <= 0
  BY DEF BalanceInv
<1>4. \A n \in Nodes : \E i \in 1 .. NumNodes : sn[i] = n
  BY SortedAll
<1>5. balance[dst] <= 0
  <2> SUFFICES ASSUME balance[dst] > 0 PROVE FALSE
    BY <1>1, <1>2
  <2>1. ASSUME NEW n \in Nodes PROVE balance[n] >= 0
    <3>1. PICK i \in 1 .. NumNodes : sn[i] = n
      BY <1>4
    <3>2. CASE i < dstIdx
      BY <1>1, <1>3, <3>1, <3>2
    <3>3. CASE i = dstIdx
      BY <1>1, <3>1, <3>3 DEF dst
    <3>4. CASE dstIdx < i
      BY <1>1, <1>3, <3>1, <3>4 DEF dst
    <3> QED BY <1>1, <3>1, <3>2, <3>3, <3>4
  <2>2. balance[dst] = 0
    BY <1>1, <1>2, <1>3, <2>1, OneSided
  <2> QED BY <2>2
<1>6. 0 <= balance[src]
  <2> SUFFICES ASSUME balance[src] < 0 PROVE FALSE
    BY <1>1, <1>2
  <2>1. ASSUME NEW n \in Nodes PROVE balance[n] <= 0
    <3>1. PICK i \in 1 .. NumNodes : sn[i] = n
      BY <1>4
    <3>2. CASE srcIdx < i
      BY <1>1, <1>3, <3>1, <3>2
    <3>3. CASE i = srcIdx
      BY <1>1, <3>1, <3>3 DEF src
    <3>4. CASE i < srcIdx
      BY <1>1, <1>3, <3>1, <3>4 DEF src
    <3> QED BY <1>1, <3>1, <3>2, <3>3, <3>4
  <2>2. balance[src] = 0
    BY <1>1, <1>2, <1>3, <2>1, OneSided
  <2> QED BY <2>2
<1>7. balance[dst] \in Int /\ balance[src] \in Int
  BY <1>1, <1>2
<1>8. NumMoved \in Nat /\ NumMoved <= balance[src] /\ NumMoved <= - balance[dst]
  BY <1>5, <1>6, <1>7 DEF NumMoved, Abs
<1> QED BY <1>2, <1>5, <1>6, <1>7, <1>8

\* When the indexes have met, nothing is left to do.
LEMMA AllZero ==
  ASSUME TypeOK, LoopInv, BalanceInv, pc = "rebalance", dstIdx >= srcIdx
  PROVE  \A n \in Nodes : balance[n] = 0
<1>1. /\ dstIdx \in 1 .. NumNodes /\ srcIdx \in 1 .. NumNodes /\ NumNodes \in Nat
      /\ sn \in [1 .. NumNodes -> Nodes] /\ balance \in [Nodes -> Int]
  BY NumNodesType DEF TypeOK
<1>2. /\ Sum(Surplus(balance)) = Sum(Deficit(balance))
      /\ \A i \in 1 .. NumNodes : i < dstIdx \/ srcIdx < i => balance[sn[i]] = 0
  BY DEF BalanceInv, Rebalancing
<1>3. ASSUME NEW n \in Nodes, n # dst PROVE balance[n] = 0
  <2>1. PICK i \in 1 .. NumNodes : sn[i] = n
    BY SortedAll
  <2>2. i < dstIdx \/ srcIdx < i
    BY <1>1, <1>3, <2>1 DEF dst
  <2> QED BY <1>2, <2>1, <2>2
<1>4. balance[dst] \in Int /\ dst \in Nodes
  BY <1>1 DEF dst
<1>5. (\A n \in Nodes : balance[n] >= 0) \/ (\A n \in Nodes : balance[n] <= 0)
  <2>1. CASE balance[dst] >= 0
    BY <1>3, <2>1
  <2>2. CASE balance[dst] <= 0
    BY <1>3, <2>2
  <2> QED BY <1>4, <2>1, <2>2
<1> QED BY <1>1, <1>2, <1>5, OneSided

-----------------------------------------------------------------------------
(***************************************************************************)
(* A scale-up that nothing disturbs: the invariant's parts under the steps *)
(* that leave the slots where they are.                                    *)
(***************************************************************************)
\* What a master answers for changes only with the tables, or when a move
\* comes to its last command.
LEMMA HoldsSame ==
  ASSUME owner' = owner, pc # "nodeSource", pc' # "nodeSource"
  PROVE  \A n \in Nodes : Holds(n)' = Holds(n) /\ Holds(n) = Owned(n)
BY DEF Holds, Owned, HandedOver

\* What a master answers for is a finite set of slots.
LEMMA HoldsFinite ==
  ASSUME NEW n \in Nodes
  PROVE  /\ Holds(n) \subseteq Slots /\ IsFiniteSet(Holds(n))
         /\ Cardinality(Holds(n)) \in Nat
<1>1. Holds(n) \subseteq Slots
  BY DEF Holds, Owned
<1>2. IsFiniteSet(Holds(n))
  BY <1>1, SlotsFinite, FS_Subset
<1> QED BY <1>1, <1>2, FS_CardinalityType

\* Steps that change no table and no key keep the claims and the keys.
LEMMA QuietClaims ==
  ASSUME ClaimsInv, KeysInv, UNCHANGED redisVars,
         pc \notin {"keys", "nodeTarget", "nodeSource"}, pc' # "nodeSource"
  PROVE  ClaimsInv' /\ KeysInv'
<1>1. UNCHANGED <<owner, migrating, keys, acked>>
  BY DEF redisVars
<1>2. \A n \in Nodes : Holds(n)' = Holds(n)
  BY <1>1, HoldsSame
<1>3. ClaimsInv'
  BY <1>1, <1>2 DEF ClaimsInv
<1>4. KeysInv'
  BY <1>1, <1>2 DEF KeysInv
<1> QED BY <1>3, <1>4

\* Whoever counts all the masters counts every node.
LEMMA MastersCounted ==
  ASSUME TypeOK
  PROVE  Cardinality(curMasters) = NumNodes <=> \A n \in Nodes : bom[n] # {}
<1>1. curMasters \in SUBSET Nodes
  BY DEF curMasters
<1>2. Cardinality(Nodes) = Cardinality(curMasters) => curMasters = Nodes
  BY <1>1, ScaleUpAssumption, FS_Subset
<1>3. curMasters = Nodes <=> \A n \in Nodes : bom[n] # {}
  BY DEF curMasters
<1> QED BY <1>2, <1>3 DEF NumNodes

\* GetClusterInfos, waitForClusterJoin and needClusterOperation.
LEMMA CalmBegin ==
  ASSUME IInv, CalmInv, StartPass \/ WaitForClusterJoin \/ NoOperation
  PROVE  CalmInv'
<1>1. /\ UNCHANGED redisVars
      /\ pc \in {"idle", "join", "sync"} /\ pc' \in {"idle", "join", "sync"}
  BY DEF StartPass, WaitForClusterJoin, NoOperation
<1>2. UNCHANGED owner
  BY <1>1 DEF redisVars
<1>3. \A n \in Nodes : Holds(n)' = Holds(n) /\ Holds(n) = Owned(n)
  BY <1>1, <1>2, HoldsSame
<1>4. ClaimsInv' /\ KeysInv'
  BY <1>1, QuietClaims DEF CalmInv
<1>5. QuotaInv' /\ BalanceInv'
  BY <1>1 DEF QuotaInv, BalanceInv, Rebalancing, Moving
<1>6. BomInv'
  <2>1. ASSUME pc' \in {"join", "sync"} PROVE \A n \in Nodes : bom'[n] = Holds(n)'
    <3>1. CASE StartPass
      BY <1>3, <3>1 DEF StartPass
    <3>2. CASE WaitForClusterJoin
      BY <1>3, <3>2 DEF WaitForClusterJoin, CalmInv, BomInv, passVars
    <3>3. CASE NoOperation
      BY <2>1, <3>3 DEF NoOperation
    <3> QED BY <3>1, <3>2, <3>3
  <2> QED BY <1>1, <2>1 DEF BomInv, Rebalancing, Moving
<1>7. StatusInv'
  <2>1. CASE status' = status
    BY <1>1, <1>3, <2>1 DEF CalmInv, StatusInv
  <2>2. CASE NoOperation
    <3>1. \A n \in Nodes : bom[n] # {} /\ bom[n] = Holds(n)
      BY <2>2, MastersCounted DEF NoOperation, IInv, CalmInv, BomInv
    <3>2. ~ \E n \in Nodes : Holds(n) = {}
      BY <3>1
    <3>3. pc \in {"idle", "join", "sync"} /\ status' = "Healthy"
      BY <2>2 DEF NoOperation
    <3>4. \A n \in Nodes : /\ Expected <= Cardinality(Holds(n))
                           /\ Cardinality(Holds(n)) <= Expected + Spare
      BY <3>2, <3>3 DEF CalmInv, StatusInv
    <3> QED BY <1>3, <3>3, <3>4 DEF StatusInv
  <2> QED BY <2>1, <2>2 DEF StartPass, WaitForClusterJoin
<1> QED BY <1>4, <1>5, <1>6, <1>7 DEF CalmInv

\* RebalancedCluster starts from balances that add up.
LEMMA CalmStart ==
  ASSUME IInv, CalmInv, StartRebalance
  PROVE  CalmInv'
<1> DEFINE below == {n \in Nodes : RawBalance(n) < 0}
<1>1. /\ pc = "sync" /\ pc' = "rebalance" /\ UNCHANGED redisVars /\ UNCHANGED owner
      /\ bom' = bom /\ dstIdx' = 1 /\ srcIdx' = NumNodes
      /\ NumNodes > Cardinality(curMasters)
  BY DEF StartRebalance, redisVars
<1>2. PICK first \in Firsts(below) : balance' = AdjustedBalance(below, first)
  BY DEF StartRebalance
<1>3. /\ sn' \in [1 .. NumNodes -> Nodes]
      /\ \A i, j \in 1 .. NumNodes : i < j => balance'[sn'[i]] <= balance'[sn'[j]]
  BY DEF StartRebalance
<1>4. \A n \in Nodes : Holds(n)' = Holds(n) /\ bom[n] = Holds(n)
  BY <1>1, HoldsSame DEF CalmInv, BomInv
<1>5. Complete
  <2>1. bom \in [Nodes -> SUBSET Slots]
    BY DEF IInv, TypeOK
  <2> QED BY <1>4, <2>1 DEF Complete, CalmInv, ClaimsInv
<1>6. \E n \in Nodes : bom[n] = {}
  BY <1>1, MastersCounted, NumNodesType DEF IInv
<1>7. /\ balance' \in [Nodes -> Int]
      /\ Sum(Surplus(balance')) = Sum(Deficit(balance'))
      /\ \A n \in Nodes : /\ Expected <= Cardinality(bom[n]) - balance'[n]
                          /\ Cardinality(bom[n]) - balance'[n] <= Expected + Spare
  <2> HIDE DEF below
  <2>1. below = {n \in Nodes : RawBalance(n) < 0}
    BY DEF below
  <2> QED BY <1>2, <1>5, <1>6, <2>1, StartBalances
<1>8. ClaimsInv' /\ KeysInv'
  BY <1>1, QuietClaims DEF CalmInv
<1>9. BomInv'
  <2>1. \A n \in Nodes : bom'[n] = {s \in Slots : owner'[n][s] = n}
    BY <1>1, <1>4 DEF Holds, Owned, HandedOver
  <2>2. ASSUME NEW j \in 1 .. NumNodes
        PROVE  (Holds(sn[j]) = {s \in bom[sn[j]] : ~ HandedOver(sn[j], s)})'
    <3>1. sn'[j] \in Nodes
      BY <1>3
    <3>2. bom'[sn'[j]] = {s \in Slots : owner'[sn'[j]][s] = sn'[j]}
      BY <2>1, <3>1
    <3> QED BY <1>1, <3>2 DEF Holds, Owned, HandedOver
  <2> QED BY <1>1, <2>2 DEF BomInv
<1>10. QuotaInv'
  <2>1. Moved' = 0
    BY <1>1 DEF Moved, Moving
  <2>2. ASSUME NEW n \in Nodes PROVE Expected <= Quota(n)' /\ Quota(n)' <= Expected + Spare
    <3>1. Cardinality(bom[n]) \in Nat /\ balance'[n] \in Int /\ Holds(n)' = bom[n]
      BY <1>4, <1>7, HoldsFinite
    <3>2. Quota(n)' = Cardinality(bom[n]) - balance'[n]
      BY <2>1, <3>1 DEF Quota
    <3> QED BY <1>7, <3>2
  <2> QED BY <2>2 DEF QuotaInv
<1>11. BalanceInv'
  <2>1. \A i \in 1 .. NumNodes : ~ (i < dstIdx' \/ srcIdx' < i)
    BY <1>1, NumNodesType
  <2>2. ASSUME NEW i \in 1 .. NumNodes, NEW j \in 1 .. NumNodes, i < j, balance'[sn'[j]] < 0
        PROVE  balance'[sn'[i]] <= 0
    <3>1. balance'[sn'[i]] \in Int /\ balance'[sn'[j]] \in Int
      BY <1>3, <1>7
    <3> QED BY <1>3, <2>2, <3>1
  <2>3. pc' \notin Moving
    BY <1>1 DEF Moving
  <2> QED BY <1>7, <2>1, <2>2, <2>3 DEF BalanceInv
<1>12. StatusInv'
  BY <1>1 DEF StatusInv
<1> QED BY <1>8, <1>9, <1>10, <1>11, <1>12 DEF CalmInv

\* The pair's slots are chosen, as many as both can use.
LEMMA CalmPlan ==
  ASSUME IInv, CalmInv, PlanMoves
  PROVE  CalmInv'
<1>1. /\ pc = "rebalance" /\ dstIdx < srcIdx
      /\ table' = ReshardTable(src, NumMoved)
      /\ pc' = "importing" \/ (pc' = "update" /\ table' = {})
      /\ UNCHANGED redisVars /\ UNCHANGED <<owner, bom, balance, sn, dstIdx, srcIdx>>
  BY DEF PlanMoves, redisVars
<1>2. pc \in Rebalancing /\ TypeOK /\ LoopInv /\ BalanceInv
  BY <1>1 DEF Rebalancing, IInv, CalmInv
<1>3. /\ dst \in Nodes /\ src \in Nodes /\ dst # src
      /\ balance[src] \in Int
      /\ NumMoved \in Nat /\ NumMoved <= balance[src]
  BY <1>1, <1>2, Signs
<1>4. \A n \in Nodes : Holds(n)' = Holds(n) /\ \A s : ~ HandedOver(n, s) /\ ~ HandedOver(n, s)'
  BY <1>1, HoldsSame DEF HandedOver
<1>5. src' = src /\ dst' = dst /\ NumMoved' = NumMoved
  BY <1>1 DEF src, dst, NumMoved
<1>6. NumMoved <= Cardinality(bom[src])
  <2>1. Holds(src) = bom[src]
    <3>1. srcIdx \in 1 .. NumNodes
      BY <1>2 DEF TypeOK
    <3>2. Holds(sn[srcIdx]) = {s \in bom[sn[srcIdx]] : ~ HandedOver(sn[srcIdx], s)}
      BY <1>1, <1>2, <3>1 DEF CalmInv, BomInv
    <3> QED BY <1>3, <1>4, <3>2 DEF src
  <2>2. Moved = 0
    BY <1>1 DEF Moved, Moving
  <2>3. Expected <= Quota(src) /\ Expected \in Nat
    BY <1>2, <1>3, Shares DEF CalmInv, QuotaInv
  <2>4. Cardinality(Holds(src)) \in Nat
    BY <1>3, HoldsFinite
  <2>5. Quota(src) = Cardinality(Holds(src)) - balance[src]
    BY <1>3, <2>2, <2>4 DEF Quota
  <2> QED BY <1>3, <2>1, <2>3, <2>4, <2>5
<1>7. Cardinality(table') = NumMoved
  BY <1>1, <1>2, <1>3, <1>6, TableSize DEF TypeOK
<1>8. Moved' = 0 /\ Moved = 0
  <2>1. CASE pc' = "importing"
    BY <1>1, <1>3, <1>5, <1>7, <2>1 DEF Moved, Moving
  <2>2. CASE pc' = "update" /\ table' = {}
    <3>1. NumMoved = 0
      BY <1>7, <2>2, FS_EmptySet
    <3> QED BY <1>1, <1>5, <2>2, <3>1 DEF Moved, Moving
  <2> QED BY <1>1, <2>1, <2>2
<1>9. ClaimsInv' /\ KeysInv'
  BY <1>1, QuietClaims DEF CalmInv
<1>10. BomInv'
  <2>1. ASSUME NEW j \in 1 .. NumNodes, dstIdx < j
        PROVE  (Holds(sn[j]) = {s \in bom[sn[j]] : ~ HandedOver(sn[j], s)})'
    <3>1. Holds(sn[j]) = {s \in bom[sn[j]] : ~ HandedOver(sn[j], s)}
      BY <1>2, <2>1 DEF CalmInv, BomInv
    <3> QED BY <1>1, <3>1 DEF Holds, Owned, HandedOver
  <2> QED BY <1>1, <2>1 DEF BomInv, Rebalancing, Moving
<1>11. QuotaInv'
  <2>1. ASSUME NEW n \in Nodes PROVE Quota(n)' = Quota(n)
    BY <1>1, <1>4, <1>5, <1>8 DEF Quota
  <2> QED BY <1>2, <2>1 DEF CalmInv, QuotaInv
<1>12. BalanceInv'
  <2>1. /\ Sum(Surplus(balance')) = Sum(Deficit(balance'))
        /\ \A i \in 1 .. NumNodes : i < dstIdx' \/ srcIdx' < i => balance'[sn'[i]] = 0
        /\ \A i, j \in 1 .. NumNodes : i < j /\ balance'[sn'[j]] < 0 => balance'[sn'[i]] <= 0
    BY <1>1, <1>2 DEF BalanceInv
  <2>2. Cardinality(table') <= NumMoved'
    BY <1>3, <1>5, <1>7
  <2> QED BY <2>1, <2>2 DEF BalanceInv
<1>13. StatusInv'
  BY <1>1 DEF StatusInv
<1> QED BY <1>9, <1>10, <1>11, <1>12, <1>13 DEF CalmInv

\* The pair is done: what went over is booked.
LEMMA CalmUpdate ==
  ASSUME IInv, CalmInv, UpdateBalance
  PROVE  CalmInv'
<1>1. /\ pc = "update" /\ pc' = "rebalance"
      /\ UNCHANGED redisVars /\ UNCHANGED <<owner, bom, sn>>
      /\ balance' = [balance EXCEPT ![dst] = @ + NumMoved, ![src] = @ - NumMoved]
      /\ dstIdx' = IF balance'[dst] = 0 THEN dstIdx + 1 ELSE dstIdx
      /\ srcIdx' = IF balance'[src] = 0 THEN srcIdx - 1 ELSE srcIdx
  BY DEF UpdateBalance, redisVars
<1>2. pc \in Rebalancing /\ TypeOK /\ LoopInv /\ BalanceInv /\ dstIdx < srcIdx
  BY <1>1 DEF Rebalancing, IInv, CalmInv, LoopInv
<1>3. /\ dst \in Nodes /\ src \in Nodes /\ dst # src
      /\ balance[dst] \in Int /\ balance[src] \in Int
      /\ balance[dst] <= 0 /\ 0 <= balance[src]
      /\ NumMoved \in Nat /\ NumMoved <= balance[src] /\ NumMoved <= - balance[dst]
  BY <1>2, Signs
<1>4. /\ balance \in [Nodes -> Int] /\ sn \in [1 .. NumNodes -> Nodes]
      /\ dstIdx \in 1 .. NumNodes /\ srcIdx \in 1 .. NumNodes /\ NumNodes \in Nat
  BY <1>2, NumNodesType DEF TypeOK
<1>5. /\ balance' \in [Nodes -> Int]
      /\ balance'[dst] = balance[dst] + NumMoved /\ balance'[src] = balance[src] - NumMoved
      /\ \A n \in Nodes : n # dst /\ n # src => balance'[n] = balance[n]
  BY <1>1, <1>3, <1>4
<1>6. \A n \in Nodes : Holds(n)' = Holds(n)
  BY <1>1, HoldsSame
<1>7. ClaimsInv' /\ KeysInv'
  BY <1>1, QuietClaims DEF CalmInv
<1>8. BomInv'
  <2>1. ASSUME NEW j \in 1 .. NumNodes, dstIdx' < j
        PROVE  (Holds(sn[j]) = {s \in bom[sn[j]] : ~ HandedOver(sn[j], s)})'
    <3>1. dstIdx < j
      BY <1>1, <1>4, <2>1
    <3>2. Holds(sn[j]) = {s \in bom[sn[j]] : ~ HandedOver(sn[j], s)}
      BY <1>2, <3>1 DEF CalmInv, BomInv
    <3> QED BY <1>1, <3>2 DEF Holds, Owned, HandedOver
  <2> QED BY <1>1, <2>1 DEF BomInv
<1>9. QuotaInv'
  <2>1. Moved = NumMoved /\ Moved' = 0
    BY <1>1 DEF Moved, Moving
  <2>2. ASSUME NEW n \in Nodes PROVE Quota(n)' = Quota(n)
    <3>1. Cardinality(Holds(n)) \in Nat /\ balance[n] \in Int /\ balance'[n] \in Int
      BY <1>4, <1>5, HoldsFinite
    <3>2. Quota(n)' = Cardinality(Holds(n)) - balance'[n]
      BY <1>6, <2>1, <3>1 DEF Quota
    <3>3. Quota(n) = Cardinality(Holds(n)) - balance[n]
                       + (IF n = src THEN NumMoved ELSE 0) - (IF n = dst THEN NumMoved ELSE 0)
      BY <2>1 DEF Quota
    <3>4. CASE n = src
      BY <1>3, <1>5, <3>1, <3>2, <3>3, <3>4
    <3>5. CASE n = dst
      BY <1>3, <1>5, <3>1, <3>2, <3>3, <3>5
    <3>6. CASE n # src /\ n # dst
      BY <1>3, <1>5, <3>1, <3>2, <3>3, <3>6
    <3> QED BY <3>4, <3>5, <3>6
  <2> QED BY <1>2, <2>2 DEF CalmInv, QuotaInv
<1>10. Sum(Surplus(balance')) = Sum(Deficit(balance'))
  <2> DEFINE give == [n \in Nodes |-> IF n \in {src} THEN NumMoved ELSE 0]
             take == [n \in Nodes |-> IF n \in {dst} THEN NumMoved ELSE 0]
  <2>1. /\ Surplus(balance) \in [Nodes -> Nat] /\ Deficit(balance) \in [Nodes -> Nat]
        /\ Surplus(balance') \in [Nodes -> Nat] /\ Deficit(balance') \in [Nodes -> Nat]
    BY <1>4, <1>5, SurplusType
  <2>2. give \in [Nodes -> Nat] /\ take \in [Nodes -> Nat]
    BY <1>3
  <2>3. /\ \A n \in Nodes : give[n] = IF n \in {src} THEN NumMoved ELSE 0
        /\ \A n \in Nodes : take[n] = IF n \in {dst} THEN NumMoved ELSE 0
    OBVIOUS
  <2> HIDE DEF give, take
  <2>4. Sum(give) = NumMoved /\ Sum(take) = NumMoved
    <3>1. /\ {src} \in SUBSET Nodes /\ {dst} \in SUBSET Nodes
          /\ Cardinality({src}) = 1 /\ Cardinality({dst}) = 1
      BY <1>3, FS_Singleton
    <3>2. Sum(give) = Cardinality({src}) * NumMoved
      BY <1>3, <2>2, <2>3, <3>1, SumOn
    <3>3. Sum(take) = Cardinality({dst}) * NumMoved
      BY <1>3, <2>2, <2>3, <3>1, SumOn
    <3> QED BY <1>3, <3>1, <3>2, <3>3
  <2>5. ASSUME NEW n \in Nodes
        PROVE  /\ Surplus(balance)[n] = Surplus(balance')[n] + give[n]
               /\ Deficit(balance)[n] = Deficit(balance')[n] + take[n]
    <3>1. /\ Surplus(balance)[n] = IF balance[n] > 0 THEN balance[n] ELSE 0
          /\ Surplus(balance')[n] = IF balance'[n] > 0 THEN balance'[n] ELSE 0
          /\ Deficit(balance)[n] = IF balance[n] < 0 THEN - balance[n] ELSE 0
          /\ Deficit(balance')[n] = IF balance'[n] < 0 THEN - balance'[n] ELSE 0
      BY DEF Surplus, Deficit
    <3>2. balance[n] \in Int /\ balance'[n] \in Int
      BY <1>4, <1>5
    <3>3. CASE n = src
      BY <1>3, <1>5, <2>3, <3>1, <3>2, <3>3
    <3>4. CASE n = dst
      BY <1>3, <1>5, <2>3, <3>1, <3>2, <3>4
    <3>5. CASE n # src /\ n # dst
      BY <1>5, <2>3, <3>1, <3>2, <3>5
    <3> QED BY <3>3, <3>4, <3>5
  <2>6. /\ Sum(Surplus(balance)) = Sum(Surplus(balance')) + Sum(give)
        /\ Sum(Deficit(balance)) = Sum(Deficit(balance')) + Sum(take)
    BY <2>1, <2>2, <2>5, SumAdd
  <2>7. Sum(Surplus(balance)) = Sum(Deficit(balance))
    BY <1>2 DEF BalanceInv
  <2>8. Sum(Surplus(balance')) \in Nat /\ Sum(Deficit(balance')) \in Nat
    BY <2>1, SumZero
  <2> QED BY <1>3, <2>4, <2>6, <2>7, <2>8
<1>11. ASSUME NEW i \in 1 .. NumNodes, i < dstIdx' \/ srcIdx' < i PROVE balance'[sn'[i]] = 0
  <2>1. sn'[i] = sn[i] /\ sn[i] \in Nodes
    BY <1>1, <1>4
  <2>2. CASE i = dstIdx
    <3>1. dstIdx' = dstIdx + 1 \/ srcIdx' < dstIdx
      BY <1>1, <1>4, <1>11, <2>2
    <3>2. sn[i] = dst /\ dstIdx' = dstIdx + 1
      BY <1>1, <1>2, <1>4, <2>2, <3>1 DEF dst
    <3> QED BY <1>1, <1>4, <2>1, <3>2
  <2>3. CASE i = srcIdx
    <3>1. srcIdx' = srcIdx - 1 \/ srcIdx < dstIdx'
      BY <1>1, <1>4, <1>11, <2>3
    <3>2. sn[i] = src /\ srcIdx' = srcIdx - 1
      BY <1>1, <1>2, <1>4, <2>3, <3>1 DEF src
    <3> QED BY <1>1, <1>4, <2>1, <3>2
  <2>4. CASE i # dstIdx /\ i # srcIdx
    <3>1. i < dstIdx \/ srcIdx < i
      BY <1>1, <1>4, <1>11, <2>4
    <3>2. balance[sn[i]] = 0
      BY <1>2, <3>1 DEF BalanceInv
    <3>3. sn[i] # dst /\ sn[i] # src
      BY <1>2, <1>4, <2>4 DEF LoopInv, dst, src
    <3> QED BY <1>5, <2>1, <3>2, <3>3
  <2> QED BY <2>2, <2>3, <2>4
<1>12. ASSUME NEW i \in 1 .. NumNodes, NEW j \in 1 .. NumNodes, i < j, balance'[sn'[j]] < 0
       PROVE  balance'[sn'[i]] <= 0
  <2>1. sn'[i] = sn[i] /\ sn'[j] = sn[j] /\ sn[i] \in Nodes /\ sn[j] \in Nodes
    BY <1>1, <1>4
  <2>2. sn[j] # src
    BY <1>3, <1>5, <1>12, <2>1
  <2>3. balance[sn[j]] < 0
    <3>1. CASE sn[j] = dst
      BY <1>3, <1>5, <1>12, <2>1, <3>1
    <3>2. CASE sn[j] # dst
      BY <1>5, <1>12, <2>1, <2>2, <3>2
    <3> QED BY <3>1, <3>2
  <2>4. balance[sn[i]] <= 0
    BY <1>2, <1>12, <2>3 DEF BalanceInv
  <2>5. sn[i] # src
    <3>1. ~ srcIdx < j
      BY <1>2, <1>4, <2>3 DEF BalanceInv
    <3>2. i # srcIdx
      BY <1>4, <1>12, <3>1
    <3> QED BY <1>2, <1>4, <3>2 DEF LoopInv, src
  <2>6. CASE sn[i] = dst
    BY <1>3, <1>5, <2>1, <2>6
  <2>7. CASE sn[i] # dst
    BY <1>5, <2>1, <2>4, <2>5, <2>7
  <2> QED BY <2>6, <2>7
<1>13. BalanceInv'
  <2>1. pc' \notin Moving
    BY <1>1 DEF Moving
  <2> QED BY <1>10, <1>11, <1>12, <2>1 DEF BalanceInv
<1>14. StatusInv'
  BY <1>1 DEF StatusInv
<1> QED BY <1>7, <1>8, <1>9, <1>13, <1>14 DEF CalmInv

\* RebalancedCluster returns: every master has its share.
LEMMA CalmFinish ==
  ASSUME IInv, CalmInv, FinishPass
  PROVE  CalmInv'
<1>1. /\ pc = "rebalance" /\ pc' = "idle" /\ dstIdx >= srcIdx /\ status' = "Healthy"
      /\ UNCHANGED redisVars /\ UNCHANGED owner
  BY DEF FinishPass, redisVars
<1>2. \A n \in Nodes : balance[n] = 0
  BY <1>1, AllZero DEF IInv, CalmInv
<1>3. \A n \in Nodes : Holds(n)' = Holds(n)
  BY <1>1, HoldsSame
<1>4. ASSUME NEW n \in Nodes
      PROVE  Expected <= Cardinality(Holds(n)) /\ Cardinality(Holds(n)) <= Expected + Spare
  <2>1. Moved = 0
    BY <1>1 DEF Moved, Moving
  <2>2. Cardinality(Holds(n)) \in Nat
    BY HoldsFinite
  <2>3. Quota(n) = Cardinality(Holds(n))
    BY <1>2, <2>1, <2>2 DEF Quota
  <2> QED BY <1>1, <2>3 DEF CalmInv, QuotaInv, Rebalancing
<1>5. ClaimsInv' /\ KeysInv'
  BY <1>1, QuietClaims DEF CalmInv
<1>6. BomInv' /\ QuotaInv' /\ BalanceInv'
  BY <1>1 DEF BomInv, QuotaInv, BalanceInv, Rebalancing, Moving
<1>7. StatusInv'
  BY <1>1, <1>3, <1>4 DEF StatusInv
<1> QED BY <1>5, <1>6, <1>7 DEF CalmInv

-----------------------------------------------------------------------------
(***************************************************************************)
(* The commands of moveSlot, none of which fails.                          *)
(***************************************************************************)
\* Until SETSLOT NODE the commands leave the slots where they are.
LEMMA MoveOn ==
  ASSUME CalmInv, UNCHANGED <<owner, passVars>>,
         pc \in Moving \ {"nodeSource"}, pc' \in Moving \ {"nodeSource"},
         \A n \in Nodes, s \in Slots : migrating'[n][s] \in {n, None}
  PROVE  /\ ClaimsInv' /\ BomInv' /\ QuotaInv' /\ BalanceInv' /\ StatusInv'
         /\ \A n \in Nodes : Holds(n)' = Holds(n)
<1>1. UNCHANGED <<owner, bom, balance, sn, dstIdx, srcIdx, table, slot>>
  BY DEF passVars
<1>2. /\ pc # "nodeSource" /\ pc' # "nodeSource" /\ pc \in Moving /\ pc' \in Moving
      /\ pc # "update" /\ pc' # "update" /\ pc \in Rebalancing /\ pc' \in Rebalancing
      /\ pc' \notin {"idle", "join", "sync"}
  BY DEF Moving, Rebalancing
<1>3. \A n \in Nodes : Holds(n)' = Holds(n)
  BY <1>1, <1>2, HoldsSame
<1>4. ClaimsInv'
  BY <1>2, <1>3 DEF CalmInv, ClaimsInv
<1>5. BomInv'
  <2>1. ASSUME NEW j \in 1 .. NumNodes, dstIdx' < j
        PROVE  (Holds(sn[j]) = {s \in bom[sn[j]] : ~ HandedOver(sn[j], s)})'
    <3>1. Holds(sn[j]) = {s \in bom[sn[j]] : ~ HandedOver(sn[j], s)}
      BY <1>1, <1>2, <2>1 DEF CalmInv, BomInv
    <3> QED BY <1>1, <1>2, <3>1 DEF Holds, Owned, HandedOver
  <2> QED BY <1>2, <2>1 DEF BomInv
<1>6. src' = src /\ dst' = dst /\ NumMoved' = NumMoved
  BY <1>1 DEF src, dst, NumMoved
<1>7. Moved' = Moved
  BY <1>1, <1>2, <1>6 DEF Moved
<1>8. QuotaInv'
  <2>1. ASSUME NEW n \in Nodes PROVE Quota(n)' = Quota(n)
    BY <1>1, <1>3, <1>6, <1>7 DEF Quota
  <2> QED BY <1>2, <2>1 DEF CalmInv, QuotaInv
<1>9. BalanceInv'
  <2>1. /\ Sum(Surplus(balance')) = Sum(Deficit(balance'))
        /\ \A i \in 1 .. NumNodes : i < dstIdx' \/ srcIdx' < i => balance'[sn'[i]] = 0
        /\ \A i, j \in 1 .. NumNodes : i < j /\ balance'[sn'[j]] < 0 => balance'[sn'[i]] <= 0
    BY <1>1, <1>2 DEF CalmInv, BalanceInv
  <2>2. Cardinality(table') <= NumMoved'
    BY <1>1, <1>2, <1>6 DEF CalmInv, BalanceInv
  <2> QED BY <2>1, <2>2 DEF BalanceInv
<1>10. StatusInv'
  BY <1>2 DEF StatusInv
<1> QED BY <1>3, <1>4, <1>5, <1>8, <1>9, <1>10

\* While a slot is moved its source answers for it and the target does not.
LEMMA MoveHolder ==
  ASSUME IInv, CalmInv, pc \in Moving \ {"nodeSource"}
  PROVE  /\ slot \in Holds(src) /\ slot \notin Holds(dst)
         /\ owner[src][slot] = src /\ owner[dst][slot] # dst
<1>1. /\ dst \in Nodes /\ src \in Nodes /\ dst # src /\ slot \in Slots /\ slot \in bom[src]
      /\ srcIdx \in 1 .. NumNodes
  BY MoveFacts
<1>2. dstIdx < srcIdx /\ pc \in Rebalancing
  BY DEF IInv, LoopInv, Rebalancing, Moving
<1>3. Holds(sn[srcIdx]) = {s \in bom[sn[srcIdx]] : ~ HandedOver(sn[srcIdx], s)}
  BY <1>1, <1>2 DEF CalmInv, BomInv
<1>4. slot \in Holds(src)
  BY <1>1, <1>3 DEF src, HandedOver
<1>5. slot \notin Holds(dst)
  BY <1>1, <1>4 DEF CalmInv, ClaimsInv
<1> QED BY <1>1, <1>4, <1>5 DEF Holds, Owned, HandedOver

\* SETSLOT IMPORTING and MIGRATING are accepted and leave everything else.
LEMMA CalmOpen ==
  ASSUME IInv, CalmInv,
         \/ /\ pc = "importing"
            /\ \/ slot \in AcceptsImporting(dst) /\ SetImporting(dst, {slot}, dst) /\ Goto("migrating")
               \/ slot \notin AcceptsImporting(dst) /\ UNCHANGED redisVars /\ Failed
         \/ /\ pc = "migrating"
            /\ \/ slot \in AcceptsMigrating(src) /\ SetMigrating(src, {slot}, src) /\ Goto("keys")
               \/ slot \notin AcceptsMigrating(src) /\ UNCHANGED redisVars /\ Failed
  PROVE  CalmInv'
<1>1. pc \in Moving \ {"nodeSource"} /\ dst \in Nodes /\ src \in Nodes /\ slot \in Slots
  BY MoveFacts DEF Moving
<1>2. slot \in AcceptsImporting(dst) /\ slot \in AcceptsMigrating(src)
  BY <1>1, MoveHolder DEF AcceptsImporting, AcceptsMigrating
<1>3. \/ pc = "importing" /\ SetImporting(dst, {slot}, dst) /\ Goto("migrating")
      \/ pc = "migrating" /\ SetMigrating(src, {slot}, src) /\ Goto("keys")
  BY <1>2
<1>4. /\ UNCHANGED <<owner, passVars, keys, acked>>
      /\ pc \notin {"keys", "nodeTarget"}
      /\ pc' \in Moving \ {"nodeSource"}
  BY <1>3 DEF SetImporting, SetMigrating, Goto, Moving
<1>5. \A n \in Nodes, s \in Slots : migrating'[n][s] \in {n, None}
  <2>1. \A n \in Nodes, s \in Slots : migrating[n][s] \in {n, None}
    BY DEF CalmInv, ClaimsInv
  <2>2. migrating \in [Nodes -> [Slots -> Nodes \cup {None}]]
    BY DEF IInv, TypeOK, RedisTypeOK
  <2>3. CASE SetImporting(dst, {slot}, dst)
    BY <2>1, <2>3 DEF SetImporting
  <2>4. CASE SetMigrating(src, {slot}, src)
    BY <1>1, <2>1, <2>2, <2>4 DEF SetMigrating
  <2> QED BY <1>3, <2>3, <2>4
<1>6. /\ ClaimsInv' /\ BomInv' /\ QuotaInv' /\ BalanceInv' /\ StatusInv'
      /\ \A n \in Nodes : Holds(n)' = Holds(n)
  BY <1>1, <1>4, <1>5, MoveOn
<1>7. KeysInv'
  BY <1>4, <1>6 DEF KeysInv, CalmInv
<1> QED BY <1>6, <1>7 DEF CalmInv

\* MIGRATE takes a key from the source to the target.
LEMMA CalmKeys ==
  ASSUME IInv, CalmInv, pc = "keys",
         \/ KeysIn(src, slot) = {} /\ UNCHANGED redisVars /\ Goto("nodeTarget")
         \/ \E k \in KeysIn(src, slot) : Migrate(src, dst, k) /\ Goto("keys")
  PROVE  CalmInv'
<1>1. /\ pc \in Moving \ {"nodeSource"}
      /\ dst \in Nodes /\ src \in Nodes /\ dst # src /\ slot \in Slots
  BY MoveFacts DEF Moving
<1>2. /\ UNCHANGED <<owner, passVars, migrating, acked>>
      /\ pc' \in {"keys", "nodeTarget"} /\ pc' \in Moving \ {"nodeSource"}
  BY DEF Migrate, Goto, Moving, redisVars, tables
<1>3. \A n \in Nodes, s \in Slots : migrating'[n][s] \in {n, None}
  BY <1>2 DEF CalmInv, ClaimsInv
<1>4. /\ ClaimsInv' /\ BomInv' /\ QuotaInv' /\ BalanceInv' /\ StatusInv'
      /\ \A n \in Nodes : Holds(n)' = Holds(n)
  BY <1>1, <1>2, <1>3, MoveOn
<1>5. src' = src /\ dst' = dst /\ slot' = slot
  BY <1>2 DEF src, dst, passVars
<1>6. keys \in [Nodes -> SUBSET Keys]
  BY DEF IInv, TypeOK, RedisTypeOK
<1>7. KeysInv'
  <2> SUFFICES ASSUME NEW k \in acked, NEW n \in Nodes, SlotOf[k] \in Holds(n)
               PROVE  \/ k \in keys'[n]
                      \/ n = src /\ SlotOf[k] = slot /\ k \in keys'[dst]
    BY <1>2, <1>4, <1>5 DEF KeysInv
  <2>1. k \in keys[n] \/ (n = src /\ SlotOf[k] = slot /\ k \in keys[dst])
    BY DEF CalmInv, KeysInv
  <2>2. CASE UNCHANGED redisVars
    BY <2>1, <2>2 DEF redisVars
  <2>3. CASE \E x \in KeysIn(src, slot) : Migrate(src, dst, x)
    <3>1. PICK x \in KeysIn(src, slot) : Migrate(src, dst, x)
      BY <2>3
    <3>2. SlotOf[x] = slot /\ keys' = [keys EXCEPT ![src] = @ \ {x}, ![dst] = @ \cup {x}]
      BY <3>1 DEF KeysIn, Migrate
    <3>3. CASE k = x
      <4>1. SlotOf[k] \in Holds(src)
        BY <1>1, <3>2, <3>3, MoveHolder
      <4>2. n = src
        BY <1>1, <4>1 DEF CalmInv, ClaimsInv, Holds, Owned
      <4> QED BY <1>1, <1>6, <3>2, <3>3, <4>2
    <3>4. CASE k # x
      <4>1. \A m \in Nodes : k \in keys[m] => k \in keys'[m]
        BY <1>1, <1>6, <3>2, <3>4
      <4> QED BY <1>1, <2>1, <4>1
    <3> QED BY <3>3, <3>4
  <2> QED BY <2>2, <2>3
<1> QED BY <1>4, <1>7 DEF CalmInv

\* SETSLOT NODE sets no mark, and is accepted by a node that keeps the slot,
\* does not own it or has no key in it.
LEMMA SetNodeMore ==
  ASSUME RedisTypeOK, NEW n \in Nodes, NEW s \in Slots, NEW id \in Nodes,
         SetNode(n, {s}, id)
  PROVE  /\ \A m \in Nodes, r \in Slots : migrating'[m][r] \in {migrating[m][r], None}
         /\ id = n \/ owner[n][s] # n \/ KeysIn(n, s) = {} => owner'[n][s] = id
<1> DEFINE P == {s} \cap AcceptsNode(n, id)
<1>1. /\ owner' = [owner EXCEPT ![n] = [r \in Slots |-> IF r \in P THEN id ELSE owner[n][r]]]
      /\ migrating' = [migrating EXCEPT ![n] =
            [r \in Slots |-> IF r \in P /\ KeysIn(n, r) = {} THEN None ELSE migrating[n][r]]]
  BY DEF SetNode
<1>2. id = n \/ owner[n][s] # n \/ KeysIn(n, s) = {} => s \in P
  BY DEF AcceptsNode
<1> HIDE DEF P
<1>3. \A m \in Nodes, r \in Slots : migrating'[m][r] \in {migrating[m][r], None}
  BY <1>1 DEF RedisTypeOK
<1>4. s \in P => owner'[n][s] = id
  BY <1>1 DEF RedisTypeOK
<1> QED BY <1>2, <1>3, <1>4

\* SETSLOT NODE on the target: it owns the slot, with the greatest epoch.
LEMMA TargetTakes ==
  ASSUME IInv, pc = "nodeTarget", SetNode(dst, {slot}, dst)
  PROVE  /\ UNCHANGED <<keys, acked>>
         /\ owner'[dst][slot] = dst
         /\ \A m \in Nodes, r \in Slots : m # dst \/ r # slot => owner'[m][r] = owner[m][r]
         /\ \A m \in Nodes, r \in Slots : migrating'[m][r] \in {migrating[m][r], None}
         /\ epoch' \in [Nodes -> Nat]
         /\ \A m \in Nodes : m # dst => epoch'[m] = epoch[m] /\ epoch'[m] < epoch'[dst]
<1>1. /\ dst \in Nodes /\ slot \in Slots /\ RedisTypeOK /\ importing[dst][slot] # None
  BY MoveFacts DEF Moving, IInv, TypeOK, MoveInv
<1>2. ASSUME NEW n \in Nodes, NEW s \in Slots, SetNode(n, {s}, n), importing[n][s] # None
      PROVE  /\ UNCHANGED <<keys, acked>>
             /\ owner'[n][s] = n
             /\ \A m \in Nodes, r \in Slots : m # n \/ r # s => owner'[m][r] = owner[m][r]
             /\ \A m \in Nodes, r \in Slots : migrating'[m][r] \in {migrating[m][r], None}
             /\ epoch' \in [Nodes -> Nat]
             /\ \A m \in Nodes : m # n => epoch'[m] = epoch[m] /\ epoch'[m] < epoch'[n]
  <2>1. RedisTypeOK
    BY <1>1
  <2>2. RedisTypeOK' /\ UNCHANGED <<keys, acked>>
    BY <1>2, <2>1, SetNodeFacts, Zenon
  <2>3. \A m \in Nodes, r \in Slots : m # n \/ r # s =>
          /\ owner'[m][r] = owner[m][r]
          /\ migrating'[m][r] = migrating[m][r]
          /\ importing'[m][r] = importing[m][r]
    BY <1>2, <2>1, SetNodeFacts, Zenon
  <2>4. \A m \in Nodes : m # n => epoch'[m] = epoch[m]
    BY <1>2, <2>1, SetNodeFacts, Zenon
  <2>5. /\ epoch'[n] = currentEpoch' /\ epoch'[n] > 0
        /\ \/ UNCHANGED <<epoch, currentEpoch>>
           \/ currentEpoch' = currentEpoch + 1 /\ epoch'[n] = currentEpoch + 1
    BY <1>2, <2>1, SetNodeFacts, Zenon
  <2>6. /\ \A m \in Nodes, r \in Slots : migrating'[m][r] \in {migrating[m][r], None}
        /\ n = n \/ owner[n][s] # n \/ KeysIn(n, s) = {} => owner'[n][s] = n
    BY <1>2, <2>1, SetNodeMore, Zenon
  <2>7. /\ epoch \in [Nodes -> Nat] /\ currentEpoch \in Nat
        /\ epoch' \in [Nodes -> Nat] /\ currentEpoch' \in Nat
    BY <2>1, <2>2 DEF RedisTypeOK
  <2>8. EpochInv
    BY DEF IInv
  <2>9. ASSUME NEW m \in Nodes, m # n PROVE epoch'[m] < epoch'[n]
    <3>1. epoch'[m] = epoch[m] /\ epoch[m] <= currentEpoch
      BY <2>4, <2>8, <2>9 DEF EpochInv
    <3>2. CASE UNCHANGED <<epoch, currentEpoch>>
      <4>1. epoch[m] # epoch[n]
        BY <2>5, <2>8, <2>9, <3>2 DEF EpochInv
      <4>2. epoch[n] = currentEpoch /\ epoch'[n] = epoch[n]
        BY <2>5, <3>2
      <4> QED BY <2>7, <3>1, <4>1, <4>2
    <3>3. CASE currentEpoch' = currentEpoch + 1 /\ epoch'[n] = currentEpoch + 1
      BY <2>7, <3>1, <3>3
    <3> QED BY <2>5, <3>2, <3>3
  <2> QED BY <2>2, <2>3, <2>4, <2>6, <2>7, <2>9
<1> QED BY <1>1, <1>2

\* SETSLOT NODE on the source: it gives the slot up unless it owns the slot
\* and has keys in it.
LEMMA SourceGives ==
  ASSUME IInv, pc = "nodeSource", SetNode(src, {slot}, dst)
  PROVE  /\ UNCHANGED <<keys, acked, epoch>>
         /\ \A m \in Nodes, r \in Slots : m # src \/ r # slot => owner'[m][r] = owner[m][r]
         /\ owner'[src][slot] \in {dst, owner[src][slot]}
         /\ owner[src][slot] # src \/ KeysIn(src, slot) = {} => owner'[src][slot] = dst
         /\ \A m \in Nodes, r \in Slots : migrating'[m][r] \in {migrating[m][r], None}
<1>1. dst \in Nodes /\ src \in Nodes /\ dst # src /\ slot \in Slots /\ RedisTypeOK
  BY MoveFacts DEF Moving, IInv, TypeOK
<1>2. ASSUME NEW n \in Nodes, NEW s \in Slots, NEW id \in Nodes, id # n, SetNode(n, {s}, id)
      PROVE  /\ UNCHANGED <<keys, acked, epoch>>
             /\ \A m \in Nodes, r \in Slots : m # n \/ r # s => owner'[m][r] = owner[m][r]
             /\ owner'[n][s] \in {id, owner[n][s]}
             /\ owner[n][s] # n \/ KeysIn(n, s) = {} => owner'[n][s] = id
             /\ \A m \in Nodes, r \in Slots : migrating'[m][r] \in {migrating[m][r], None}
  <2>1. RedisTypeOK
    BY <1>1
  <2>2. UNCHANGED <<keys, acked>> /\ UNCHANGED <<epoch, currentEpoch>>
    <3>1. UNCHANGED <<keys, acked>>
      BY <1>2, <2>1, SetNodeFacts, ZenonT(60)
    <3>2. UNCHANGED <<epoch, currentEpoch>>
      BY <1>2, <2>1, SetNodeFacts, ZenonT(60)
    <3> QED BY <3>1, <3>2, Zenon
  <2>3. \A m \in Nodes, r \in Slots : m # n \/ r # s =>
          /\ owner'[m][r] = owner[m][r]
          /\ migrating'[m][r] = migrating[m][r]
          /\ importing'[m][r] = importing[m][r]
    BY <1>2, <2>1, SetNodeFacts, Zenon
  <2>4. owner'[n][s] = id \/ (owner'[n][s] = owner[n][s] /\ migrating'[n][s] = migrating[n][s])
    BY <1>2, <2>1, SetNodeFacts, Zenon
  <2>5. /\ \A m \in Nodes, r \in Slots : migrating'[m][r] \in {migrating[m][r], None}
        /\ id = n \/ owner[n][s] # n \/ KeysIn(n, s) = {} => owner'[n][s] = id
    BY <1>2, <2>1, SetNodeMore, Zenon
  <2> QED BY <2>2, <2>3, <2>4, <2>5
<1> QED BY <1>1, <1>2

\* SETSLOT NODE on the target hands the slot over.
LEMMA CalmTarget ==
  ASSUME IInv, CalmInv, pc = "nodeTarget", SetNode(dst, {slot}, dst), Goto("nodeSource")
  PROVE  /\ CalmInv'
         /\ Cardinality(Holds(src)) > Expected
         /\ Cardinality(Holds(dst)) < Expected + Spare
<1>1. /\ dst \in Nodes /\ src \in Nodes /\ dst # src /\ slot \in Slots
      /\ dstIdx \in 1 .. NumNodes /\ srcIdx \in 1 .. NumNodes
      /\ pc \in Moving \ {"nodeSource"} /\ pc \in Rebalancing /\ dstIdx < srcIdx
      /\ slot \in table /\ KeysIn(src, slot) = {} /\ NumNodes \in Nat
  <2>1. pc \in Moving \ {"nodeSource"} /\ pc \in Rebalancing
    BY DEF Moving, Rebalancing
  <2> QED BY <2>1, MoveFacts, NumNodesType DEF IInv, LoopInv, MoveInv
<1>2. /\ UNCHANGED <<keys, acked>>
      /\ owner'[dst][slot] = dst
      /\ \A m \in Nodes, r \in Slots : m # dst \/ r # slot => owner'[m][r] = owner[m][r]
      /\ \A m \in Nodes, r \in Slots : migrating'[m][r] \in {migrating[m][r], None}
      /\ \A m \in Nodes : m # dst => epoch'[m] = epoch[m] /\ epoch'[m] < epoch'[dst]
  BY TargetTakes
<1>3. /\ pc' = "nodeSource" /\ UNCHANGED <<bom, balance, sn, dstIdx, srcIdx, table, slot>>
      /\ src' = src /\ dst' = dst /\ NumMoved' = NumMoved
  BY DEF Goto, passVars, src, dst, NumMoved
<1>4. slot \in Holds(src) /\ slot \notin Holds(dst)
  BY <1>1, MoveHolder
<1>0. PICK d \in Nodes, e \in Nodes : d = dst /\ e = src
  BY <1>1
<1>5. /\ \A n \in Nodes, s \in Slots : s \in Holds(n) <=> owner[n][s] = n
      /\ \A n \in Nodes, s \in Slots :
           s \in Holds(n)' <=> owner'[n][s] = n /\ ~ (n = src /\ s = slot)
  BY <1>1, <1>3 DEF Holds, Owned, HandedOver
<1>6. /\ Holds(d)' = Holds(dst) \cup {slot}
      /\ Holds(e)' = Holds(src) \ {slot}
      /\ \A n \in Nodes : n # src /\ n # dst => Holds(n)' = Holds(n)
  <2>1. \A n \in Nodes : Holds(n) \subseteq Slots /\ Holds(n)' \subseteq Slots
    BY DEF Holds, Owned
  <2>2. ASSUME NEW s \in Slots PROVE s \in Holds(d)' <=> s \in Holds(dst) \cup {slot}
    <3>1. CASE s = slot
      BY <1>0, <1>1, <1>2, <1>5, <3>1
    <3>2. CASE s # slot
      BY <1>0, <1>1, <1>2, <1>5, <3>2
    <3> QED BY <3>1, <3>2
  <2>3. ASSUME NEW s \in Slots PROVE s \in Holds(e)' <=> s \in Holds(src) \ {slot}
    BY <1>0, <1>1, <1>2, <1>5
  <2>4. ASSUME NEW n \in Nodes, n # src, n # dst, NEW s \in Slots
        PROVE  s \in Holds(n)' <=> s \in Holds(n)
    BY <1>2, <1>5, <2>4
  <2> QED BY <1>0, <1>1, <2>1, <2>2, <2>3, <2>4
<1>7. ClaimsInv'
  <2>1. \A n \in Nodes, s \in Slots : migrating'[n][s] \in {n, None}
    BY <1>2 DEF CalmInv, ClaimsInv
  <2>2. ASSUME NEW s \in Slots PROVE \E n \in Nodes : s \in Holds(n)'
    <3>1. CASE s = slot
      BY <1>1, <1>2, <1>5, <3>1
    <3>2. CASE s # slot
      <4>1. PICK n \in Nodes : s \in Holds(n)
        BY DEF CalmInv, ClaimsInv
      <4> QED BY <1>2, <1>5, <3>2, <4>1
    <3> QED BY <3>1, <3>2
  <2>3. ASSUME NEW m \in Nodes, NEW n \in Nodes, NEW s \in Slots, s \in Holds(m)', s \in Holds(n)'
        PROVE  m = n
    <3>1. CASE s = slot
      <4>1. ASSUME NEW x \in Nodes, slot \in Holds(x)' PROVE x = dst
        <5>1. x # src /\ owner'[x][slot] = x
          BY <1>1, <1>5, <4>1
        <5>2. x # dst => slot \in Holds(x)
          BY <1>1, <1>2, <1>5, <5>1
        <5>3. slot \in Holds(x) => x = src
          BY <1>1, <1>4 DEF CalmInv, ClaimsInv
        <5> QED BY <5>1, <5>2, <5>3
      <4> QED BY <2>3, <3>1, <4>1
    <3>2. CASE s # slot
      <4>1. s \in Holds(m) /\ s \in Holds(n)
        BY <1>2, <1>5, <2>3, <3>2
      <4> QED BY <4>1 DEF CalmInv, ClaimsInv
    <3> QED BY <3>1, <3>2
  <2>4. slot' \in Holds(d)' /\ epoch'[src'] < epoch'[dst']
    BY <1>1, <1>2, <1>3, <1>6
  <2>5. (slot \in Holds(dst))'
    BY <1>0, <1>3, <2>4 DEF Holds, Owned, HandedOver
  <2> QED BY <2>1, <2>2, <2>3, <2>4, <2>5 DEF ClaimsInv
<1>8. KeysInv'
  <2> SUFFICES ASSUME NEW k \in acked, NEW n \in Nodes, SlotOf[k] \in Holds(n)'
               PROVE  k \in keys[n]
    BY <1>2 DEF KeysInv
  <2>1. SlotOf[k] \in Slots
    BY DEF Holds, Owned
  <2>2. CASE SlotOf[k] = slot
    <3>1. n = dst
      BY <1>0, <1>1, <1>6, <1>7, <2>2 DEF ClaimsInv
    <3>2. k \in keys[src] \/ k \in keys[dst]
      BY <1>1, <1>4, <2>2 DEF CalmInv, KeysInv
    <3>3. k \notin keys[src]
      BY <1>1, <2>2 DEF KeysIn
    <3> QED BY <3>1, <3>2, <3>3
  <2>3. CASE SlotOf[k] # slot
    <3>1. SlotOf[k] \in Holds(n)
      BY <1>2, <1>5, <2>1, <2>3
    <3> QED BY <2>3, <3>1 DEF CalmInv, KeysInv
  <2> QED BY <2>2, <2>3
<1>9. BomInv'
  <2>1. ASSUME NEW j \in 1 .. NumNodes, dstIdx < j
        PROVE  (Holds(sn[j]) = {s \in bom[sn[j]] : ~ HandedOver(sn[j], s)})'
    <3> DEFINE n == sn[j]
    <3>1. n \in Nodes /\ n # dst
      BY <1>1, <2>1 DEF IInv, TypeOK, LoopInv, dst
    <3>2. Holds(n) = {s \in bom[n] : ~ HandedOver(n, s)}
      BY <1>1, <2>1 DEF CalmInv, BomInv
    <3>3. Holds(n) = bom[n]
      BY <1>1, <3>2 DEF HandedOver
    <3>4. \A s \in Slots : owner[n][s] = n <=> s \in bom[n]
      BY <1>5, <3>1, <3>3
    <3>5. bom[n] \subseteq Slots
      BY <3>1 DEF IInv, TypeOK
    <3>6. \A s \in Slots : owner'[n][s] = n <=> s \in bom[n]
      BY <1>2, <3>1, <3>4
    <3>7. sn'[j] = n /\ bom' = bom
      BY <1>3
    <3> HIDE DEF n
    <3> QED BY <3>5, <3>6, <3>7 DEF Holds, Owned, HandedOver
  <2> QED BY <1>3, <2>1 DEF BomInv
<1>10. /\ NumMoved \in Nat /\ Cardinality(table) \in Nat /\ Cardinality(table) > 0
       /\ Cardinality(table) <= NumMoved
       /\ balance[src] \in Int /\ balance[dst] \in Int
       /\ NumMoved <= balance[src] /\ NumMoved <= - balance[dst]
  <2>1. /\ NumMoved \in Nat /\ balance[src] \in Int /\ balance[dst] \in Int
        /\ NumMoved <= balance[src] /\ NumMoved <= - balance[dst]
    BY <1>1, Signs DEF IInv, CalmInv
  <2>2. IsFiniteSet(table)
    BY SlotsFinite, FS_Subset DEF IInv, TypeOK
  <2>3. Cardinality(table) \in Nat /\ Cardinality(table) # 0
    BY <1>1, <2>2, FS_CardinalityType, FS_EmptySet
  <2> QED BY <1>1, <2>1, <2>3 DEF CalmInv, BalanceInv
<1>11. /\ Moved = NumMoved - Cardinality(table)
       /\ Moved' = NumMoved - Cardinality(table) + 1
  BY <1>1, <1>3 DEF Moved
<1>12. /\ Cardinality(Holds(src)) \in Nat /\ Cardinality(Holds(dst)) \in Nat
       /\ Cardinality(Holds(src) \ {slot}) = Cardinality(Holds(src)) - 1
       /\ Cardinality(Holds(dst) \cup {slot}) = Cardinality(Holds(dst)) + 1
  <2>1. /\ IsFiniteSet(Holds(src)) /\ Cardinality(Holds(src)) \in Nat
        /\ IsFiniteSet(Holds(dst)) /\ Cardinality(Holds(dst)) \in Nat
    BY <1>1, HoldsFinite
  <2>2. Cardinality(Holds(src) \ {slot}) = Cardinality(Holds(src)) - 1
    BY <1>4, <2>1, FS_RemoveElement
  <2>3. Cardinality(Holds(dst) \cup {slot}) = Cardinality(Holds(dst)) + 1
    BY <1>4, <2>1, FS_AddElement
  <2> QED BY <2>1, <2>2, <2>3
<1>13. \A n \in Nodes : Expected <= Quota(n) /\ Quota(n) <= Expected + Spare
  BY <1>1 DEF CalmInv, QuotaInv
<1>14. Expected \in Nat /\ Spare \in Nat
  BY Shares
<1>15. Cardinality(Holds(src)) > Expected /\ Cardinality(Holds(dst)) < Expected + Spare
  <2>1. Quota(src) = Cardinality(Holds(src)) - balance[src] + Moved
    BY <1>1, <1>10, <1>11, <1>12 DEF Quota
  <2>2. Quota(dst) = Cardinality(Holds(dst)) - balance[dst] - Moved
    BY <1>1, <1>10, <1>11, <1>12 DEF Quota
  <2>3. Expected <= Quota(src) /\ Quota(dst) <= Expected + Spare
    BY <1>1, <1>13
  <2> QED BY <1>10, <1>11, <1>12, <1>14, <2>1, <2>2, <2>3
<1>16. QuotaInv'
  <2>1. ASSUME NEW n \in Nodes PROVE Quota(n)' = Quota(n)
    <3>1. Quota(n)' = Cardinality(Holds(n)') - balance[n]
            + (IF n = src THEN Moved' ELSE 0) - (IF n = dst THEN Moved' ELSE 0)
      BY <1>3 DEF Quota
    <3>2. Quota(n) = Cardinality(Holds(n)) - balance[n]
            + (IF n = src THEN Moved ELSE 0) - (IF n = dst THEN Moved ELSE 0)
      BY DEF Quota
    <3>3. CASE n = src
      <4>1. Holds(n)' = Holds(src) \ {slot} /\ Cardinality(Holds(src) \ {slot}) = Cardinality(Holds(src)) - 1
        BY <1>0, <1>6, <1>12, <3>3
      <4> QED BY <1>1, <1>10, <1>11, <1>12, <3>1, <3>2, <3>3, <4>1
    <3>4. CASE n = dst
      <4>1. Holds(n)' = Holds(dst) \cup {slot} /\ Cardinality(Holds(dst) \cup {slot}) = Cardinality(Holds(dst)) + 1
        BY <1>0, <1>6, <1>12, <3>4
      <4> QED BY <1>1, <1>10, <1>11, <1>12, <3>1, <3>2, <3>4, <4>1
    <3>5. CASE n # src /\ n # dst
      BY <1>6, <3>1, <3>2, <3>5
    <3> QED BY <3>3, <3>4, <3>5
  <2> QED BY <1>13, <2>1 DEF QuotaInv
<1>17. BalanceInv'
  <2>1. /\ Sum(Surplus(balance')) = Sum(Deficit(balance'))
        /\ \A i \in 1 .. NumNodes : i < dstIdx' \/ srcIdx' < i => balance'[sn'[i]] = 0
        /\ \A i, j \in 1 .. NumNodes : i < j /\ balance'[sn'[j]] < 0 => balance'[sn'[i]] <= 0
    BY <1>1, <1>3 DEF CalmInv, BalanceInv
  <2> QED BY <1>3, <1>10, <2>1 DEF BalanceInv
<1>18. StatusInv'
  BY <1>3 DEF StatusInv
<1> QED BY <1>6, <1>7, <1>8, <1>9, <1>15, <1>16, <1>17, <1>18 DEF CalmInv

\* SETSLOT NODE on the source: it learns what is true already.
LEMMA CalmSource ==
  ASSUME IInv, CalmInv, NodeSource, SetNode(src, {slot}, dst)
  PROVE  CalmInv'
<1>1. /\ dst \in Nodes /\ src \in Nodes /\ dst # src /\ slot \in Slots
      /\ dstIdx \in 1 .. NumNodes /\ srcIdx \in 1 .. NumNodes
      /\ pc = "nodeSource" /\ pc \in Moving /\ pc \in Rebalancing /\ dstIdx < srcIdx
      /\ slot \in table /\ NumNodes \in Nat
  <2>1. pc = "nodeSource" /\ pc \in Moving /\ pc \in Rebalancing
    BY DEF NodeSource, Moving, Rebalancing
  <2> QED BY <2>1, MoveFacts, NumNodesType DEF IInv, LoopInv
<1>2. /\ UNCHANGED <<keys, acked, epoch>>
      /\ \A m \in Nodes, r \in Slots : m # src \/ r # slot => owner'[m][r] = owner[m][r]
      /\ owner[src][slot] # src \/ KeysIn(src, slot) = {} => owner'[src][slot] = dst
      /\ \A m \in Nodes, r \in Slots : migrating'[m][r] \in {migrating[m][r], None}
  BY <1>1, SourceGives
<1>3. /\ bom' = [bom EXCEPT ![src] = @ \ {slot}]
      /\ table' = table \ {slot}
      /\ pc' = "importing" \/ (pc' = "update" /\ table' = {})
      /\ UNCHANGED <<balance, sn, dstIdx, srcIdx>>
      /\ src' = src /\ dst' = dst /\ NumMoved' = NumMoved
  BY DEF NodeSource, src, dst, NumMoved
<1>4. pc' # "nodeSource" /\ pc' \in Rebalancing /\ pc' \notin {"idle", "join", "sync", "keys", "nodeTarget"}
  BY <1>3 DEF Rebalancing, Moving
<1>5. slot \in Holds(dst) /\ epoch[src] < epoch[dst]
  BY <1>1 DEF CalmInv, ClaimsInv
<1>6. owner'[src][slot] = dst
  <2>1. owner[dst][slot] = dst
    BY <1>5 DEF Holds, Owned
  <2>2. owner[src][slot] = src => Loses(src, dst, slot)
    BY <1>1, <1>5, <2>1 DEF Loses
  <2>3. Loses(src, dst, slot) => KeysIn(src, slot) = {}
    BY <1>1 DEF IInv, LoserInv
  <2> QED BY <1>2, <2>2, <2>3
<1>7. \A n \in Nodes : Holds(n)' = Holds(n)
  <2>1. ASSUME NEW n \in Nodes, NEW s \in Slots PROVE s \in Holds(n)' <=> s \in Holds(n)
    <3>1. s \in Holds(n)' <=> owner'[n][s] = n
      BY <1>4 DEF Holds, Owned, HandedOver
    <3>2. s \in Holds(n) <=> owner[n][s] = n /\ ~ (n = src /\ s = slot)
      BY <1>1 DEF Holds, Owned, HandedOver
    <3>3. CASE n = src /\ s = slot
      BY <1>1, <1>6, <3>1, <3>2, <3>3
    <3>4. CASE ~ (n = src /\ s = slot)
      BY <1>2, <3>1, <3>2, <3>4
    <3> QED BY <3>3, <3>4
  <2>2. \A n \in Nodes : Holds(n) \subseteq Slots /\ Holds(n)' \subseteq Slots
    BY DEF Holds, Owned
  <2> QED BY <2>1, <2>2
<1>8. ClaimsInv'
  <2>1. \A n \in Nodes, s \in Slots : migrating'[n][s] \in {n, None}
    BY <1>2 DEF CalmInv, ClaimsInv
  <2> QED BY <1>4, <1>7, <2>1 DEF CalmInv, ClaimsInv
<1>9. KeysInv'
  BY <1>1, <1>2, <1>7 DEF CalmInv, KeysInv
<1>10. BomInv'
  <2>1. ASSUME NEW j \in 1 .. NumNodes, dstIdx < j
        PROVE  (Holds(sn[j]) = {s \in bom[sn[j]] : ~ HandedOver(sn[j], s)})'
    <3>1. PICK n \in Nodes : n = sn[j]
      BY DEF IInv, TypeOK
    <3>2. Holds(n) = {s \in bom[n] : ~ HandedOver(n, s)}
      BY <1>1, <2>1, <3>1 DEF CalmInv, BomInv
    <3>3. bom'[n] = IF n = src THEN bom[n] \ {slot} ELSE bom[n]
      BY <1>1, <1>3 DEF IInv, TypeOK
    <3>4. bom'[n] = Holds(n)'
      BY <1>1, <1>7, <3>2, <3>3 DEF HandedOver
    <3>5. sn'[j] = n
      BY <1>3, <3>1
    <3> QED BY <1>4, <3>4, <3>5 DEF Holds, Owned, HandedOver
  <2> QED BY <1>3, <1>4, <2>1 DEF BomInv
<1>11. /\ IsFiniteSet(table) /\ Cardinality(table) \in Nat
       /\ Cardinality(table') = Cardinality(table) - 1
  <2>1. IsFiniteSet(table)
    BY SlotsFinite, FS_Subset DEF IInv, TypeOK
  <2>2. Cardinality(table \ {slot}) = Cardinality(table) - 1
    BY <1>1, <2>1, FS_RemoveElement
  <2> QED BY <1>3, <2>1, <2>2, FS_CardinalityType
<1>12. NumMoved \in Nat /\ Cardinality(table) <= NumMoved
  BY <1>1, Signs DEF IInv, CalmInv, BalanceInv
<1>13. Moved' = Moved
  <2>1. Moved = NumMoved - Cardinality(table) + 1
    BY <1>1 DEF Moved
  <2>2. CASE pc' = "importing"
    <3>1. Moved' = NumMoved - Cardinality(table')
      BY <1>3, <2>2 DEF Moved, Moving
    <3> QED BY <1>11, <1>12, <2>1, <3>1
  <2>3. CASE pc' = "update" /\ table' = {}
    <3>1. Moved' = NumMoved
      BY <1>3, <2>3 DEF Moved
    <3>2. Cardinality(table) - 1 = 0
      BY <1>11, <2>3, FS_EmptySet
    <3> QED BY <1>11, <1>12, <2>1, <3>1, <3>2
  <2> QED BY <1>3, <2>2, <2>3
<1>14. QuotaInv'
  <2>1. ASSUME NEW n \in Nodes PROVE Quota(n)' = Quota(n)
    BY <1>3, <1>7, <1>13 DEF Quota
  <2> QED BY <1>1, <2>1 DEF CalmInv, QuotaInv
<1>15. BalanceInv'
  <2>1. /\ Sum(Surplus(balance')) = Sum(Deficit(balance'))
        /\ \A i \in 1 .. NumNodes : i < dstIdx' \/ srcIdx' < i => balance'[sn'[i]] = 0
        /\ \A i, j \in 1 .. NumNodes : i < j /\ balance'[sn'[j]] < 0 => balance'[sn'[i]] <= 0
    BY <1>1, <1>3 DEF CalmInv, BalanceInv
  <2>2. Cardinality(table') <= NumMoved'
    BY <1>3, <1>11, <1>12
  <2> QED BY <2>1, <2>2 DEF BalanceInv
<1>16. StatusInv'
  BY <1>4 DEF StatusInv
<1> QED BY <1>8, <1>9, <1>10, <1>14, <1>15, <1>16 DEF CalmInv

\* Only the source of the move at hand can lose a slot over the bus, and only
\* the slot it has handed over.
LEMMA CalmLoser ==
  ASSUME IInv, CalmInv, NEW p \in Nodes, NEW q \in Nodes, NEW s \in Slots, Loses(p, q, s)
  PROVE  HandedOver(p, s)
<1>1. p # q /\ owner[p][s] = p /\ owner[q][s] = q /\ epoch[p] < epoch[q]
  BY DEF Loses
<1>2. ~ (s \in Holds(p) /\ s \in Holds(q))
  BY <1>1 DEF CalmInv, ClaimsInv
<1>3. HandedOver(p, s) \/ HandedOver(q, s)
  BY <1>1, <1>2 DEF Holds, Owned
<1>4. ~ HandedOver(q, s)
  <2> SUFFICES ASSUME HandedOver(q, s) PROVE FALSE
    OBVIOUS
  <2>1. pc = "nodeSource" /\ q = src /\ s = slot
    BY DEF HandedOver
  <2>2. slot \in Holds(dst) /\ epoch[src] < epoch[dst] /\ dst \in Nodes /\ src \in Nodes
    BY <2>1, MoveFacts DEF CalmInv, ClaimsInv, Moving
  <2>3. slot \in Holds(p)
    BY <1>1, <2>1 DEF Holds, Owned, HandedOver
  <2>4. p = dst
    BY <2>1, <2>2, <2>3 DEF CalmInv, ClaimsInv
  <2>5. epoch[p] \in Nat /\ epoch[q] \in Nat
    BY DEF IInv, TypeOK, RedisTypeOK
  <2> QED BY <1>1, <2>1, <2>2, <2>4, <2>5
<1> QED BY <1>3, <1>4

\* Writes and gossip.
LEMMA CalmBus ==
  ASSUME IInv, CalmInv, Bus
  PROVE  CalmInv'
<1>1. /\ UNCHANGED <<pc, status, bom, balance, sn, dstIdx, srcIdx, table, slot>>
      /\ src' = src /\ dst' = dst /\ NumMoved' = NumMoved /\ RedisTypeOK
  BY DEF Bus, passVars, src, dst, NumMoved, IInv, TypeOK
<1>2. ASSUME \A n \in Nodes : Holds(n)' = Holds(n), UNCHANGED <<migrating, epoch>>, KeysInv'
      PROVE  CalmInv'
  <2>1. Moved' = Moved
    BY <1>1 DEF Moved
  <2>2. \A n \in Nodes : Quota(n)' = Quota(n)
    BY <1>1, <1>2, <2>1 DEF Quota
  <2>3. QuotaInv'
    BY <1>1, <2>2 DEF CalmInv, QuotaInv
  <2>4. BalanceInv'
    BY <1>1 DEF CalmInv, BalanceInv
  <2>5. StatusInv'
    BY <1>1, <1>2 DEF CalmInv, StatusInv
  <2>6. ClaimsInv'
    <3>1. ASSUME pc' = "nodeSource" PROVE (slot \in Holds(dst) /\ epoch[src] < epoch[dst])'
      <4>1. PICK d \in Nodes : d = dst
        BY <1>1, <3>1, MoveFacts DEF Moving
      <4>2. slot \in Holds(d)' /\ epoch'[src'] < epoch'[dst']
        BY <1>1, <1>2, <3>1, <4>1 DEF CalmInv, ClaimsInv
      <4>3. dst' = d /\ slot' = slot
        BY <1>1, <4>1
      <4>4. (slot \in Holds(dst))'
        BY <4>2, <4>3 DEF Holds, Owned, HandedOver
      <4> QED BY <4>2, <4>4
    <3> QED BY <1>2, <3>1 DEF CalmInv, ClaimsInv
  <2>7. BomInv'
    <3>1. ASSUME pc' \in Rebalancing, NEW j \in 1 .. NumNodes, dstIdx' < j
          PROVE  (Holds(sn[j]) = {s \in bom[sn[j]] : ~ HandedOver(sn[j], s)})'
      <4>1. PICK n \in Nodes : n = sn[j]
        BY DEF IInv, TypeOK
      <4>2. Holds(n) = {s \in bom[n] : ~ HandedOver(n, s)}
        BY <1>1, <3>1, <4>1 DEF CalmInv, BomInv
      <4>3. \A s : HandedOver(n, s)' <=> HandedOver(n, s)
        BY <1>1 DEF HandedOver
      <4>4. Holds(n)' = {s \in bom'[n] : ~ HandedOver(n, s)'}
        BY <1>1, <1>2, <4>2, <4>3
      <4>5. sn'[j] = n
        BY <1>1, <4>1
      <4> QED BY <4>4, <4>5 DEF Holds, Owned, HandedOver
    <3> QED BY <1>1, <1>2, <3>1 DEF CalmInv, BomInv
  <2> QED BY <1>2, <2>3, <2>4, <2>5, <2>6, <2>7 DEF CalmInv
<1>3. ASSUME NEW k \in Keys, NEW n \in Nodes, ClientWrite(k, n) PROVE CalmInv'
  <2>1. /\ UNCHANGED tables /\ UNCHANGED <<owner, migrating, epoch>>
        /\ acked' = acked \cup {k}
        /\ keys' = [keys EXCEPT ![n] = @ \cup {k}]
        /\ owner[n][SlotOf[k]] = n /\ migrating[n][SlotOf[k]] = None
    BY <1>3 DEF ClientWrite, tables
  <2>2. \A m \in Nodes : Holds(m)' = Holds(m)
    BY <1>1, <2>1 DEF Holds, Owned, HandedOver
  <2>3. SlotOf[k] \in Slots /\ keys \in [Nodes -> SUBSET Keys]
    BY <1>1, RedisAssumption DEF RedisTypeOK
  <2>4. SlotOf[k] \in Holds(n)
    <3>1. ~ HandedOver(n, SlotOf[k])
      <4> SUFFICES ASSUME HandedOver(n, SlotOf[k]) PROVE FALSE
        OBVIOUS
      <4>1. pc = "nodeSource" /\ n = src /\ SlotOf[k] = slot
        BY DEF HandedOver
      <4>2. slot \in Holds(dst) /\ epoch[src] < epoch[dst] /\ dst \in Nodes /\ dst # src
        BY <4>1, MoveFacts DEF CalmInv, ClaimsInv, Moving
      <4>3. Loses(src, dst, slot)
        BY <2>1, <4>1, <4>2 DEF Loses, Holds, Owned
      <4>4. migrating[src][slot] # None
        BY <2>3, <4>1, <4>2, <4>3 DEF IInv, LoserInv
      <4> QED BY <2>1, <4>1, <4>4
    <3> QED BY <2>1, <2>3, <3>1 DEF Holds, Owned
  <2>5. KeysInv'
    <3> SUFFICES ASSUME NEW x \in acked', NEW m \in Nodes, SlotOf[x] \in Holds(m)
                 PROVE  \/ x \in keys'[m]
                        \/ pc \in {"keys", "nodeTarget"} /\ m = src /\ SlotOf[x] = slot /\ x \in keys'[dst]
      BY <1>1, <2>2 DEF KeysInv
    <3>1. CASE x = k
      <4>1. m = n
        BY <2>3, <2>4, <3>1 DEF CalmInv, ClaimsInv
      <4> QED BY <2>1, <2>3, <3>1, <4>1
    <3>2. CASE x # k
      <4>1. x \in acked
        BY <2>1, <3>2
      <4>2. \/ x \in keys[m]
            \/ pc \in {"keys", "nodeTarget"} /\ m = src /\ SlotOf[x] = slot /\ x \in keys[dst]
        BY <4>1 DEF CalmInv, KeysInv
      <4>3. \A y \in Nodes : keys[y] \subseteq keys'[y]
        BY <2>1, <2>3
      <4>4. pc \in {"keys", "nodeTarget"} => dst \in Nodes
        BY MoveFacts DEF Moving
      <4> QED BY <4>2, <4>3, <4>4
    <3> QED BY <3>1, <3>2
  <2> QED BY <1>2, <2>1, <2>2, <2>5
<1>4. ASSUME NEW k \in Keys, NEW n \in Nodes, NEW t \in Nodes, ClientAskWrite(k, n, t) PROVE CalmInv'
  <2>1. owner[n][SlotOf[k]] = n /\ migrating[n][SlotOf[k]] = t /\ owner[t][SlotOf[k]] # t
    BY <1>4 DEF ClientAskWrite
  <2>2. migrating[n][SlotOf[k]] \in {n, None}
    BY RedisAssumption DEF CalmInv, ClaimsInv
  <2> QED BY <2>1, <2>2, RedisAssumption
<1>5. ASSUME NEW p \in Nodes, NEW q \in Nodes, Gossip(p, q) PROVE CalmInv'
  <2>1. /\ UNCHANGED <<migrating, importing, epoch, currentEpoch, acked>>
        /\ \A n \in Nodes, s \in Slots : owner'[n][s] = n => owner[n][s] = n
        /\ \A n \in Nodes, s \in Slots :
             owner[n][s] = n /\ owner'[n][s] # n => n = p /\ Loses(p, q, s)
        /\ \A n \in Nodes : \A k \in keys[n] :
             k \notin keys'[n] => n = p /\ Loses(p, q, SlotOf[k])
    BY <1>1, <1>5, GossipFacts, Zenon
  <2>2. \A n \in Nodes : Holds(n)' = Holds(n)
    <3>1. ASSUME NEW n \in Nodes, NEW s \in Slots PROVE s \in Holds(n)' <=> s \in Holds(n)
      <4>1. HandedOver(n, s)' <=> HandedOver(n, s)
        BY <1>1 DEF HandedOver
      <4>2. ~ HandedOver(n, s) => (owner'[n][s] = n <=> owner[n][s] = n)
        BY <2>1, CalmLoser
      <4> QED BY <4>1, <4>2 DEF Holds, Owned
    <3>2. \A n \in Nodes : Holds(n) \subseteq Slots /\ Holds(n)' \subseteq Slots
      BY DEF Holds, Owned
    <3> QED BY <3>1, <3>2
  <2>3. KeysInv'
    <3> SUFFICES ASSUME NEW k \in acked, NEW n \in Nodes, SlotOf[k] \in Holds(n)
                 PROVE  \/ k \in keys'[n]
                        \/ pc \in {"keys", "nodeTarget"} /\ n = src /\ SlotOf[k] = slot /\ k \in keys'[dst]
      BY <1>1, <2>1, <2>2 DEF KeysInv
    <3>1. SlotOf[k] \in Slots /\ ~ HandedOver(n, SlotOf[k])
      BY DEF Holds, Owned
    <3>2. k \in keys[n] => k \in keys'[n]
      BY <2>1, <3>1, CalmLoser
    <3>3. ASSUME pc \in {"keys", "nodeTarget"}, k \in keys[dst] PROVE k \in keys'[dst]
      <4>1. dst \in Nodes /\ ~ HandedOver(dst, SlotOf[k])
        BY <3>3, MoveFacts DEF Moving, HandedOver
      <4> QED BY <2>1, <3>1, <3>3, <4>1, CalmLoser
    <3> QED BY <3>2, <3>3 DEF CalmInv, KeysInv
  <2> QED BY <1>2, <2>1, <2>2, <2>3
<1> QED BY <1>3, <1>4, <1>5 DEF Bus, Environment

-----------------------------------------------------------------------------
(***************************************************************************)
(* Undisturbed steps are steps in which no command fails.                  *)
(***************************************************************************)
\* The instances of ScaleUp and of SlotHandover count as this module does.
LEMMA SameCount ==
  /\ \A S : Undisturbed!Cardinality(S) = Cardinality(S)
  /\ \A S : Promise!Cardinality(S) = Cardinality(S)
  BY DEF Undisturbed!Cardinality, Promise!Cardinality, Cardinality

\* The steps of a pass that send no command.
LEMMA SamePass ==
  /\ Undisturbed!StartPass <=> StartPass
  /\ Undisturbed!WaitForClusterJoin <=> WaitForClusterJoin
  /\ Undisturbed!NoOperation <=> NoOperation
  /\ Undisturbed!StartRebalance <=> StartRebalance
  /\ Undisturbed!PlanMoves <=> PlanMoves
  /\ Undisturbed!FinishPass <=> FinishPass
  /\ Undisturbed!UpdateBalance <=> UpdateBalance
<1> USE DEF Undisturbed!redisVars, redisVars, Undisturbed!passVars, passVars
<1>a. /\ Undisturbed!NumNodes = NumNodes /\ Undisturbed!Slots = Slots
      /\ Undisturbed!dst = dst /\ Undisturbed!src = src
      /\ Undisturbed!curMasters = curMasters
      /\ Undisturbed!NumMoved = NumMoved
  BY SameCount
     DEF Undisturbed!NumNodes, NumNodes, Undisturbed!Slots, Slots, Undisturbed!dst, dst,
         Undisturbed!src, src, Undisturbed!curMasters, curMasters,
         Undisturbed!Abs, Abs, Undisturbed!NumMoved, NumMoved
<1>1. Undisturbed!StartPass <=> StartPass
  BY <1>a DEF Undisturbed!StartPass, StartPass, Undisturbed!Owned, Owned
<1>2. Undisturbed!WaitForClusterJoin <=> WaitForClusterJoin
  BY <1>a DEF Undisturbed!WaitForClusterJoin, WaitForClusterJoin,
              Undisturbed!InfosConsistent, InfosConsistent
<1>3. Undisturbed!NoOperation <=> NoOperation
  BY <1>a, SameCount DEF Undisturbed!NoOperation, NoOperation
<1>4. Undisturbed!StartRebalance <=> StartRebalance
  <2>1. Undisturbed!Expected = Expected
    BY <1>a DEF Undisturbed!Expected, Expected
  <2>2. \A n : Undisturbed!RawBalance(n) = RawBalance(n)
    BY <2>1, SameCount DEF Undisturbed!RawBalance, RawBalance
  <2>3. Undisturbed!TotalBalance = TotalBalance
    BY <1>a, <2>1, SameCount DEF Undisturbed!TotalBalance, TotalBalance
  <2>4. \A b : Undisturbed!Firsts(b) = Firsts(b)
    BY <2>3, SameCount DEF Undisturbed!Firsts, Firsts
  <2>5. \A b, f : Undisturbed!AdjustedBalance(b, f) = AdjustedBalance(b, f)
    BY <2>2, <2>3, SameCount DEF Undisturbed!AdjustedBalance, AdjustedBalance
  <2>6. {n \in Nodes : Undisturbed!RawBalance(n) < 0} = {n \in Nodes : RawBalance(n) < 0}
    BY <2>2
  <2> QED BY <1>a, <2>4, <2>5, <2>6, SameCount DEF Undisturbed!StartRebalance, StartRebalance
<1>5. Undisturbed!PlanMoves <=> PlanMoves
  <2>1. \A n, num : Undisturbed!ReshardTable(n, num) = ReshardTable(n, num)
    BY SameCount DEF Undisturbed!ReshardTable, ReshardTable
  <2> QED BY <1>a, <2>1 DEF Undisturbed!PlanMoves, PlanMoves, Undisturbed!NextSlot, NextSlot
<1>6. Undisturbed!FinishPass <=> FinishPass
  BY DEF Undisturbed!FinishPass, FinishPass
<1>7. Undisturbed!UpdateBalance <=> UpdateBalance
  BY <1>a DEF Undisturbed!UpdateBalance, UpdateBalance
<1> QED BY <1>1, <1>2, <1>3, <1>4, <1>5, <1>6, <1>7

\* The commands of the pass, none of which fails, and the bus.
LEMMA SameMoves ==
  /\ Undisturbed!Importing <=>
       /\ pc = "importing"
       /\ \/ slot \in AcceptsImporting(dst) /\ SetImporting(dst, {slot}, dst) /\ Goto("migrating")
          \/ slot \notin AcceptsImporting(dst) /\ UNCHANGED redisVars /\ Failed
  /\ Undisturbed!Migrating <=>
       /\ pc = "migrating"
       /\ \/ slot \in AcceptsMigrating(src) /\ SetMigrating(src, {slot}, src) /\ Goto("keys")
          \/ slot \notin AcceptsMigrating(src) /\ UNCHANGED redisVars /\ Failed
  /\ Undisturbed!MigrateKeysInSlot =>
       /\ pc = "keys"
       /\ \/ KeysIn(src, slot) = {} /\ UNCHANGED redisVars /\ Goto("nodeTarget")
          \/ \E k \in KeysIn(src, slot) : Migrate(src, dst, k) /\ Goto("keys")
  /\ Undisturbed!NodeTarget <=>
       pc = "nodeTarget" /\ SetNode(dst, {slot}, dst) /\ Goto("nodeSource")
  /\ Undisturbed!NodeSource <=> NodeSource /\ SetNode(src, {slot}, dst)
  /\ Undisturbed!Bus <=> Bus
  /\ ~ Undisturbed!Crash
<1> USE DEF Undisturbed!redisVars, redisVars, Undisturbed!passVars, passVars,
            Undisturbed!NumNodes, NumNodes, Undisturbed!dst, dst, Undisturbed!src, src,
            Undisturbed!Slots, Slots, Undisturbed!Goto, Goto, Undisturbed!Failed, Failed,
            Undisturbed!KeysIn, KeysIn, Undisturbed!tables, tables
<1>1. Undisturbed!Importing <=>
       /\ pc = "importing"
       /\ \/ slot \in AcceptsImporting(dst) /\ SetImporting(dst, {slot}, dst) /\ Goto("migrating")
          \/ slot \notin AcceptsImporting(dst) /\ UNCHANGED redisVars /\ Failed
  BY DEF Undisturbed!Importing, Undisturbed!AcceptsImporting, AcceptsImporting,
         Undisturbed!SetImporting, SetImporting
<1>2. Undisturbed!Migrating <=>
       /\ pc = "migrating"
       /\ \/ slot \in AcceptsMigrating(src) /\ SetMigrating(src, {slot}, src) /\ Goto("keys")
          \/ slot \notin AcceptsMigrating(src) /\ UNCHANGED redisVars /\ Failed
  BY DEF Undisturbed!Migrating, Undisturbed!AcceptsMigrating, AcceptsMigrating,
         Undisturbed!SetMigrating, SetMigrating
<1>3. Undisturbed!MigrateKeysInSlot =>
       /\ pc = "keys"
       /\ \/ KeysIn(src, slot) = {} /\ UNCHANGED redisVars /\ Goto("nodeTarget")
          \/ \E k \in KeysIn(src, slot) : Migrate(src, dst, k) /\ Goto("keys")
  BY DEF Undisturbed!MigrateKeysInSlot, Undisturbed!Migrate, Migrate
<1>4. \A n, s, id : Undisturbed!SetNode(n, s, id) <=> SetNode(n, s, id)
  BY DEF Undisturbed!SetNode, SetNode, Undisturbed!AcceptsNode, AcceptsNode,
         Undisturbed!TakesEpoch, TakesEpoch
<1>5. Undisturbed!NodeTarget <=>
       pc = "nodeTarget" /\ SetNode(dst, {slot}, dst) /\ Goto("nodeSource")
  BY <1>4 DEF Undisturbed!NodeTarget
<1>6. Undisturbed!NodeSource <=> NodeSource /\ SetNode(src, {slot}, dst)
  BY <1>4 DEF Undisturbed!NodeSource, NodeSource, Undisturbed!NextSlot, NextSlot
<1>7. Undisturbed!Bus <=> Bus
  <2>1. \A k, n : Undisturbed!ClientWrite(k, n) <=> ClientWrite(k, n)
    BY DEF Undisturbed!ClientWrite, ClientWrite
  <2>2. \A k, n, t : Undisturbed!ClientAskWrite(k, n, t) <=> ClientAskWrite(k, n, t)
    BY DEF Undisturbed!ClientAskWrite, ClientAskWrite
  <2>3. \A p, q : Undisturbed!Gossip(p, q) <=> Gossip(p, q)
    BY DEF Undisturbed!Gossip, Gossip, Undisturbed!Rebound, Rebound
  <2> QED BY <2>1, <2>2, <2>3 DEF Undisturbed!Bus, Bus, Undisturbed!Environment, Environment
<1>8. ~ Undisturbed!Crash
  BY DEF Undisturbed!Crash
<1> QED BY <1>1, <1>2, <1>3, <1>5, <1>6, <1>7, <1>8

-----------------------------------------------------------------------------
(***************************************************************************)
(* The invariant of a scale-up that nothing disturbs.                      *)
(***************************************************************************)
\* Before the first pass the new masters are empty.
LEMMA InitCalm == Init => CalmInv
<1> SUFFICES ASSUME Init PROVE CalmInv
  OBVIOUS
<1>1. PICK assigned \in [Slots -> InitMasters] : RedisInit(assigned, InitEpoch)
  BY DEF Init
<1>2. /\ \A n \in Nodes, s \in Slots : owner[n][s] = assigned[s] /\ migrating[n][s] = None
      /\ keys = [n \in Nodes |-> {k \in acked : assigned[SlotOf[k]] = n}]
      /\ acked \in SUBSET Keys
      /\ pc = "idle" /\ status = "Scaling"
  BY <1>1 DEF RedisInit, Init
<1>3. \A s \in Slots : assigned[s] \in InitMasters /\ assigned[s] \in Nodes
  BY ScaleUpAssumption
<1>4. \A n \in Nodes : Holds(n) = {s \in Slots : assigned[s] = n}
  BY <1>2 DEF Holds, Owned, HandedOver
<1>5. ClaimsInv
  BY <1>2, <1>3, <1>4 DEF ClaimsInv
<1>6. KeysInv
  BY <1>2, <1>4, RedisAssumption DEF KeysInv
<1>7. BomInv /\ QuotaInv /\ BalanceInv
  BY <1>2 DEF BomInv, QuotaInv, BalanceInv, Rebalancing, Moving
<1>8. StatusInv
  <2>1. PICK n \in Nodes : n \notin InitMasters
    BY HandoverAssumption, ScaleUpAssumption
  <2>2. Holds(n) = {}
    BY <1>3, <1>4, <2>1
  <2> QED BY <1>2, <2>2 DEF StatusInv
<1> QED BY <1>5, <1>6, <1>7, <1>8 DEF CalmInv

\* Nothing of CalmInv depends on anything but the variables.
LEMMA CalmStutter ==
  ASSUME CalmInv, UNCHANGED vars
  PROVE  CalmInv'
<1>1. UNCHANGED <<owner, migrating, keys, epoch, acked, bom, balance, sn, dstIdx, srcIdx,
                  table, slot, pc, status>>
  BY DEF vars, redisVars, passVars
<1>2. UNCHANGED <<src, dst, NumMoved>>
  BY <1>1 DEF src, dst, NumMoved
<1>3. \A n : Holds(n)' = Holds(n)
  BY <1>1, <1>2 DEF Holds, Owned, HandedOver
<1>4. Moved' = Moved
  BY <1>1, <1>2 DEF Moved
<1>5. \A n : Quota(n)' = Quota(n)
  BY <1>1, <1>2, <1>3, <1>4 DEF Quota
<1>6. ClaimsInv'
  BY <1>1 DEF CalmInv, ClaimsInv, Holds, Owned, HandedOver, src, dst
<1>7. KeysInv'
  BY <1>1 DEF CalmInv, KeysInv, Holds, Owned, HandedOver, src, dst
<1>8. BomInv'
  BY <1>1 DEF CalmInv, BomInv, Holds, Owned, HandedOver, src
<1>9. QuotaInv' /\ BalanceInv' /\ StatusInv'
  BY <1>1, <1>2, <1>3, <1>5 DEF CalmInv, QuotaInv, BalanceInv, StatusInv
<1> QED BY <1>6, <1>7, <1>8, <1>9 DEF CalmInv

\* The steps in which no command fails and the operator does not stop.
LEMMA CalmStep ==
  ASSUME IInv, CalmInv, Undisturbed!Next
  PROVE  CalmInv'
<1>1. ASSUME Undisturbed!StartPass \/ Undisturbed!WaitForClusterJoin \/ Undisturbed!NoOperation
      PROVE  CalmInv'
  BY <1>1, SamePass, CalmBegin
<1>2. ASSUME Undisturbed!StartRebalance PROVE CalmInv'
  BY <1>2, SamePass, CalmStart
<1>3. ASSUME Undisturbed!PlanMoves PROVE CalmInv'
  BY <1>3, SamePass, CalmPlan
<1>4. ASSUME Undisturbed!UpdateBalance PROVE CalmInv'
  BY <1>4, SamePass, CalmUpdate
<1>5. ASSUME Undisturbed!FinishPass PROVE CalmInv'
  BY <1>5, SamePass, CalmFinish
<1>6. ASSUME Undisturbed!Importing \/ Undisturbed!Migrating PROVE CalmInv'
  BY <1>6, SameMoves, CalmOpen
<1>7. ASSUME Undisturbed!MigrateKeysInSlot PROVE CalmInv'
  BY <1>7, SameMoves, CalmKeys
<1>8. ASSUME Undisturbed!NodeTarget PROVE CalmInv'
  BY <1>8, SameMoves, CalmTarget
<1>9. ASSUME Undisturbed!NodeSource PROVE CalmInv'
  BY <1>9, SameMoves, CalmSource
<1>10. ASSUME Undisturbed!Bus PROVE CalmInv'
  BY <1>10, SameMoves, CalmBus
<1> QED
  BY <1>1, <1>2, <1>3, <1>4, <1>5, <1>6, <1>7, <1>8, <1>9, <1>10, SameMoves
     DEF Undisturbed!Next, Undisturbed!Operator

\* A scale-up keeps the invariant as long as nothing disturbs it.
LEMMA NextHInv == IInv /\ HInv /\ [HNext]_HVars => HInv'
<1> SUFFICES ASSUME IInv, HInv, [HNext]_HVars, ~ disturbed' PROVE CalmInv'
  BY DEF HInv
<1>1. CASE HNext
  <2>1. ~ disturbed /\ Undisturbed!Next
    BY <1>1 DEF HNext
  <2> QED BY <2>1, CalmStep DEF HInv
<1>2. CASE UNCHANGED HVars
  BY <1>2, CalmStutter DEF HVars, HInv
<1> QED BY <1>1, <1>2

\* The inductive invariant of the refinement holds of every behaviour: as long
\* as no command of a scale-up failed and the operator did not stop, the slots
\* have one master each, which has their keys, and what is left of the
\* balances computed by RebalancedCluster tells how many slots each master has
\* to give or to get.
THEOREM CalmInvariance == HSpec => [](IInv /\ HInv)
<1>1. HInit => IInv /\ HInv
  BY InitIInv, InitCalm DEF HInit, HInv
<1>2. IInv /\ HInv /\ [HNext]_HVars => IInv' /\ HInv'
  <2>1. [HNext]_HVars => [Next]_vars
    BY DEF HNext, HVars
  <2> QED BY <2>1, NextIInv, NextHInv
<1> QED BY <1>1, <1>2, PTL DEF HSpec

\* As long as nothing disturbed the operator an owner of a slot that is not
\* migrating has every acknowledged key of it.
THEOREM Answered == HSpec => []CalmMeansAnswered
<1>1. IInv /\ HInv => CalmMeansAnswered
  <2> SUFFICES ASSUME IInv, CalmInv, NEW k \in acked, NEW n \in Nodes,
                      owner[n][SlotOf[k]] = n, migrating[n][SlotOf[k]] = None
               PROVE  k \in keys[n]
    BY DEF HInv, CalmMeansAnswered, NoFalseMiss
  <2>1. SlotOf[k] \in Slots
    BY RedisAssumption DEF IInv, TypeOK, RedisTypeOK
  <2>2. ~ HandedOver(n, SlotOf[k])
    <3> SUFFICES ASSUME HandedOver(n, SlotOf[k]) PROVE FALSE
      OBVIOUS
    <3>1. pc = "nodeSource" /\ n = src /\ SlotOf[k] = slot
      BY DEF HandedOver
    <3>2. slot \in Holds(dst) /\ epoch[src] < epoch[dst] /\ dst \in Nodes /\ dst # src
      BY <3>1, MoveFacts DEF CalmInv, ClaimsInv, Moving
    <3>3. Loses(src, dst, slot)
      BY <3>1, <3>2 DEF Loses, Holds, Owned
    <3> QED BY <2>1, <3>1, <3>2, <3>3 DEF IInv, LoserInv
  <2>3. SlotOf[k] \in Holds(n)
    BY <2>1, <2>2 DEF Holds, Owned
  <2> QED BY <2>3 DEF CalmInv, KeysInv, IInv, MoveInv
<1> QED BY <1>1, CalmInvariance, PTL

\* A scale-up that nothing disturbed and that is reported healthy has left
\* every master within the remainder of its even share.
THEOREM Balanced == HSpec => []CalmMeansBalanced
<1>1. IInv /\ HInv => CalmMeansBalanced
  <2> SUFFICES ASSUME CalmInv, status = "Healthy", pc = "idle", NEW n \in Nodes
               PROVE  Abs(Cardinality(Owned(n)) - Expected) <= NumSlots % NumNodes
    BY DEF HInv, CalmMeansBalanced, HealthyMeansBalanced
  <2>1. Holds(n) = Owned(n)
    BY DEF Holds, HandedOver
  <2>2. /\ Expected <= Cardinality(Owned(n))
        /\ Cardinality(Owned(n)) <= Expected + Spare
    BY <2>1 DEF CalmInv, StatusInv
  <2>3. Cardinality(Owned(n)) \in Nat
    BY <2>1, HoldsFinite
  <2> QED BY <2>2, <2>3, Shares DEF Abs, Spare
<1> QED BY <1>1, CalmInvariance, PTL

-----------------------------------------------------------------------------
(***************************************************************************)
(* Who holds a slot.                                                       *)
(***************************************************************************)
\* A set of natural numbers that is not empty has a least element.
LEMMA Least ==
  ASSUME NEW T \in SUBSET Nat, T # {}
  PROVE  \E x \in T : \A y \in T : x <= y
<1>1. IsWellFoundedOn(OpToRel(<, Nat), Nat)
  BY NatLessThanWellFounded
<1>2. PICK x \in T : \A y \in T : ~ (<<y, x>> \in OpToRel(<, Nat))
  BY <1>1, WFMin, Zenon
<1>3. \A y \in T : <<y, x>> \in OpToRel(<, Nat) <=> y < x
  BY DEF OpToRel
<1>4. \A y \in T : ~ (y < x)
  BY <1>2, <1>3, Zenon
<1>5. \A y \in T : x <= y
  BY <1>4
<1> QED BY <1>5

\* Numbers that have a bound have a greatest.
LEMMA Greatest ==
  ASSUME NEW C, C # {}, NEW f, NEW b \in Nat, \A n \in C : f[n] \in Nat /\ f[n] <= b
  PROVE  \E n \in C : \A m \in C : f[m] <= f[n]
<1> DEFINE T == {b - f[n] : n \in C}
<1>1. T \in SUBSET Nat /\ T # {}
  OBVIOUS
<1>2. PICK x \in T : \A y \in T : x <= y
  BY <1>1, Least
<1>3. PICK n \in C : x = b - f[n]
  BY <1>2
<1>4. \A m \in C : f[m] <= f[n]
  <2> SUFFICES ASSUME NEW m \in C PROVE f[m] <= f[n]
    OBVIOUS
  <2>1. b - f[n] <= b - f[m]
    BY <1>2, <1>3
  <2> QED BY <2>1
<1> QED BY <1>4

\* A claimant that no other one outbids is the holder.
LEMMA HolderIs ==
  ASSUME RedisTypeOK, EpochInv, NEW s \in Slots, NEW n \in Nodes, owner[n][s] = n,
         \A m \in Nodes : ~ Loses(n, m, s)
  PROVE  Holder(s) = n
<1>1. n \in Claimants(s)
  BY DEF Claimants
<1>2. \A m \in Claimants(s) : m \in Nodes /\ epoch[m] \in Nat /\ epoch[n] \in Nat /\ epoch[m] > 0
  BY DEF Claimants, EpochInv, RedisTypeOK
<1>3. \A m \in Claimants(s) : epoch[m] <= epoch[n]
  BY <1>2 DEF Claimants, Loses
<1>4. ASSUME NEW x \in Claimants(s), \A m \in Claimants(s) : epoch[m] <= epoch[x]
      PROVE  x = n
  BY <1>1, <1>2, <1>3, <1>4 DEF EpochInv
<1> QED BY <1>1, <1>3, <1>4 DEF Holder

\* A slot that somebody claims has such a claimant.
LEMMA HolderFacts ==
  ASSUME RedisTypeOK, EpochInv, NEW s \in Slots
  PROVE  \/ Holder(s) = None /\ \A n \in Nodes : owner[n][s] # n
         \/ /\ Holder(s) \in Nodes /\ owner[Holder(s)][s] = Holder(s)
            /\ \A m \in Nodes : ~ Loses(Holder(s), m, s)
<1>1. CASE Claimants(s) = {}
  BY <1>1 DEF Claimants, Holder
<1>2. CASE Claimants(s) # {}
  <2>1. \A n \in Claimants(s) : /\ n \in Nodes /\ owner[n][s] = n
                                /\ epoch[n] \in Nat /\ currentEpoch \in Nat /\ epoch[n] <= currentEpoch
    BY DEF Claimants, EpochInv, RedisTypeOK
  <2>2. PICK n \in Claimants(s) : \A m \in Claimants(s) : epoch[m] <= epoch[n]
    BY <1>2, <2>1, Greatest
  <2>3. \A m \in Nodes : ~ Loses(n, m, s)
    BY <2>1, <2>2 DEF Loses, Claimants
  <2>4. Holder(s) = n
    BY <2>1, <2>3, HolderIs
  <2> QED BY <2>1, <2>3, <2>4
<1> QED BY <1>1, <1>2

\* A slot keeps its holder when a holder keeps its claim and nobody outbids it.
LEMMA HolderStays ==
  ASSUME RedisTypeOK, EpochInv, RedisTypeOK', EpochInv', NEW s \in Slots,
         \A n \in Nodes : owner'[n][s] = n => owner[n][s] = n,
         \A n \in Nodes : /\ owner[n][s] = n
                          /\ \A m \in Nodes : ~ Loses(n, m, s)
           => owner'[n][s] = n /\ \A m \in Nodes : ~ Loses(n, m, s)'
  PROVE  Holder(s)' = Holder(s)
<1>1. CASE Holder(s) = None /\ \A n \in Nodes : owner[n][s] # n
  <2>1. \A n \in Nodes : owner'[n][s] # n
    BY <1>1
  <2> QED BY <1>1, <2>1 DEF Holder, Claimants
<1>2. CASE /\ Holder(s) \in Nodes /\ owner[Holder(s)][s] = Holder(s)
           /\ \A m \in Nodes : ~ Loses(Holder(s), m, s)
  <2>1. PICK h \in Nodes : h = Holder(s)
    BY <1>2
  <2>2. owner'[h][s] = h /\ \A m \in Nodes : ~ Loses(h, m, s)'
    BY <1>2, <2>1
  <2>3. Holder(s)' = h
    <3>1. h \in Claimants(s)'
      BY <2>2 DEF Claimants
    <3>2. \A m \in Claimants(s)' : m \in Nodes /\ epoch'[m] \in Nat /\ epoch'[h] \in Nat /\ epoch'[m] > 0
      BY DEF Claimants, EpochInv, RedisTypeOK
    <3>3. \A m \in Claimants(s)' : epoch'[m] <= epoch'[h]
      BY <2>2, <3>2 DEF Claimants, Loses
    <3>4. ASSUME NEW x \in Claimants(s)', \A m \in Claimants(s)' : epoch'[m] <= epoch'[x]
          PROVE  x = h
      BY <3>1, <3>2, <3>3, <3>4 DEF EpochInv
    <3> QED BY <3>1, <3>3, <3>4 DEF Holder
  <2> QED BY <2>1, <2>3
<1> QED BY <1>1, <1>2, HolderFacts

-----------------------------------------------------------------------------
(***************************************************************************)
(* Every step is a step of SlotHandover or changes nothing of it.          *)
(***************************************************************************)
\* No key is ever lost, so the keys the cluster has are those acknowledged.
LEMMA FoundAll == NoKeyLoss => Found = acked
  BY DEF NoKeyLoss, Found

\* A step that changes no holder and acknowledges nothing may at most be the
\* one in which something goes wrong.
LEMMA Quiet ==
  ASSUME IInv, IInv', HNext, acked' = acked, \A s \in Slots : Holder(s)' = Holder(s)
  PROVE  Promise!GoesWrong \/ UNCHANGED Promise!promised
<1>1. [s \in Slots |-> Holder(s)]' = [s \in Slots |-> Holder(s)]
  OBVIOUS
<1>2. Found' = Found
  BY FoundAll DEF IInv, Found, NoKeyLoss
<1>3. CASE disturbed'
  BY <1>1, <1>2, <1>3 DEF Promise!GoesWrong
<1>4. CASE ~ disturbed'
  <2>1. ~ disturbed
    BY <1>4 DEF HNext
  <2> QED BY <1>1, <1>2, <1>4, <2>1 DEF Promise!promised
<1> QED BY <1>3, <1>4

\* A step of the operator or the clients that goes as it should.
LEMMA StaysCalm ==
  ASSUME HNext, Undisturbed!Next
  PROVE  (~ disturbed)' = (~ disturbed)
  BY DEF HNext

\* In a calm scale-up a master holds what it owns, up to the end of a move.
LEMMA HeldIsHolds ==
  ASSUME IInv, CalmInv, pc # "nodeSource", NEW n \in Nodes
  PROVE  Promise!Held(n) = Holds(n)
<1>1. RedisTypeOK /\ EpochInv
  BY DEF IInv, TypeOK
<1>2. Holds(n) = {s \in Slots : owner[n][s] = n}
  BY DEF Holds, Owned, HandedOver
<1>3. ASSUME NEW s \in Slots, owner[n][s] = n PROVE Holder(s) = n
  <2>1. \A m \in Nodes : ~ Loses(n, m, s)
    BY CalmLoser DEF HandedOver
  <2> QED BY <1>1, <1>3, <2>1, HolderIs
<1>4. ASSUME NEW s \in Slots, Holder(s) = n PROVE owner[n][s] = n
  BY <1>1, <1>4, HolderFacts, RedisAssumption
<1>5. Promise!Held(n) = {s \in Slots : Holder(s) = n}
  BY DEF Promise!Held
<1> QED BY <1>2, <1>3, <1>4, <1>5

\* SETSLOT NODE on the target hands the slot over.
LEMMA HandoverTarget ==
  ASSUME IInv, IInv', HInv, HNext, NodeTarget, SetNode(dst, {slot}, dst)
  PROVE  Promise!HandoverNext
<1>1. PICK d \in Nodes, c \in Nodes : d = dst /\ c = src
  BY MoveFacts DEF Moving, NodeTarget
<1>2. PICK z \in Slots : z = slot
  BY MoveFacts DEF Moving, NodeTarget
<1>3. pc = "nodeTarget" /\ c # d /\ Goto("nodeSource")
  BY <1>1, MoveFacts DEF Moving, NodeTarget
<1>4. RedisTypeOK /\ EpochInv /\ RedisTypeOK' /\ EpochInv'
  BY DEF IInv, TypeOK
<1>5. /\ UNCHANGED <<keys, acked>>
      /\ owner'[d][z] = d
      /\ \A m \in Nodes, r \in Slots : m # d \/ r # z => owner'[m][r] = owner[m][r]
      /\ epoch' \in [Nodes -> Nat]
      /\ \A m \in Nodes : m # d => epoch'[m] = epoch[m] /\ epoch'[m] < epoch'[d]
  BY <1>1, <1>2, <1>3, TargetTakes
<1>6. /\ \A q \in Nodes, s \in Slots : ~ Loses(d, q, s)
      /\ \A q \in Nodes : ~ Loses(c, q, z)
      /\ owner[c][z] = c
  BY <1>1, <1>2, <1>3, MoveFacts DEF Moving, IInv, MoveInv
<1>7. Holder(z) = c
  BY <1>4, <1>6, HolderIs
<1>8. Holder(z)' = d
  <2>1. d \in Claimants(z)'
    BY <1>5 DEF Claimants
  <2>2. \A m \in Claimants(z)' : m \in Nodes /\ (m = d \/ epoch'[m] < epoch'[d])
    BY <1>5 DEF Claimants
  <2>3. \A m \in Claimants(z)' : epoch'[m] \in Nat /\ epoch'[d] \in Nat
    BY <1>5, <2>2
  <2>4. \A m \in Claimants(z)' : epoch'[m] <= epoch'[d]
    BY <2>2, <2>3
  <2>5. ASSUME NEW x \in Claimants(z)', \A m \in Claimants(z)' : epoch'[m] <= epoch'[x]
        PROVE  x = d
    BY <2>1, <2>2, <2>3, <2>5
  <2> QED BY <2>1, <2>4, <2>5 DEF Holder
<1>9. ASSUME NEW s \in Slots, s # z PROVE Holder(s)' = Holder(s)
  <2>1. \A n \in Nodes : owner'[n][s] = owner[n][s]
    BY <1>5, <1>9
  <2>2. ASSUME NEW n \in Nodes, owner[n][s] = n, \A m \in Nodes : ~ Loses(n, m, s), NEW q \in Nodes
        PROVE  ~ Loses(n, q, s)'
    <3> SUFFICES ASSUME n # q, owner[q][s] = q, epoch'[n] < epoch'[q] PROVE FALSE
      BY <2>1 DEF Loses
    <3>1. \A m \in Nodes : epoch[m] \in Nat /\ epoch'[m] \in Nat
      BY <1>4, <1>5 DEF RedisTypeOK
    <3>2. n # d
      BY <1>5, <3>1
    <3>3. ~ (epoch[n] < epoch[q])
      BY <2>2 DEF Loses
    <3>4. q = d
      BY <1>5, <3>2, <3>3
    <3>5. ~ (epoch[d] < epoch[n])
      BY <1>6, <2>2, <3>4 DEF Loses
    <3>6. epoch[n] > 0 /\ epoch[n] = epoch[d]
      BY <1>4, <2>2, <3>1, <3>3, <3>4, <3>5 DEF EpochInv
    <3> QED BY <1>4, <3>2, <3>6 DEF EpochInv
  <2> QED BY <1>4, <2>1, <2>2, HolderStays
<1>10. Undisturbed!Next
  BY <1>3, SameMoves DEF Undisturbed!Next, Undisturbed!Operator
<1>11. Found' = Found
  BY <1>5 DEF Found
<1>12. [s \in Slots |-> Holder(s)]' = [[s \in Slots |-> Holder(s)] EXCEPT ![z] = d]
  BY <1>8, <1>9
<1>13. ASSUME ~ disturbed
       PROVE  /\ Promise!Cardinality(Promise!Held(c)) > Expected
              /\ Promise!Cardinality(Promise!Held(d)) < Expected + Spare
  <2>1. CalmInv
    BY <1>13 DEF HInv
  <2>2. Cardinality(Holds(c)) > Expected /\ Cardinality(Holds(d)) < Expected + Spare
    BY <1>1, <1>3, <2>1, CalmTarget
  <2>3. Promise!Held(c) = Holds(c) /\ Promise!Held(d) = Holds(d)
    BY <1>3, <2>1, HeldIsHolds
  <2> QED BY <2>2, <2>3, SameCount
<1>14. Promise!HandOver(z, d)
  BY <1>3, <1>7, <1>10, <1>11, <1>12, <1>13, StaysCalm DEF Promise!HandOver
<1> QED BY <1>14 DEF Promise!HandoverNext

\* SETSLOT NODE on the source: the target has the slot already, or, if the
\* target was not told, the next claimant gets it or nobody has it.
LEMMA HandoverSource ==
  ASSUME IInv, IInv', HInv, HNext, NodeSource, SetNode(src, {slot}, dst)
  PROVE  Promise!HandoverNext \/ UNCHANGED Promise!promised
<1>1. PICK d \in Nodes, c \in Nodes : d = dst /\ c = src
  BY MoveFacts DEF Moving, NodeSource
<1>2. PICK z \in Slots : z = slot
  BY MoveFacts DEF Moving, NodeSource
<1>3. pc = "nodeSource" /\ c # d
  BY <1>1, MoveFacts DEF Moving, NodeSource
<1>4. RedisTypeOK /\ EpochInv /\ RedisTypeOK' /\ EpochInv'
  BY DEF IInv, TypeOK
<1>5. /\ UNCHANGED <<keys, acked, epoch>>
      /\ \A m \in Nodes, r \in Slots : m # c \/ r # z => owner'[m][r] = owner[m][r]
      /\ owner'[c][z] \in {d, owner[c][z]}
  BY <1>1, <1>2, <1>3, SourceGives
<1>6. /\ \A m \in Nodes, r \in Slots : owner'[m][r] = m => owner[m][r] = m
      /\ \A m, q \in Nodes, r \in Slots : Loses(m, q, r)' => Loses(m, q, r)
  BY <1>3, <1>5 DEF Loses
<1>7. ASSUME NEW s \in Slots, s # z \/ Holder(z) # c \/ owner'[c][z] = c PROVE Holder(s)' = Holder(s)
  <2>1. ASSUME NEW n \in Nodes, owner[n][s] = n, \A m \in Nodes : ~ Loses(n, m, s)
        PROVE  owner'[n][s] = n
    <3>1. Holder(s) = n
      BY <1>4, <2>1, HolderIs
    <3> QED BY <1>5, <1>7, <2>1, <3>1
  <2> QED BY <1>4, <1>6, <2>1, HolderStays
<1>8. CASE Holder(z) # c \/ owner'[c][z] = c
  BY <1>5, <1>7, <1>8, Quiet DEF Promise!HandoverNext
<1>9. CASE Holder(z) = c /\ owner'[c][z] # c
  <2>1. owner[c][z] = c /\ \A m \in Nodes : ~ Loses(c, m, z)
    BY <1>4, <1>9, HolderFacts, RedisAssumption
  <2>2. disturbed
    <3> SUFFICES ASSUME CalmInv PROVE FALSE
      BY DEF HInv
    <3>1. z \in Holds(d) /\ epoch[c] < epoch[d]
      BY <1>1, <1>2, <1>3 DEF CalmInv, ClaimsInv
    <3> QED BY <1>3, <2>1, <3>1 DEF Holds, Owned, Loses
  <2>3. Undisturbed!Next
    BY SameMoves DEF Undisturbed!Next, Undisturbed!Operator
  <2>4. PICK h : h = Holder(z)'
    OBVIOUS
  <2>5. h \in Nodes \ {c} \/ h = None
    <3>1. CASE Claimants(z)' = {}
      BY <2>4, <3>1 DEF Holder
    <3>2. CASE Claimants(z)' # {}
      <4>1. \A n \in Claimants(z)' : /\ n \in Nodes \ {c}
                                     /\ epoch'[n] \in Nat /\ currentEpoch' \in Nat
                                     /\ epoch'[n] <= currentEpoch'
        BY <1>4, <1>9 DEF Claimants, EpochInv, RedisTypeOK
      <4>2. \E n \in Claimants(z)' : \A m \in Claimants(z)' : epoch'[m] <= epoch'[n]
        BY <3>2, <4>1, Greatest
      <4>3. h \in Claimants(z)'
        BY <2>4, <3>2, <4>2 DEF Holder
      <4> QED BY <4>1, <4>3
    <3> QED BY <3>1, <3>2
  <2>6. [s \in Slots |-> Holder(s)]' = [[s \in Slots |-> Holder(s)] EXCEPT ![z] = h]
    BY <1>7, <2>4
  <2>7. Found' = Found
    BY <1>5 DEF Found
  <2>8. CASE h \in Nodes \ {c}
    <3>1. Promise!HandOver(z, h)
      BY <1>9, <2>2, <2>3, <2>6, <2>7, <2>8, StaysCalm DEF Promise!HandOver
    <3> QED BY <2>8, <3>1 DEF Promise!HandoverNext
  <2>9. CASE h = None
    <3>1. Promise!Orphan(z)
      BY <1>9, <2>2, <2>3, <2>6, <2>7, <2>9, StaysCalm, RedisAssumption DEF Promise!Orphan
    <3> QED BY <3>1 DEF Promise!HandoverNext
  <2> QED BY <2>5, <2>8, <2>9
<1> QED BY <1>8, <1>9

\* Writes store keys; gossip tells only those who are outbid.
LEMMA HandoverBus ==
  ASSUME IInv, IInv', HInv, HNext, Bus
  PROVE  Promise!HandoverNext \/ UNCHANGED Promise!promised
<1>1. RedisTypeOK /\ EpochInv /\ RedisTypeOK' /\ EpochInv' /\ Undisturbed!Next
  BY SameMoves DEF IInv, TypeOK, Undisturbed!Next
<1>2. ASSUME NEW k \in Keys, NEW n \in Nodes, owner[n][SlotOf[k]] = n,
             UNCHANGED tables, acked' = acked \cup {k}
      PROVE  Promise!HandoverNext
  <2>1. SlotOf[k] \in Slots
    BY RedisAssumption
  <2>2. Holder(SlotOf[k]) # None
    BY <1>1, <1>2, <2>1, HolderFacts, RedisAssumption
  <2>3. UNCHANGED <<owner, epoch>>
    BY <1>2 DEF tables
  <2>4. \A s \in Slots : Holder(s)' = Holder(s)
    BY <2>3 DEF Holder, Claimants
  <2>5. [s \in Slots |-> Holder(s)]' = [s \in Slots |-> Holder(s)]
    BY <2>4
  <2>6. Found' = Found \cup {k}
    <3>1. Found = acked /\ Found' = acked'
      BY DEF IInv, Found, NoKeyLoss
    <3> QED BY <1>2, <3>1
  <2>7. Promise!Store(k)
    BY <1>1, <2>1, <2>2, <2>5, <2>6, StaysCalm DEF Promise!Store
  <2> QED BY <2>7 DEF Promise!HandoverNext
<1>3. ASSUME NEW p \in Nodes, NEW q \in Nodes, Gossip(p, q)
      PROVE  Promise!HandoverNext \/ UNCHANGED Promise!promised
  <2>1. /\ UNCHANGED <<epoch, acked>>
        /\ \A n \in Nodes, s \in Slots : owner'[n][s] = n => owner[n][s] = n
        /\ \A n \in Nodes, s \in Slots :
             owner[n][s] = n /\ owner'[n][s] # n => n = p /\ Loses(p, q, s)
    BY <1>1, <1>3, GossipFacts, Zenon
  <2>2. ASSUME NEW s \in Slots PROVE Holder(s)' = Holder(s)
    <3>1. \A m, n \in Nodes : Loses(m, n, s)' => Loses(m, n, s)
      BY <2>1 DEF Loses
    <3>2. \A n \in Nodes : /\ owner[n][s] = n
                           /\ \A m \in Nodes : ~ Loses(n, m, s)
            => owner'[n][s] = n /\ \A m \in Nodes : ~ Loses(n, m, s)'
      BY <2>1, <3>1
    <3> QED BY <1>1, <2>1, <3>2, HolderStays
  <2> QED BY <2>1, <2>2, Quiet DEF Promise!HandoverNext
<1>4. CASE \E k \in Keys, n \in Nodes : ClientWrite(k, n)
  BY <1>2, <1>4 DEF ClientWrite
<1>5. CASE \E k \in Keys, n, t \in Nodes : ClientAskWrite(k, n, t)
  BY <1>2, <1>5 DEF ClientAskWrite
<1> QED BY <1>3, <1>4, <1>5 DEF Bus, Environment

\* The other steps change no claim and acknowledge nothing.
LEMMA HandoverQuiet ==
  ASSUME IInv, IInv', HNext, UNCHANGED <<owner, epoch, acked>>
  PROVE  Promise!HandoverNext \/ UNCHANGED Promise!promised
<1>1. \A s \in Slots : Holder(s)' = Holder(s)
  BY DEF Holder, Claimants
<1> QED BY <1>1, Quiet DEF Promise!HandoverNext

\* Before the first pass each slot has the holder it was assigned to.
LEMMA HandoverStart == HInit => Promise!HandoverInit
<1> SUFFICES ASSUME HInit PROVE Promise!HandoverInit
  OBVIOUS
<1>1. PICK assigned \in [Slots -> InitMasters] : RedisInit(assigned, InitEpoch)
  BY DEF HInit, Init
<1>2. /\ \A n \in Nodes, s \in Slots : owner[n][s] = assigned[s]
      /\ \A s \in Slots : assigned[s] \in Nodes
  BY <1>1, ScaleUpAssumption DEF RedisInit
<1>3. RedisTypeOK /\ EpochInv
  BY InitIInv DEF HInit, IInv, TypeOK
<1>4. \A s \in Slots : Holder(s) = assigned[s]
  <2> SUFFICES ASSUME NEW s \in Slots PROVE Holder(s) = assigned[s]
    OBVIOUS
  <2>1. PICK n \in Nodes : n = assigned[s] /\ owner[n][s] = n
    BY <1>2
  <2>2. \A m \in Nodes : ~ Loses(n, m, s)
    BY <1>2, <2>1 DEF Loses
  <2> QED BY <1>3, <2>1, <2>2, HolderIs
<1>5. [s \in Slots |-> Holder(s)] \in [Slots -> Nodes]
  BY <1>2, <1>4
<1>6. Found \subseteq Keys
  BY <1>3 DEF Found, RedisTypeOK
<1> QED BY <1>5, <1>6 DEF HInit, Promise!HandoverInit

\* Every step of the operator, of the clients and of the bus.
LEMMA HandoverStep ==
  ASSUME IInv, HInv, [HNext]_HVars
  PROVE  Promise!HandoverNext \/ UNCHANGED Promise!promised
<1>1. CASE UNCHANGED HVars
  <2>1. UNCHANGED <<owner, epoch, acked, keys, disturbed>>
    BY <1>1 DEF HVars, vars, redisVars
  <2> QED BY <2>1 DEF Promise!promised, Holder, Claimants, Found
<1>2. CASE HNext
  <2>1. IInv'
    BY <1>2, NextIInv DEF HNext
  <2>2. ASSUME UNCHANGED <<owner, epoch, acked>>
        PROVE  Promise!HandoverNext \/ UNCHANGED Promise!promised
    BY <1>2, <2>1, <2>2, HandoverQuiet
  <2>3. CASE \/ StartPass \/ WaitForClusterJoin \/ NoOperation
             \/ StartRebalance \/ PlanMoves \/ UpdateBalance \/ FinishPass \/ Crash
    BY <2>2, <2>3 DEF StartPass, WaitForClusterJoin, NoOperation, StartRebalance,
                      PlanMoves, UpdateBalance, FinishPass, Crash, redisVars
  <2>4. CASE Importing \/ Migrating
    BY <2>2, <2>4 DEF Importing, Migrating, SetImporting, SetMigrating, redisVars
  <2>5. CASE MigrateKeysInSlot
    BY <2>2, <2>5 DEF MigrateKeysInSlot, Migrate, CopyOnly, tables, redisVars
  <2>6. CASE NodeTarget
    <3>1. CASE SetNode(dst, {slot}, dst)
      BY <1>2, <2>1, <2>6, <3>1, HandoverTarget
    <3>2. CASE UNCHANGED redisVars
      BY <2>2, <3>2 DEF redisVars
    <3> QED BY <2>6, <3>1, <3>2 DEF NodeTarget
  <2>7. CASE NodeSource
    <3>1. CASE SetNode(src, {slot}, dst)
      BY <1>2, <2>1, <2>7, <3>1, HandoverSource
    <3>2. CASE UNCHANGED redisVars
      BY <2>2, <3>2 DEF redisVars
    <3> QED BY <2>7, <3>1, <3>2 DEF NodeSource
  <2>8. CASE Bus
    BY <1>2, <2>1, <2>8, HandoverBus
  <2> QED BY <1>2, <2>3, <2>4, <2>5, <2>6, <2>7, <2>8 DEF HNext, Next, Operator
<1> QED BY <1>1, <1>2

\* RebalancedCluster and moveSlot, with failing commands, operator crashes,
\* writing clients and the cluster bus, implement SlotHandover: although the
\* slot tables of the nodes disagree for a while each slot goes over at one
\* instant, no stored key is dropped and, as long as nothing went wrong, no
\* master gives away its own share or gets more than its share and the spare.
THEOREM Implementation == HSpec => ImplementsHandover
<1>1. HInit => Promise!HandoverInit
  BY HandoverStart
<1>2. IInv /\ HInv /\ [HNext]_HVars => [Promise!HandoverNext]_(Promise!promised)
  BY HandoverStep
<1> QED
  BY <1>1, <1>2, CalmInvariance, PTL DEF HSpec, ImplementsHandover, Promise!HandoverSpec
===============================================================================
