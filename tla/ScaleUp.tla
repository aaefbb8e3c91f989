------------------------------- MODULE ScaleUp --------------------------------
(***************************************************************************)
(* Scaling up: the passes of Reconcile that find empty masters among the   *)
(* expected ones and run RebalancedCluster, which moves slots to them one  *)
(* at a time with moveSlot.  Commands may fail, the operator may stop      *)
(* between any two of them, clients write and the cluster bus gossips all  *)
(* the while.                                                              *)
(***************************************************************************)
EXTENDS RedisSlots, Sequences

CONSTANTS
  InitMasters,  \* the masters that own the slots before the scale-up
  InitEpoch,    \* their configEpochs
  CmdFails,     \* may a command fail, or its reply get lost?
  Crashes,      \* may the operator stop in the middle of a pass?
  MaxPasses     \* bound: passes of Reconcile

ASSUME ScaleUpAssumption ==
  /\ IsFiniteSet(Nodes)
  /\ InitMasters \in SUBSET Nodes
  /\ InitMasters # {}
  /\ InitEpoch \in [Nodes -> 0 .. Cardinality(Nodes)]
  /\ \A n \in InitMasters : InitEpoch[n] > 0
  /\ \A m, n \in Nodes : InitEpoch[m] = InitEpoch[n] /\ InitEpoch[m] > 0 => m = n
  /\ CmdFails \in BOOLEAN /\ Crashes \in BOOLEAN
  /\ MaxPasses \in Nat

VARIABLES
  pc,       \* where the pass stands; "idle" between two passes
  bom,      \* the slots of each node, as GetClusterInfos read them
  balance,  \* Node.balance
  sn,       \* the nodes sorted by balance
  dstIdx,
  srcIdx,
  table,    \* what is left of reshardTable
  slot,     \* the slot moveSlot is working on
  status,   \* cluster.Status.Status
  passes    \* passes started so far

passVars == <<bom, balance, sn, dstIdx, srcIdx, table, slot>>
vars == <<redisVars, passVars, pc, status, passes>>

NumNodes == Cardinality(Nodes)
dst == sn[dstIdx]
src == sn[srcIdx]

PCs == {"idle", "join", "sync", "rebalance", "importing", "migrating", "keys",
        "nodeTarget", "nodeSource", "update"}

TypeOK ==
  /\ RedisTypeOK
  /\ pc \in PCs
  /\ bom \in [Nodes -> SUBSET Slots]
  /\ balance \in [Nodes -> Int]
  /\ sn \in [1 .. NumNodes -> Nodes]
  /\ dstIdx \in 1 .. NumNodes
  /\ srcIdx \in 1 .. NumNodes
  /\ table \in SUBSET Slots
  /\ slot \in Slots
  /\ status \in {"Scaling", "Failed", "Healthy"}
  /\ passes \in 0 .. MaxPasses

\* Every slot belongs to one of the old masters and each of them has some;
\* the new masters have just joined.
Init ==
  /\ \E assigned \in [Slots -> InitMasters] :
       /\ \A m \in InitMasters : \E s \in Slots : assigned[s] = m
       /\ RedisInit(assigned, InitEpoch)
  /\ bom = [n \in Nodes |-> {}]
  /\ balance = [n \in Nodes |-> 0]
  /\ sn \in {f \in [1 .. NumNodes -> Nodes] :
               \A i, j \in 1 .. NumNodes : f[i] = f[j] => i = j}
  /\ dstIdx = 1
  /\ srcIdx = NumNodes
  /\ table = {}
  /\ slot = 0
  /\ pc = "idle"
  /\ status = "Scaling"
  /\ passes = 0

-----------------------------------------------------------------------------
(***************************************************************************)
(* Reconcile up to syncCluster.                                            *)
(***************************************************************************)
\* GetClusterInfos: the pass works on the slots each node reports now.
StartPass ==
  /\ pc = "idle"
  /\ passes < MaxPasses
  /\ passes' = passes + 1
  /\ bom' = [n \in Nodes |-> Owned(n)]
  /\ pc' = "join"
  /\ UNCHANGED <<redisVars, balance, sn, dstIdx, srcIdx, table, slot, status>>

\* Mutant: the pass goes on although the nodes disagree.
JoinUnchecked ==
  /\ pc = "join"
  /\ pc' = "sync"
  /\ UNCHANGED <<redisVars, passVars, status, passes>>

\* waitForClusterJoin: a fresh set of infos must be consistent, or the pass
\* is requeued; the infos read before are the ones used after.
WaitForClusterJoin ==
  /\ pc = "join"
  /\ pc' = IF InfosConsistent(Nodes) THEN "sync" ELSE "idle"
  /\ UNCHANGED <<redisVars, passVars, status, passes>>

curMasters == {n \in Nodes : bom[n] # {}}

\* needClusterOperation compares the number of masters with slots with
\* MasterSize: when they are equal the cluster is reported healthy.
NoOperation ==
  /\ pc = "sync"
  /\ Cardinality(curMasters) = NumNodes
  /\ status' = "Healthy"
  /\ pc' = "idle"
  /\ UNCHANGED <<redisVars, passVars, passes>>

-----------------------------------------------------------------------------
(***************************************************************************)
(* RebalancedCluster.                                                      *)
(***************************************************************************)
Expected == NumSlots \div NumNodes

RawBalance(n) == Cardinality(bom[n]) - Expected

\* The sum of the balances: all the slots the masters have, less the
\* expected ones.
TotalBalance ==
  Cardinality({p \in Nodes \X Slots : p[2] \in bom[p[1]]}) - NumNodes * Expected

\* The balances left by the loop that hands the surplus out, one slot at a
\* time and round after round, to the nodes below their share.  Which of them
\* come first depends on the iteration order of a Go map.
AdjustedBalance(below, first) ==
  [n \in Nodes |->
     IF TotalBalance > 0 /\ n \in below
     THEN RawBalance(n) - TotalBalance \div Cardinality(below)
                        - (IF n \in first THEN 1 ELSE 0)
     ELSE RawBalance(n)]

\* Mutant: the remainder of the surplus is not handed out.
RemainderDropped(below) == {{}}

Firsts(below) ==
  IF TotalBalance > 0
  THEN {f \in SUBSET below : Cardinality(f) = TotalBalance % Cardinality(below)}
  ELSE {{}}

\* Mutant: srcIdx starts at len(sn) instead of len(sn)-1.
StartPastTheEnd ==
  /\ pc = "sync"
  /\ curMasters # {}
  /\ NumNodes > Cardinality(curMasters)
  /\ dstIdx' = 1
  /\ srcIdx' = NumNodes + 1
  /\ pc' = "rebalance"
  /\ UNCHANGED <<redisVars, bom, balance, sn, table, slot, status, passes>>

StartRebalance ==
  LET below == {n \in Nodes : RawBalance(n) < 0} IN
  /\ pc = "sync"
  /\ curMasters # {}
  /\ NumNodes > Cardinality(curMasters)
  /\ \E first \in Firsts(below) : balance' = AdjustedBalance(below, first)
  /\ sn' \in {f \in [1 .. NumNodes -> Nodes] :
                /\ \A i, j \in 1 .. NumNodes : f[i] = f[j] => i = j
                /\ \A i, j \in 1 .. NumNodes : i < j => balance'[f[i]] <= balance'[f[j]]}
  /\ dstIdx' = 1
  /\ srcIdx' = NumNodes
  /\ pc' = "rebalance"
  /\ UNCHANGED <<redisVars, bom, table, slot, status, passes>>

Abs(x) == IF x < 0 THEN -x ELSE x

\* How many slots go from src to dst.
NumMoved ==
  IF Abs(balance[dst]) < Abs(balance[src]) THEN Abs(balance[dst]) ELSE Abs(balance[src])

\* Mutant: one slot too many is taken from the source.
TakeOneMore(n, num) ==
  {s \in bom[n] : Cardinality({t \in bom[n] : t < s}) <= num}

\* computeReshardTable for one source: its first num slots.
ReshardTable(n, num) ==
  {s \in bom[n] : Cardinality({t \in bom[n] : t < s}) < num}

\* The head of the table becomes the slot to move.
NextSlot(t) == slot' \in t /\ \A s \in t : slot' <= s

PlanMoves ==
  /\ pc = "rebalance"
  /\ dstIdx < srcIdx
  /\ table' = ReshardTable(src, NumMoved)
  /\ \/ /\ table' = {}
        /\ pc' = "update"
        /\ slot' = slot
     \/ /\ NextSlot(table')
        /\ pc' = "importing"
  /\ UNCHANGED <<redisVars, bom, balance, sn, dstIdx, srcIdx, status, passes>>

\* RebalancedCluster returns, and Reconcile reports the cluster healthy.
FinishPass ==
  /\ pc = "rebalance"
  /\ dstIdx >= srcIdx
  /\ status' = "Healthy"
  /\ pc' = "idle"
  /\ UNCHANGED <<redisVars, passVars, passes>>

\* Mutant: the source is not left behind once it has nothing to give.
KeepSource ==
  LET b == [balance EXCEPT ![dst] = @ + NumMoved, ![src] = @ - NumMoved] IN
  /\ pc = "update"
  /\ balance' = b
  /\ dstIdx' = IF b[dst] = 0 THEN dstIdx + 1 ELSE dstIdx
  /\ pc' = "rebalance"
  /\ UNCHANGED <<redisVars, bom, sn, srcIdx, table, slot, status, passes>>

UpdateBalance ==
  LET b == [balance EXCEPT ![dst] = @ + NumMoved, ![src] = @ - NumMoved] IN
  /\ pc = "update"
  /\ balance' = b
  /\ dstIdx' = IF b[dst] = 0 THEN dstIdx + 1 ELSE dstIdx
  /\ srcIdx' = IF b[src] = 0 THEN srcIdx - 1 ELSE srcIdx
  /\ pc' = "rebalance"
  /\ UNCHANGED <<redisVars, bom, sn, table, slot, status, passes>>

-----------------------------------------------------------------------------
(***************************************************************************)
(* moveSlot.                                                               *)
(***************************************************************************)
\* An error return: syncCluster fails and the pass with it.
Failed ==
  /\ pc' = "idle"
  /\ status' = "Failed"
  /\ UNCHANGED <<passVars, passes>>

Goto(l) ==
  /\ pc' = l
  /\ UNCHANGED <<passVars, status, passes>>

\* The id sent is the target's own.
Importing ==
  /\ pc = "importing"
  /\ \/ slot \in AcceptsImporting(dst) /\ SetImporting(dst, {slot}, dst) /\ Goto("migrating")
     \/ slot \notin AcceptsImporting(dst) /\ UNCHANGED redisVars /\ Failed
     \/ CmdFails /\ (SetImporting(dst, {slot}, dst) \/ UNCHANGED redisVars) /\ Failed

\* Mutant: the source is not told that the slot migrates.
NoMigratingMark ==
  /\ pc = "migrating"
  /\ UNCHANGED redisVars
  /\ Goto("keys")

\* The id sent is the source's own.
Migrating ==
  /\ pc = "migrating"
  /\ \/ slot \in AcceptsMigrating(src) /\ SetMigrating(src, {slot}, src) /\ Goto("keys")
     \/ slot \notin AcceptsMigrating(src) /\ UNCHANGED redisVars /\ Failed
     \/ CmdFails /\ (SetMigrating(src, {slot}, src) \/ UNCHANGED redisVars) /\ Failed

\* Mutant: a failing MIGRATE is logged and the move goes on.
MigrateErrorIgnored ==
  /\ pc = "keys"
  /\ \/ KeysIn(src, slot) = {} /\ UNCHANGED redisVars
     \/ \E k \in KeysIn(src, slot) : Migrate(src, dst, k)
     \/ CmdFails /\ UNCHANGED redisVars
  /\ Goto("nodeTarget")

\* MigrateKeysInSlot: GETKEYSINSLOT and MIGRATE until no key is left.
MigrateKeysInSlot ==
  /\ pc = "keys"
  /\ \/ KeysIn(src, slot) = {} /\ UNCHANGED redisVars /\ Goto("nodeTarget")
     \/ /\ AcceptsRestore(dst, slot)
        /\ \E k \in KeysIn(src, slot) :
             \/ Migrate(src, dst, k) /\ Goto("keys")
             \/ CmdFails /\ (Migrate(src, dst, k) \/ CopyOnly(dst, k)) /\ Failed
     \/ CmdFails /\ UNCHANGED redisVars /\ Failed

\* Mutant: the source gives the slot up before the target has it.
SourceFirst ==
  /\ pc = "nodeTarget"
  /\ SetNode(src, {slot}, dst)
  /\ Goto("nodeSource")

\* SETSLOT NODE on the target, then on the source: an error is only logged.
NodeTarget ==
  /\ pc = "nodeTarget"
  /\ SetNode(dst, {slot}, dst) \/ (CmdFails /\ UNCHANGED redisVars)
  /\ Goto("nodeSource")

NodeSource ==
  /\ pc = "nodeSource"
  /\ SetNode(src, {slot}, dst) \/ (CmdFails /\ UNCHANGED redisVars)
  /\ bom' = [bom EXCEPT ![src] = @ \ {slot}]
  /\ table' = table \ {slot}
  /\ \/ table' = {} /\ pc' = "update" /\ slot' = slot
     \/ NextSlot(table') /\ pc' = "importing"
  /\ UNCHANGED <<balance, sn, dstIdx, srcIdx, status, passes>>

\* The operator stops; the next pass starts afresh.
Crash ==
  /\ Crashes
  /\ pc # "idle"
  /\ pc' = "idle"
  /\ UNCHANGED <<redisVars, passVars, status, passes>>

-----------------------------------------------------------------------------
Operator ==
  \/ StartPass \/ WaitForClusterJoin \/ NoOperation
  \/ StartRebalance \/ PlanMoves \/ UpdateBalance \/ FinishPass
  \/ Importing \/ Migrating \/ MigrateKeysInSlot \/ NodeTarget \/ NodeSource

Bus == Environment(Nodes, Nodes) /\ UNCHANGED <<passVars, pc, status, passes>>

Next == Operator \/ Crash \/ Bus

Spec == Init /\ [][Next]_vars

-----------------------------------------------------------------------------
(***************************************************************************)
(* Properties.                                                             *)
(***************************************************************************)
\* No key whose write was acknowledged disappears from the cluster while
\* moveSlot moves slots (rebalance.go:126-144), whatever command fails and
\* wherever the operator stops: in particular a master that loses a slot over
\* the bus, and so deletes the keys it has left in it, has none left.
NoKeyLoss == \A k \in acked : \E n \in Nodes : k \in keys[n]

\* A node that owns a slot which is not migrating answers for it with
\* authority: it has every acknowledged key of the slot.  README.md:55
\* promises "Safely Scaling the Redis Cluster".
NoFalseMiss ==
  \A k \in acked, n \in Nodes :
    owner[n][SlotOf[k]] = n /\ migrating[n][SlotOf[k]] = None => k \in keys[n]

\* A client that follows MOVED and ASK finds every acknowledged key, also in
\* the middle of a move: an owner that misses the key redirects to the node
\* the slot migrates to, and that node has it and accepts ASKING.
KeyReachable ==
  \A k \in acked : \E n \in Nodes :
    LET s == SlotOf[k] IN
    /\ owner[n][s] = n
    /\ \/ k \in keys[n]
       \/ \E t \in Nodes \ {n} :
            migrating[n][s] = t /\ k \in keys[t] /\ AcceptsRestore(t, s)

\* When a scale-up is reported healthy the slots are spread over all the
\* masters, each within the remainder of its even share
\* (RebalancedCluster, rebalance.go:12-85).
HealthyMeansBalanced ==
  status = "Healthy" /\ pc = "idle" =>
    \A n \in Nodes : Abs(Cardinality(Owned(n)) - Expected) <= NumSlots % NumNodes

\* A pass that has started ends: the loops of RebalancedCluster and
\* MigrateKeysInSlot terminate, also when clients write a key in between.
PassEnds == pc # "idle" ~> pc = "idle"

-----------------------------------------------------------------------------
(***************************************************************************)
(* The inductive invariant behind NoKeyLoss.  A slot has two owners for a  *)
(* while, after SETSLOT NODE on the target and before the source has heard *)
(* of it; the one with the lower configEpoch loses the slot, and its keys  *)
(* in it, when the bus reaches it.                                         *)
(***************************************************************************)
Loses(p, q, s) ==
  p # q /\ owner[p][s] = p /\ owner[q][s] = q /\ epoch[p] < epoch[q]

\* Owners have distinct, positive configEpochs.
EpochInv ==
  /\ \A n \in Nodes : epoch[n] <= currentEpoch
  /\ \A n \in Nodes, s \in Slots : owner[n][s] = n => epoch[n] > 0
  /\ \A m, n \in Nodes : epoch[m] = epoch[n] /\ epoch[m] > 0 => m = n

\* Whoever is about to lose a slot has no key in it and accepts none.
LoserInv ==
  \A p, q \in Nodes, s \in Slots :
    Loses(p, q, s) => migrating[p][s] # None /\ KeysIn(p, s) = {}

Moving == {"importing", "migrating", "keys", "nodeTarget", "nodeSource"}
Rebalancing == Moving \cup {"rebalance", "update"}

\* waitForClusterJoin saw no slot with two owners; since then only sources
\* of moves of this pass have become losers, in slots the pass is done with.
PassInv ==
  /\ pc = "sync" => \A p, q \in Nodes, s \in Slots : ~ Loses(p, q, s)
  /\ pc \in Rebalancing =>
       \A p, q \in Nodes, s \in Slots : Loses(p, q, s) =>
         /\ \E j \in srcIdx .. NumNodes : p = sn[j]
         /\ s \notin bom[p] \/ (pc = "nodeSource" /\ p = src /\ s = slot)

LoopInv ==
  /\ \A j, l \in 1 .. NumNodes : sn[j] = sn[l] => j = l
  /\ pc \in Moving \cup {"update"} => dstIdx < srcIdx
  /\ pc \in Moving => slot \in table /\ table \subseteq bom[src]

MoveInv ==
  /\ pc \in {"migrating", "keys", "nodeTarget"} =>
       importing[dst][slot] # None /\ owner[dst][slot] # dst
  /\ pc \in {"keys", "nodeTarget"} =>
       owner[src][slot] = src /\ migrating[src][slot] # None
  /\ pc = "nodeTarget" => KeysIn(src, slot) = {}

\* The inductive invariant.
IInv == /\ TypeOK /\ EpochInv /\ LoserInv /\ PassInv /\ LoopInv /\ MoveInv
        /\ NoKeyLoss
===============================================================================
