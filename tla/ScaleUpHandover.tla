--------------------------- MODULE ScaleUpHandover ----------------------------
(***************************************************************************)
(* The scale-up implements SlotHandover.  A history variable tells the     *)
(* runs of the operator that nothing disturbed from the others; the slot   *)
(* tables of the nodes, several of which may claim the same slot for a     *)
(* while, map to one holder per slot.                                      *)
(***************************************************************************)
EXTENDS ScaleUp

\* There are new masters, and a slot for each master: with fewer slots the
\* loop that hands out the surplus finds no node below its share and never ends.
ASSUME HandoverAssumption ==
  /\ InitMasters # Nodes
  /\ NumNodes <= NumSlots

VARIABLE disturbed \* has a command failed, or the operator stopped, so far?

Undisturbed == INSTANCE ScaleUp WITH CmdFails <- FALSE, Crashes <- FALSE

HInit == Init /\ disturbed = FALSE

HNext == Next /\ disturbed' = (disturbed \/ ~ Undisturbed!Next)

HVars == <<vars, disturbed>>

HSpec == HInit /\ [][HNext]_HVars

\* Go runs a pass to its end.  Clients need not write, nor the bus deliver.
HFairSpec == HSpec /\ WF_vars(Operator)

-----------------------------------------------------------------------------
\* The masters that report s as their own.
Claimants(s) == {n \in Nodes : owner[n][s] = n}

\* The holder is the claimant the others will believe: the one with the
\* greatest configEpoch.
Holder(s) ==
  IF Claimants(s) = {} THEN None
  ELSE CHOOSE n \in Claimants(s) : \A m \in Claimants(s) : epoch[m] <= epoch[n]

Found == {k \in acked : \E n \in Nodes : k \in keys[n]}

\* The slots that are left over when every master has its even share.
Spare == NumSlots % NumNodes

Promise == INSTANCE SlotHandover WITH
  Masters <- Nodes, HashSlots <- Slots, Names <- Keys, SlotOfName <- SlotOf,
  Nobody <- None, Share <- Expected, Spare <- Spare,
  holder <- [s \in Slots |-> Holder(s)], stored <- Found, calm <- ~ disturbed

\* Every step of RebalancedCluster, moveSlot, the bus and the clients, faults
\* included, is a step of SlotHandover or changes nothing of what it promises
\* (rebalance.go:12-144): although the nodes' tables disagree for a while,
\* each slot goes over at one instant, no master gives away its own share and
\* none gets more than its share and the remainder.
ImplementsHandover == Promise!HandoverSpec

\* When a scale-up that nothing disturbed is reported healthy the slots are
\* spread over all the masters, each within the remainder of its even share
\* (RebalancedCluster, rebalance.go:12-85).
CalmMeansBalanced == disturbed \/ HealthyMeansBalanced

\* As long as nothing disturbed the operator, an owner of a slot that is not
\* migrating has every acknowledged key of it (moveSlot, rebalance.go:126-144).
CalmMeansAnswered == disturbed \/ NoFalseMiss

-----------------------------------------------------------------------------
(***************************************************************************)
(* The inductive invariant of a scale-up that nothing disturbs.            *)
(***************************************************************************)
\* The moves wait for the source alone: its target owns the slot as well.
HandedOver(n, s) == pc = "nodeSource" /\ n = src /\ s = slot

\* The slots a master answers for.
Holds(n) == {s \in Owned(n) : ~ HandedOver(n, s)}

\* Every slot has one owner, or a source that lost it and a target that won.
ClaimsInv ==
  /\ \A n \in Nodes, s \in Slots : migrating[n][s] \in {n, None}
  /\ \A s \in Slots : \E n \in Nodes : s \in Holds(n)
  /\ \A m, n \in Nodes, s \in Slots : s \in Holds(m) /\ s \in Holds(n) => m = n
  /\ pc = "nodeSource" => slot \in Holds(dst) /\ epoch[src] < epoch[dst]

\* Acknowledged keys are with the master that answers for their slot, or on
\* their way to the next.
KeysInv ==
  \A k \in acked, n \in Nodes : SlotOf[k] \in Holds(n) =>
    \/ k \in keys[n]
    \/ pc \in {"keys", "nodeTarget"} /\ n = src /\ SlotOf[k] = slot /\ k \in keys[dst]

\* What GetClusterInfos read is still true of the nodes that got no slot.
BomInv ==
  /\ pc \in {"join", "sync"} => \A n \in Nodes : bom[n] = Holds(n)
  /\ pc \in Rebalancing =>
       \A j \in 1 .. NumNodes : dstIdx < j =>
         Holds(sn[j]) = {s \in bom[sn[j]] : ~ HandedOver(sn[j], s)}

\* The slots of the current pair that have gone over already.
Moved ==
  IF pc = "update" THEN NumMoved
  ELSE IF pc = "nodeSource" THEN NumMoved - Cardinality(table) + 1
  ELSE IF pc \in Moving THEN NumMoved - Cardinality(table)
  ELSE 0

\* The slots node n will have when its balance is 0.
Quota(n) ==
  Cardinality(Holds(n)) - balance[n]
    + (IF n = src THEN Moved ELSE 0) - (IF n = dst THEN Moved ELSE 0)

\* What the balances aim at is the even share, or up to Spare more.
QuotaInv ==
  pc \in Rebalancing => \A n \in Nodes :
    /\ Expected <= Quota(n)
    /\ Quota(n) <= Expected + Spare

\* The sum of f, for natural numbers: so many units in all.
Units(f) == UNION {{n} \X (1 .. f[n]) : n \in Nodes}
Sum(f) == Cardinality(Units(f))
Surplus(b) == [n \in Nodes |-> IF b[n] > 0 THEN b[n] ELSE 0]
Deficit(b) == [n \in Nodes |-> IF b[n] < 0 THEN - b[n] ELSE 0]

\* The surplus is what the others lack; nothing is left to do outside the two
\* indexes, and between them those who lack slots come first.
BalanceInv ==
  /\ pc \in Rebalancing =>
       /\ Sum(Surplus(balance)) = Sum(Deficit(balance))
       /\ \A i \in 1 .. NumNodes : i < dstIdx \/ srcIdx < i => balance[sn[i]] = 0
       /\ \A i, j \in 1 .. NumNodes : i < j /\ balance[sn[j]] < 0 => balance[sn[i]] <= 0
  /\ pc \in Moving => Cardinality(table) <= NumMoved

\* Between two rebalancings a cluster that is not healthy has an empty master,
\* so that the next pass does not take it for one that needs nothing.
StatusInv ==
  pc \in {"idle", "join", "sync"} =>
    IF status = "Healthy"
    THEN \A n \in Nodes : /\ Expected <= Cardinality(Holds(n))
                         /\ Cardinality(Holds(n)) <= Expected + Spare
    ELSE \E n \in Nodes : Holds(n) = {}

CalmInv == ClaimsInv /\ KeysInv /\ BomInv /\ QuotaInv /\ BalanceInv /\ StatusInv

\* The inductive invariant of the refinement (RebalancedCluster and moveSlot,
\* rebalance.go:12-144): as long as nothing disturbed the operator.
HInv == disturbed \/ CalmInv
===============================================================================
