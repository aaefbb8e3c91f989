------------------------------ MODULE ScaleDown -------------------------------
(***************************************************************************)
(* Scaling down: the passes of Reconcile that find more masters with slots *)
(* than MasterSize.  DispatchSlotToNewMasters moves the slots away, group  *)
(* of slots by group of slots, then scalingDown forgets the nodes of the   *)
(* last StatefulSets and deletes what belongs to them.  Node i is the      *)
(* master of StatefulSet i.                                                *)
(***************************************************************************)
EXTENDS RedisSlots, SlotDispatch

CONSTANTS
  Expect,      \* Spec.MasterSize
  CmdFails,    \* may a command fail, or its reply get lost?
  Crashes,     \* may the operator stop in the middle of a pass?
  Assignments, \* who may own the slots at the start; None has lost slots
  MaxPasses    \* bound: passes of Reconcile

ASSUME ScaleDownAssumption ==
  /\ Expect \in Nat \ {0}
  /\ IsFiniteSet(Nodes)
  /\ Nodes = 0 .. Cardinality(Nodes) - 1
  /\ Nowhere \notin Nodes
  /\ Assignments \subseteq [Slots -> Nodes \cup {None}]
  /\ CmdFails \in BOOLEAN /\ Crashes \in BOOLEAN
  /\ MaxPasses \in Nat

VARIABLES
  sts,      \* the StatefulSets that exist, with their pods and volumes
  members,  \* the nodes that the others know
  pc,       \* where the pass stands; "idle" between two passes
  bom,      \* the slots of each node as the pass knows them
  current,  \* the masters that had slots when the pass read the infos
  plan,     \* the groups of slots still to move
  group,    \* the group being moved
  rest,     \* the masters still to be told about it
  i,        \* the StatefulSet scalingDown is at
  status,   \* cluster.Status.Status
  passes,   \* passes started so far
  stopped   \* history: has the operator stopped in the middle of a pass?

passVars == <<bom, current, plan, group, rest, i>>
vars == <<redisVars, sts, members, passVars, pc, status, passes, stopped>>

NoGroup == [from |-> Nowhere, to |-> Nowhere, slots |-> {}]

TypeOK ==
  /\ RedisTypeOK
  /\ sts \in SUBSET Nodes
  /\ members \in SUBSET sts
  /\ bom \in [Nodes -> SUBSET Slots]
  /\ current \in SUBSET Nodes
  /\ plan \in SUBSET [from : Nodes \cup {Nowhere}, to : Nodes, slots : SUBSET Slots]
  /\ group \in [from : Nodes \cup {Nowhere}, to : Nodes \cup {Nowhere}, slots : SUBSET Slots]
  /\ rest \in SUBSET Nodes
  /\ i \in -1 .. Cardinality(Nodes)
  /\ status \in {"Rebalancing", "Failed", "Healthy"}
  /\ passes \in 0 .. MaxPasses
  /\ stopped \in BOOLEAN
  /\ pc \in {"idle", "join", "sync", "dispatch", "addSlots", "importing", "migrating",
             "keys", "nodeTo", "nodeFrom", "tell", "remove", "forget", "delete"}

Init ==
  /\ \E assigned \in Assignments :
       /\ \A m \in Nodes : \E s \in Slots : assigned[s] = m
       /\ RedisInit(assigned, [n \in Nodes |-> n + 1])
  /\ sts = Nodes
  /\ members = Nodes
  /\ bom = [n \in Nodes |-> {}]
  /\ current = {} /\ plan = {} /\ group = NoGroup /\ rest = {} /\ i = 0
  /\ pc = "idle"
  /\ status = "Rebalancing"
  /\ passes = 0
  /\ stopped = FALSE

-----------------------------------------------------------------------------
(***************************************************************************)
(* Reconcile up to syncCluster.                                            *)
(***************************************************************************)
StartPass ==
  /\ pc = "idle"
  /\ passes < MaxPasses
  /\ passes' = passes + 1
  /\ bom' = [n \in Nodes |-> IF n \in sts THEN Owned(n) ELSE {}]
  /\ current' = {n \in sts : Owned(n) # {}}
  /\ pc' = "join"
  /\ UNCHANGED <<redisVars, sts, members, plan, group, rest, i, status, stopped>>

\* Nodes that do not know each other, or disagree, are sent CLUSTER MEET; the
\* pass goes on only if they agree afterwards.
WaitForClusterJoin ==
  /\ pc = "join"
  /\ members' = sts
  /\ pc' = IF InfosConsistent(sts) THEN "sync" ELSE "idle"
  /\ UNCHANGED <<redisVars, sts, passVars, status, passes, stopped>>

\* NumberOfMaster = MasterSize: nothing to do, the cluster is healthy.
NoOperation ==
  /\ pc = "sync"
  /\ Cardinality(current) = Expect
  /\ status' = "Healthy"
  /\ pc' = "idle"
  /\ UNCHANGED <<redisVars, sts, members, passVars, passes, stopped>>

\* The plan of DispatchSlotToNewMasters, for some iteration order of the maps.
PlanDispatch ==
  /\ pc = "sync"
  /\ Cardinality(current) > Expect
  /\ \E new \in SetToSeqs(0 .. Expect - 1), old \in SetToSeqs(current),
        order \in SetToSeqs(current \cup {Nowhere}) :
       plan' = feedMigInfo(bom, new, old, NumSlots, order)
  /\ pc' = "dispatch"
  /\ UNCHANGED <<redisVars, sts, members, bom, current, group, rest, i, status, passes, stopped>>

-----------------------------------------------------------------------------
(***************************************************************************)
(* DispatchSlotToNewMasters.                                               *)
(***************************************************************************)
from == group.from
to == group.to

Goto(l) ==
  /\ pc' = l
  /\ UNCHANGED <<sts, members, passVars, status, passes, stopped>>

Failed ==
  /\ pc' = "idle"
  /\ status' = "Failed"
  /\ UNCHANGED <<sts, members, passVars, passes, stopped>>

NextGroup ==
  /\ pc = "dispatch"
  /\ \E g \in plan :
       /\ group' = g
       /\ plan' = plan \ {g}
       /\ pc' = IF g.from = Nowhere THEN "addSlots" ELSE "importing"
  /\ UNCHANGED <<redisVars, sts, members, bom, current, rest, i, status, passes, stopped>>

\* The last statement of the loop: the target has the slots of the group.
GroupDone ==
  /\ bom' = [bom EXCEPT ![to] = @ \cup group.slots]
  /\ pc' = "dispatch"

\* Slots "probably lost during scale down" are added to the target.  A command
\* that fails may have been executed.
AddLostSlots ==
  /\ pc = "addSlots"
  /\ \/ /\ AcceptsAddSlots(to, group.slots)
        /\ AddSlots(to, group.slots)
        /\ GroupDone
        /\ UNCHANGED <<sts, members, current, plan, group, rest, i, status, passes, stopped>>
     \/ ~ AcceptsAddSlots(to, group.slots) /\ UNCHANGED redisVars /\ Failed
     \/ CmdFails /\ UNCHANGED redisVars /\ Failed
     \/ CmdFails /\ AcceptsAddSlots(to, group.slots) /\ AddSlots(to, group.slots) /\ Failed

\* Mutant: the source is given its own id, as moveSlot does when it scales up.
MigratingToSelf ==
  /\ pc = "migrating"
  /\ SetMigrating(from, group.slots, from)
  /\ Goto("keys")

Importing ==
  /\ pc = "importing"
  /\ \/ group.slots \subseteq AcceptsImporting(to) /\ SetImporting(to, group.slots, from) /\ Goto("migrating")
     \/ ~ (group.slots \subseteq AcceptsImporting(to)) /\ SetImporting(to, group.slots, from) /\ Failed
     \/ CmdFails /\ (\E P \in SUBSET group.slots : SetImporting(to, P, from)) /\ Failed

Migrating ==
  /\ pc = "migrating"
  /\ \/ group.slots \subseteq AcceptsMigrating(from) /\ SetMigrating(from, group.slots, to) /\ Goto("keys")
     \/ ~ (group.slots \subseteq AcceptsMigrating(from)) /\ SetMigrating(from, group.slots, to) /\ Failed
     \/ CmdFails /\ (\E P \in SUBSET group.slots : SetMigrating(from, P, to)) /\ Failed

GroupKeys == {k \in keys[from] : SlotOf[k] \in group.slots}

\* Mutant: only the first slot of the group is emptied.
FirstSlotOnly ==
  /\ pc = "keys"
  /\ \/ UNCHANGED redisVars /\ GroupKeys = {} /\ Goto("nodeTo")
     \/ \E k \in GroupKeys : Migrate(from, to, k) /\ Goto("nodeTo")

\* MigrateKeys: slot after slot until none has a key left.  An error is only
\* logged, and the next command sent.
MigrateKeys ==
  /\ pc = "keys"
  /\ \/ GroupKeys = {} /\ UNCHANGED redisVars /\ Goto("nodeTo")
     \/ \E k \in GroupKeys :
          /\ \A j \in GroupKeys : SlotOf[k] <= SlotOf[j]
          /\ IF AcceptsRestore(to, SlotOf[k])
             THEN \/ Migrate(from, to, k) /\ Goto("keys")
                  \/ CmdFails /\ (Migrate(from, to, k) \/ CopyOnly(to, k)) /\ Goto("nodeTo")
             ELSE UNCHANGED redisVars /\ Goto("nodeTo")
     \/ CmdFails /\ UNCHANGED redisVars /\ Goto("nodeTo")

\* Mutant: the old owner is told before the new one.
OldOwnerFirst ==
  /\ pc = "nodeTo"
  /\ SetNode(from, group.slots, to)
  /\ Goto("nodeFrom")

\* SETSLOT NODE on the new owner first; errors are warnings from here on.
NodeTo ==
  /\ pc = "nodeTo"
  /\ \/ SetNode(to, group.slots, to)
     \/ CmdFails /\ \E P \in SUBSET group.slots : SetNode(to, P, to)
  /\ Goto("nodeFrom")

\* Mutant: the pass forgets that the slots have left.
SlotsKept ==
  /\ pc = "nodeFrom"
  /\ SetNode(from, group.slots, to)
  /\ rest' = (current \cup 0 .. Expect - 1) \ {from, to}
  /\ pc' = "tell"
  /\ UNCHANGED <<sts, members, bom, current, plan, group, i, status, passes, stopped>>

NodeFrom ==
  /\ pc = "nodeFrom"
  /\ \/ SetNode(from, group.slots, to)
     \/ CmdFails /\ \E P \in SUBSET group.slots : SetNode(from, P, to)
  /\ bom' = [bom EXCEPT ![from] = @ \ group.slots]
  /\ rest' = {m \in (current \cup 0 .. Expect - 1) \ {from, to} : bom'[m] # {}}
  /\ pc' = "tell"
  /\ UNCHANGED <<sts, members, current, plan, group, i, status, passes, stopped>>

\* The other masters that still have slots are told.
Tell ==
  /\ pc = "tell"
  /\ \E m \in rest :
       /\ \/ SetNode(m, group.slots, to)
          \/ CmdFails /\ \E P \in SUBSET group.slots : SetNode(m, P, to)
       /\ rest' = rest \ {m}
  /\ UNCHANGED <<sts, members, bom, current, plan, group, i, pc, status, passes, stopped>>

EndGroup ==
  /\ pc = "tell"
  /\ rest = {}
  /\ GroupDone
  /\ UNCHANGED <<redisVars, sts, members, current, plan, group, rest, i, status, passes, stopped>>

-----------------------------------------------------------------------------
(***************************************************************************)
(* scalingDown: StatefulSets len(curMasters)-1 down to MasterSize.         *)
(***************************************************************************)
\* Mutant: the loop starts one StatefulSet too low.
StartOneTooLow ==
  /\ pc = "dispatch"
  /\ plan = {}
  /\ i' = Cardinality(current) - 2
  /\ status' = "Rebalancing"
  /\ pc' = "remove"
  /\ UNCHANGED <<redisVars, sts, members, bom, current, plan, group, rest, passes, stopped>>

StartScalingDown ==
  /\ pc = "dispatch"
  /\ plan = {}
  /\ i' = Cardinality(current) - 1
  /\ status' = "Rebalancing"
  /\ pc' = "remove"
  /\ UNCHANGED <<redisVars, sts, members, bom, current, plan, group, rest, passes, stopped>>

\* GetStatefulSet, then the check that the node has no slot left.
CheckEmpty ==
  /\ pc = "remove"
  /\ i >= Expect
  /\ \/ i \in sts /\ bom[i] = {} /\ UNCHANGED redisVars /\ Goto("forget")
     \/ (i \notin sts \/ bom[i] # {} \/ CmdFails) /\ UNCHANGED redisVars /\ Failed

\* The nodes whose connections scalingDown has not removed.
Connected == sts \ (Expect .. Cardinality(current) - 1)

\* Mutant: the StatefulSet goes without its node being forgotten.
SkipForget ==
  /\ pc = "forget"
  /\ UNCHANGED redisVars
  /\ Goto("delete")

\* ForgetNode: its errors are only logged.
ForgetNode ==
  /\ pc = "forget"
  /\ \E N \in (IF CmdFails THEN SUBSET Connected ELSE {Connected}) : Forget(N, i)
  /\ members' = members \ {i}
  /\ pc' = "delete"
  /\ UNCHANGED <<sts, passVars, status, passes, stopped>>

\* The StatefulSet, its Service, budget and volumes go; an error is logged.
DeleteStatefulSet ==
  /\ pc = "delete"
  /\ \/ /\ sts' = sts \ {i}
        /\ keys' = [keys EXCEPT ![i] = {}]
     \/ CmdFails /\ UNCHANGED <<sts, keys>>
  /\ i' = i - 1
  /\ pc' = "remove"
  /\ UNCHANGED <<tables, acked, members, bom, current, plan, group, rest, status, passes, stopped>>

\* The pass ends and the cluster is reported healthy.
FinishPass ==
  /\ pc = "remove"
  /\ i < Expect
  /\ status' = "Healthy"
  /\ pc' = "idle"
  /\ UNCHANGED <<redisVars, sts, members, passVars, passes, stopped>>

Crash ==
  /\ Crashes
  /\ pc # "idle"
  /\ pc' = "idle"
  /\ stopped' = TRUE
  /\ UNCHANGED <<redisVars, sts, members, passVars, status, passes>>

-----------------------------------------------------------------------------
Operator ==
  \/ StartPass \/ WaitForClusterJoin \/ NoOperation \/ PlanDispatch
  \/ NextGroup \/ AddLostSlots \/ Importing \/ Migrating \/ MigrateKeys
  \/ NodeTo \/ NodeFrom \/ Tell \/ EndGroup
  \/ StartScalingDown \/ CheckEmpty \/ ForgetNode \/ DeleteStatefulSet \/ FinishPass

Bus == Environment(sts, members) /\ UNCHANGED <<sts, members, passVars, pc, status, passes, stopped>>

Next == Operator \/ Crash \/ Bus

Spec == Init /\ [][Next]_vars

\* Go runs a pass to its end and the request is served again every minute.
FairSpec == Spec /\ WF_vars(Operator)

-----------------------------------------------------------------------------
(***************************************************************************)
(* Properties.                                                             *)
(***************************************************************************)
\* No acknowledged key disappears: neither over the bus, when a master loses
\* a slot it still has keys in, nor with the StatefulSet that scalingDown
\* deletes.  README.md:55 promises "Safely Scaling the Redis Cluster".
NoKeyLoss == \A k \in acked : \E n \in sts : k \in keys[n]

\* As long as the operator does not stop, a node that owns a slot which is
\* not migrating has every acknowledged key of the slot, so its "no such key"
\* can be believed (migration.go:64-130).
NoFalseMiss ==
  \A k \in acked, n \in sts :
    ~ stopped /\ owner[n][SlotOf[k]] = n /\ migrating[n][SlotOf[k]] = None
      => k \in keys[n]

\* As long as the operator does not stop, a client that follows MOVED and ASK
\* finds every acknowledged key at any moment of the move.
KeyReachable ==
  stopped \/ \A k \in acked : \E n \in sts :
    LET s == SlotOf[k] IN
    /\ owner[n][s] = n
    /\ \/ k \in keys[n]
       \/ \E t \in sts \ {n} :
            migrating[n][s] = t /\ k \in keys[t] /\ AcceptsRestore(t, s)

\* A slot that a running node believes assigned is owned by a running node,
\* also after the operator has stopped anywhere and started again: the
\* comment at migration.go:92 demands that the owner is set first because
\* of this ("otherwise in case of manager crash ... creating a cluster view
\* discrepency").
SlotOwned ==
  \A s \in Slots :
    (\E n \in sts : owner[n][s] # None) => (\E n \in sts : owner[n][s] = n)

\* A scale-down that is reported healthy without having been stopped is
\* complete: the StatefulSets beyond MasterSize are gone (scalingDown,
\* sync_handler.go:256-314).
HealthyMeansScaledDown ==
  ~ stopped /\ status = "Healthy" /\ pc = "idle" => sts = 0 .. Expect - 1

\* Unless the operator is stopped the scale-down comes to its end, whatever
\* the slots were, lost ones included, and although clients go on writing:
\* MigrateKeys runs dry, and the last masters come out of the plan empty, so
\* that CheckEmpty lets them go (sync_handler.go:263-283).
ScaleDownEnds ==
  <>(stopped \/ (status = "Healthy" /\ sts = 0 .. Expect - 1))

-----------------------------------------------------------------------------
(***************************************************************************)
(* The inductive invariant, for commands that do not fail.                 *)
(***************************************************************************)
\* The masters that stay.
Staying == 0 .. Expect - 1

Grouping == {"addSlots", "importing", "migrating", "keys", "nodeTo", "nodeFrom", "tell"}
Dispatching == Grouping \cup {"dispatch"}
Removing == {"remove", "forget", "delete"}

\* The groups that are not moved yet.
Todo == plan \cup (IF pc \in Grouping THEN {group} ELSE {})

Owners(p, q, s) == p # q /\ owner[p][s] = p /\ owner[q][s] = q

Loses(p, q, s) == Owners(p, q, s) /\ epoch[p] < epoch[q]

\* configEpochs are distinct and positive; slots migrate to masters that stay.
MarksInv ==
  /\ \A n \in Nodes : epoch[n] > 0 /\ epoch[n] <= currentEpoch
  /\ \A m, n \in Nodes : epoch[m] = epoch[n] => m = n
  /\ \A n \in Nodes, s \in Slots : migrating[n][s] \in Staying \cup {None}

\* Whoever is about to lose a slot has no key in it and accepts none.
LoserInv ==
  \A p, q \in sts, s \in Slots :
    Loses(p, q, s) => migrating[p][s] # None /\ KeysIn(p, s) = {}

\* A master that goes has no keys but those of its slots.
LeaverInv ==
  \A n \in sts \ Staying : \A k \in keys[n] : owner[n][SlotOf[k]] = n

\* A slot with acknowledged keys has an owner.
AckedOwned == \A k \in acked : \E n \in sts : owner[n][SlotOf[k]] = n

\* waitForClusterJoin saw no slot with two owners; since then only the slots
\* of the group have two, between SETSLOT NODE on the new owner and on the old.
PassInv ==
  /\ \A n \in Nodes : n \in Staying => n \in sts
  /\ pc \notin {"idle", "join"} => \A p, q \in sts, s \in Slots : Owners(p, q, s) =>
       pc = "nodeFrom" /\ s \in group.slots /\ {p, q} = {from, to}
  /\ pc # "idle" => \A n \in sts : Owned(n) \subseteq
       bom[n] \cup (IF pc \in {"nodeFrom", "tell"} /\ n = to THEN group.slots ELSE {})
  /\ pc \in {"join", "sync"} \cup Dispatching => current \subseteq sts
  /\ pc \in {"join", "sync"} => \A n \in sts \ current : bom[n] = {}
  /\ pc \in Removing => Expect <= i + 1 /\ i < Cardinality(current)
  /\ pc \in {"forget", "delete"} => i \in sts \ Staying /\ bom[i] = {}
  /\ pc = "delete" => i \notin members

\* The lost slots are in one group each, and have no owner until they are added.
PlanInv ==
  pc \in Dispatching =>
    /\ Staying \subseteq Nodes /\ Cardinality(current) > Expect
    /\ \A g \in Todo : /\ g.to \in Staying /\ g.from # g.to /\ g.slots # {}
                       /\ g.from \in current \cup {Nowhere}
    /\ \A g, h \in Todo : g.from = Nowhere /\ g.slots \cap h.slots # {} => g = h
    /\ \A g \in Todo : g.from = Nowhere =>
         \A s \in g.slots, n \in sts : owner[n][s] # n
    /\ pc \in Grouping => group \notin plan /\ (from = Nowhere <=> pc = "addSlots")

MoveInv ==
  /\ pc \in {"migrating", "keys", "nodeTo"} => \A s \in group.slots :
       importing[to][s] # None /\ owner[to][s] # to
  /\ pc \in {"keys", "nodeTo"} => \A s \in group.slots : owner[from][s] = from
  /\ pc \in {"keys", "nodeTo", "nodeFrom"} => \A s \in group.slots : migrating[from][s] = to
  /\ pc = "nodeTo" => GroupKeys = {}
  /\ pc = "nodeFrom" => epoch[from] < epoch[to]
  /\ pc \in {"nodeFrom", "tell"} => \A s \in group.slots : owner[to][s] = to
  /\ pc = "tell" => rest \subseteq sts \ {from, to}

IInv == /\ TypeOK /\ MarksInv /\ LoserInv /\ LeaverInv /\ PassInv /\ PlanInv /\ MoveInv
        /\ SlotOwned /\ AckedOwned /\ NoKeyLoss

\* Unless the operator stopped: every slot that is to be moved is with its
\* source, and the masters that go have no slot that is not to be moved.
SourcesInv ==
  /\ \A p, q \in sts, s \in Slots : Owners(p, q, s) => pc = "nodeFrom"
  /\ pc \in {"join", "sync"} => \A n \in sts : bom[n] = Owned(n)
  /\ pc \in Dispatching =>
       /\ \A g, h \in Todo : g.slots \cap h.slots # {} => g = h
       /\ \A g \in Todo : g.from = Nowhere \/ g.slots \subseteq Owned(g.from)
                          \/ (g = group /\ pc \in {"nodeFrom", "tell"})
       /\ \A n \in Nodes \ Staying : \A s \in bom[n] :
            \E g \in Todo : g.from = n /\ s \in g.slots
  /\ pc = "tell" => group.slots \cap bom[from] = {}
  /\ pc \in Removing => \A n \in Nodes \ Staying : bom[n] = {}

\* ... acknowledged keys are with the owner of their slot or on their way.
KeysInv ==
  /\ \A k \in acked, n \in sts : owner[n][SlotOf[k]] = n =>
       \/ k \in keys[n]
       \/ /\ pc \in {"keys", "nodeTo", "nodeFrom"} /\ n = from
          /\ SlotOf[k] \in group.slots /\ k \in keys[to]
  /\ \A n \in Nodes, s \in Slots : migrating[n][s] # None =>
       pc \in {"keys", "nodeTo", "nodeFrom"} /\ n = from /\ s \in group.slots
  /\ pc = "nodeFrom" => \A s \in group.slots : KeysIn(from, s) = {}

\* ... no pass has failed: all or none of the StatefulSets are gone between
\* two scale-downs, and scalingDown has removed those above i.
StatusInv ==
  /\ pc \in {"idle", "join", "sync"} =>
       IF status = "Healthy" THEN sts = Staying
       ELSE sts = Nodes /\ \A n \in Nodes : Owned(n) # {}
  /\ pc \in Dispatching => sts = Nodes /\ current = Nodes
  /\ pc \in Removing => sts = 0 .. i /\ current = Nodes

CalmInv == stopped \/ (SourcesInv /\ KeysInv /\ StatusInv)

\* The inductive invariant: what holds wherever the operator stops, and what
\* holds until it does (migration.go:56-174, sync_handler.go:256-314).
Inv == IInv /\ CalmInv
===============================================================================
