# A TLA+ model of the redis-cluster-operator

The operator runs Redis Clusters on Kubernetes. A user writes a
`DistributedRedisCluster` (DRC) or a `RedisClusterBackup`; two controllers
reconcile them, by writing StatefulSets and other resources and by sending
commands to the Redis nodes. This directory models the parts of the operator
that decide whether data survives: forming a cluster and healing it, moving
slots when it is scaled, changing its password, restoring from a backup and
taking one. TLC checks the models on small instances; TLAPS proves for
instances of any size every invariant and action property that TLC checks. What
must eventually happen is checked by TLC only.

## The system

| part | state it keeps | operations | hard behaviour |
|---|---|---|---|
| `distributedrediscluster` controller (`Reconcile`, `ensureCluster`, `syncCluster`, `scalingDown`) | the DRC's spec and status; nothing between two passes | one pass: ensure resources, wait for pods, read the cluster, heal, join, restore, scale, report | a pass may stop anywhere; the next one starts from what it can observe; the DRC comes from a cache |
| `clustering` (`RebalancedCluster`, `DispatchSlotToNewMasters`, placement) | node list, balances, plan of a pass | plan the slots, move them | loops over integer shares, map order, errors that are logged only |
| `redisutil` (`Admin`, `ClusterInfos`) | connections | CLUSTER, MIGRATE, CONFIG commands; comparing the nodes' views | commands fail or lose their reply; nodes disagree for a while |
| Redis (external) | slot tables, configEpochs, keys | executes commands, gossips, serves clients | two owners of a slot; the one that loses deletes its keys |
| `manager`, `resources`, `k8sutil` | StatefulSets, ConfigMaps, Services, PDBs | create, compare, update | updates without a version check; partial loops |
| restore (in the DRC controller) | `Status.Restore.Phase`, the restore ConfigMap, init containers | "" → Running → Restart → Succeeded | two writes that belong together; events that do not come |
| `redisclusterbackup` controller | the backup's phase and label, a Job | `create`, `handleBackupJob` | concurrent workers, stale caches, retries |
| joining and placement (`waitForClusterJoin`, `placement_v2.go`, `AllocSlots`) | the masters chosen in this pass | MEET, choose masters, REPLICATE, ADDSLOTS | chooses anew in every pass, in the order of Go maps, on nodes an earlier pass left half attached |
| `heal` | none | forget failed and untrusted nodes, delete stuck pods | acts on infos that may be partial; ghosts come back by gossip |
| password reset | StatefulSets, Secret, nodes, a file in every pod | change the password node by node, then roll the pods | not idempotent; two passwords in use at a time |

What makes them correct: no acknowledged write is lost and every key can be
found while slots move; every slot ends up with one owner; a cluster forms, and
no live node is thrown out of it; a changed password reaches every node; a
status that says "done" means it; a restore loads every shard once and ends; a
backup's phase tells the truth and stays.

`PROJECT.json` lists the components with what is left out, and the hazards with
the properties that watch them.

## Modules

| module | models | checked by |
|---|---|---|
| `RedisSlots` | slot tables, keys and epochs of the masters; the commands `Admin` sends; clients and gossip | through the two below |
| `ScaleUp` | passes of `Reconcile` with `RebalancedCluster` and `moveSlot` | `MCScaleUp` |
| `SlotHandover` | what a scale-up promises: the abstract specification | through the next |
| `ScaleUpHandover` | the refinement: `ScaleUp` implements `SlotHandover` | `MCScaleUp` |
| `SlotDispatch` | the pure planning of `feedMigInfo` | through the two below |
| `DispatchPlan` | one plan, made and carried out | `MCSlotDispatch` |
| `ScaleDown` | passes with `DispatchSlotToNewMasters` and `scalingDown` | `MCScaleDown` |
| `Formation` | passes that join nodes, heal, choose masters, attach replicas and allocate slots | `MCFormation` |
| `PasswordReset` | passes that change the password, and the rolling update they cause | `PasswordReset` |
| `Restore` | passes over a DRC created from a backup | `Restore` |
| `Backup` | passes of the backup controller | `Backup` |
| `ScaleUpProofs` | theorems about `ScaleUp` and `ScaleUpHandover` | tlapm |
| `SlotDispatchProofs`, `DispatchPlanProofs`, `ScaleDownProofs`, `FormationProofs`, `PasswordResetProofs`, `RestoreProofs`, `BackupProofs` | theorems about the module they are named after | tlapm |

`ScaleUp` and `ScaleDown` extend `RedisSlots`; `ScaleDown` and `DispatchPlan`
extend `SlotDispatch`.

**RedisSlots.** `owner[n][s]` is n's own slot table, so nodes can disagree.
`SetImporting`, `SetMigrating`, `SetNode`, `AddSlots`, `Forget` and `Migrate`
are the commands of `admin.go`, with the refusals of Redis (`Accepts...`).
`Gossip(p, q)` is p hearing q's claims: a claim with a higher configEpoch wins,
and p deletes the keys it had in a slot it loses. `ClientWrite` and
`ClientAskWrite` create keys where a real client would succeed. These are
external to the repository and marked so. Replicas, failover and resharding by
hand are not modelled.

**ScaleUp.** One action per command of `moveSlot`, because a pass can stop
between any two; `bom`, `balance`, `sn`, `dstIdx`, `srcIdx` and `table` are the
locals of `RebalancedCluster`. The balance loop of lines 24-32 visits a Go map,
so which nodes come first is a choice (`Firsts`), and so is the order of equal
balances in the sort. A failing command either took effect or not.

**SlotHandover and ScaleUpHandover.** The abstract specification knows one
holder per slot and the set of stored keys. Slots are handed over one at a
time, from a master with more than its share to one with less; no stored key is
dropped. In `ScaleUp` several nodes may claim a slot for a while; the mapping
takes for the holder the claimant with the greatest configEpoch, the one the
others will believe, so a slot goes over at the SETSLOT NODE on its target. A
history variable `disturbed` records the first failing command or stop. After it
the abstract specification no longer promises shares, and a slot may lose its
holder; the keys stay.

**SlotDispatch, DispatchPlan and ScaleDown.** A plan is a function of the slots
each master has and of the orders in which Go visits its maps. The two loops of
`buildSlotByNodeFromAvailableSlots` visit the slots to place one after the
other (`Visits`, `Turn`); `Filled` gives, after every number of turns, the master
that is being filled and how many slots each has, by recursion on the turns.
`DispatchPlan` tries every order and moves every group of the plan, with nobody
in its way. `ScaleDown` executes a plan group by group: a group's SETSLOTs go out in a
pipeline, where each slot may be refused on its own, and `MigrateKeys` moves
the keys of the whole group. Then the nodes are forgotten and the StatefulSets
deleted one at a time. A command that fails took effect or not. Deleting a
StatefulSet with its Service, PodDisruptionBudget and volumes is one step, of
which only the StatefulSet is state: errors of the others are logged, and no
later pass looks at them.

**Formation.** It starts with running pods: either a new cluster, whose
`MasterSize` the user may have lowered below the number of StatefulSets, or a
formed one that gets one more replica while a node still lists a ghost of an
earlier scale-down. `known`, `meets`, `ghost` and `failed` are the nodes' lists,
`ref` and `slots` their roles. `conn` is what `NewAdminConnections` reached.
The pass goes through `Heal`, `waitForClusterJoin`, `SetConfigIfNeed`, the
status, `DispatchMasters`, `AttachingSlavesToMaster` and `AllocSlots`;
`PlaceMasters` chooses among the nodes a Go map may yield first. A REPLICATE or
ADDSLOTS is one action; MEET and CONFIG SET go to all nodes in one action, of
which the last may fail (a pass that stops before the first is a stop).
Gossip goes in whole rounds. `RebalancedCluster` appears by its outcome, for
clusters whose allocation broke off; scaling down is left to `ScaleDown`.
Failovers are not modelled here.

**PasswordReset.** Each StatefulSet's template names a Secret; each pod has the
one it was started with, its `requirepass` and `masterauth`, and the file that
the preStop hook uses. The operator changes files, then nodes, over connections
made with the password the first StatefulSet names, then templates. Kubernetes
rolls the pods from the last to the first; a master that stops asks a replica
to take over, the first one in its `nodes.conf`, which works if its file
has that replica's password.

**Restore.** `api` is the stored DRC, `cache` the informer's copy, `mem` the
instance in the pass and `base` the version it was read at. A status write
stores the phase only, a spec write the spec only; both fail if `base` is not
the stored version and both replace `mem` by the answer. That is how the
replicas the pass cleared in memory come back. The watch lets only changes of
the generation through. StatefulSets are their number of pods and whether they
have the init container; pods start, roll, scale and restart on their own, all
pods of a StatefulSet stopping in one step: only the first one's start touches
data. A request that fails ends the pass (`ApiError`), and unlike a stop
(`Crash`) it may drop the request and leaves the cache as it is. The readiness
check leaves out `CurrentReplicas` (`checker.go:52`), which only lets passes go
on earlier than they would. Volumes are persistent.

**Backup.** One pass per backup at a time, at most `Workers` together. `seen`
is the copy the pass works on; a write succeeds if it equals what is stored and
the API server has no error, which may also lose the answer. Every pass checks
anew what the backup needs: its spec and cluster (`Validate`), the secret, the
bucket and what the Job is made from (`Run`). Each check may turn it down,
whatever it said before. Most callers of `markAsFailedBackup` lose its error
(`Refuse`), one returns it (`RefuseOrRetry`). The history variable `dropped`
marks a backup that a pass gave up and left labelled or without a final phase. A
finished Job has one condition, Complete or Failed, which `Conditions[0]` is.

## Runs

| run | instance | shows |
|---|---|---|
| `scaleup` | 1 old master, 2 new, 4 slots, a key, 2 passes, every fault, fairness | `NoKeyLoss`, the invariants `IInv` and `HInv` of the proofs, the refinement `ImplementsHandover`, `PassEnds`; undisturbed, `CalmMeansAnswered` and `CalmMeansBalanced` |
| `scaleup_reach` | 2 old masters, 1 new, no fault | violated: `KeyReachable` (finding 1) |
| `dispatch_plans` | 5 masters to 3, every small distribution of slots, lost ones and masters without slots included | `SlotsEndUpOnce`, `EvenSpread` |
| `scaledown` | 3 masters to 2, ranges with lost slots, writes, the operator stops | `NoKeyLoss`, `SlotOwned`, the proof's `Inv`; unless stopped, `NoFalseMiss`, `KeyReachable`, `HealthyMeansScaledDown`, `ScaleDownEnds` |
| `scaledown_cmdfail` | a command fails | violated: `NoKeyLoss` (finding 2) |
| `formation` | 2 StatefulSets of 2 pods on 2 hosts, 3 slots, 1 fault of any kind, fairness | `SlotsOnMasters`, `HealthyMeansFormed`, `Spread`, `MembershipKept`, the proofs' `IInv` and `SpreadInv`, `FormsUnlessCut` |
| `formation_stuck` | the same | violated: `ClusterForms` (finding 5) |
| `password` | 2 shards of 2 pods, with and without an old password, 1 fault, fairness | `AdminLetIn`, `MasterHandsOver`, the proof's `IInv`, `ResetEnds` |
| `restore` | 2 shards, stale cache, 2 faults of any kind, fairness | `MastersOnly`, `PhaseForward`, the proof's `IInv`; undisturbed, `ShardsRestored`, `NoSecondRestoreUndisturbed`, `RestoreEndsUndisturbed` |
| `restore_slaves` | a complete spec, nothing fails | violated: `RestoreEnds` (finding 3) |
| `restore_again` | one crash, one pod restart | violated: `NoSecondRestore` (finding 4) |
| `backup` | 2 backups, 2 workers, 1 restart or API error, checks that change between passes, fairness | `PhaseTellsJob`, `JobAnnounced`, `CompletedIsFinal`, the proof's `IInv`, `EndsUnlessDropped` |

`IInv` and `Inv` include the module's `TypeOK`: indexes in range, slots that
exist, phases the code knows.

**Bounds.** Three masters are the smallest cluster in which a source feeds two
targets, or two sources one. Four slots over three masters give a share that
does not divide. `scaledown` starts from every contiguous assignment of 4
slots of which some may be lost; `scaledown_cmdfail` from the contiguous ranges
of 5 slots, which give groups of two slots. `dispatch_plans` takes contiguous
ranges of 8 slots, which is no loss because a plan does not depend on how slots
are numbered. Two passes let one pass meet what an interrupted one left; the
third would start from the same kinds of state. In `formation` passes are not
bounded. Two StatefulSets of two pods are the smallest in which one choice of
master restricts the next; the two host maps are one in which every choice can
be spread and one in which it may not; three slots do not divide by two. One
fault, of any kind and anywhere, is followed by as many good passes as it
takes. One ghost has one handshake at a time, and a connection is lost to a pod
or to all pods of a StatefulSet. In `password`, two StatefulSets let the
operator stop between them and two pods let one hand over to the other. Two
shards let a restore stop half-way. Two backups and two workers are the
smallest race. `MaxPasses` and `MaxFaults` are the only counters
that are cut; deadlock is not checked where a system with its passes used up, or
with nothing to do, may stop.

**Fairness.** A Go goroutine that is not killed goes on, and a request is queued
again: weak fairness of the operator's steps. A request that stays in the work
queue is served although others compete for the workers: strong fairness of
`StartPass` in `Backup`. Go starts the iteration over a map at random, so a
choice among nodes that comes up again and again falls on each of them:
strong fairness of `PicksMasters` in `Formation`, which `FormsUnlessCut` needs
when a pass was ended before `syncCluster` could attach anything. The watch
delivers (`CacheSync`), Kubernetes starts, stops and rolls pods as StatefulSets
ask and computes their status, Jobs end, the cluster bus delivers gossip in
`Formation`, and Redis flags a node that is gone and gives up a handshake that
is not answered. Clients, users and faults have no fairness.

## Findings

1. `moveSlot` sends IMPORTING with the target's id to the target and MIGRATING
   with the source's id to the source (`rebalance.go:127,130`). While a slot is
   moved, a key that has moved already cannot be found.
2. `DispatchSlotToNewMasters` logs a failing MIGRATE and hands the slot over
   (`migration.go:86`); the keys left behind are deleted.
3. After a restore the replicas are started by the event of an update that may
   change nothing (`distributedrediscluster_controller.go:306`).
4. The phase Restart is stored before init containers are removed
   (`distributedrediscluster_controller.go:277`), and later passes do not look
   at them; the flag in the ConfigMap meant to stop them is always 0.
5. `PlaceMasters` chooses masters by host and not by role
   (`placement_v2.go:92`). When one REPLICATE of a creation failed, the next
   passes may keep choosing a pod that is a replica already: REPLICATE to it is
   refused, the pass fails before `AllocSlots`, and the cluster never forms.

Limits of the code that the properties except, each of which TLC shows when
the exception is dropped or the constants of the run are changed:

- `CalmMeansBalanced`: an interrupted scale-up is not resumed once every master
  has a slot (`sync_handler.go:219`). With one new master, four slots and one
  stop TLC shows a cluster reported healthy whose new master has one slot.
- `CalmMeansAnswered`: with two new masters, a slot left half moved may go to
  the other one, and the keys moved before are stranded (`rebalance.go:66`).
- `PassEnds`: `MigrateKeysInSlot` goes on as long as it finds keys
  (`admin.go:435`); the keys of an instance are finite, so it does not tell of
  clients that write new ones for ever.
- `NoFalseMiss`, `HealthyMeansScaledDown` and `ScaleDownEnds` of `ScaleDown`: a
  scale-down that stops is planned anew in another order (`migration.go:58`),
  or, when the slots have moved already, not resumed at all, so that the
  StatefulSets stay (`sync_handler.go:241`). With `CmdFails = TRUE` also
  `SlotOwned` is violated: a SETSLOT NODE that fails on the new owner is logged,
  and the old owner gives the slot away (`migration.go:95`).
- `ShardsRestored`: phase Running is stored before the backup's MasterSize
  (`sync_handler.go:146`); an operator that stops in between restores as many
  shards as the user asked for, and reports Succeeded.
- `RestoreEndsUndisturbed`: an edit that makes the last `UpdateCR` conflict, or a
  failing request, loses the backup's number of replicas
  (`distributedrediscluster_controller.go:306`).
- `HealthyMeansFormed`: after an `AllocSlots` that broke off, later passes take
  the branch "Scaling up", and slots without an owner stay so
  (`rebalance.go:165`). A pass that could not connect to a pod, or whose second
  `GetClusterInfos` was partial, reports Healthy on what it saw
  (`connections.go:122`, `distributedrediscluster_controller.go:337`).
- `MembershipKept`: the same passes drop a live node from `Status.Nodes`; when
  the others flag it, the healer has it forgotten until it is met again.
- `FormsUnlessCut`: a MasterSize that is lowered before the cluster is formed
  leaves a StatefulSet without a master, which `PlaceSlaves` dereferences
  (`placement_v2.go:113`).
- `ResetEnds`: an operator that stops between `ResetPassword` and the update of
  the first StatefulSet is locked out: no node takes the old password any more,
  and a pass gives up before it updates the StatefulSets. Without an old
  password any failure in the middle of `ResetPassword` is enough, because the
  nodes that have the new password refuse the unauthenticated commands
  (`sync_handler.go:363`).
- `PhaseTellsJob`, `JobAnnounced` and `EndsUnlessDropped` of `Backup`, by
  `dropped`: a backup that is turned down when it has its label already is Failed
  and keeps the label (`redisclusterbackup/sync_handler.go:57,124`). Nothing
  queues it again before the operator restarts, and later backups of the cluster
  are ignored on its account. When the cluster was deleted while the Job ran,
  validation comes before the Job is looked at, and a backup whose Job
  completed is Failed for good (`redisclusterbackup/sync_handler.go:53`). Where
  the error of `markAsFailedBackup` or `markAsIgnoredBackup` is lost, the backup
  is not completed and not queued again either
  (`redisclusterbackup/sync_handler.go:57,451`).
- In `Backup`, two Jobs of a cluster can be active together, with one worker
  too: `isBackupRunning` reads a cache and is not atomic with labelling
  (`helper.go:57`).

## Proofs

`ScaleUpProofs` proves, for every finite set of nodes, number of slots, set of
keys, faults and number of passes that satisfy `RedisAssumption` and
`ScaleUpAssumption`:

- `Invariance`: `Spec => []IInv`
- `TypeCorrect`: `Spec => []TypeOK`
- `KeySafety`: `Spec => []NoKeyLoss`

`NoKeyLoss` is not inductive. A key is lost only when a node deletes it, and a
node deletes keys only on hearing of an owner with a higher configEpoch. So the
invariant says that whoever is about to lose a slot (`Loses`) has no key in it
and accepts none (`LoserInv`). To keep that, `SETSLOT NODE` on the target must
find the source empty and migrating (`MoveInv`), and the target, which takes
the highest epoch, must win against every other owner (`EpochInv`: epochs of
owners are distinct and positive). A source of the pass must not be a loser
already: `waitForClusterJoin` saw none (`PassInv` at "sync"), and those that
have appeared since were sources of this pass, in slots taken off its list.
`LoopInv` says that the two indexes differ while a slot moves. TLC checks
`IInv` in `scaleup`.

The proof has one lemma per command, about which slots gain or lose owners and
which keys remain, and one step per action.

The second part of `ScaleUpProofs` adds to these assumptions that there are new masters and
at least as many slots as masters (`HandoverAssumption`); with fewer, every
share is 0, no balance is negative, and the loop of `rebalance.go:24-32` that
hands out the surplus never ends. It proves:

- `CalmInvariance`: `HSpec => [](IInv /\ HInv)`
- `Answered`: `HSpec => []CalmMeansAnswered`
- `Balanced`: `HSpec => []CalmMeansBalanced`
- `Implementation`: `HSpec => ImplementsHandover`

`HInv` says what holds as long as nothing disturbed the operator. A slot has one
master that answers for it (`Holds`: a source whose target has the slot
already does not, even before it is told), and `ClaimsInv` and `KeysInv` say that this master has the slot's
keys, or the target of the move has them. That the shares come out right is an
argument about sums. The balances `RebalancedCluster` starts with add up to
0, which needs that every slot was counted once and that the rounds of the loop
hand out exactly the remainder (`StartBalances`). From then on the surplus of
the sources equals what the targets lack, and between the two indexes the
targets come first (`BalanceInv`), so when the indexes meet all balances are 0.
`QuotaInv` relates the balances to the slots: what a master has, less its
balance, with the slots of the current pair that have gone over counted, is its
share or up to the remainder more. `BomInv` says that the list of slots read at
the beginning is still true of the sources. `StatusInv` says that a cluster not
yet healthy has an empty master, so that no pass takes it for a finished one.
A sum over the nodes is the number of elements of a set (`Units`), because the
provers can reason about cardinalities and not about folds.

The refinement has one lemma per kind of step. The keys stored are always
those acknowledged, by `NoKeyLoss`. The holder of a slot exists and is unique by
`EpochInv`; gossip takes claims only from those who are outbid; SETSLOT NODE on
the target hands the slot over, and in no other slot does the target's new epoch
change the holder, because the target is not outbid anywhere (`PassInv`).
SETSLOT NODE on the source changes the holder only when the target was not
told, which is after a disturbance.

`SlotDispatchProofs` and `DispatchPlanProofs` are about the plans, for every
number of masters and slots, every distribution in which no slot has two
owners, masters that stay without slots included, and every order of the maps
(`DispatchPlanAssumption`):

- `DispatchedOnce`: `Spec => []SlotsEndUpOnce`
- `DispatchedEvenly`: `Spec => []EvenSpread`

The library's induction theorems take the statement as an operator, which the
provers cannot instantiate. So an induction is done on the set of numbers for
which a statement fails: it has a least element, because < is well-founded
on the naturals (`LeastNumber`, `AllNumbers`). This gives the function
`Filled`, which is defined by recursion, and what holds after k turns
(`SizesAlways`): the masters before idNode are full, those after it have taken
nothing, and none but the last took more than one slot beyond nb. The turns
number the visits without a gap (`Ranks`), so a slot that is to be placed has one
turn and gets one master (`TurnsOnce`). The sizes at the end add up to the
number of slots, because the sets are disjoint; that all other masters stay
within their bound gives the bound for each (`SumBounds`, `Share`).

`ScaleDownProofs` uses what `SlotDispatchProofs` says of a plan, for every
finite set of masters, assignment of slots, set of keys, place where the
operator stops and number of passes (`RedisAssumption`, `ScaleDownAssumption`):

- `Invariance` and `CalmInvariance`: `Spec => []IInv` and `Spec => []Inv`
- `KeySafety`: `Spec => []NoKeyLoss`
- `SlotsOwned`: `Spec => []SlotOwned`
- `NoFalseMisses`: `Spec => []NoFalseMiss`
- `KeysReachable`: `Spec => []KeyReachable`
- `HealthyIsScaledDown`: `Spec => []HealthyMeansScaledDown`
- `TypeCorrect`: `Spec => []TypeOK`

All but the last assume that commands do not fail (`~ CmdFails`): with commands
that do, `NoKeyLoss` is false (finding 2). A command may still be cut off by a
stop of the operator, and the next pass plans anew.

`IInv` holds wherever the operator stops. As in a scale-up, a key is lost to a
higher configEpoch, so a node about to lose a slot has no key in it and accepts
none (`LoserInv`); SETSLOT NODE on the new owner finds the group's keys gone from
the source (`MoveInv`). A key is also lost with a StatefulSet: a master that goes
has keys only in its own slots (`LeaverInv`), and `scalingDown` deletes the
StatefulSet of a master only after it read that it has no slots (`PassInv`). The
lost slots must not be given to a second owner: they are in one group each, and
have no owner until that group's ADDSLOTS (`PlanInv`). `CalmInv` holds until the
operator stops: each slot still to be moved is with the source the plan names
(`SourcesInv`), each key is with the owner of its slot or on the way to the next
(`KeysInv`), and the StatefulSets are all there or removed down to i
(`StatusInv`).

`FormationProofs` proves, for every number of StatefulSets, replicas, slots and
faults and every placement of the pods on hosts (`FormationAssumption`):
`Invariance`, `TypeCorrect`, `HealthyFormed` (`HealthyMeansFormed`),
`MembersKept` (`MembershipKept`) and `SlotsSafe` (`SlotsOnMasters` as long as no
pass was blind). `SeenInv` is what makes them inductive, for passes that see all
the pods. `StatusKnown`: once the status lists all the pods they know one
another, and only nodes in the status follow a master, so the healer, which
forgets only what is not in the status, resets nobody and cuts no ties.
`PassKnows`: which of this a pass has established at each step. `MastersPicked`:
the pod picked for a StatefulSet is the one that has slots, and when the loop of
REPLICATE is through without an error all the others follow it. `SlotsInOrder`:
the slots are all given out or none is, except in `AllocSlots`, which has given
out those up to the last slot of the masters it is done with; for that
`Ranges` shows that the rounding of `AllocSlots` cuts the slots into as many
non-empty ranges as there are masters, whatever the two numbers.

It also proves `SpreadInvariance` (`SpreadInv`) and from it `MastersSpread`
(`Spread`), for a cluster that was spread when it was formed
(`StartsSpread`, true of both host maps of the run; a new cluster needs no such
assumption, but the specification starts with either). An earlier
pass may have given out some slots and broken off, so `Spread` is not inductive:
`SpreadInv` says that the masters with slots belong to a set of spread
masters, with one for each StatefulSet, and that those of them without slots are
followed by all their pods already, so that no later pass can choose another.

`RestoreProofs`, for every size of the backup, every choice of the user and
every number of stops, failing requests, edits and pod restarts: `Invariance`,
`TypeCorrect`, `MastersFirst` (`MastersOnly`), `EveryShard` (`ShardsRestored`),
`PhaseNeverBack` (the action property `PhaseForward`) and `RestoredOnce`
(`NoSecondRestoreUndisturbed`). The invariant says how far copies of the
resource may be behind it (`CopiesLag`), that pods run before phase Restart only
with the init container and so have loaded the backup (`BackupLoaded`), and that
phase Restart takes the init container away while no old copy can bring it back
(`InitContainersGone`).

`PasswordResetProofs`, for every number of shards, replicas and faults:
`Invariance`, `TypeCorrect`, `LetIn` (`AdminLetIn`) and `HandedOver` (the action
property `MasterHandsOver`). The invariant orders the change: files and nodes
before the first StatefulSet (`NodesFirst`), the StatefulSets one after the
other (`TemplatesInOrder`), and until then nothing restarts
(`NothingRestarts`).

`BackupProofs`, for every set of backups, number of workers, number of restarts
and API errors, and whatever the checks of each pass say: `Invariance`, `TypeCorrect`, `PhaseCorrect` (`PhaseTellsJob`),
`Announced` (`JobAnnounced`) and `CompletedStays` (the action property
`CompletedIsFinal`). The invariant says what a pass knows although its copy is
old, because the API server refuses an update from an old copy: a pass whose
copy is the stored one has seen the label of a backup with a Job, and so does
not get as far as `Run` for it, where a backup can be marked Failed by a write
whose answer is lost and the pass be tried again (`PassKnows`). `JobTracked` says that a Job's backup keeps its
label while it runs. `dropped` is part of what is proved, not of what the code
reads: it tells exactly which Failed backups are excepted.

TLC checks each of these invariants in the module's passing run, except that of
`DispatchPlanProofs` (`PlanInv`), which only says that the plan is one of
`feedMigInfo`'s.

Three proofs failed first, because the property was not true of every instance;
TLC then gave the counterexample on other constants:

- `SlotsOnMasters` without the condition: with one StatefulSet, a pass that is
  not connected to the master finds no owner of any slot and allocates the
  slots a second time. The run keeps checking the unconditional form for two
  StatefulSets.
- `NoSecondRestoreUndisturbed`: the restore must store 0 replicas
  (`StoresNoReplicas`). A spec that is complete and has replicas stays as it
  is; a pass on an old copy in phase Running then finds the number of pods
  changed and puts the init container back.
- `MasterHandsOver`: the step that stops the master must not be a failure of
  the pod itself.

Only model-checked: liveness (`PassEnds`, `ScaleDownEnds`, `FormsUnlessCut`,
`ResetEnds`, `RestoreEndsUndisturbed`, `EndsUnlessDropped`), which is out of reach of
the installed provers, and `SlotsOnMasters` for passes that were blind.

## Not modelled

`FixTerminatingPods`, which deletes pods by the clock; the parts of connections
that are I/O (pools, renamed commands); object storage, the webhook and the
command line (I/O and wiring); templates of resources beyond what the models
depend on; the text of the status; `placement.go`, `clustersplit.go` and
`migration.go`'s `DispatchMasters` (not called); generated code.

## Plan

1. Failovers in `Formation` and `ScaleDown`: a replica that takes over while
   slots move.
2. `FixTerminatingPods`, with a clock that may be ahead or behind.
