------------------------------- MODULE Restore --------------------------------
(***************************************************************************)
(* Restoring a cluster from a backup: the passes of Reconcile over a       *)
(* DistributedRedisCluster whose spec names a backup, through the phases   *)
(* "", Running, Restart and Succeeded.  The pass works on a copy of the    *)
(* resource read from a cache that may lag; the API server refuses writes  *)
(* based on an old version or fails; StatefulSets and pods follow at their *)
(* own pace.                                                               *)
(***************************************************************************)
EXTENDS Integers

CONSTANTS
  BackupMasters,   \* Backup.Status.MasterSize
  BackupReplicas,  \* Backup.Status.ClusterReplicas
  UserMasters,     \* the values of Spec.MasterSize a user may give
  UserReplicas,    \* the values of Spec.ClusterReplicas a user may give
  UserDefaulted,   \* may the user leave fields for DefaultSpec to fill?
  MinMasters,      \* minMasterSize
  CacheLag,        \* may the informer cache lag behind the API server?
  Crashes,         \* may the operator stop, or the API server fail, during a pass?
  UserEdits,       \* may the user edit the spec during the restore?
  MaxFaults        \* bound: crashes, API errors, pod restarts and edits

\* The sizes a resource may have, and the shards and pods these make.
MasterSizes == UserMasters \cup {BackupMasters, MinMasters}
ReplicaSizes == UserReplicas \cup {0, BackupReplicas}
Shards == UNION {1 .. m : m \in MasterSizes}
PodNumbers == {0} \cup UNION {1 .. r + 1 : r \in ReplicaSizes}

ASSUME RestoreAssumption ==
  /\ BackupMasters \in Nat /\ BackupReplicas \in Nat /\ MinMasters \in Nat
  /\ BackupMasters >= MinMasters
  /\ UserMasters \subseteq Nat /\ UserMasters # {}
  /\ UserReplicas \subseteq Nat /\ UserReplicas # {}
  /\ UserDefaulted \subseteq BOOLEAN
  /\ CacheLag \in BOOLEAN /\ Crashes \in BOOLEAN /\ UserEdits \in BOOLEAN
  /\ MaxFaults \in Nat

VARIABLES
  created,    \* the resource as the user created it
  api,        \* the resource as the API server stores it
  cache,      \* the operator's cached copy
  mem,        \* the instance the pass works on
  base,       \* the version of the resource the instance was last read at
  pc,
  i,          \* loop index over the shards
  updated,    \* the local "update" or "updated" of the current function
  queued,     \* is there a request in the work queue (or a timed requeue)?
  backupDone, \* Backup.Status.Phase = Succeeded
  cm,         \* RESTORE_SUCCEEDED in the restore ConfigMap
  sts,        \* the StatefulSets: pods wanted, and is there an init container?
  outdated,   \* the pods run an earlier template than their StatefulSet's
  up,         \* ready pods
  data,       \* what the shard's volume holds
  faults      \* pods that restarted, and stops, errors and edits, so far

passVars == <<mem, base, pc, i, updated>>
podVars == <<outdated, up, data>>
vars == <<created, api, cache, passVars, queued, backupDone, cm, sts, podVars, faults>>

\* Generation counts the changes of the spec; the rest of a resource's
\* version is told apart by the phase.
CR == [phase : {"", "Running", "Restart", "Succeeded"}, masters : MasterSizes,
       replicas : ReplicaSizes, defaulted : BOOLEAN, generation : Nat]

PCs == {"idle", "init", "defaults", "configmap", "ensure", "wait", "check",
        "joined", "update", "replicas"}

TypeOK ==
  /\ created \in CR /\ api \in CR /\ cache \in CR /\ mem \in CR /\ base \in CR
  /\ pc \in PCs
  /\ i \in {1} \cup {s + 1 : s \in Shards}
  /\ updated \in BOOLEAN /\ queued \in BOOLEAN /\ backupDone \in BOOLEAN
  /\ cm \in {"absent", "0", "1"}
  /\ sts \in [Shards -> [pods : PodNumbers, init : BOOLEAN]]
  /\ outdated \in [Shards -> BOOLEAN]
  /\ up \in [Shards -> PodNumbers]
  /\ data \in [Shards -> {"empty", "backup", "live"}]
  /\ faults \in [restarts : 0 .. MaxFaults, stops : 0 .. MaxFaults]

\* A user creates the resource; its event is in the queue.
Init ==
  /\ \E m \in UserMasters, r \in UserReplicas, d \in UserDefaulted :
       created = [phase |-> "", masters |-> m, replicas |-> r, defaulted |-> d,
                  generation |-> 1]
  /\ api = created /\ cache = api /\ mem = api /\ base = api
  /\ pc = "idle"
  /\ i = 1
  /\ updated = FALSE
  /\ queued = TRUE
  /\ backupDone \in BOOLEAN
  /\ cm = "absent"
  /\ sts = [s \in Shards |-> [pods |-> 0, init |-> FALSE]]
  /\ outdated = [s \in Shards |-> FALSE]
  /\ up = [s \in Shards |-> 0]
  /\ data = [s \in Shards |-> "empty"]
  /\ faults = [restarts |-> 0, stops |-> 0]

-----------------------------------------------------------------------------
(***************************************************************************)
(* Writes of the custom resource.  Status is a subresource: UpdateCRStatus *)
(* stores the status alone and UpdateCR the spec alone.  Both are refused  *)
(* when the instance is not at the stored version, and both overwrite the  *)
(* instance with the server's answer.                                      *)
(***************************************************************************)
\* Mutant: the API server takes any write.
AnyVersion == FALSE

Conflict == base # api

\* UpdateCRStatus succeeds; the caller says what mem' becomes from api'.
WriteStatus(phase) ==
  /\ api' = [api EXCEPT !.phase = phase]
  /\ base' = api'

SameSpec(x, y) == /\ x.masters = y.masters
                  /\ x.replicas = y.replicas
                  /\ x.defaulted = y.defaulted

\* UpdateCR(x) succeeds.  A write that changes nothing is no event.
WriteSpec(x) ==
  /\ api' = IF SameSpec(x, api) THEN api
            ELSE [x EXCEPT !.phase = api.phase, !.generation = api.generation + 1]
  /\ base' = api'
  /\ mem' = api'

\* The pass ends; q says whether the request goes back to the queue.
EndPass(q) ==
  /\ pc' = "idle"
  /\ queued' = (q \/ queued)

OperatorOnly == UNCHANGED <<created, cache, backupDone, podVars, faults>>

-----------------------------------------------------------------------------
(***************************************************************************)
(* ensureCluster.                                                          *)
(***************************************************************************)
StartPass ==
  /\ pc = "idle"
  /\ queued
  /\ CacheLag \/ cache = api
  /\ queued' = FALSE
  /\ mem' = cache
  /\ base' = cache
  /\ pc' = "init"
  /\ updated' = FALSE
  /\ UNCHANGED <<api, i, cm, sts>> /\ OperatorOnly

\* initRestore: the backup must have succeeded, or the request is dropped.
InitRestore ==
  /\ pc = "init"
  /\ mem.phase = ""
  /\ \/ /\ ~ backupDone \/ Conflict
        /\ EndPass(FALSE)
        /\ UNCHANGED <<api, mem, base, updated>>
     \/ /\ backupDone /\ ~ Conflict
        /\ WriteStatus("Running")
        /\ mem' = [api' EXCEPT !.masters = BackupMasters]
        /\ updated' = (api.masters # BackupMasters)
        /\ pc' = "defaults"
        /\ UNCHANGED queued
  /\ UNCHANGED <<i, cm, sts>> /\ OperatorOnly

SkipInitRestore ==
  /\ pc = "init"
  /\ mem.phase # ""
  /\ pc' = "defaults"
  /\ UNCHANGED <<api, mem, base, i, updated, queued, cm, sts>> /\ OperatorOnly

\* Mutant: replicas are started from the first pass on.
WithReplicas(x) ==
  [x EXCEPT !.defaulted = TRUE,
            !.masters = IF @ < MinMasters THEN MinMasters ELSE @]

\* The rest of validateAndSetDefault: no replicas while the restore runs, and
\* DefaultSpec.
Defaulted(x) ==
  [x EXCEPT !.replicas = IF x.phase \in {"Running", "Restart"} THEN 0 ELSE @,
            !.defaulted = TRUE,
            !.masters = IF @ < MinMasters THEN MinMasters ELSE @]

\* DefaultSpec reports whether it changed something; clearing the replicas
\* alone is not stored.
SetDefaults ==
  LET d == Defaulted(mem)
      write == updated \/ d.masters # mem.masters \/ d.defaulted # mem.defaulted IN
  /\ pc = "defaults"
  /\ \/ /\ ~ write
        /\ mem' = d
        /\ pc' = "configmap"
        /\ UNCHANGED <<api, base, queued>>
     \/ /\ write /\ ~ Conflict
        /\ WriteSpec(d)
        /\ pc' = "configmap"
        /\ UNCHANGED queued
     \/ /\ write /\ Conflict
        /\ EndPass(FALSE)
        /\ UNCHANGED <<api, mem, base>>
  /\ UNCHANGED <<i, updated, cm, sts>> /\ OperatorOnly

\* NewConfigMapForRestore writes "0", in every phase.
NewConfigMapForRestore == "0"

\* EnsureRedisConfigMap: the restore part.
EnsureRedisConfigMap ==
  /\ pc = "configmap"
  /\ cm' = IF cm = "absent" \/ (mem.phase = "Restart" /\ cm = "0")
           THEN NewConfigMapForRestore ELSE cm
  /\ pc' = "ensure"
  /\ i' = 1
  /\ updated' = FALSE
  /\ UNCHANGED <<api, mem, base, queued, sts>> /\ OperatorOnly

\* NewStatefulSetForCR: the init container that loads the backup is there in
\* phase Running only.
NewStatefulSetForCR(x) == [pods |-> x.replicas + 1, init |-> x.phase = "Running"]

\* A changed pod template makes the running pods outdated.
PutStatefulSet(s) ==
  /\ sts' = [sts EXCEPT ![s] = NewStatefulSetForCR(mem)]
  /\ outdated' = [outdated EXCEPT ![s] =
                    @ \/ (up[s] > 0 /\ sts[s].init # sts'[s].init)]

\* One iteration of EnsureRedisStatefulsets: create, or update when
\* shouldUpdateRedis finds another number of pods; init containers are not
\* compared.
EnsureStatefulset ==
  /\ pc = "ensure"
  /\ i <= mem.masters
  /\ IF sts[i].pods # mem.replicas + 1
     THEN /\ PutStatefulSet(i)
          /\ updated' = (updated \/ sts[i].pods # 0)
     ELSE UNCHANGED <<sts, outdated, updated>>
  /\ i' = i + 1
  /\ UNCHANGED <<created, api, cache, mem, base, pc, queued, backupDone, cm, up, data,
                 faults>>

\* Updated StatefulSets: the status is written, an error ignored.
EnsureStatefulsetsDone ==
  /\ pc = "ensure"
  /\ i > mem.masters
  /\ pc' = IF updated THEN "wait" ELSE "check"
  /\ mem' = IF updated /\ ~ Conflict THEN api ELSE mem
  /\ UNCHANGED <<api, base, i, updated, queued, cm, sts>> /\ OperatorOnly

\* waitStatefulSetUpdating: done as soon as one StatefulSet has another
\* number of ready pods than the spec asks for.
Updating == \E s \in Shards : sts[s].pods > 0 /\ up[s] # mem.replicas + 1

WaitStatefulSetUpdating ==
  /\ pc = "wait"
  /\ \/ Updating /\ pc' = "check" /\ UNCHANGED queued
     \/ EndPass(TRUE)
  /\ UNCHANGED <<api, mem, base, i, updated, cm, sts>> /\ OperatorOnly

-----------------------------------------------------------------------------
(***************************************************************************)
(* Reconcile from waitPodReady on.                                         *)
(***************************************************************************)
\* Mutant: only the first shard is looked at.
FirstReady == sts[1].pods = mem.replicas + 1 /\ up[1] = mem.replicas + 1

\* CheckRedisNodeNum.
AllReady == \A s \in 1 .. mem.masters :
              sts[s].pods = mem.replicas + 1 /\ up[s] = mem.replicas + 1

WaitPodReady ==
  /\ pc = "check"
  /\ \/ AllReady /\ pc' = "joined" /\ UNCHANGED queued
     \/ ~ AllReady /\ EndPass(TRUE)
  /\ UNCHANGED <<api, mem, base, i, updated, cm, sts>> /\ OperatorOnly

\* The masters have loaded the backup: phase Restart.
MarkRestart ==
  /\ pc = "joined"
  /\ mem.phase = "Running"
  /\ \/ /\ ~ Conflict
        /\ WriteStatus("Restart")
        /\ mem' = api'
        /\ i' = 1
        /\ pc' = "update"
        /\ UNCHANGED queued
     \/ Conflict /\ EndPass(TRUE) /\ UNCHANGED <<api, mem, base, i>>
  /\ UNCHANGED <<updated, cm, sts>> /\ OperatorOnly

\* Mutant: the StatefulSets are left as they are.
UpdateSkipped ==
  /\ pc = "update"
  /\ i <= mem.masters
  /\ i' = i + 1
  /\ UNCHANGED <<api, mem, base, pc, updated, queued, cm, sts>> /\ OperatorOnly

\* One iteration of UpdateRedisStatefulsets.
UpdateStatefulset ==
  /\ pc = "update"
  /\ i <= mem.masters
  /\ PutStatefulSet(i)
  /\ i' = i + 1
  /\ UNCHANGED <<created, api, cache, mem, base, pc, updated, queued, backupDone, cm, up,
                 data, faults>>

\* waitMasterNodeRestarting: done or timed out, the request is queued again.
WaitMasterNodeRestarting ==
  /\ pc = "update"
  /\ i > mem.masters
  /\ EndPass(TRUE)
  /\ UNCHANGED <<api, mem, base, i, updated, cm, sts>> /\ OperatorOnly

\* Phase Succeeded; the instance gets the backup's replicas.
MarkSucceeded ==
  /\ pc = "joined"
  /\ mem.phase = "Restart"
  /\ \/ /\ ~ Conflict
        /\ WriteStatus("Succeeded")
        /\ mem' = [api' EXCEPT !.replicas = BackupReplicas]
        /\ pc' = "replicas"
        /\ UNCHANGED queued
     \/ Conflict /\ EndPass(TRUE) /\ UNCHANGED <<api, mem, base>>
  /\ UNCHANGED <<i, updated, cm, sts>> /\ OperatorOnly

\* Mutant: the replicas are not stored.
ReplicasForgotten ==
  /\ pc = "replicas"
  /\ EndPass(FALSE)
  /\ UNCHANGED <<api, mem, base, i, updated, cm, sts>> /\ OperatorOnly

\* They are stored, and the request leaves the queue.
StoreReplicas ==
  /\ pc = "replicas"
  /\ \/ ~ Conflict /\ WriteSpec(mem) /\ EndPass(FALSE)
     \/ Conflict /\ EndPass(TRUE) /\ UNCHANGED <<api, mem, base>>
  /\ UNCHANGED <<i, updated, cm, sts>> /\ OperatorOnly

\* A restored cluster is reconciled like any other, every minute.
Restored ==
  /\ pc = "joined"
  /\ mem.phase = "Succeeded"
  /\ EndPass(TRUE)
  /\ UNCHANGED <<api, mem, base, i, updated, cm, sts>> /\ OperatorOnly

-----------------------------------------------------------------------------
(***************************************************************************)
(* The environment.                                                        *)
(***************************************************************************)
\* The cache catches up.  The predicate of the watch lets a change of
\* generation through and ignores changes of the status.
CacheSync ==
  /\ cache # api
  /\ cache' = api
  /\ queued' = (queued \/ cache.generation # api.generation)
  /\ UNCHANGED <<created, api, passVars, backupDone, cm, sts, podVars, faults>>

MayFault == faults.restarts + faults.stops < MaxFaults

Disturbed ==
  /\ MayFault
  /\ faults' = [faults EXCEPT !.stops = @ + 1]

\* The operator stops and starts: it lists every resource again.
Crash ==
  /\ Crashes
  /\ pc # "idle"
  /\ Disturbed
  /\ pc' = "idle"
  /\ queued' = TRUE
  /\ cache' = api
  /\ UNCHANGED <<created, api, mem, base, i, updated, backupDone, cm, sts, podVars>>

\* A request to the API server fails, and the pass ends where it stands.  An
\* error that is not retryable drops the request in validateAndSetDefault, up
\* to the lost answer of UpdateCR, and in EnsureRedisRCloneSecret; every other
\* one puts it back.
ApiError ==
  /\ Crashes
  /\ pc # "idle"
  /\ Disturbed
  /\ pc' = "idle"
  /\ \/ queued' = TRUE
     \/ pc \in {"init", "defaults", "configmap", "check"} /\ UNCHANGED queued
  /\ UNCHANGED <<created, api, cache, mem, base, i, updated, backupDone, cm, sts, podVars>>

\* The user edits a field the restore does not look at.
UserEdit ==
  /\ UserEdits
  /\ Disturbed
  /\ api' = [api EXCEPT !.generation = @ + 1]
  /\ UNCHANGED <<created, cache, passVars, queued, backupDone, cm, sts, podVars>>

BackupFinishes ==
  /\ ~ backupDone
  /\ backupDone' = TRUE
  /\ UNCHANGED <<created, api, cache, passVars, queued, cm, sts, podVars, faults>>

PodsOnly == UNCHANGED <<created, api, cache, passVars, queued, backupDone, cm, sts>>

\* redis-tools.sh restore: the init container of the first pod replaces what
\* the volume holds by the backup unless RESTORE_SUCCEEDED is 1.
LoadsBackup(s) == up[s] = 0 /\ sts[s].init /\ cm # "1"

PodStarts(s) ==
  /\ up[s] < sts[s].pods
  /\ up' = [up EXCEPT ![s] = @ + 1]
  /\ data' = [data EXCEPT ![s] = IF LoadsBackup(s) THEN "backup" ELSE @]
  /\ outdated' = [outdated EXCEPT ![s] = @ /\ up[s] > 0]
  /\ PodsOnly /\ UNCHANGED faults

\* The rolling update, and a smaller number of pods.
PodsStop(s) ==
  /\ \/ outdated[s] /\ up' = [up EXCEPT ![s] = 0]
     \/ up[s] > sts[s].pods /\ up' = [up EXCEPT ![s] = sts[s].pods]
  /\ PodsOnly /\ UNCHANGED <<outdated, data, faults>>

\* A master without a replica is rescheduled; its volume is kept.
PodRestarts(s) ==
  /\ up[s] = 1
  /\ MayFault
  /\ faults' = [faults EXCEPT !.restarts = @ + 1]
  /\ up' = [up EXCEPT ![s] = 0]
  /\ PodsOnly /\ UNCHANGED <<outdated, data>>

\* Clients use the cluster once it is restored.
ClientWrites(s) ==
  /\ api.phase = "Succeeded"
  /\ s <= api.masters
  /\ up[s] > 0
  /\ data' = [data EXCEPT ![s] = "live"]
  /\ PodsOnly /\ UNCHANGED <<outdated, up, faults>>

-----------------------------------------------------------------------------
Operator ==
  \/ StartPass \/ InitRestore \/ SkipInitRestore \/ SetDefaults
  \/ EnsureRedisConfigMap \/ EnsureStatefulset \/ EnsureStatefulsetsDone
  \/ WaitStatefulSetUpdating \/ WaitPodReady
  \/ MarkRestart \/ UpdateStatefulset \/ WaitMasterNodeRestarting
  \/ MarkSucceeded \/ StoreReplicas \/ Restored

Next ==
  \/ Operator \/ CacheSync \/ Crash \/ ApiError \/ UserEdit \/ BackupFinishes
  \/ \E s \in Shards : PodStarts(s) \/ PodsStop(s) \/ PodRestarts(s) \/ ClientWrites(s)

Spec == Init /\ [][Next]_vars

\* The work queue is served, the watch delivers, and Kubernetes brings pods
\* to the number and template their StatefulSet asks for.
FairSpec ==
  /\ Spec
  /\ WF_vars(Operator)
  /\ WF_vars(CacheSync)
  /\ \A s \in Shards : WF_vars(PodStarts(s)) /\ WF_vars(PodsStop(s))

-----------------------------------------------------------------------------
(***************************************************************************)
(* Properties.                                                             *)
(***************************************************************************)
\* Until the masters have loaded the backup no StatefulSet has a second pod:
\* only masters are started (sync_handler.go:110).
MastersOnly ==
  api.phase \in {"", "Running"} => \A s \in Shards : sts[s].pods <= 1

\* "", Running, Restart and Succeeded follow each other in this order.
NotAfter(p, q) ==
  p = q \/ p = "" \/ q = "Succeeded" \/ (p = "Running" /\ q = "Restart")

\* The stored phase never goes back, although a pass may work on a copy of
\* the resource from several writes ago (controller.go:276, 299).
PhaseForward == [][NotAfter(api.phase, api'.phase)]_vars

\* A restore that is reported as succeeded has loaded every shard of the
\* backup (cluster_backup_and_restore.md:29, controller.go:297-302), unless the
\* operator stopped, a request failed or a user's edit came between phase
\* Running and the backup's MasterSize, which are stored one after the other.
ShardsRestored ==
  api.phase = "Succeeded" /\ faults.stops = 0 =>
    \A s \in 1 .. BackupMasters : data[s] # "empty"

\* What clients wrote after the restore is never replaced by the backup: the
\* init container has gone from every StatefulSet by then, as the comment
\* before the Restart phase says (controller.go:271-273).
NoSecondRestore ==
  [][\A s \in Shards : data[s] = "live" => data'[s] = "live"]_vars

\* Does a restore of the resource as created store 0 replicas?  The user asked
\* for none, or validateAndSetDefault has something to store, the backup's
\* MasterSize or a default, and stores the cleared replicas with it.
StoresNoReplicas ==
  \/ created.replicas = 0
  \/ ~ created.defaulted
  \/ created.masters # BackupMasters

\* The same, as long as the operator is not stopped, no request fails and the
\* resource is not edited, for a resource whose replicas are stored as 0 during
\* the restore: otherwise the pods of phase Restart are as many as the user
\* asked for, and a pass on a stale copy in phase Running, which clears the
\* replicas, finds the number of pods changed and puts the init container back.
NoSecondRestoreUndisturbed ==
  [][\A s \in Shards :
       data[s] = "live" /\ StoresNoReplicas /\ faults.stops = 0
         => data'[s] = "live"]_vars

(***************************************************************************)
(* The inductive invariant.                                                *)
(***************************************************************************)
\* Copies are old, never ahead; a pass that started in phase Restart or
\* Succeeded leaves the cache there.
CopiesLag ==
  /\ mem.phase = base.phase
  /\ NotAfter(base.phase, api.phase)
  /\ NotAfter(cache.phase, api.phase)
  /\ pc \in {"init", "defaults", "configmap", "ensure"} /\ mem.phase \in {"Restart", "Succeeded"}
       => NotAfter(mem.phase, cache.phase)

\* What a pass may rely on where it stands.
PassKnows ==
  /\ pc \in {"defaults", "configmap", "ensure"} => mem.phase # ""
  /\ pc \in {"configmap", "ensure"} /\ mem.phase # "Succeeded" => mem.replicas = 0
  /\ pc \notin {"idle", "defaults"} => mem.masters = base.masters
  /\ pc = "init" => ~ updated
  /\ pc = "defaults" => mem.masters = IF updated THEN BackupMasters ELSE base.masters
  /\ pc = "update" => mem.phase = "Restart" /\ api.phase = "Restart"
  /\ pc = "replicas" => mem.phase = "Succeeded"

\* A pod that runs before phase Restart was started by a StatefulSet with the
\* init container, and the pods that were found ready have loaded the backup.
BackupLoaded ==
  /\ cm # "1"
  /\ api.phase \in {"", "Running"} =>
       \A s \in Shards : /\ sts[s].pods > 0 => sts[s].init
                         /\ up[s] > 0 => data[s] # "empty"
  /\ api.phase \in {"", "Running"} /\ pc = "joined" =>
       \A s \in 1 .. mem.masters : sts[s].pods = 1 /\ data[s] # "empty"
  /\ \A s \in Shards : data[s] = "live" => api.phase = "Succeeded"

\* The pass that stored phase Running has yet to store the spec.
SpecPending ==
  /\ pc = "defaults" /\ base = api /\ mem.phase = "Running"
  /\ mem.masters = BackupMasters /\ mem.defaulted = api.defaulted

\* Undisturbed, the backup's MasterSize is stored with phase Running.
SizeStored ==
  faults.stops = 0 =>
    /\ api.phase # "" => api.masters = BackupMasters \/ (SpecPending /\ updated)
    /\ api.phase \in {"Restart", "Succeeded"} =>
         \A s \in 1 .. BackupMasters : data[s] # "empty"
    /\ \A s \in Shards : data[s] = "live" => s <= BackupMasters

\* Could a pass, this one or one to come, still work on phase Running?
RunningSeen ==
  \/ cache.phase = "Running"
  \/ pc \in {"init", "defaults", "configmap", "ensure"} /\ mem.phase = "Running"

\* Undisturbed, and with 0 replicas stored, phase Restart takes the init
\* container away for good: while a copy in phase Running is around, the
\* number of pods is the one it asks for.
InitContainersGone ==
  /\ api.phase = "" => SameSpec(api, created)
  /\ faults.stops = 0 /\ StoresNoReplicas =>
       /\ api.phase \in {"Running", "Restart"} =>
            api.replicas = 0 \/ (SpecPending /\ (updated \/ ~ mem.defaulted))
       /\ pc = "update" => mem.masters = BackupMasters /\ mem.replicas = 0
       /\ api.phase \in {"Restart", "Succeeded"} =>
            \A s \in 1 .. BackupMasters :
              /\ RunningSeen => sts[s].pods = 1
              /\ pc # "update" \/ s < i => ~ sts[s].init

IInv ==
  /\ TypeOK /\ CopiesLag /\ PassKnows /\ MastersOnly
  /\ BackupLoaded /\ SizeStored /\ ShardsRestored /\ InitContainersGone

\* A restore that starts ends, with all the backup's replicas running
\* (controller.go:303-308, "next Reconcile loop ... start the slave node").
Complete ==
  /\ api.phase = "Succeeded"
  /\ \A s \in 1 .. api.masters : up[s] = BackupReplicas + 1

RestoreEnds == api.phase = "Running" ~> Complete

\* A restore for which validateAndSetDefault had something to store, the
\* backup's MasterSize or a default, ends, with all the backup's replicas
\* running, unless the operator stops, a request fails or the user edits the
\* resource on the way (controller.go:303-308).
RestoreEndsUndisturbed ==
  api.phase = "Running" /\ api.generation > 1 ~> Complete \/ faults.stops > 0
===============================================================================
