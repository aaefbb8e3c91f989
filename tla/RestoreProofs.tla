---------------------------- MODULE RestoreProofs -----------------------------
(***************************************************************************)
(* The restore keeps its promises for every size of the backup, every      *)
(* choice of the user and every number of stops, edits and pod restarts.   *)
(***************************************************************************)
EXTENDS Restore, TLAPS

\* The sizes are numbers; every shard and pod a size asks for is there.
LEMMA SizeFacts ==
  /\ MasterSizes \subseteq Nat /\ ReplicaSizes \subseteq Nat
  /\ Shards \subseteq Nat \ {0} /\ PodNumbers \subseteq Nat /\ {0, 1} \subseteq PodNumbers
  /\ \A m \in MasterSizes : 1 .. m \subseteq Shards
  /\ \A r \in ReplicaSizes : r + 1 \in PodNumbers
  /\ \A p \in PodNumbers, q \in Nat : q <= p => q \in PodNumbers
  /\ BackupMasters \in MasterSizes /\ MinMasters \in MasterSizes
  /\ 0 \in ReplicaSizes /\ BackupReplicas \in ReplicaSizes
<1>1. MasterSizes \subseteq Nat /\ ReplicaSizes \subseteq Nat
  BY RestoreAssumption DEF MasterSizes, ReplicaSizes
<1>2. Shards \subseteq Nat \ {0}
  BY <1>1 DEF Shards
<1>3. PodNumbers \subseteq Nat
  BY <1>1 DEF PodNumbers
<1>4. \A r \in ReplicaSizes : r + 1 \in PodNumbers
  BY <1>1 DEF PodNumbers
<1>5. 0 \in ReplicaSizes
  BY DEF ReplicaSizes
<1>7. ASSUME NEW p \in PodNumbers, NEW q \in Nat, q <= p PROVE q \in PodNumbers
  <2>1. CASE q = 0
    BY <2>1 DEF PodNumbers
  <2>2. CASE q > 0
    <3>1. PICK r \in ReplicaSizes : p \in 1 .. r + 1
      BY <1>7, <2>2 DEF PodNumbers
    <3>2. q \in 1 .. r + 1
      BY <1>1, <1>7, <2>2, <3>1
    <3> QED
      BY <3>2 DEF PodNumbers
  <2> QED
    BY <2>1, <2>2
<1>6. 0 \in PodNumbers /\ 1 \in PodNumbers
  BY <1>4, <1>5 DEF PodNumbers
<1> QED
  BY <1>1, <1>2, <1>3, <1>4, <1>5, <1>6, <1>7 DEF MasterSizes, ReplicaSizes, Shards

\* The fields of a resource.
LEMMA CRFields ==
  ASSUME NEW x \in CR
  PROVE  /\ x.phase \in {"", "Running", "Restart", "Succeeded"}
         /\ x.masters \in MasterSizes /\ x.masters \in Nat
         /\ x.replicas \in ReplicaSizes /\ x.replicas \in Nat
         /\ x.defaulted \in BOOLEAN
         /\ x.generation \in Nat /\ x.generation + 1 \in Nat
<1>1. /\ x.phase \in {"", "Running", "Restart", "Succeeded"}
      /\ x.masters \in MasterSizes /\ x.replicas \in ReplicaSizes
      /\ x.defaulted \in BOOLEAN /\ x.generation \in Nat
  BY DEF CR
<1>2. x.masters \in Nat /\ x.replicas \in Nat
  BY <1>1, SizeFacts
<1>3. x.generation + 1 \in Nat
  <2>1. \A g \in Nat : g + 1 \in Nat
    OBVIOUS
  <2> QED
    BY <1>1, <2>1, Zenon
<1> QED
  BY <1>1, <1>2, <1>3

\* Every copy and StatefulSet the operator makes has its type.
LEMMA CopyTypes ==
  ASSUME NEW x \in CR
  PROVE  /\ Defaulted(x) \in CR
         /\ [x EXCEPT !.masters = BackupMasters] \in CR
         /\ [x EXCEPT !.replicas = BackupReplicas] \in CR
         /\ NewStatefulSetForCR(x) \in [pods : PodNumbers, init : BOOLEAN]
         /\ \A p \in {"", "Running", "Restart", "Succeeded"} : [x EXCEPT !.phase = p] \in CR
         /\ \A g \in Nat : [x EXCEPT !.generation = g] \in CR
BY SizeFacts DEF CR, Defaulted, NewStatefulSetForCR

-----------------------------------------------------------------------------
(***************************************************************************)
(* Types.                                                                  *)
(***************************************************************************)
\* A write of the resource stores a resource.
LEMMA WriteTypes ==
  ASSUME TypeOK
  PROVE  /\ \A p \in {"", "Running", "Restart", "Succeeded"} :
              WriteStatus(p) => api' \in CR /\ base' \in CR
         /\ \A x \in CR : WriteSpec(x) => api' \in CR /\ base' \in CR /\ mem' \in CR
<1>1. ASSUME NEW p \in {"", "Running", "Restart", "Succeeded"}, WriteStatus(p)
      PROVE  api' \in CR /\ base' \in CR
  BY <1>1, CopyTypes DEF WriteStatus, TypeOK
<1>2. ASSUME NEW x \in CR, WriteSpec(x)
      PROVE  api' \in CR /\ base' \in CR /\ mem' \in CR
  <2>1. [x EXCEPT !.phase = api.phase, !.generation = api.generation + 1] \in CR
    <3>1. api.phase \in {"", "Running", "Restart", "Succeeded"} /\ api.generation + 1 \in Nat
      BY CRFields DEF TypeOK
    <3> QED
      BY <3>1 DEF CR
  <2>2. api' \in CR
    <3>1. CASE SameSpec(x, api)
      BY <1>2, <3>1 DEF WriteSpec, TypeOK
    <3>2. CASE ~ SameSpec(x, api)
      BY <1>2, <2>1, <3>2 DEF WriteSpec
    <3> QED
      BY <3>1, <3>2
  <2> QED
    BY <1>2, <2>2 DEF WriteSpec
<1> QED
  BY <1>1, <1>2

\* Putting a StatefulSet.
LEMMA PutTypes ==
  ASSUME TypeOK, NEW s \in Shards, PutStatefulSet(s)
  PROVE  /\ sts' \in [Shards -> [pods : PodNumbers, init : BOOLEAN]]
         /\ outdated' \in [Shards -> BOOLEAN]
         /\ sts'[s] = NewStatefulSetForCR(mem)
         /\ \A r \in Shards \ {s} : sts'[r] = sts[r]
<1>1. NewStatefulSetForCR(mem) \in [pods : PodNumbers, init : BOOLEAN]
  BY CopyTypes DEF TypeOK
<1>2. sts' = [sts EXCEPT ![s] = NewStatefulSetForCR(mem)]
  BY DEF PutStatefulSet
<1>3. outdated' \in [Shards -> BOOLEAN]
  BY DEF PutStatefulSet, TypeOK
<1> QED
  BY <1>1, <1>2, <1>3 DEF TypeOK

\* The numbers the guards compare.
LEMMA NumberFacts ==
  ASSUME TypeOK
  PROVE  /\ i \in Nat /\ i > 0 /\ mem.masters \in Nat
         /\ \A s \in Shards : up[s] \in Nat /\ sts[s].pods \in Nat
<1>1. i \in Nat /\ i > 0
  BY SizeFacts DEF TypeOK
<1>2. mem.masters \in Nat
  BY CRFields DEF TypeOK
<1>3. \A s \in Shards : up[s] \in PodNumbers /\ sts[s].pods \in PodNumbers
  BY DEF TypeOK
<1>4. \A s \in Shards : up[s] \in Nat /\ sts[s].pods \in Nat
  BY <1>3, SizeFacts
<1> QED
  BY <1>1, <1>2, <1>4

\* The shard a loop is at, and the next index.
LEMMA IndexFacts ==
  ASSUME TypeOK, i <= mem.masters
  PROVE  i \in Shards /\ i + 1 \in {1} \cup {s + 1 : s \in Shards}
<1>1. mem.masters \in MasterSizes
  BY DEF TypeOK, CR
<1>2. i \in Nat /\ i > 0
  BY SizeFacts DEF TypeOK
<1>3. i \in Shards
  <2>1. mem.masters \in Nat /\ 1 .. mem.masters \subseteq Shards
    BY <1>1, SizeFacts
  <2>2. i \in 1 .. mem.masters
    BY <1>2, <2>1
  <2> QED
    BY <2>1, <2>2
<1>4. i + 1 \in {s + 1 : s \in Shards}
  BY <1>3, Zenon
<1> QED
  BY <1>3, <1>4

\* The variables keep their types in every step.
LEMMA TypeStep ==
  ASSUME TypeOK, [Next]_vars
  PROVE  TypeOK'
<1>. USE DEF PCs, OperatorOnly, podVars, EndPass
<1>1. CASE StartPass
  BY <1>1 DEF StartPass, TypeOK
<1>2. CASE InitRestore
  <2>1. CASE backupDone /\ WriteStatus("Running")
    <3>1. api' \in CR /\ base' \in CR
      BY <2>1, WriteTypes
    <3>2. [api' EXCEPT !.masters = BackupMasters] \in CR
      BY <3>1, CopyTypes
    <3> QED
      BY <1>2, <2>1, <3>1, <3>2 DEF InitRestore, WriteStatus, TypeOK
  <2> QED
    BY <1>2, <2>1 DEF InitRestore, TypeOK
<1>3. CASE SkipInitRestore
  BY <1>3 DEF SkipInitRestore, TypeOK
<1>4. CASE SetDefaults
  BY <1>4, WriteTypes, CopyTypes DEF SetDefaults, TypeOK
<1>5. CASE EnsureRedisConfigMap
  BY <1>5 DEF EnsureRedisConfigMap, NewConfigMapForRestore, TypeOK
<1>6. CASE EnsureStatefulset
  BY <1>6, PutTypes, IndexFacts DEF EnsureStatefulset, TypeOK
<1>7. CASE EnsureStatefulsetsDone
  BY <1>7 DEF EnsureStatefulsetsDone, TypeOK
<1>8. CASE WaitStatefulSetUpdating
  BY <1>8 DEF WaitStatefulSetUpdating, TypeOK
<1>9. CASE WaitPodReady
  BY <1>9 DEF WaitPodReady, TypeOK
<1>10. CASE MarkRestart
  BY <1>10, WriteTypes DEF MarkRestart, TypeOK
<1>11. CASE UpdateStatefulset
  BY <1>11, PutTypes, IndexFacts DEF UpdateStatefulset, TypeOK
<1>12. CASE WaitMasterNodeRestarting
  BY <1>12 DEF WaitMasterNodeRestarting, TypeOK
<1>13. CASE MarkSucceeded
  <2>1. CASE WriteStatus("Succeeded")
    <3>1. api' \in CR /\ base' \in CR
      BY <2>1, WriteTypes
    <3>2. [api' EXCEPT !.replicas = BackupReplicas] \in CR
      BY <3>1, CopyTypes
    <3> QED
      BY <1>13, <2>1, <3>1, <3>2 DEF MarkSucceeded, WriteStatus, TypeOK
  <2> QED
    BY <1>13, <2>1 DEF MarkSucceeded, TypeOK
<1>14. CASE StoreReplicas
  BY <1>14, WriteTypes DEF StoreReplicas, TypeOK
<1>15. CASE Restored
  BY <1>15 DEF Restored, TypeOK
<1>16. CASE CacheSync
  BY <1>16 DEF CacheSync, TypeOK, passVars
<1>17. CASE Crash \/ ApiError
  <2>1. faults' \in [restarts : 0 .. MaxFaults, stops : 0 .. MaxFaults]
    BY <1>17, RestoreAssumption DEF Crash, ApiError, Disturbed, MayFault, TypeOK
  <2>2. queued' \in BOOLEAN
    BY <1>17 DEF Crash, ApiError, TypeOK
  <2> QED
    BY <1>17, <2>1, <2>2 DEF Crash, ApiError, TypeOK
<1>18. CASE UserEdit
  <2>1. api' \in CR
    <3>1. api \in CR /\ api.generation + 1 \in Nat
      BY CRFields DEF TypeOK
    <3> QED
      BY <1>18, <3>1, CopyTypes DEF UserEdit
  <2>2. faults' \in [restarts : 0 .. MaxFaults, stops : 0 .. MaxFaults]
    BY <1>18, RestoreAssumption DEF UserEdit, Disturbed, MayFault, TypeOK
  <2> QED
    BY <1>18, <2>1, <2>2 DEF UserEdit, TypeOK, passVars
<1>19. CASE BackupFinishes
  BY <1>19 DEF BackupFinishes, TypeOK, passVars
<1>20. ASSUME NEW s \in Shards, PodStarts(s) \/ PodsStop(s) \/ PodRestarts(s) \/ ClientWrites(s)
       PROVE  TypeOK'
  <2>1. CASE PodStarts(s)
    <3>1. up[s] + 1 \in PodNumbers
      <4>1. up[s] \in PodNumbers /\ sts[s].pods \in PodNumbers
        BY DEF TypeOK
      <4>2. up[s] \in Nat /\ sts[s].pods \in Nat /\ up[s] < sts[s].pods
        BY <2>1, <4>1, SizeFacts DEF PodStarts
      <4>3. up[s] + 1 \in Nat /\ up[s] + 1 <= sts[s].pods
        BY <4>2
      <4> QED
        BY <4>1, <4>3, SizeFacts
    <3> QED
      BY <1>20, <2>1, <3>1 DEF PodStarts, PodsOnly, TypeOK, passVars
  <2>2. CASE PodsStop(s)
    BY <1>20, <2>2, SizeFacts DEF PodsStop, PodsOnly, TypeOK, passVars
  <2>3. CASE PodRestarts(s)
    BY <1>20, <2>3, SizeFacts, RestoreAssumption DEF PodRestarts, PodsOnly, MayFault, TypeOK, passVars
  <2>4. CASE ClientWrites(s)
    BY <1>20, <2>4 DEF ClientWrites, PodsOnly, TypeOK, passVars
  <2> QED
    BY <1>20, <2>1, <2>2, <2>3, <2>4
<1>21. CASE UNCHANGED vars
  BY <1>21 DEF vars, passVars, TypeOK
<1> QED
  BY <1>1, <1>2, <1>3, <1>4, <1>5, <1>6, <1>7, <1>8, <1>9, <1>10, <1>11, <1>12, <1>13,
     <1>14, <1>15, <1>16, <1>17, <1>18, <1>19, <1>20, <1>21
     DEF Next, Operator

-----------------------------------------------------------------------------
(***************************************************************************)
(* The steps of the invariant.                                             *)
(***************************************************************************)
Rest == /\ CopiesLag /\ PassKnows /\ MastersOnly
        /\ BackupLoaded /\ SizeStored /\ InitContainersGone

\* A step that only ends the pass.  In the middle of UpdateRedisStatefulsets,
\* or of storing the spec, no pass ends undisturbed.
LEMMA EndSafe ==
  ASSUME IInv, UNCHANGED <<created, api, cache, mem, base, cm, sts, up, data, faults>>,
         pc' = "idle", pc = "update" => i > mem.masters, ~ SpecPending
  PROVE  Rest'
<1>. USE DEF IInv
<1>1. CopiesLag' /\ PassKnows' /\ MastersOnly'
  BY DEF CopiesLag, PassKnows, MastersOnly
<1>2. BackupLoaded'
  BY DEF BackupLoaded
<1>3. SizeStored'
  BY DEF SizeStored
<1>4. InitContainersGone'
  <2>1. SameSpec(api, created)' <=> SameSpec(api, created)
    BY DEF SameSpec
  <2>2. RunningSeen' => RunningSeen
    BY DEF RunningSeen
  <2>3. StoresNoReplicas' <=> StoresNoReplicas
    BY DEF StoresNoReplicas
  <2>4. ASSUME pc = "update", mem.masters = BackupMasters, NEW s \in 1 .. BackupMasters
        PROVE  s < i
    <3>1. mem.masters \in Nat /\ i \in Nat
      BY NumberFacts
    <3> QED
      BY <2>4, <3>1
  <2> QED
    BY <2>1, <2>2, <2>3, <2>4 DEF InitContainersGone
<1> QED
  BY <1>1, <1>2, <1>3, <1>4 DEF Rest

\* A pass starts on the cached copy.
LEMMA StartPassSafe ==
  ASSUME IInv, StartPass
  PROVE  Rest'
<1>. USE DEF IInv
<1>0. /\ pc = "idle" /\ pc' = "init" /\ mem' = cache /\ base' = cache /\ updated' = FALSE
      /\ UNCHANGED <<created, api, cache, cm, sts, up, data, faults, i>>
  BY DEF StartPass, OperatorOnly, podVars
<1>1. PassKnows' /\ MastersOnly'
  BY <1>0 DEF PassKnows, MastersOnly
<1>5. CopiesLag'
  BY <1>0 DEF CopiesLag, NotAfter
<1>2. BackupLoaded'
  BY <1>0 DEF BackupLoaded
<1>3. SizeStored'
  BY <1>0 DEF SizeStored, SpecPending
<1>4. InitContainersGone'
  <2>1. SameSpec(api, created)' <=> SameSpec(api, created)
    BY <1>0 DEF SameSpec
  <2>2. RunningSeen' => RunningSeen
    BY <1>0 DEF RunningSeen
  <2>3. StoresNoReplicas' <=> StoresNoReplicas
    BY <1>0 DEF StoresNoReplicas
  <2> QED
    BY <1>0, <2>1, <2>2, <2>3 DEF InitContainersGone, SpecPending
<1> QED
  BY <1>1, <1>2, <1>3, <1>4, <1>5 DEF Rest

\* initRestore stores phase Running, or there is nothing to do for it.
LEMMA InitRestoreSafe ==
  ASSUME IInv, InitRestore \/ SkipInitRestore
  PROVE  Rest'
<1>. USE DEF IInv
<1>1. CASE InitRestore /\ backupDone /\ ~ Conflict
  <2>1. /\ pc = "init" /\ pc' = "defaults" /\ mem.phase = "" /\ base = api
        /\ updated' = (api.masters # BackupMasters)
        /\ base' = api' /\ UNCHANGED <<created, cache, cm, sts, up, data, faults, i>>
    BY <1>1 DEF InitRestore, Conflict, WriteStatus, OperatorOnly, podVars
  <2>2. api.phase = ""
    BY <2>1 DEF CopiesLag
  <2>3. /\ api'.phase = "Running" /\ api'.masters = api.masters
        /\ api'.replicas = api.replicas /\ api'.defaulted = api.defaulted
    BY <1>1 DEF InitRestore, WriteStatus, Conflict, TypeOK, CR
  <2>4. /\ mem'.phase = api'.phase /\ mem'.masters = BackupMasters
        /\ mem'.replicas = api'.replicas /\ mem'.defaulted = api'.defaulted
    <3>1. api' \in CR
      BY <1>1, WriteTypes DEF InitRestore
    <3>2. mem' = [api' EXCEPT !.masters = BackupMasters]
      BY <1>1 DEF InitRestore
    <3> QED
      BY <3>1, <3>2 DEF CR
  <2>5. CopiesLag' /\ PassKnows' /\ MastersOnly'
    BY <2>1, <2>2, <2>3, <2>4 DEF CopiesLag, NotAfter, PassKnows, MastersOnly
  <2>6. BackupLoaded'
    BY <2>1, <2>2, <2>3 DEF BackupLoaded
  <2>7. SizeStored'
    BY <2>1, <2>2, <2>3, <2>4 DEF SizeStored, SpecPending
  <2>8. InitContainersGone'
    <3>1. StoresNoReplicas => api.replicas = 0 \/ updated' \/ ~ mem'.defaulted
      BY <2>1, <2>2, <2>3, <2>4 DEF InitContainersGone, StoresNoReplicas, SameSpec
    <3>2. StoresNoReplicas' <=> StoresNoReplicas
      BY <2>1 DEF StoresNoReplicas
    <3> QED
      BY <2>1, <2>3, <2>4, <3>1, <3>2 DEF InitContainersGone, SpecPending
  <2> QED
    BY <2>5, <2>6, <2>7, <2>8 DEF Rest
<1>2. CASE InitRestore /\ (~ backupDone \/ Conflict)
  <2>1. /\ pc = "init" /\ pc' = "idle"
        /\ UNCHANGED <<created, api, cache, mem, base, cm, sts, up, data, faults>>
    BY <1>2 DEF InitRestore, EndPass, OperatorOnly, podVars
  <2> QED
    BY <2>1, EndSafe DEF SpecPending
<1>3. CASE SkipInitRestore
  <2>1. /\ pc = "init" /\ pc' = "defaults" /\ mem.phase # ""
        /\ UNCHANGED <<created, api, cache, mem, base, updated, cm, sts, up, data, faults>>
    BY <1>3 DEF SkipInitRestore, OperatorOnly, podVars
  <2>2. CopiesLag' /\ PassKnows' /\ MastersOnly'
    BY <2>1 DEF CopiesLag, PassKnows, MastersOnly
  <2>3. BackupLoaded'
    BY <2>1 DEF BackupLoaded
  <2>4. SizeStored'
    BY <2>1 DEF SizeStored, SpecPending
  <2>5. InitContainersGone'
    <3>1. (SameSpec(api, created)' <=> SameSpec(api, created)) /\ (RunningSeen' => RunningSeen)
      BY <2>1 DEF SameSpec, RunningSeen
    <3>2. StoresNoReplicas' <=> StoresNoReplicas
      BY <2>1 DEF StoresNoReplicas
    <3> QED
      BY <2>1, <3>1, <3>2 DEF InitContainersGone, SpecPending
  <2> QED
    BY <2>2, <2>3, <2>4, <2>5 DEF Rest
<1> QED
  BY <1>1, <1>2, <1>3

\* What validateAndSetDefault makes of a copy.
LEMMA DefaultFacts ==
  ASSUME TypeOK
  PROVE  /\ Defaulted(mem) \in CR
         /\ Defaulted(mem).phase = mem.phase /\ Defaulted(mem).defaulted
         /\ mem.phase \in {"Running", "Restart"} => Defaulted(mem).replicas = 0
         /\ mem.masters = BackupMasters => Defaulted(mem).masters = BackupMasters
<1>1. mem \in CR
  BY DEF TypeOK
<1>2. Defaulted(mem) \in CR
  BY <1>1, CopyTypes
<1>3. mem.masters = BackupMasters => Defaulted(mem).masters = BackupMasters
  <2>1. Defaulted(mem).masters = IF mem.masters < MinMasters THEN MinMasters ELSE mem.masters
    BY <1>1 DEF Defaulted, CR
  <2> QED
    BY <2>1, RestoreAssumption
<1>4. Defaulted(mem).phase = mem.phase /\ Defaulted(mem).defaulted
  BY <1>1 DEF Defaulted, CR
<1>5. mem.phase \in {"Running", "Restart"} => Defaulted(mem).replicas = 0
  BY <1>1 DEF Defaulted, CR
<1> QED
  BY <1>2, <1>3, <1>4, <1>5

\* What UpdateCR makes of the stored resource.
LEMMA WriteSpecFacts ==
  ASSUME TypeOK, NEW x \in CR, WriteSpec(x)
  PROVE  /\ base' = api' /\ mem' = api'
         /\ api'.phase = api.phase /\ api'.masters = x.masters
         /\ api'.replicas = x.replicas /\ api'.defaulted = x.defaulted
<1>1. CASE SameSpec(x, api)
  BY <1>1 DEF WriteSpec, SameSpec
<1>2. CASE ~ SameSpec(x, api)
  <2>1. api' = [x EXCEPT !.phase = api.phase, !.generation = api.generation + 1]
    BY <1>2 DEF WriteSpec
  <2>2. /\ api'.phase = api.phase /\ api'.masters = x.masters
        /\ api'.replicas = x.replicas /\ api'.defaulted = x.defaulted
    BY <2>1 DEF CR
  <2> QED
    BY <2>2 DEF WriteSpec
<1> QED
  BY <1>1, <1>2

\* The rest of validateAndSetDefault.
LEMMA SetDefaultsSafe ==
  ASSUME IInv, SetDefaults
  PROVE  Rest'
<1>. USE DEF IInv
<1>. DEFINE d == Defaulted(mem)
            write == updated \/ d.masters # mem.masters \/ d.defaulted # mem.defaulted
<1>0. pc = "defaults" /\ UNCHANGED <<created, cache, cm, sts, up, data, faults, updated, i>>
  BY DEF SetDefaults, OperatorOnly, podVars
<1>1. /\ d \in CR /\ d.phase = mem.phase /\ d.defaulted
      /\ mem.phase \in {"Running", "Restart"} => d.replicas = 0
      /\ mem.masters = BackupMasters => d.masters = BackupMasters
  BY DefaultFacts
<1>2. /\ mem.phase \in {"", "Running", "Restart", "Succeeded"}
      /\ mem.defaulted \in BOOLEAN
  BY CRFields DEF TypeOK
<1>3. StoresNoReplicas' <=> StoresNoReplicas
  BY <1>0 DEF StoresNoReplicas
<1>4. CASE ~ write
  <2>1. mem' = d /\ pc' = "configmap" /\ UNCHANGED <<api, base>>
    BY <1>4 DEF SetDefaults
  <2>2. ~ updated /\ d.masters = mem.masters /\ mem.defaulted
    BY <1>1, <1>2, <1>4
  <2>. HIDE DEF d
  <2>3. CopiesLag' /\ PassKnows' /\ MastersOnly'
    BY <1>0, <1>1, <1>2, <2>1, <2>2 DEF CopiesLag, PassKnows, MastersOnly
  <2>4. BackupLoaded'
    BY <1>0, <2>1 DEF BackupLoaded
  <2>5. SizeStored'
    BY <1>0, <2>1, <2>2 DEF SizeStored
  <2>6. InitContainersGone'
    <3>1. (SameSpec(api, created)' <=> SameSpec(api, created)) /\ (RunningSeen' => RunningSeen)
      BY <1>0, <1>1, <2>1 DEF SameSpec, RunningSeen
    <3> QED
      BY <1>0, <1>3, <2>1, <2>2, <3>1 DEF InitContainersGone
  <2> QED
    BY <2>3, <2>4, <2>5, <2>6 DEF Rest
<1>5. CASE write /\ ~ Conflict
  <2>1. WriteSpec(d) /\ pc' = "configmap" /\ base = api
    BY <1>5 DEF SetDefaults, Conflict
  <2>. HIDE DEF d
  <2>2. /\ base' = api' /\ mem' = api'
        /\ api'.phase = api.phase /\ api'.masters = d.masters
        /\ api'.replicas = d.replicas /\ api'.defaulted = d.defaulted
    BY <1>1, <2>1, WriteSpecFacts
  <2>3. mem.phase = api.phase /\ mem.phase # ""
    BY <1>0, <2>1 DEF CopiesLag, PassKnows
  <2>4. CopiesLag' /\ PassKnows' /\ MastersOnly'
    BY <1>0, <1>1, <1>2, <2>1, <2>2, <2>3 DEF CopiesLag, NotAfter, PassKnows, MastersOnly
  <2>5. BackupLoaded'
    BY <1>0, <2>1, <2>2 DEF BackupLoaded
  <2>6. SizeStored'
    <3>1. faults.stops = 0 => mem.masters = BackupMasters
      BY <1>0, <2>1, <2>3 DEF SizeStored, SpecPending, PassKnows
    <3> QED
      BY <1>0, <1>1, <2>1, <2>2, <2>3, <3>1 DEF SizeStored
  <2>7. InitContainersGone'
    <3>1. RunningSeen' => RunningSeen
      BY <1>0, <2>1, <2>2, <2>3 DEF RunningSeen
    <3> QED
      BY <1>0, <1>1, <1>3, <2>1, <2>2, <2>3, <3>1 DEF InitContainersGone
  <2> QED
    BY <2>4, <2>5, <2>6, <2>7 DEF Rest
<1>6. CASE write /\ Conflict
  <2>1. pc' = "idle" /\ UNCHANGED <<api, mem, base>>
    BY <1>6 DEF SetDefaults, EndPass
  <2> QED
    BY <1>0, <1>6, <2>1, EndSafe DEF SpecPending, Conflict
<1> QED
  BY <1>4, <1>5, <1>6

\* The restore ConfigMap.
LEMMA ConfigMapSafe ==
  ASSUME IInv, EnsureRedisConfigMap
  PROVE  Rest'
<1>. USE DEF IInv
<1>1. /\ pc = "configmap" /\ pc' = "ensure" /\ (cm # "1" => cm' # "1")
      /\ UNCHANGED <<created, api, cache, mem, base, sts, up, data, faults>>
  BY DEF EnsureRedisConfigMap, NewConfigMapForRestore, OperatorOnly, podVars
<1>2. CopiesLag' /\ PassKnows' /\ MastersOnly'
  BY <1>1 DEF CopiesLag, PassKnows, MastersOnly
<1>3. BackupLoaded'
  BY <1>1 DEF BackupLoaded
<1>4. SizeStored'
  BY <1>1 DEF SizeStored, SpecPending
<1>5. InitContainersGone'
  <2>1. (SameSpec(api, created)' <=> SameSpec(api, created)) /\ (RunningSeen' => RunningSeen)
    BY <1>1 DEF SameSpec, RunningSeen
  <2>2. StoresNoReplicas' <=> StoresNoReplicas
    BY <1>1 DEF StoresNoReplicas
  <2> QED
    BY <1>1, <2>1, <2>2 DEF InitContainersGone, SpecPending
<1> QED
  BY <1>2, <1>3, <1>4, <1>5 DEF Rest

\* One iteration of EnsureRedisStatefulsets.
LEMMA EnsureSafe ==
  ASSUME IInv, EnsureStatefulset
  PROVE  Rest'
<1>. USE DEF IInv
<1>0. /\ pc = "ensure" /\ i <= mem.masters /\ i' = i + 1
      /\ UNCHANGED <<created, api, cache, mem, base, pc, cm, up, data, faults>>
  BY DEF EnsureStatefulset
<1>1. i \in Shards /\ i \in Nat /\ i > 0
  BY <1>0, IndexFacts, NumberFacts
<1>2. /\ \A s \in Shards \ {i} : sts'[s] = sts[s]
      /\ \/ sts'[i] = sts[i]
         \/ /\ sts[i].pods # mem.replicas + 1
            /\ sts'[i].pods = mem.replicas + 1
            /\ sts'[i].init = (mem.phase = "Running")
  BY <1>1, PutTypes DEF EnsureStatefulset, NewStatefulSetForCR
<1>3. /\ mem.phase \in {"Running", "Restart", "Succeeded"}
      /\ mem.phase # "Succeeded" => mem.replicas = 0
      /\ NotAfter(mem.phase, api.phase)
  BY <1>0, CRFields DEF TypeOK, PassKnows, CopiesLag
<1>10. mem.phase # "Succeeded" => mem.replicas + 1 = 1
  BY <1>3
<1>4. api.phase \in {"", "Running"} => mem.phase = "Running" /\ mem.replicas + 1 = 1
  BY <1>3, <1>10 DEF NotAfter
<1>5. CopiesLag' /\ PassKnows'
  BY <1>0 DEF CopiesLag, PassKnows
<1>6. MastersOnly'
  <2>1. ASSUME api.phase \in {"", "Running"}, NEW s \in Shards
        PROVE  sts'[s].pods <= 1
    <3>1. sts[s].pods <= 1
      BY <2>1 DEF MastersOnly
    <3>2. sts'[s] = sts[s] \/ sts'[s].pods = 1
      BY <1>2, <1>4, <2>1
    <3> QED
      BY <3>1, <3>2
  <2> QED
    BY <1>0, <2>1 DEF MastersOnly
<1>7. BackupLoaded'
  BY <1>0, <1>1, <1>2, <1>4 DEF BackupLoaded
<1>8. SizeStored'
  BY <1>0 DEF SizeStored, SpecPending
<1>9. InitContainersGone'
  <2>1. (SameSpec(api, created)' <=> SameSpec(api, created)) /\ (RunningSeen' <=> RunningSeen)
    BY <1>0 DEF SameSpec, RunningSeen
  <2>2. StoresNoReplicas' <=> StoresNoReplicas
    BY <1>0 DEF StoresNoReplicas
  <2>3. ASSUME faults.stops = 0, StoresNoReplicas, api.phase \in {"Restart", "Succeeded"},
               NEW s \in 1 .. BackupMasters
        PROVE  (RunningSeen => sts'[s].pods = 1) /\ ~ sts'[s].init
    <3>1. s \in Shards /\ (RunningSeen => sts[s].pods = 1) /\ ~ sts[s].init
      BY <1>0, <2>3, SizeFacts DEF InitContainersGone
    <3>2. CASE mem.phase = "Running"
      <4>1. RunningSeen /\ mem.replicas + 1 = 1
        BY <1>0, <1>10, <3>2 DEF RunningSeen
      <4> QED
        BY <1>2, <3>1, <4>1
    <3>3. CASE mem.phase = "Restart"
      <4>1. mem.replicas + 1 = 1
        BY <1>10, <3>3
      <4>2. sts'[s] = sts[s] \/ (sts'[s].pods = 1 /\ ~ sts'[s].init)
        BY <1>2, <3>1, <3>3, <4>1
      <4> QED
        BY <3>1, <4>2
    <3>4. CASE mem.phase = "Succeeded"
      <4>1. ~ RunningSeen
        BY <1>0, <3>4 DEF CopiesLag, NotAfter, RunningSeen
      <4> QED
        BY <1>2, <3>1, <3>4, <4>1
    <3> QED
      BY <1>3, <3>2, <3>3, <3>4
  <2> QED
    BY <1>0, <2>1, <2>2, <2>3 DEF InitContainersGone, SpecPending
<1> QED
  BY <1>5, <1>6, <1>7, <1>8, <1>9 DEF Rest

\* The end of the loop, the wait for the update, and the wait for the pods.
LEMMA WaitSafe ==
  ASSUME IInv, EnsureStatefulsetsDone \/ WaitStatefulSetUpdating \/ WaitPodReady
  PROVE  Rest'
<1>. USE DEF IInv
<1>0. /\ pc \in {"ensure", "wait", "check"} /\ pc' \in {"wait", "check", "joined", "idle"}
      /\ UNCHANGED <<created, api, cache, base, cm, sts, up, data, faults>>
  BY DEF EnsureStatefulsetsDone, WaitStatefulSetUpdating, WaitPodReady, EndPass, OperatorOnly,
         podVars
<1>1. mem' = mem \/ (mem' = api /\ base = api /\ pc' # "joined")
  BY DEF EnsureStatefulsetsDone, WaitStatefulSetUpdating, WaitPodReady, Conflict
<1>2. mem'.phase = mem.phase /\ (pc' # "idle" => mem'.masters = base.masters)
  BY <1>0, <1>1 DEF CopiesLag, PassKnows
<1>3. CopiesLag' /\ PassKnows' /\ MastersOnly'
  BY <1>0, <1>2 DEF CopiesLag, PassKnows, MastersOnly
<1>4. BackupLoaded'
  <2>1. ASSUME api.phase \in {"", "Running"}, pc' = "joined", NEW s \in 1 .. mem.masters
        PROVE  sts[s].pods = 1 /\ data[s] # "empty"
    <3>1. AllReady
      BY <2>1 DEF EnsureStatefulsetsDone, WaitStatefulSetUpdating, WaitPodReady, EndPass
    <3>2. sts[s].pods = mem.replicas + 1 /\ up[s] = mem.replicas + 1
      BY <3>1 DEF AllReady
    <3>3. s \in Shards /\ mem.replicas \in Nat
      BY SizeFacts, CRFields DEF TypeOK
    <3>4. up[s] > 0 /\ sts[s].pods > 0 /\ sts[s].pods \in Nat
      BY <3>2, <3>3
    <3>5. data[s] # "empty"
      BY <2>1, <3>3, <3>4 DEF BackupLoaded
    <3>6. sts[s].pods <= 1
      BY <2>1, <3>3 DEF MastersOnly
    <3> QED
      BY <3>4, <3>5, <3>6
  <2> QED
    BY <1>0, <1>1, <2>1 DEF BackupLoaded
<1>5. SizeStored'
  BY <1>0 DEF SizeStored, SpecPending
<1>6. InitContainersGone'
  <2>1. (SameSpec(api, created)' <=> SameSpec(api, created)) /\ (RunningSeen' => RunningSeen)
    BY <1>0 DEF SameSpec, RunningSeen
  <2>2. StoresNoReplicas' <=> StoresNoReplicas
    BY <1>0 DEF StoresNoReplicas
  <2> QED
    BY <1>0, <2>1, <2>2 DEF InitContainersGone, SpecPending
<1> QED
  BY <1>3, <1>4, <1>5, <1>6 DEF Rest

\* The masters have loaded the backup: phase Restart is stored.
LEMMA MarkRestartSafe ==
  ASSUME IInv, MarkRestart
  PROVE  Rest'
<1>. USE DEF IInv
<1>0. pc = "joined" /\ mem.phase = "Running" /\ UNCHANGED <<created, cache, cm, sts, up, data, faults>>
  BY DEF MarkRestart, OperatorOnly, podVars
<1>1. CASE ~ Conflict
  <2>1. /\ base = api /\ base' = api' /\ mem' = api' /\ i' = 1 /\ pc' = "update"
    BY <1>1 DEF MarkRestart, WriteStatus, Conflict
  <2>2. /\ api'.phase = "Restart" /\ api'.masters = api.masters
        /\ api'.replicas = api.replicas /\ api'.defaulted = api.defaulted
    BY <1>1 DEF MarkRestart, WriteStatus, TypeOK, CR
  <2>3. api.phase = "Running" /\ mem.masters = api.masters
    BY <1>0, <2>1 DEF CopiesLag, PassKnows
  <2>4. /\ \A s \in 1 .. mem.masters : sts[s].pods = 1 /\ data[s] # "empty"
        /\ \A s \in Shards : data[s] # "live"
    BY <1>0, <2>3 DEF BackupLoaded
  <2>5. CopiesLag' /\ PassKnows' /\ MastersOnly'
    BY <1>0, <2>1, <2>2, <2>3 DEF CopiesLag, NotAfter, PassKnows, MastersOnly
  <2>6. BackupLoaded'
    BY <1>0, <2>1, <2>2, <2>3 DEF BackupLoaded
  <2>7. faults.stops = 0 => api.masters = BackupMasters
    BY <1>0, <2>3 DEF SizeStored, SpecPending
  <2>8. SizeStored'
    BY <1>0, <2>1, <2>2, <2>3, <2>4, <2>7 DEF SizeStored
  <2>9. InitContainersGone'
    <3>1. StoresNoReplicas' <=> StoresNoReplicas
      BY <1>0 DEF StoresNoReplicas
    <3>2. faults.stops = 0 /\ StoresNoReplicas => api.replicas = 0
      BY <1>0, <2>3 DEF InitContainersGone, SpecPending
    <3>3. \A s \in 1 .. BackupMasters : ~ (s < 1)
      OBVIOUS
    <3> QED
      BY <1>0, <2>1, <2>2, <2>3, <2>4, <2>7, <3>1, <3>2, <3>3 DEF InitContainersGone
  <2> QED
    BY <2>5, <2>6, <2>8, <2>9 DEF Rest
<1>2. CASE Conflict
  BY <1>0, <1>2, EndSafe DEF MarkRestart, EndPass, SpecPending
<1> QED
  BY <1>1, <1>2

\* One iteration of UpdateRedisStatefulsets, and its end.
LEMMA UpdateSafe ==
  ASSUME IInv, UpdateStatefulset \/ WaitMasterNodeRestarting
  PROVE  Rest'
<1>. USE DEF IInv
<1>1. CASE UpdateStatefulset
  <2>0. /\ pc = "update" /\ i <= mem.masters /\ i' = i + 1
        /\ UNCHANGED <<created, api, cache, mem, base, pc, cm, up, data, faults>>
    BY <1>1 DEF UpdateStatefulset
  <2>1. i \in Shards /\ i \in Nat /\ i > 0
    BY <2>0, IndexFacts, NumberFacts
  <2>2. mem.phase = "Restart" /\ api.phase \in {"Restart", "Succeeded"}
    BY <2>0 DEF PassKnows, CopiesLag, NotAfter
  <2>3. /\ \A s \in Shards \ {i} : sts'[s] = sts[s]
        /\ sts'[i].pods = mem.replicas + 1 /\ ~ sts'[i].init
    BY <1>1, <2>1, <2>2, PutTypes DEF UpdateStatefulset, NewStatefulSetForCR
  <2>4. CopiesLag' /\ PassKnows' /\ MastersOnly'
    BY <2>0, <2>2 DEF CopiesLag, PassKnows, MastersOnly
  <2>5. BackupLoaded'
    BY <2>0, <2>2 DEF BackupLoaded
  <2>6. SizeStored'
    BY <2>0 DEF SizeStored, SpecPending
  <2>7. InitContainersGone'
    <3>1. (SameSpec(api, created)' <=> SameSpec(api, created)) /\ (RunningSeen' <=> RunningSeen)
      BY <2>0 DEF SameSpec, RunningSeen
    <3>2. StoresNoReplicas' <=> StoresNoReplicas
      BY <2>0 DEF StoresNoReplicas
    <3>3. ASSUME faults.stops = 0, StoresNoReplicas, NEW s \in 1 .. BackupMasters
          PROVE  (RunningSeen => sts'[s].pods = 1) /\ (s < i + 1 => ~ sts'[s].init)
      <4>1. s \in Shards /\ (RunningSeen => sts[s].pods = 1) /\ (s < i => ~ sts[s].init)
        BY <2>0, <2>2, <3>3, SizeFacts DEF InitContainersGone
      <4>2. mem.replicas = 0
        BY <2>0, <3>3 DEF InitContainersGone
      <4>3. mem.replicas + 1 = 1
        BY <4>2
      <4>4. CASE s = i
        BY <2>3, <4>3, <4>4
      <4>5. CASE s # i
        <5>1. sts'[s] = sts[s]
          BY <2>3, <4>1, <4>5
        <5>2. s < i + 1 => s < i
          BY <2>1, <4>5
        <5> QED
          BY <4>1, <5>1, <5>2
      <4> QED
        BY <4>4, <4>5
    <3> QED
      BY <2>0, <3>1, <3>2, <3>3 DEF InitContainersGone, SpecPending
  <2> QED
    BY <2>4, <2>5, <2>6, <2>7 DEF Rest
<1>2. CASE WaitMasterNodeRestarting
  BY <1>2, EndSafe DEF WaitMasterNodeRestarting, EndPass, OperatorOnly, podVars, SpecPending
<1> QED
  BY <1>1, <1>2

\* Phase Succeeded is stored, then the backup's replicas.
LEMMA SucceedSafe ==
  ASSUME IInv, MarkSucceeded \/ StoreReplicas \/ Restored
  PROVE  Rest'
<1>. USE DEF IInv
<1>0. UNCHANGED <<created, cache, cm, sts, up, data, faults, i>>
  BY DEF MarkSucceeded, StoreReplicas, Restored, OperatorOnly, podVars
<1>1. StoresNoReplicas' <=> StoresNoReplicas
  BY <1>0 DEF StoresNoReplicas
<1>2. CASE MarkSucceeded /\ ~ Conflict
  <2>1. /\ pc = "joined" /\ pc' = "replicas" /\ mem.phase = "Restart"
        /\ base = api /\ base' = api'
    BY <1>2 DEF MarkSucceeded, WriteStatus, Conflict
  <2>2. api'.phase = "Succeeded" /\ api'.masters = api.masters
    BY <1>2 DEF MarkSucceeded, WriteStatus, TypeOK, CR
  <2>3. mem'.phase = api'.phase /\ mem'.masters = api'.masters
    <3>1. api' \in CR
      BY <1>2, WriteTypes DEF MarkSucceeded
    <3>2. mem' = [api' EXCEPT !.replicas = BackupReplicas]
      BY <1>2 DEF MarkSucceeded
    <3> QED
      BY <3>1, <3>2 DEF CR
  <2>4. api.phase = "Restart"
    BY <2>1 DEF CopiesLag
  <2>5. CopiesLag' /\ PassKnows' /\ MastersOnly'
    BY <1>0, <2>1, <2>2, <2>3 DEF CopiesLag, NotAfter, PassKnows, MastersOnly
  <2>6. BackupLoaded'
    BY <1>0, <2>1, <2>2 DEF BackupLoaded
  <2>7. SizeStored'
    BY <1>0, <2>1, <2>2, <2>4 DEF SizeStored, SpecPending
  <2>8. InitContainersGone'
    <3>1. RunningSeen' => RunningSeen
      BY <1>0, <2>1 DEF RunningSeen
    <3> QED
      BY <1>0, <1>1, <2>1, <2>2, <2>4, <3>1 DEF InitContainersGone
  <2> QED
    BY <2>5, <2>6, <2>7, <2>8 DEF Rest
<1>3. CASE StoreReplicas /\ ~ Conflict
  <2>1. pc = "replicas" /\ pc' = "idle" /\ base = api /\ WriteSpec(mem)
    BY <1>3 DEF StoreReplicas, EndPass, Conflict
  <2>2. mem \in CR
    BY DEF TypeOK
  <2>3. base' = api' /\ mem' = api' /\ api'.phase = api.phase /\ api'.masters = mem.masters
    BY <2>1, <2>2, WriteSpecFacts
  <2>4. api.phase = "Succeeded" /\ mem.masters = api.masters
    BY <2>1 DEF PassKnows, CopiesLag
  <2>5. CopiesLag' /\ PassKnows' /\ MastersOnly'
    BY <1>0, <2>1, <2>3, <2>4 DEF CopiesLag, NotAfter, PassKnows, MastersOnly
  <2>6. BackupLoaded'
    BY <1>0, <2>1, <2>3, <2>4 DEF BackupLoaded
  <2>7. SizeStored'
    BY <1>0, <2>1, <2>3, <2>4 DEF SizeStored, SpecPending
  <2>8. InitContainersGone'
    <3>1. RunningSeen' => RunningSeen
      BY <1>0, <2>1 DEF RunningSeen
    <3> QED
      BY <1>0, <1>1, <2>1, <2>3, <2>4, <3>1 DEF InitContainersGone
  <2> QED
    BY <2>5, <2>6, <2>7, <2>8 DEF Rest
<1>4. CASE (MarkSucceeded /\ Conflict) \/ (StoreReplicas /\ Conflict) \/ Restored
  <2>1. pc \in {"joined", "replicas"} /\ pc' = "idle" /\ UNCHANGED <<api, mem, base>>
    BY <1>4 DEF MarkSucceeded, StoreReplicas, Restored, EndPass
  <2> QED
    BY <1>0, <2>1, EndSafe DEF SpecPending
<1> QED
  BY <1>2, <1>3, <1>4

\* The cache, the operator's stop, an API error and the user's edit.
LEMMA WatchSafe ==
  ASSUME IInv, CacheSync \/ Crash \/ ApiError \/ UserEdit \/ BackupFinishes
  PROVE  Rest'
<1>. USE DEF IInv
<1>0. UNCHANGED <<created, mem, base, i, updated, cm, sts, up, data>>
  BY DEF CacheSync, Crash, ApiError, UserEdit, BackupFinishes, passVars, podVars
<1>1. /\ api'.phase = api.phase /\ api'.masters = api.masters
      /\ api'.replicas = api.replicas /\ api'.defaulted = api.defaulted
  <2>1. CASE UserEdit
    BY <2>1 DEF UserEdit, TypeOK, CR
  <2> QED
    BY <2>1 DEF CacheSync, Crash, ApiError, BackupFinishes
<1>2. cache' = cache \/ cache' = api
  BY DEF CacheSync, Crash, ApiError, UserEdit, BackupFinishes
<1>3. pc' = pc \/ (pc' = "idle" /\ faults'.stops # 0)
  <2>1. CASE Crash \/ ApiError
    BY <2>1 DEF Crash, ApiError, Disturbed, TypeOK
  <2> QED
    BY <2>1 DEF CacheSync, UserEdit, BackupFinishes, passVars
<1>4. faults'.stops # 0 \/ (faults' = faults /\ api' = api /\ pc' = pc)
  <2>1. CASE Crash \/ ApiError \/ UserEdit
    BY <2>1 DEF Crash, ApiError, UserEdit, Disturbed, TypeOK
  <2> QED
    BY <2>1 DEF CacheSync, BackupFinishes, passVars
<1>5. CopiesLag' /\ PassKnows' /\ MastersOnly'
  BY <1>0, <1>1, <1>2, <1>3 DEF CopiesLag, NotAfter, PassKnows, MastersOnly
<1>6. BackupLoaded'
  BY <1>0, <1>1, <1>3 DEF BackupLoaded
<1>7. SizeStored'
  BY <1>0, <1>1, <1>4 DEF SizeStored, SpecPending
<1>8. InitContainersGone'
  <2>1. (SameSpec(api, created)' <=> SameSpec(api, created))
    BY <1>0, <1>1 DEF SameSpec
  <2>2. api.phase \in {"Restart", "Succeeded"} /\ RunningSeen' => RunningSeen
    BY <1>0, <1>2, <1>3 DEF RunningSeen
  <2>3. StoresNoReplicas' <=> StoresNoReplicas
    BY <1>0 DEF StoresNoReplicas
  <2> QED
    BY <1>0, <1>1, <1>4, <2>1, <2>2, <2>3 DEF InitContainersGone, SpecPending
<1> QED
  BY <1>5, <1>6, <1>7, <1>8 DEF Rest

\* Pods start, stop and restart, and clients write.
LEMMA PodsSafe ==
  ASSUME IInv, NEW s \in Shards,
         PodStarts(s) \/ PodsStop(s) \/ PodRestarts(s) \/ ClientWrites(s)
  PROVE  Rest'
<1>. USE DEF IInv
<1>0. UNCHANGED <<created, api, cache, mem, base, pc, i, updated, cm, sts>>
  BY DEF PodStarts, PodsStop, PodRestarts, ClientWrites, PodsOnly, passVars
<1>1. faults'.stops = faults.stops
  <2>1. CASE PodRestarts(s)
    BY <2>1 DEF PodRestarts, TypeOK
  <2> QED
    BY <2>1 DEF PodStarts, PodsStop, ClientWrites
<1>2. \A r \in Shards : /\ data[r] # "empty" => data'[r] # "empty"
                        /\ data'[r] = "live" /\ data[r] # "live" =>
                             api.phase = "Succeeded" /\ r <= api.masters
  BY DEF PodStarts, PodsStop, PodRestarts, ClientWrites, TypeOK
<1>3. ASSUME api.phase \in {"", "Running"}, NEW r \in Shards, up'[r] > 0
      PROVE  data'[r] # "empty"
  <2>1. /\ sts[r].pods > 0 => sts[r].init
        /\ up[r] > 0 => data[r] # "empty"
        /\ cm # "1"
    BY <1>3 DEF BackupLoaded
  <2>2. up[r] \in Nat /\ sts[r].pods \in Nat
    BY NumberFacts
  <2>5. up'[r] # 0
    <3>1. ASSUME up'[r] = 0 PROVE 0 > 0
      BY <1>3, <3>1, Zenon
    <3> QED
      BY <3>1
  <2>3. CASE up[r] > 0
    BY <1>2, <2>1, <2>3
  <2>4. CASE up[r] = 0
    <3>1. PodStarts(s) /\ s = r
      <4>1. CASE PodsStop(s)
        <5>1. up'[r] = up[r] \/ up'[r] = 0 \/ (up[s] > sts[s].pods /\ r = s)
          BY <4>1 DEF PodsStop, TypeOK
        <5>2. up[s] \in Nat /\ sts[s].pods \in Nat
          BY NumberFacts
        <5> QED
          BY <2>4, <2>5, <5>1, <5>2
      <4>2. CASE PodRestarts(s)
        <5>1. up'[r] = up[r] \/ up'[r] = 0
          BY <4>2 DEF PodRestarts, TypeOK
        <5> QED
          BY <2>4, <2>5, <5>1
      <4>3. CASE ClientWrites(s)
        BY <1>3, <2>4, <4>3 DEF ClientWrites
      <4>4. CASE PodStarts(s) /\ s # r
        <5>1. up'[r] = up[r]
          BY <4>4 DEF PodStarts, TypeOK
        <5> QED
          BY <2>4, <2>5, <5>1
      <4> QED
        BY <4>1, <4>2, <4>3, <4>4
    <3>2. LoadsBackup(r)
      BY <2>1, <2>2, <2>4, <3>1 DEF PodStarts, LoadsBackup
    <3>3. data'[r] = "backup"
      BY <3>1, <3>2 DEF PodStarts, TypeOK
    <3> QED
      BY <3>3
  <2> QED
    BY <2>2, <2>3, <2>4
<1>5. CopiesLag' /\ PassKnows' /\ MastersOnly'
  BY <1>0 DEF CopiesLag, PassKnows, MastersOnly
<1>6. BackupLoaded'
  <2>1. \A r \in 1 .. mem.masters : r \in Shards
    BY SizeFacts, CRFields DEF TypeOK
  <2> QED
    BY <1>0, <1>2, <1>3, <2>1 DEF BackupLoaded
<1>7. SizeStored'
  <2>1. \A r \in 1 .. BackupMasters : r \in Shards
    BY SizeFacts
  <2>2. ASSUME faults.stops = 0, NEW r \in Shards, data'[r] = "live", data[r] # "live"
        PROVE  r <= BackupMasters
    <3>1. api.phase = "Succeeded" /\ r <= api.masters
      BY <1>2, <2>2
    <3>2. ~ SpecPending
      BY <3>1 DEF SpecPending, CopiesLag
    <3>3. api.masters = BackupMasters
      BY <2>2, <3>1, <3>2 DEF SizeStored
    <3> QED
      BY <3>1, <3>3
  <2> QED
    BY <1>0, <1>1, <1>2, <2>1, <2>2 DEF SizeStored, SpecPending
<1>8. InitContainersGone'
  <2>1. (SameSpec(api, created)' <=> SameSpec(api, created)) /\ (RunningSeen' <=> RunningSeen)
    BY <1>0 DEF SameSpec, RunningSeen
  <2>2. StoresNoReplicas' <=> StoresNoReplicas
    BY <1>0 DEF StoresNoReplicas
  <2> QED
    BY <1>0, <1>1, <2>1, <2>2 DEF InitContainersGone, SpecPending
<1> QED
  BY <1>5, <1>6, <1>7, <1>8 DEF Rest

-----------------------------------------------------------------------------
(***************************************************************************)
(* The results.                                                            *)
(***************************************************************************)
\* The resource as created satisfies the invariant.
LEMMA InitSafe == Init => IInv
<1>. SUFFICES ASSUME Init PROVE IInv
  OBVIOUS
<1>1. PICK m \in UserMasters, r \in UserReplicas, d \in UserDefaulted :
        created = [phase |-> "", masters |-> m, replicas |-> r, defaulted |-> d,
                   generation |-> 1]
  BY DEF Init
<1>2. created \in CR
  BY <1>1, RestoreAssumption DEF CR, MasterSizes, ReplicaSizes
<1>3. created.phase = ""
  BY <1>1
<1>4. TypeOK
  <2>1. [pods |-> 0, init |-> FALSE] \in [pods : PodNumbers, init : BOOLEAN]
    BY SizeFacts
  <2>2. /\ sts \in [Shards -> [pods : PodNumbers, init : BOOLEAN]]
        /\ outdated \in [Shards -> BOOLEAN]
    BY <2>1, Zenon DEF Init
  <2>3. up \in [Shards -> PodNumbers] /\ data \in [Shards -> {"empty", "backup", "live"}]
    BY SizeFacts DEF Init
  <2>4. faults \in [restarts : 0 .. MaxFaults, stops : 0 .. MaxFaults]
    <3>1. 0 \in 0 .. MaxFaults
      BY RestoreAssumption
    <3>2. faults = [restarts |-> 0, stops |-> 0]
      BY DEF Init
    <3> QED
      BY <3>1, <3>2
  <2>5. updated \in BOOLEAN /\ queued \in BOOLEAN /\ backupDone \in BOOLEAN
    BY DEF Init
  <2>6. pc \in PCs /\ cm \in {"absent", "0", "1"} /\ i = 1
    BY DEF Init, PCs
  <2>7. api \in CR /\ cache \in CR /\ mem \in CR /\ base \in CR
    BY <1>2 DEF Init
  <2> QED
    BY <1>2, <2>2, <2>3, <2>4, <2>5, <2>6, <2>7 DEF TypeOK
<1>5. /\ api = created /\ cache = api /\ mem = api /\ base = api /\ pc = "idle" /\ cm = "absent"
      /\ \A s \in Shards : data[s] = "empty"
  BY DEF Init
<1>10. \A s \in Shards : sts[s].pods <= 1 /\ ~ (sts[s].pods > 0) /\ ~ (up[s] > 0)
  <2>1. \A s \in Shards : sts[s] = [pods |-> 0, init |-> FALSE] /\ up[s] = 0
    BY Zenon DEF Init
  <2>2. \A s \in Shards : sts[s].pods = 0 /\ up[s] = 0
    BY <2>1
  <2> QED
    BY <2>2
<1>6. CopiesLag /\ PassKnows /\ MastersOnly
  BY <1>3, <1>5, <1>10 DEF CopiesLag, NotAfter, PassKnows, MastersOnly
<1>7. BackupLoaded
  BY <1>3, <1>5, <1>10 DEF BackupLoaded
<1>8. SizeStored /\ ShardsRestored
  BY <1>3, <1>5 DEF SizeStored, ShardsRestored
<1>9. InitContainersGone
  BY <1>3, <1>5 DEF InitContainersGone, SameSpec
<1> QED
  BY <1>4, <1>6, <1>7, <1>8, <1>9 DEF IInv

\* Every step of the operator, of Kubernetes and of the users keeps it.
LEMMA NextSafe ==
  ASSUME IInv, [Next]_vars
  PROVE  IInv'
<1>1. TypeOK'
  BY TypeStep DEF IInv
<1>0. SUFFICES Rest'
  <2>1. Rest' => ShardsRestored'
    BY DEF Rest, SizeStored, ShardsRestored
  <2> QED
    BY <1>1, <2>1 DEF IInv, Rest
<1>2. CASE Operator
  BY <1>2, StartPassSafe, InitRestoreSafe, SetDefaultsSafe, ConfigMapSafe, EnsureSafe,
     WaitSafe, MarkRestartSafe, UpdateSafe, SucceedSafe
     DEF Operator
<1>3. CASE CacheSync \/ Crash \/ ApiError \/ UserEdit \/ BackupFinishes
  BY <1>3, WatchSafe
<1>4. CASE \E s \in Shards : PodStarts(s) \/ PodsStop(s) \/ PodRestarts(s) \/ ClientWrites(s)
  BY <1>4, PodsSafe
<1>5. CASE UNCHANGED vars
  <2>1. CopiesLag' /\ PassKnows' /\ MastersOnly' /\ BackupLoaded' /\ SizeStored'
    BY <1>5 DEF vars, passVars, podVars, IInv, CopiesLag, PassKnows, MastersOnly, BackupLoaded,
                SizeStored, SpecPending
  <2>2. InitContainersGone'
    BY <1>5 DEF vars, passVars, podVars, IInv, InitContainersGone, SpecPending, SameSpec,
                StoresNoReplicas, RunningSeen
  <2> QED
    BY <2>1, <2>2 DEF Rest
<1> QED
  BY <1>2, <1>3, <1>4, <1>5 DEF Next

\* The inductive invariant holds of every behaviour of a restore.
THEOREM Invariance == Spec => []IInv
<1>1. Init => IInv
  BY InitSafe
<1>2. IInv /\ [Next]_vars => IInv'
  BY NextSafe
<1> QED
  BY <1>1, <1>2, PTL DEF Spec

\* The variables keep their types; every index is the index of a shard.
THEOREM TypeCorrect == Spec => []TypeOK
<1>1. IInv => TypeOK
  BY DEF IInv
<1> QED
  BY <1>1, Invariance, PTL

\* Before phase Restart there are only masters, stale copies, stops of the
\* operator and edits of the user notwithstanding (validateAndSetDefault).
THEOREM MastersFirst == Spec => []MastersOnly
<1>1. IInv => MastersOnly
  BY DEF IInv
<1> QED
  BY <1>1, Invariance, PTL

\* A restore that succeeded without a stop or an edit has loaded every shard.
THEOREM EveryShard == Spec => []ShardsRestored
<1>1. IInv => ShardsRestored
  BY DEF IInv
<1> QED
  BY <1>1, Invariance, PTL

\* No write takes the stored phase back.
THEOREM PhaseNeverBack == Spec => PhaseForward
<1>1. ASSUME IInv, [Next]_vars PROVE NotAfter(api.phase, api'.phase)
  <2>1. mem.phase = base.phase /\ api \in CR /\ TypeOK
    BY <1>1 DEF IInv, CopiesLag, TypeOK
  <2>2. CASE InitRestore \/ MarkRestart \/ MarkSucceeded
    BY <2>1, <2>2 DEF InitRestore, MarkRestart, MarkSucceeded, WriteStatus, Conflict, NotAfter,
                      CR
  <2>3. CASE SetDefaults \/ StoreReplicas
    <3>1. mem \in CR /\ Defaulted(mem) \in CR
      BY <2>1, CopyTypes DEF TypeOK
    <3> QED
      BY <2>1, <2>3, <3>1, WriteSpecFacts DEF SetDefaults, StoreReplicas, NotAfter
  <2>4. CASE UserEdit
    BY <2>1, <2>4 DEF UserEdit, NotAfter, CR
  <2>5. CASE api' = api
    BY <2>5 DEF NotAfter
  <2> QED
    BY <1>1, <2>2, <2>3, <2>4, <2>5
    DEF Next, Operator, vars, StartPass, SkipInitRestore, EnsureRedisConfigMap, EnsureStatefulset,
        EnsureStatefulsetsDone, WaitStatefulSetUpdating, WaitPodReady, UpdateStatefulset,
        WaitMasterNodeRestarting, Restored, CacheSync, Crash, ApiError, BackupFinishes, PodStarts,
        PodsStop, PodRestarts, ClientWrites, PodsOnly
<1> QED
  BY <1>1, Invariance, PTL DEF Spec, PhaseForward

\* Without a stop or an edit, and with 0 replicas stored during the restore,
\* what clients wrote is never replaced by the backup.
THEOREM RestoredOnce == Spec => NoSecondRestoreUndisturbed
<1>. DEFINE A == \A s \in Shards : data[s] = "live" /\ StoresNoReplicas /\ faults.stops = 0
                                     => data'[s] = "live"
<1>1. ASSUME IInv, [Next]_vars PROVE A
  <2>1. ASSUME NEW r \in Shards, PodStarts(r) PROVE A
    <3>1. ASSUME NEW s \in Shards, data[s] = "live", StoresNoReplicas, faults.stops = 0
          PROVE  data'[s] = "live"
      <4>1. api.phase = "Succeeded" /\ s <= BackupMasters
        BY <1>1, <3>1 DEF IInv, BackupLoaded, SizeStored
      <4>2. s \in 1 .. BackupMasters
        BY <4>1, SizeFacts, RestoreAssumption
      <4>3. pc # "update"
        BY <1>1, <4>1 DEF IInv, PassKnows
      <4>4. ~ sts[s].init
        BY <1>1, <3>1, <4>1, <4>2, <4>3 DEF IInv, InitContainersGone
      <4> QED
        BY <1>1, <2>1, <3>1, <4>4 DEF PodStarts, LoadsBackup, IInv, TypeOK
    <3> QED
      BY <3>1
  <2>2. ASSUME NEW r \in Shards, ClientWrites(r) PROVE A
    BY <1>1, <2>2 DEF ClientWrites, IInv, TypeOK
  <2>3. CASE data' = data
    BY <2>3
  <2> QED
    BY <1>1, <2>1, <2>2, <2>3
    DEF Next, Operator, vars, podVars, OperatorOnly, StartPass, InitRestore, SkipInitRestore,
        SetDefaults, EnsureRedisConfigMap, EnsureStatefulset, EnsureStatefulsetsDone,
        WaitStatefulSetUpdating, WaitPodReady, MarkRestart, UpdateStatefulset,
        WaitMasterNodeRestarting, MarkSucceeded, StoreReplicas, Restored, CacheSync, Crash, ApiError,
        UserEdit, BackupFinishes, PodsStop, PodRestarts
<1> QED
  BY <1>1, Invariance, PTL DEF Spec, NoSecondRestoreUndisturbed
===============================================================================
