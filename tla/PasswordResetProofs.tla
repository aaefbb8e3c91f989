------------------------- MODULE PasswordResetProofs --------------------------
(***************************************************************************)
(* The change of password, for every number of shards and replicas and     *)
(* every number of stops of the operator.                                  *)
(***************************************************************************)
EXTENDS PasswordReset, TLAPS

\* The sizes are numbers.
LEMMA SizeFacts ==
  /\ MasterSize \in Nat /\ MasterSize > 0
  /\ ClusterReplicas \in Nat
  /\ MaxFaults \in Nat
<1>1. MasterSize \in Nat \ {0} /\ ClusterReplicas \in Nat /\ MaxFaults \in Nat
  BY PasswordAssumption, Zenon
<1> QED
  BY <1>1

\* A pod is one of its shard's.
LEMMA PodFacts ==
  /\ 0 \in Shards /\ 0 \in 0 .. ClusterReplicas /\ <<0, 0>> \in Pods
  /\ \A p \in Pods : p[1] \in Shards /\ p[2] \in 0 .. ClusterReplicas /\ p = <<p[1], p[2]>>
  /\ Shards \subseteq Nat
<1>1. 0 \in Shards /\ 0 \in 0 .. ClusterReplicas /\ Shards \subseteq Nat
  BY SizeFacts DEF Shards
<1> QED
  BY <1>1 DEF Pods

\* A pass that ends leaves well-typed variables.
LEMMA EndTypes ==
  ASSUME EndPass
  PROVE  /\ pc' = "idle" /\ todo' \in SUBSET Pods /\ node' \in Pods /\ conns' \in SUBSET Pods
         /\ i' \in 0 .. MasterSize /\ updated' \in BOOLEAN
<1>1. 0 \in 0 .. MasterSize
  BY SizeFacts
<1> QED
  BY <1>1, PodFacts DEF EndPass, NoNode

\* The count of faults stays within its bound.
LEMMA FaultTypes ==
  ASSUME TypeOK, MayFault
  PROVE  /\ [faults EXCEPT !.others = @ + 1] \in [stops : 0 .. MaxFaults, others : 0 .. MaxFaults]
         /\ [faults EXCEPT !.stops = @ + 1] \in [stops : 0 .. MaxFaults, others : 0 .. MaxFaults]
         /\ [faults EXCEPT !.others = @ + 1].others # 0
         /\ [faults EXCEPT !.stops = @ + 1].others = faults.others
BY SizeFacts DEF TypeOK, MayFault

\* The variables keep their types in every step.
LEMMA TypeStep ==
  ASSUME TypeOK, [Next]_vars
  PROVE  TypeOK'
<1>. USE DEF podVars
<1>0. MasterSize \in Nat /\ MasterSize > 0
  BY SizeFacts
<1>1. CASE StartPass
  BY <1>1 DEF StartPass, TypeOK
<1>2. CASE SkipReset \/ ResetDone
  <2>1. 0 \in 0 .. MasterSize
    BY <1>0
  <2>2. i' \in 0 .. MasterSize /\ updated' \in BOOLEAN /\ todo' \in SUBSET Pods
    BY <1>2, <2>1 DEF SkipReset, ResetDone, ToEnsure
  <2> QED
    BY <1>2, <2>2 DEF SkipReset, ResetDone, ToEnsure, TypeOK
<1>3. CASE StartReset
  <2>1. conns' \in SUBSET Pods /\ todo' \in SUBSET Pods
    BY <1>3 DEF StartReset, Accepting
  <2>2. faults' \in [stops : 0 .. MaxFaults, others : 0 .. MaxFaults]
    BY <1>3, FaultTypes DEF StartReset, OtherFault, TypeOK
  <2> QED
    BY <1>3, <2>1, <2>2 DEF StartReset, TypeOK
<1>4. CASE ExecCommandInPodSet
  <2>1. file' \in [Pods -> Passwords]
    BY <1>4 DEF ExecCommandInPodSet, TypeOK, Passwords
  <2>2. CASE EndPass
    BY <1>4, <2>1, <2>2, EndTypes DEF ExecCommandInPodSet, TypeOK
  <2>3. CASE ~ EndPass
    BY <1>4, <2>1, <2>3 DEF ExecCommandInPodSet, TypeOK
  <2> QED
    BY <2>2, <2>3
<1>5. CASE SetMasterauth
  <2>1. masterauth' \in [Pods -> Passwords]
    BY <1>5 DEF SetMasterauth, TypeOK, Passwords
  <2>2. CASE EndPass
    BY <1>5, <2>1, <2>2, EndTypes DEF SetMasterauth, TypeOK
  <2>3. CASE ~ EndPass
    BY <1>5, <2>1, <2>3 DEF SetMasterauth, TypeOK
  <2> QED
    BY <2>2, <2>3
<1>6. CASE SetRequirepass
  <2>1. requirepass' \in [Pods -> Passwords]
    BY <1>6 DEF SetRequirepass, TypeOK, Passwords
  <2>2. CASE EndPass
    BY <1>6, <2>1, <2>2, EndTypes DEF SetRequirepass, TypeOK
  <2>3. CASE ~ EndPass
    BY <1>6, <2>1, <2>3, PodFacts DEF SetRequirepass, TypeOK, NoNode
  <2> QED
    BY <2>2, <2>3
<1>7. CASE EnsureStatefulset
  <2>1. template' \in [Shards -> Passwords]
    BY <1>7 DEF EnsureStatefulset, TypeOK, Passwords
  <2>2. i' \in 0 .. MasterSize /\ updated' \in BOOLEAN
    BY <1>0, <1>7 DEF EnsureStatefulset, TypeOK, IsPasswordChanged
  <2> QED
    BY <1>7, <2>1, <2>2 DEF EnsureStatefulset, TypeOK
<1>8. CASE WaitStatefulSetUpdating \/ WaitPodReady \/ OpenAdmin
  <2>1. CASE EndPass
    BY <1>8, <2>1, EndTypes DEF WaitStatefulSetUpdating, WaitPodReady, OpenAdmin, TypeOK
  <2>2. CASE ~ EndPass
    BY <1>8, <2>2 DEF WaitStatefulSetUpdating, WaitPodReady, OpenAdmin, TypeOK
  <2> QED
    BY <2>1, <2>2
<1>9. CASE Crash
  BY <1>9, EndTypes, FaultTypes DEF Crash, TypeOK
<1>10. ASSUME NEW s \in Shards, SyncStatus(s)
       PROVE  TypeOK'
  <2>1. ComputeStatus(s) \in [ready : BOOLEAN, current : BOOLEAN]
    BY DEF ComputeStatus
  <2>2. stsStatus' \in [Shards -> [ready : BOOLEAN, current : BOOLEAN]]
    BY <1>10, <2>1 DEF SyncStatus, TypeOK
  <2> QED
    BY <1>10, <2>2 DEF SyncStatus, TypeOK, passVars
<1>11. ASSUME NEW p \in Pods, RollPod(p)
       PROVE  TypeOK'
  <2>1. master' \in [Shards -> 0 .. ClusterReplicas]
    <3>1. p[1] \in Shards /\ \A q \in PodsOf(p[1]) : q[2] \in 0 .. ClusterReplicas
      BY PodFacts DEF PodsOf
    <3> QED
      BY <1>11, <3>1 DEF RollPod, HandsOver, TypeOK
  <2>2. up' \in [Pods -> BOOLEAN] /\ conns' \in SUBSET Pods
    BY <1>11 DEF RollPod, Stops, TypeOK
  <2> QED
    BY <1>11, <2>1, <2>2 DEF RollPod, TypeOK
<1>12. ASSUME NEW p \in Pods, PodFails(p)
       PROVE  TypeOK'
  <2>1. up' \in [Pods -> BOOLEAN] /\ conns' \in SUBSET Pods
    BY <1>12 DEF PodFails, Stops, TypeOK
  <2> QED
    BY <1>12, <2>1, FaultTypes DEF PodFails, OtherFault, TypeOK
<1>13. ASSUME NEW p \in Pods, PodStarts(p)
       PROVE  TypeOK'
  <2>1. template[p[1]] \in Passwords
    BY PodFacts DEF TypeOK
  <2> QED
    BY <1>13, <2>1 DEF PodStarts, TypeOK, passVars
<1>14. ASSUME NEW p \in Pods, AutoFailover(p)
       PROVE  TypeOK'
  <2>1. p[1] \in Shards /\ p[2] \in 0 .. ClusterReplicas
    BY PodFacts
  <2> QED
    BY <1>14, <2>1 DEF AutoFailover, TypeOK, passVars
<1>15. CASE UNCHANGED vars
  BY <1>15 DEF vars, passVars, TypeOK
<1> QED
  BY <1>1, <1>2, <1>3, <1>4, <1>5, <1>6, <1>7, <1>8, <1>9, <1>10, <1>11, <1>12, <1>13,
     <1>14, <1>15
  DEF Next, Operator

-----------------------------------------------------------------------------
(***************************************************************************)
(* The steps of the invariant.                                             *)
(***************************************************************************)
Undisturbed == NothingRestarts /\ OldPodsRun /\ NodesFirst

\* A pass that ends, or starts, leaves what the nodes and StatefulSets have.
LEMMA OutsideSafe ==
  ASSUME IInv, UNCHANGED <<template, env, up, requirepass, file, stsStatus>>,
         pc' \in {"idle", "check"}
  PROVE  TemplatesInOrder' /\ (faults.others = 0 => Undisturbed')
<1>1. TemplatesInOrder'
  BY DEF TemplatesInOrder
<1>2. ASSUME faults.others = 0 PROVE Undisturbed'
  <2>1. NothingRestarts /\ OldPodsRun /\ NodesFirst
    BY <1>2 DEF IInv
  <2> QED
    BY <2>1 DEF Undisturbed, NothingRestarts, OldPodsRun, NodesFirst
<1> QED
  BY <1>1, <1>2

\* While the first StatefulSet is unchanged and nothing is disturbed, a pass
\* does not skip the reset.
LEMMA NoSkip ==
  ASSUME IInv, faults.others = 0, template[0] # "new"
  PROVE  CheckRedisNodeNum /\ \A p \in Pods : up[p]
<1>1. \A s \in Shards : stsStatus[s].ready /\ stsStatus[s].current /\ template[s] = template[0]
  BY DEF IInv, NothingRestarts
<1>2. \A p \in Pods : up[p]
  BY <1>1, PodFacts DEF IInv, OldPodsRun
<1> QED
  BY <1>1, <1>2 DEF CheckRedisNodeNum

\* The reset starts, or is skipped.
LEMMA StartSafe ==
  ASSUME IInv, SkipReset \/ StartReset
  PROVE  TemplatesInOrder' /\ (faults'.others = 0 => Undisturbed')
<1>0. UNCHANGED <<template, env, up, requirepass, file, stsStatus>>
  BY DEF SkipReset, StartReset, podVars
<1>1. CASE SkipReset
  <2>1. pc' = "ensure" /\ i' = 0 /\ faults' = faults
    BY <1>1 DEF SkipReset, ToEnsure
  <2>2. TemplatesInOrder'
    BY <1>0, <2>1, PodFacts DEF TemplatesInOrder
  <2>3. ASSUME faults.others = 0 PROVE Undisturbed'
    <3>1. template[0] = "new"
      BY <1>1, <2>3, NoSkip DEF SkipReset, IsPasswordChanged
    <3>2. NothingRestarts /\ OldPodsRun /\ NodesFirst
      BY <2>3 DEF IInv
    <3> QED
      BY <1>0, <2>1, <3>1, <3>2 DEF Undisturbed, NothingRestarts, OldPodsRun, NodesFirst
  <2> QED
    BY <2>1, <2>2, <2>3
<1>2. CASE StartReset
  <2>1. pc' = "file" /\ todo' = {p \in Pods : up[p]} /\ template[0] # "new"
    BY <1>2 DEF StartReset, IsPasswordChanged
  <2>2. TemplatesInOrder'
    BY <1>0, <2>1 DEF TemplatesInOrder
  <2>3. ASSUME faults'.others = 0 PROVE Undisturbed'
    <3>1. conns' = Accepting(template[0]) /\ faults' = faults
      BY <1>2, <2>3, FaultTypes DEF StartReset, OtherFault, IInv
    <3>2. NothingRestarts /\ OldPodsRun /\ NodesFirst
      BY <2>3, <3>1 DEF IInv
    <3>3. \A p \in Pods : up[p]
      BY <2>1, <2>3, <3>1, NoSkip
    <3>4. \A p \in Pods : p \notin conns' => requirepass[p] = "new"
      BY <2>1, <3>1, <3>2, <3>3 DEF Accepting, NothingRestarts
    <3> QED
      BY <1>0, <2>1, <3>2, <3>3, <3>4 DEF Undisturbed, NothingRestarts, OldPodsRun, NodesFirst
  <2> QED
    BY <2>2, <2>3
<1> QED
  BY <1>1, <1>2

\* The files, then masterauth and requirepass, node after node.
LEMMA NodesSafe ==
  ASSUME IInv, ExecCommandInPodSet \/ SetMasterauth \/ SetRequirepass \/ ResetDone
  PROVE  TemplatesInOrder' /\ (faults'.others = 0 => Undisturbed')
<1>0. UNCHANGED <<template, env, up, stsStatus, faults>>
  BY DEF ExecCommandInPodSet, SetMasterauth, SetRequirepass, ResetDone, podVars
<1>1. CASE EndPass /\ UNCHANGED <<file, requirepass>>
  BY <1>0, <1>1, OutsideSafe DEF EndPass
<1>2. CASE ExecCommandInPodSet /\ ~ (EndPass /\ UNCHANGED file)
  <2>1. CASE \E p \in todo : file' = [file EXCEPT ![p] = "new"] /\ todo' = todo \ {p}
                              /\ UNCHANGED <<pc, conns, i>>
    <3>1. PICK p \in todo : file' = [file EXCEPT ![p] = "new"] /\ todo' = todo \ {p}
                            /\ UNCHANGED <<pc, conns, i>>
      BY <2>1
    <3>2. pc = "file" /\ requirepass' = requirepass
      BY <1>2 DEF ExecCommandInPodSet
    <3>3. TemplatesInOrder'
      BY <1>0, <3>1, <3>2 DEF IInv, TemplatesInOrder
    <3>4. \A q \in Pods : file'[q] = IF q = p THEN "new" ELSE file[q]
      BY <3>1 DEF IInv, TypeOK
    <3>5. template[0] # "new"
      BY <3>2 DEF IInv, TemplatesInOrder
    <3>6. ASSUME faults.others = 0 PROVE Undisturbed'
      <4>1. NothingRestarts /\ OldPodsRun /\ NodesFirst
        BY <3>6 DEF IInv
      <4> QED
        BY <1>0, <3>1, <3>2, <3>4, <3>5, <4>1
        DEF Undisturbed, NothingRestarts, OldPodsRun, NodesFirst
    <3> QED
      BY <1>0, <3>3, <3>6
  <2>2. CASE todo = {} /\ pc' = "masterauth" /\ todo' = conns /\ UNCHANGED <<file, conns>>
    <3>1. pc = "file" /\ requirepass' = requirepass
      BY <1>2 DEF ExecCommandInPodSet
    <3>2. TemplatesInOrder' /\ template[0] # "new"
      BY <1>0, <2>2, <3>1 DEF IInv, TemplatesInOrder
    <3>3. ASSUME faults.others = 0 PROVE Undisturbed'
      <4>1. NothingRestarts /\ OldPodsRun /\ NodesFirst
        BY <3>3 DEF IInv
      <4> QED
        BY <1>0, <2>2, <3>1, <3>2, <4>1
        DEF Undisturbed, NothingRestarts, OldPodsRun, NodesFirst
    <3> QED
      BY <1>0, <3>2, <3>3
  <2> QED
    BY <1>2, <2>1, <2>2 DEF ExecCommandInPodSet
<1>3. CASE SetMasterauth /\ ~ EndPass
  <2>1. /\ pc = "masterauth" /\ pc' = "requirepass"
        /\ UNCHANGED <<file, requirepass, todo>>
    BY <1>3 DEF SetMasterauth
  <2>2. TemplatesInOrder' /\ template[0] # "new"
    BY <1>0, <2>1 DEF IInv, TemplatesInOrder
  <2>3. ASSUME faults.others = 0 PROVE Undisturbed'
    <3>1. NothingRestarts /\ OldPodsRun /\ NodesFirst
      BY <2>3 DEF IInv
    <3> QED
      BY <1>0, <2>1, <2>2, <3>1 DEF Undisturbed, NothingRestarts, OldPodsRun, NodesFirst
  <2> QED
    BY <1>0, <2>2, <2>3
<1>4. CASE SetRequirepass /\ ~ (EndPass /\ UNCHANGED requirepass)
  <2>1. /\ pc = "requirepass" /\ pc' = "masterauth" /\ file' = file
        /\ requirepass' = [requirepass EXCEPT ![node] = "new"]
        /\ todo' = todo \ {node}
    BY <1>4 DEF SetRequirepass
  <2>2. TemplatesInOrder' /\ template[0] # "new"
    BY <1>0, <2>1 DEF IInv, TemplatesInOrder
  <2>3. \A q \in Pods : requirepass'[q] = IF q = node THEN "new" ELSE requirepass[q]
    BY <2>1 DEF IInv, TypeOK
  <2>4. ASSUME faults.others = 0 PROVE Undisturbed'
    <3>1. NothingRestarts /\ OldPodsRun /\ NodesFirst
      BY <2>4 DEF IInv
    <3> QED
      BY <1>0, <2>1, <2>2, <2>3, <3>1 DEF Undisturbed, NothingRestarts, OldPodsRun, NodesFirst
  <2> QED
    BY <1>0, <2>2, <2>4
<1>5. CASE ResetDone
  <2>1. /\ pc = "masterauth" /\ todo = {} /\ pc' = "ensure" /\ i' = 0
        /\ UNCHANGED <<file, requirepass>>
    BY <1>5 DEF ResetDone, ToEnsure, podVars
  <2>2. TemplatesInOrder'
    BY <1>0, <2>1, PodFacts DEF TemplatesInOrder
  <2>3. ASSUME faults.others = 0 PROVE Undisturbed'
    <3>1. NothingRestarts /\ OldPodsRun /\ NodesFirst
      BY <2>3 DEF IInv
    <3> QED
      BY <1>0, <2>1, <3>1 DEF Undisturbed, NothingRestarts, OldPodsRun, NodesFirst
  <2> QED
    BY <1>0, <2>2, <2>3
<1> QED
  BY <1>1, <1>2, <1>3, <1>4, <1>5 DEF ExecCommandInPodSet, SetMasterauth, SetRequirepass

\* The StatefulSets, in their order, and the rest of the pass.
LEMMA EnsureSafe ==
  ASSUME IInv, EnsureStatefulset \/ WaitStatefulSetUpdating \/ WaitPodReady \/ OpenAdmin
  PROVE  TemplatesInOrder' /\ (faults'.others = 0 => Undisturbed')
<1>0. UNCHANGED <<env, up, requirepass, file, stsStatus, faults>>
  BY DEF EnsureStatefulset, WaitStatefulSetUpdating, WaitPodReady, OpenAdmin, podVars
<1>1. CASE EnsureStatefulset
  <2>1. /\ pc = "ensure" /\ pc' = "ensure" /\ i < MasterSize /\ i' = i + 1
        /\ template' = [template EXCEPT ![i] = "new"]
    BY <1>1 DEF EnsureStatefulset
  <2>2. i \in Nat /\ i \in Shards
    BY <2>1, SizeFacts DEF IInv, TypeOK, Shards
  <2>3. \A s \in Shards : template'[s] = IF s = i THEN "new" ELSE template[s]
    BY <2>1 DEF IInv, TypeOK
  <2>4. TemplatesInOrder'
    <3>1. \A s \in Shards : s < i + 1 => s = i \/ s < i
      BY <2>2, PodFacts
    <3>2. \A s \in Shards : s < i => template[s] = "new"
      BY <2>1 DEF IInv, TemplatesInOrder
    <3> QED
      BY <2>1, <2>3, <3>1, <3>2 DEF TemplatesInOrder
  <2>5. ASSUME faults.others = 0 PROVE Undisturbed'
    <3>1. NothingRestarts /\ OldPodsRun /\ NodesFirst
      BY <2>5 DEF IInv
    <3>2. template'[0] = "new"
      <4>1. CASE i = 0
        BY <2>3, <4>1, PodFacts
      <4>2. CASE i # 0
        <5>1. 0 < i
          BY <2>2, <4>2
        <5>2. template[0] = "new"
          BY <2>1, <5>1, PodFacts DEF IInv, TemplatesInOrder
        <5> QED
          BY <2>3, <5>2, PodFacts
      <4> QED
        BY <4>1, <4>2
    <3>3. OldPodsRun'
      BY <1>0, <2>3, <3>1, PodFacts DEF OldPodsRun
    <3> QED
      BY <1>0, <2>1, <3>1, <3>2, <3>3 DEF Undisturbed, NothingRestarts, NodesFirst
  <2> QED
    BY <1>0, <2>4, <2>5
<1>2. CASE EndPass /\ template' = template
  BY <1>0, <1>2, OutsideSafe DEF EndPass
<1>3. CASE /\ WaitStatefulSetUpdating \/ WaitPodReady
           /\ pc' \in {"ready", "admin"}
  <2>1. pc \in {"ensure", "ready"} /\ template' = template
        /\ (pc = "ensure" => i = MasterSize)
    BY <1>3 DEF WaitStatefulSetUpdating, WaitPodReady
  <2>2. template[0] = "new"
    BY <2>1, SizeFacts, PodFacts DEF IInv, TemplatesInOrder
  <2>3. TemplatesInOrder'
    BY <1>3, <2>1, <2>2 DEF TemplatesInOrder
  <2>4. ASSUME faults.others = 0 PROVE Undisturbed'
    <3>1. NothingRestarts /\ OldPodsRun /\ NodesFirst
      BY <2>4 DEF IInv
    <3> QED
      BY <1>0, <1>3, <2>1, <2>2, <3>1 DEF Undisturbed, NothingRestarts, OldPodsRun, NodesFirst
  <2> QED
    BY <1>0, <2>3, <2>4
<1> QED
  BY <1>1, <1>2, <1>3 DEF WaitStatefulSetUpdating, WaitPodReady, OpenAdmin

\* The StatefulSet controller computes a status.
LEMMA StatusSafe ==
  ASSUME IInv, NEW s \in Shards, SyncStatus(s)
  PROVE  TemplatesInOrder' /\ (faults'.others = 0 => Undisturbed')
<1>1. /\ UNCHANGED <<template, env, up, requirepass, file, faults, pc, todo, conns, i>>
      /\ stsStatus' = [stsStatus EXCEPT ![s] = ComputeStatus(s)]
  BY DEF SyncStatus, passVars
<1>2. TemplatesInOrder'
  BY <1>1 DEF IInv, TemplatesInOrder
<1>3. ASSUME faults.others = 0 PROVE Undisturbed'
  <2>1. NothingRestarts /\ OldPodsRun /\ NodesFirst
    BY <1>3 DEF IInv
  <2>2. ASSUME template[0] # "new" PROVE ComputeStatus(s).ready /\ ComputeStatus(s).current
    <3>1. \A p \in PodsOf(s) : up[p] /\ env[p] = template[s]
      BY <2>1, <2>2 DEF PodsOf, OldPodsRun, NothingRestarts
    <3> QED
      BY <3>1 DEF ComputeStatus
  <2>3. \A r \in Shards : stsStatus'[r] = IF r = s THEN ComputeStatus(s) ELSE stsStatus[r]
    BY <1>1 DEF IInv, TypeOK
  <2>4. NothingRestarts'
    BY <1>1, <2>1, <2>2, <2>3 DEF NothingRestarts
  <2> QED
    BY <1>1, <2>1, <2>4 DEF Undisturbed, OldPodsRun, NodesFirst
<1> QED
  BY <1>1, <1>2, <1>3

\* Pods stop for the update, fail and start.
LEMMA PodsSafe ==
  ASSUME IInv, NEW p \in Pods, RollPod(p) \/ PodFails(p) \/ PodStarts(p) \/ AutoFailover(p)
  PROVE  TemplatesInOrder' /\ (faults'.others = 0 => Undisturbed')
<1>0. UNCHANGED <<template, stsStatus, pc, todo, i>>
  BY DEF RollPod, PodFails, PodStarts, AutoFailover, passVars
<1>1. TemplatesInOrder'
  BY <1>0 DEF IInv, TemplatesInOrder
<1>2. ASSUME faults'.others = 0 PROVE Undisturbed'
  <2>1. faults' = faults /\ ~ PodFails(p)
    BY <1>2, FaultTypes DEF RollPod, PodFails, PodStarts, AutoFailover, OtherFault, IInv
  <2>2. NothingRestarts /\ OldPodsRun /\ NodesFirst
    BY <1>2, <2>1 DEF IInv
  <2>3. p[1] \in Shards
    BY PodFacts
  <2>4. CASE RollPod(p)
    <3>1. template[p[1]] = "new" /\ template[0] = "new"
      BY <2>2, <2>3, <2>4 DEF RollPod, OldPodsRun, NothingRestarts
    <3>2. UNCHANGED <<env, requirepass, file>> /\ up' = [up EXCEPT ![p] = FALSE]
      BY <2>4 DEF RollPod, Stops
    <3>3. \A q \in Pods : q # p => up'[q] = up[q]
      BY <3>2 DEF IInv, TypeOK
    <3>4. pc \notin {"file", "masterauth", "requirepass"}
      BY <3>1 DEF IInv, TemplatesInOrder
    <3>5. OldPodsRun'
      BY <1>0, <2>2, <3>1, <3>2, <3>3 DEF OldPodsRun
    <3> QED
      BY <1>0, <2>2, <3>1, <3>2, <3>4, <3>5 DEF Undisturbed, NothingRestarts, NodesFirst
  <2>5. CASE PodStarts(p)
    <3>1. template[p[1]] = "new" /\ template[0] = "new"
      BY <2>2, <2>3, <2>5 DEF PodStarts, OldPodsRun, NothingRestarts
    <3>2. \A q \in Pods \ {p} : /\ up'[q] = up[q] /\ env'[q] = env[q]
                                 /\ requirepass'[q] = requirepass[q] /\ file'[q] = file[q]
      BY <2>5 DEF PodStarts, IInv, TypeOK
    <3>3. requirepass'[p] = "new" /\ file'[p] = "new"
      BY <2>5, <3>1 DEF PodStarts, IInv, TypeOK
    <3>4. pc \notin {"file", "masterauth", "requirepass"}
      BY <3>1 DEF IInv, TemplatesInOrder
    <3>5. OldPodsRun'
      BY <1>0, <2>2, <3>1, <3>2 DEF OldPodsRun
    <3>6. NodesFirst'
      BY <1>0, <2>2, <3>1, <3>2, <3>3, <3>4 DEF NodesFirst
    <3> QED
      BY <1>0, <3>1, <3>5, <3>6 DEF Undisturbed, NothingRestarts
  <2>6. CASE AutoFailover(p)
    <3>1. UNCHANGED <<env, up, requirepass, file, conns>>
      BY <2>6 DEF AutoFailover, passVars
    <3> QED
      BY <1>0, <2>2, <3>1 DEF Undisturbed, NothingRestarts, OldPodsRun, NodesFirst
  <2> QED
    BY <2>1, <2>4, <2>5, <2>6
<1> QED
  BY <1>1, <1>2

-----------------------------------------------------------------------------
(***************************************************************************)
(* The results.                                                            *)
(***************************************************************************)
\* The healthy cluster whose user names the new Secret.
LEMMA InitSafe == Init => IInv
<1>. SUFFICES ASSUME Init PROVE IInv
  OBVIOUS
<1>1. PICK old \in OldPasswords :
        /\ template = [s \in Shards |-> old]
        /\ env = [p \in Pods |-> old] /\ requirepass = env /\ masterauth = env /\ file = env
  BY DEF Init
<1>2. old \in Passwords /\ old # "new"
  BY PasswordAssumption DEF Passwords
<1>3. TypeOK
  <2>1. /\ template \in [Shards -> Passwords] /\ env \in [Pods -> Passwords]
        /\ requirepass \in [Pods -> Passwords] /\ masterauth \in [Pods -> Passwords]
        /\ file \in [Pods -> Passwords]
    BY <1>1, <1>2
  <2>2. up \in [Pods -> BOOLEAN] /\ updated \in BOOLEAN
    BY DEF Init
  <2>3. stsStatus \in [Shards -> [ready : BOOLEAN, current : BOOLEAN]]
    <3>1. [ready |-> TRUE, current |-> TRUE] \in [ready : BOOLEAN, current : BOOLEAN]
      OBVIOUS
    <3> QED
      BY <3>1, Zenon DEF Init
  <2>4. master \in [Shards -> 0 .. ClusterReplicas] /\ node \in Pods
    BY PodFacts DEF Init
  <2>5. faults \in [stops : 0 .. MaxFaults, others : 0 .. MaxFaults] /\ i \in 0 .. MasterSize
    <3>1. 0 \in 0 .. MaxFaults /\ 0 \in 0 .. MasterSize
      BY SizeFacts
    <3> QED
      BY <3>1 DEF Init
  <2>6. pc = "idle" /\ todo = {} /\ conns = {}
    BY DEF Init
  <2> QED
    BY <2>1, <2>2, <2>3, <2>4, <2>5, <2>6 DEF TypeOK
<1>4. pc = "idle" /\ \A s \in Shards : stsStatus[s].ready /\ stsStatus[s].current
  BY DEF Init
<1>5. \A p \in Pods : up[p] /\ env[p] = old /\ requirepass[p] = old
  BY <1>1 DEF Init
<1>6. \A s \in Shards : template[s] = old
  BY <1>1
<1>7. TemplatesInOrder
  BY <1>4 DEF TemplatesInOrder
<1>8. NothingRestarts /\ OldPodsRun /\ NodesFirst
  BY <1>2, <1>4, <1>5, <1>6, PodFacts DEF NothingRestarts, OldPodsRun, NodesFirst
<1> QED
  BY <1>3, <1>7, <1>8 DEF IInv

\* Every step of the operator, of Kubernetes and of Redis keeps the invariant.
LEMMA NextSafe ==
  ASSUME IInv, [Next]_vars
  PROVE  IInv'
<1>1. TypeOK'
  BY TypeStep DEF IInv
<1>2. SUFFICES TemplatesInOrder' /\ (faults'.others = 0 => Undisturbed')
  BY <1>1 DEF IInv, Undisturbed
<1>3. CASE StartPass
  BY <1>3, OutsideSafe DEF StartPass, podVars
<1>4. CASE Crash
  <2>1. faults'.others = faults.others
    BY <1>4, FaultTypes DEF Crash, IInv
  <2> QED
    BY <1>4, <2>1, OutsideSafe DEF Crash, EndPass, podVars
<1>5. CASE UNCHANGED vars
  <2>1. TemplatesInOrder'
    BY <1>5 DEF vars, passVars, podVars, IInv, TemplatesInOrder
  <2>2. ASSUME faults.others = 0 PROVE Undisturbed'
    BY <1>5, <2>2 DEF vars, passVars, podVars, IInv, Undisturbed, NothingRestarts, OldPodsRun,
                      NodesFirst
  <2> QED
    BY <1>5, <2>1, <2>2 DEF vars
<1> QED
  BY <1>3, <1>4, <1>5, StartSafe, NodesSafe, EnsureSafe, StatusSafe, PodsSafe
  DEF Next, Operator

\* The inductive invariant holds of every behaviour.
THEOREM Invariance == Spec => []IInv
<1>1. Init => IInv
  BY InitSafe
<1>2. IInv /\ [Next]_vars => IInv'
  BY NextSafe
<1> QED
  BY <1>1, <1>2, PTL DEF Spec

\* The variables keep their types; the loop over the StatefulSets stays
\* within them.
THEOREM TypeCorrect == Spec => []TypeOK
<1>1. IInv => TypeOK
  BY DEF IInv
<1> QED
  BY <1>1, Invariance, PTL

\* When Reconcile opens its admin with the new password, every running node
\* has it, over however many passes and stops the change took.
THEOREM LetIn == Spec => []AdminLetIn
<1>1. IInv => AdminLetIn
  BY DEF IInv, AdminLetIn, TemplatesInOrder, NodesFirst
<1> QED
  BY <1>1, Invariance, PTL

\* A master that the rolling update stops has handed over to a replica.
THEOREM HandedOver == Spec => MasterHandsOver
<1>. DEFINE A == faults'.others = 0 =>
                   \A p \in Pods : up[p] /\ ~ up'[p] /\ ClusterReplicas > 0
                                    => master'[p[1]] # p[2]
<1>1. ASSUME IInv, [Next]_vars PROVE A
  <2>1. ASSUME NEW r \in Pods, RollPod(r) PROVE A
    <3>1. ASSUME faults'.others = 0, ClusterReplicas > 0, NEW p \in Pods, up[p], ~ up'[p]
          PROVE  master'[p[1]] # p[2]
      <4>1. p = r
        BY <1>1, <2>1, <3>1 DEF RollPod, Stops, IInv, TypeOK
      <4>2. NothingRestarts /\ OldPodsRun /\ NodesFirst
        BY <1>1, <2>1, <3>1 DEF RollPod, IInv
      <4>3. template[0] = "new"
        BY <2>1, <4>2, PodFacts DEF RollPod, OldPodsRun, NothingRestarts
      <4>4. \A q \in Pods : file[q] = "new" /\ requirepass[q] = "new"
        BY <4>2, <4>3 DEF NodesFirst
      <4>5. p[1] \in Shards /\ p[2] \in 0 .. ClusterReplicas
        BY PodFacts
      <4>6. PICK k \in 0 .. ClusterReplicas : k # p[2]
        BY <3>1, <4>5, SizeFacts
      <4>7. <<p[1], k>> \in PodsOf(p[1]) /\ <<p[1], k>> # p
        BY <4>5, <4>6 DEF Pods, PodsOf
      <4>8. \A q \in PodsOf(p[1]) : up[q] /\ Failover(p, q)
        BY <2>1, <4>1, <4>4 DEF RollPod, PodsOf, Failover
      <4>9. \A q \in PodsOf(p[1]) : q # p => q[2] # p[2]
        BY PodFacts DEF PodsOf
      <4>10. CASE master[p[1]] = p[2]
        <5>1. PICK q \in PodsOf(p[1]) : q # p /\ master' = [master EXCEPT ![p[1]] = q[2]]
          BY <2>1, <4>1, <4>7, <4>8, <4>10 DEF RollPod, HandsOver
        <5> QED
          BY <1>1, <4>5, <4>9, <5>1 DEF IInv, TypeOK
      <4>11. CASE master[p[1]] # p[2]
        BY <2>1, <4>1, <4>11 DEF RollPod, HandsOver
      <4> QED
        BY <4>10, <4>11
    <3> QED
      BY <3>1
  <2>2. ASSUME NEW r \in Pods, PodFails(r) PROVE A
    BY <1>1, <2>2, FaultTypes DEF PodFails, OtherFault, IInv
  <2>3. ASSUME NEW r \in Pods, PodStarts(r) PROVE A
    <3>1. \A p \in Pods : up[p] => up'[p]
      BY <1>1, <2>3 DEF PodStarts, IInv, TypeOK
    <3> QED
      BY <3>1
  <2>4. CASE up' = up
    BY <2>4
  <2> QED
    BY <1>1, <2>1, <2>2, <2>3, <2>4
    DEF Next, Operator, vars, podVars, StartPass, SkipReset, StartReset, ExecCommandInPodSet,
        SetMasterauth, SetRequirepass, ResetDone, EnsureStatefulset, WaitStatefulSetUpdating,
        WaitPodReady, OpenAdmin, Crash, SyncStatus, AutoFailover
<1> QED
  BY <1>1, Invariance, PTL DEF Spec, MasterHandsOver
===============================================================================
