---------------------------- MODULE PasswordReset -----------------------------
(***************************************************************************)
(* Changing the password of a running cluster: the user names another      *)
(* Secret in the spec, resetClusterPassword changes the nodes one by one   *)
(* over connections made with the old password, EnsureRedisStatefulsets    *)
(* then changes the StatefulSets, whose pods restart one by one, and the   *)
(* rest of Reconcile connects with the new password.  Meanwhile pods fail, *)
(* connections are refused and the operator stops.  An API error ends the  *)
(* pass where a stop would.                                                *)
(***************************************************************************)
EXTENDS Integers, FiniteSets

CONSTANTS
  MasterSize,
  ClusterReplicas,
  OldPasswords,  \* the passwords the cluster may have had; "" is none
  MaxFaults      \* bound: stops of the operator, pod failures, lost connections

ASSUME PasswordAssumption ==
  /\ MasterSize \in Nat \ {0} /\ ClusterReplicas \in Nat
  /\ OldPasswords \subseteq {"", "old"}
  /\ MaxFaults \in Nat

Shards == 0 .. MasterSize - 1
Pods == Shards \X (0 .. ClusterReplicas)
PodsOf(s) == {p \in Pods : p[1] = s}
Passwords == {"", "old", "new"}

VARIABLES
  template,    \* the Secret that each StatefulSet's template names
  env,         \* the one the running pod was started with
  up,          \* is the pod running and ready?
  requirepass,
  masterauth,
  file,        \* /data/redis_password, which the preStop hook uses
  master,      \* which pod of a shard is its master
  stsStatus,   \* what the StatefulSet's status says, as last computed
  pc,
  todo,        \* the pods the current loop has not come to
  node,        \* the pod that ResetPassword is at
  conns,       \* the pods the operator is connected to
  i,           \* the StatefulSet EnsureRedisStatefulsets is at
  updated,     \* EnsureRedisStatefulsets changed something
  faults       \* history: stops of the operator, and other faults

podVars == <<env, up, requirepass, masterauth, file, master, stsStatus>>
passVars == <<pc, todo, node, conns, i, updated>>
vars == <<template, podVars, passVars, faults>>

TypeOK ==
  /\ template \in [Shards -> Passwords]
  /\ env \in [Pods -> Passwords] /\ requirepass \in [Pods -> Passwords]
  /\ masterauth \in [Pods -> Passwords] /\ file \in [Pods -> Passwords]
  /\ up \in [Pods -> BOOLEAN]
  /\ master \in [Shards -> 0 .. ClusterReplicas]
  /\ stsStatus \in [Shards -> [ready : BOOLEAN, current : BOOLEAN]]
  /\ pc \in {"idle", "check", "file", "masterauth", "requirepass", "ensure", "ready",
             "admin"}
  /\ todo \in SUBSET Pods
  /\ node \in Pods
  /\ conns \in SUBSET Pods
  /\ i \in 0 .. MasterSize
  /\ updated \in BOOLEAN
  /\ faults \in [stops : 0 .. MaxFaults, others : 0 .. MaxFaults]

\* A healthy cluster whose user has just named the new Secret.
Init ==
  /\ \E old \in OldPasswords :
       /\ template = [s \in Shards |-> old]
       /\ env = [p \in Pods |-> old] /\ requirepass = env /\ masterauth = env /\ file = env
  /\ up = [p \in Pods |-> TRUE]
  /\ master = [s \in Shards |-> 0]
  /\ stsStatus = [s \in Shards |-> [ready |-> TRUE, current |-> TRUE]]
  /\ pc = "idle"
  /\ todo = {} /\ conns = {} /\ node = <<0, 0>> /\ i = 0
  /\ updated = FALSE
  /\ faults = [stops |-> 0, others |-> 0]

MayFault == faults.stops + faults.others < MaxFaults

OtherFault ==
  /\ MayFault
  /\ faults' = [faults EXCEPT !.others = @ + 1]

-----------------------------------------------------------------------------
(***************************************************************************)
(* resetClusterPassword.                                                   *)
(***************************************************************************)
NoNode == <<0, 0>>

\* The pass ends; its locals go.
EndPass ==
  /\ pc' = "idle"
  /\ todo' = {} /\ conns' = {}
  /\ node' = NoNode /\ i' = 0 /\ updated' = FALSE

\* CheckRedisNodeNum.
CheckRedisNodeNum == \A s \in Shards : stsStatus[s].ready /\ stsStatus[s].current

IsPasswordChanged(s) == template[s] # "new"

\* NewAdmin: a node that refuses the password, or cannot be reached, is left
\* out silently.  No AUTH is sent when there is no password.
Accepting(password) == {p \in Pods : up[p] /\ password \in {"", requirepass[p]}}

StartPass ==
  /\ pc = "idle"
  /\ pc' = "check"
  /\ UNCHANGED <<template, podVars, todo, node, conns, i, updated, faults>>

ToEnsure == pc' = "ensure" /\ todo' = {} /\ i' = 0 /\ updated' = FALSE

\* Pods are not ready, or the first StatefulSet names the right Secret.
SkipReset ==
  /\ pc = "check"
  /\ ~ CheckRedisNodeNum \/ ~ IsPasswordChanged(0)
  /\ ToEnsure
  /\ conns' = {}
  /\ UNCHANGED <<template, podVars, node, faults>>

\* Mutant: the admin is made with the password the nodes do not have yet.
StartWithNewPassword ==
  /\ pc = "check"
  /\ CheckRedisNodeNum
  /\ IsPasswordChanged(0)
  /\ conns' = Accepting("new")
  /\ todo' = {p \in Pods : up[p]}
  /\ pc' = "file"
  /\ UNCHANGED <<template, podVars, node, i, updated, faults>>

\* The admin is made with the password that the first StatefulSet names.
StartReset ==
  /\ pc = "check"
  /\ CheckRedisNodeNum
  /\ IsPasswordChanged(0)
  /\ \/ conns' = Accepting(template[0]) /\ UNCHANGED faults
     \/ OtherFault /\ \E p \in Accepting(template[0]) : conns' = Accepting(template[0]) \ {p}
  /\ todo' = {p \in Pods : up[p]}
  /\ pc' = "file"
  /\ UNCHANGED <<template, podVars, node, i, updated>>

\* Mutant: the file is left to the pods' next start.
FileForgotten ==
  /\ pc = "file"
  /\ pc' = "masterauth"
  /\ todo' = conns
  /\ UNCHANGED <<template, podVars, node, conns, i, updated, faults>>

\* The order in which the pods are listed.
Before(p, q) == p[1] < q[1] \/ (p[1] = q[1] /\ p[2] <= q[2])

\* ExecCommandInPodSet: the first pod it fails on ends the pass.
ExecCommandInPodSet ==
  /\ pc = "file"
  /\ \/ \E p \in todo :
          /\ \A q \in todo : Before(p, q)
          /\ IF up[p]
             THEN /\ file' = [file EXCEPT ![p] = "new"]
                  /\ todo' = todo \ {p}
                  /\ UNCHANGED <<pc, node, conns, i, updated>>
             ELSE EndPass /\ UNCHANGED file
     \/ /\ todo = {}
        /\ IF conns = {}  \* "no connection for other redis-node found"
           THEN EndPass
           ELSE pc' = "masterauth" /\ todo' = conns /\ UNCHANGED <<node, conns, i, updated>>
        /\ UNCHANGED file
  /\ UNCHANGED <<template, env, up, requirepass, masterauth, master, stsStatus, faults>>

\* A command on a connection made with "" is refused by a node that has got
\* a password since.
Answers(p) == p \in conns /\ (template[0] = "" => requirepass[p] = "")

\* ResetPassword: masterauth and then requirepass, node after node.
SetMasterauth ==
  /\ pc = "masterauth"
  /\ \E p \in todo :
       \/ /\ Answers(p)
          /\ masterauth' = [masterauth EXCEPT ![p] = "new"]
          /\ node' = p
          /\ pc' = "requirepass"
          /\ UNCHANGED <<todo, conns, i, updated>>
       \/ ~ Answers(p) /\ EndPass /\ UNCHANGED masterauth
  /\ UNCHANGED <<template, env, up, requirepass, file, master, stsStatus, faults>>

\* Mutant: only masterauth is set.
RequirepassForgotten ==
  /\ pc = "requirepass"
  /\ todo' = todo \ {node}
  /\ node' = NoNode
  /\ pc' = "masterauth"
  /\ UNCHANGED <<template, podVars, conns, i, updated, faults>>

SetRequirepass ==
  /\ pc = "requirepass"
  /\ \/ /\ node \in conns
        /\ requirepass' = [requirepass EXCEPT ![node] = "new"]
        /\ todo' = todo \ {node}
        /\ pc' = "masterauth"
        /\ node' = NoNode
        /\ UNCHANGED <<conns, i, updated>>
     \/ node \notin conns /\ EndPass /\ UNCHANGED requirepass
  /\ UNCHANGED <<template, env, up, masterauth, file, master, stsStatus, faults>>

ResetDone ==
  /\ pc = "masterauth"
  /\ todo = {}
  /\ ToEnsure
  /\ conns' = {}
  /\ UNCHANGED <<template, podVars, node, faults>>

-----------------------------------------------------------------------------
(***************************************************************************)
(* The rest of ensureCluster, and of Reconcile up to its own admin.        *)
(***************************************************************************)
\* Mutant: the loop runs one StatefulSet too far.
OneTooFar ==
  /\ pc = "ensure"
  /\ i <= MasterSize
  /\ template' = [template EXCEPT ![i % MasterSize] = "new"]
  /\ updated' = TRUE
  /\ i' = i + 1
  /\ UNCHANGED <<podVars, pc, todo, node, conns, faults>>

\* EnsureRedisStatefulsets, in the order of the StatefulSets.
EnsureStatefulset ==
  /\ pc = "ensure"
  /\ i < MasterSize
  /\ template' = [template EXCEPT ![i] = "new"]
  /\ updated' = (updated \/ IsPasswordChanged(i))
  /\ i' = i + 1
  /\ UNCHANGED <<podVars, pc, todo, node, conns, faults>>

\* waitStatefulSetUpdating sees a StatefulSet that is not ready, or times out.
WaitStatefulSetUpdating ==
  /\ pc = "ensure"
  /\ i = MasterSize
  /\ \/ /\ ~ updated \/ \E s \in Shards : ~ stsStatus[s].ready
        /\ pc' = "ready"
        /\ UNCHANGED <<todo, node, conns, i, updated>>
     \/ updated /\ EndPass
  /\ UNCHANGED <<template, podVars, faults>>

\* waitPodReady, or the request is queued again.
WaitPodReady ==
  /\ pc = "ready"
  /\ IF CheckRedisNodeNum
     THEN pc' = "admin" /\ UNCHANGED <<todo, node, conns, i, updated>>
     ELSE EndPass
  /\ UNCHANGED <<template, podVars, faults>>

\* newRedisAdmin with the new password; the pass goes on with what it reaches.
OpenAdmin ==
  /\ pc = "admin"
  /\ EndPass
  /\ UNCHANGED <<template, podVars, faults>>

\* The operator stops, or an API call fails.
Crash ==
  /\ pc # "idle"
  /\ MayFault
  /\ faults' = [faults EXCEPT !.stops = @ + 1]
  /\ EndPass
  /\ UNCHANGED <<template, podVars>>

-----------------------------------------------------------------------------
(***************************************************************************)
(* Kubernetes and Redis.                                                   *)
(***************************************************************************)
\* The StatefulSet controller computes the status.  CurrentReplicas counts
\* the pods of the revision the rollout started from, until it is complete.
ComputeStatus(s) ==
  [ready   |-> \A p \in PodsOf(s) : up[p],
   current |-> \A p, q \in PodsOf(s) : (env[p] = template[s]) = (env[q] = template[s])]

SyncStatus(s) ==
  /\ stsStatus[s] # ComputeStatus(s)
  /\ stsStatus' = [stsStatus EXCEPT ![s] = ComputeStatus(s)]
  /\ UNCHANGED <<template, env, up, requirepass, masterauth, file, master, passVars, faults>>

\* shutdown.sh: a master asks the first replica in its nodes.conf, whichever
\* that is, to take over, with the password in its file, and asks no other.  A
\* node without password takes any command.
Failover(p, q) ==
  /\ up[q]
  /\ file[p] = requirepass[q] \/ requirepass[q] = ""

HandsOver(p) ==
  LET s == p[1]
      replicas == PodsOf(s) \ {p} IN
  IF master[s] = p[2] /\ replicas # {}
  THEN \E q \in replicas :
         master' = IF Failover(p, q) THEN [master EXCEPT ![s] = q[2]] ELSE master
  ELSE UNCHANGED master

\* The connections to a pod break when it stops.
Stops(p) ==
  /\ up' = [up EXCEPT ![p] = FALSE]
  /\ conns' = conns \ {p}

\* The rolling update: from the last pod of a StatefulSet to the first, each
\* once the others are ready.
RollPod(p) ==
  /\ env[p] # template[p[1]]
  /\ \A q \in PodsOf(p[1]) : up[q] /\ (q[2] > p[2] => env[q] = template[p[1]])
  /\ HandsOver(p)
  /\ Stops(p)
  /\ UNCHANGED <<template, env, requirepass, masterauth, file, stsStatus,
                 pc, todo, node, i, updated, faults>>

\* A pod fails without running its hook.
PodFails(p) ==
  /\ up[p]
  /\ OtherFault
  /\ Stops(p)
  /\ UNCHANGED <<template, env, requirepass, masterauth, file, master, stsStatus,
                 pc, todo, node, i, updated>>

\* getRedisCommand passes the template's password to the new pod, and the
\* postStart hook writes it to the file.
PodStarts(p) ==
  /\ ~ up[p]
  /\ up' = [up EXCEPT ![p] = TRUE]
  /\ env' = [env EXCEPT ![p] = template[p[1]]]
  /\ requirepass' = [requirepass EXCEPT ![p] = template[p[1]]]
  /\ masterauth' = [masterauth EXCEPT ![p] = template[p[1]]]
  /\ file' = [file EXCEPT ![p] = template[p[1]]]
  /\ UNCHANGED <<template, master, stsStatus, passVars, faults>>

\* Redis replaces a master that is down.
AutoFailover(p) ==
  /\ up[p]
  /\ ~ up[<<p[1], master[p[1]]>>]
  /\ master' = [master EXCEPT ![p[1]] = p[2]]
  /\ UNCHANGED <<template, env, up, requirepass, masterauth, file, stsStatus,
                 passVars, faults>>

-----------------------------------------------------------------------------
Operator ==
  \/ StartPass \/ SkipReset \/ StartReset \/ ExecCommandInPodSet
  \/ SetMasterauth \/ SetRequirepass \/ ResetDone
  \/ EnsureStatefulset \/ WaitStatefulSetUpdating \/ WaitPodReady \/ OpenAdmin

Next ==
  \/ Operator \/ Crash
  \/ \E s \in Shards : SyncStatus(s)
  \/ \E p \in Pods : RollPod(p) \/ PodFails(p) \/ PodStarts(p) \/ AutoFailover(p)

Spec == Init /\ [][Next]_vars

\* The request is served every ten seconds, and Kubernetes brings the pods to
\* their template.
FairSpec ==
  /\ Spec
  /\ WF_vars(Operator)
  /\ \A s \in Shards : WF_vars(SyncStatus(s))
  /\ \A p \in Pods : WF_vars(RollPod(p)) /\ WF_vars(PodStarts(p))

-----------------------------------------------------------------------------
(***************************************************************************)
(* Properties.                                                             *)
(***************************************************************************)
\* The admin that Reconcile opens with the new password is let in by every
\* pod that runs (controller.go:225-234), wherever the operator stopped on the
\* way and whichever Secret the pod was started with: unless a pod failed or
\* a connection was refused.
AdminLetIn ==
  pc = "admin" /\ faults.others = 0 =>
    \A p \in Pods : up[p] => requirepass[p] = "new"

\* A master that the rolling update stops hands over to a replica that runs:
\* the file holds the replica's password by then (sync_handler.go:354-359,
\* "redis pod preStop hook need /data/redis_password do CLUSTER FAILOVER"),
\* wherever the operator stopped on the way, unless a pod failed or a
\* connection was refused.
MasterHandsOver ==
  [][faults'.others = 0 =>
       \A p \in Pods :
         up[p] /\ ~ up'[p] /\ ClusterReplicas > 0 => master'[p[1]] # p[2]]_vars

(***************************************************************************)
(* The inductive invariant.                                                *)
(***************************************************************************)
\* The nodes are changed before the first StatefulSet, the StatefulSets in
\* their order.
TemplatesInOrder ==
  /\ pc \in {"file", "masterauth", "requirepass"} => template[0] # "new"
  /\ pc = "ensure" => \A s \in Shards : s < i => template[s] = "new"
  /\ pc \in {"ready", "admin"} => template[0] = "new"

\* Until the first StatefulSet is changed nothing restarts, and the status
\* the operator sees is right although it may be old.
NothingRestarts ==
  template[0] # "new" =>
    /\ \A s \in Shards : /\ template[s] = template[0]
                        /\ stsStatus[s].ready /\ stsStatus[s].current
    /\ \A p \in Pods : requirepass[p] \in {template[0], "new"}

\* A pod only restarts to get the new password.
OldPodsRun ==
  \A p \in Pods : template[p[1]] # "new" => up[p] /\ env[p] = template[p[1]]

\* How far the pass has come with files and nodes; the StatefulSets are
\* changed when all the nodes are, over as many passes as it takes.
NodesFirst ==
  /\ pc = "file" =>
       \A p \in Pods : /\ p \notin todo => file[p] = "new"
                       /\ p \notin conns => requirepass[p] = "new"
  /\ pc \in {"masterauth", "requirepass"} =>
       \A p \in Pods : /\ file[p] = "new"
                       /\ p \notin todo => requirepass[p] = "new"
  /\ pc = "ensure" \/ template[0] = "new" =>
       \A p \in Pods : file[p] = "new" /\ requirepass[p] = "new"

IInv ==
  /\ TypeOK /\ TemplatesInOrder
  /\ faults.others = 0 => NothingRestarts /\ OldPodsRun /\ NodesFirst

Done ==
  /\ \A s \in Shards : template[s] = "new"
  /\ \A p \in Pods : up[p] /\ "new" = requirepass[p] /\ masterauth[p] = "new" /\ env[p] = "new"

\* The nodes have changed and the first StatefulSet has not: a pass finds no
\* node that lets it in with the old password.
LockedOut ==
  /\ template[0] # "new"
  /\ IF template[0] = "" THEN \E p \in Pods : requirepass[p] = "new"
     ELSE \A p \in Pods : requirepass[p] = "new"

\* The change of password ends, with every pod restarted and every node on
\* the new password, whatever pods fail and connections are refused; or the
\* operator is locked out for good, because it stopped between ResetPassword
\* and the update of the first StatefulSet (sync_handler.go:53-57), or, when
\* there was no password before, because something went wrong in the middle
\* of ResetPassword.
ResetEnds ==
  \/ <>Done
  \/ <>[](LockedOut /\ (faults.stops > 0 \/ (template[0] = "" /\ faults.others > 0)))
===============================================================================
