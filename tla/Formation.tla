------------------------------- MODULE Formation -------------------------------
(***************************************************************************)
(* Forming a cluster out of running pods: Reconcile after the pods are     *)
(* ready.  A pass connects to the pods, lets the healer remove nodes that  *)
(* are gone, waits until the nodes agree (or sends CLUSTER MEET), applies  *)
(* the configuration, stores the status and, when masters or replicas are  *)
(* missing, runs syncCluster: it picks a master for each StatefulSet,      *)
(* attaches the other pods to it and allocates the slots.  Two cases are   *)
(* started from: a new cluster, and one whose user asks for one more       *)
(* replica while some nodes still list a node of an earlier scale-down.    *)
(* Meanwhile connections and commands fail, answers are missing, Pods      *)
(* nodes are flagged as failed and the operator stops.                     *)
(***************************************************************************)
EXTENDS Integers, FiniteSets, FiniteSetsExt

CONSTANTS
  StatefulSets,  \* how many StatefulSets exist
  ClusterReplicas,
  NumSlots,      \* bound: Redis has 16384
  HostMaps,      \* the ways the scheduler may put pods on hosts
  MaxFaults      \* bound on the number of faults

Slots == 0 .. NumSlots - 1

\* A pod is its StatefulSet and its index.  The ghost is a node of an earlier
\* scale-down, which has no pod any more.
Pods == (0 .. StatefulSets - 1) \X (0 .. ClusterReplicas)
Ghost == <<StatefulSets, 0>>

ASSUME FormationAssumption ==
  /\ StatefulSets \in Nat \ {0} /\ ClusterReplicas \in Nat \ {0}
  /\ NumSlots \in Nat /\ NumSlots >= StatefulSets
  /\ HostMaps # {} /\ \A h \in HostMaps : DOMAIN h = Pods
  /\ MaxFaults \in Nat

VARIABLES
  MasterSize,  \* of the spec: below StatefulSets when the user has lowered it
  host,        \* where each runs
  known,       \* the nodes each node lists, itself included
  fresh,       \* do the lists tell the roles and slots that the nodes have?
  meets,       \* the handshakes under way
  ghost,       \* how a node lists the ghost: not at all, up, fail, handshake
  failed,      \* the live nodes that others flag as failed
  ref,         \* MasterReferent; a master refers to itself
  slots,
  configured,  \* the nodes that have the configuration of the spec
  status,
  statusNodes, \* Status.Nodes
  pc,
  conn,        \* the pods the pass is connected to
  todo,        \* the nodes the current loop has not come to
  masterOf,    \* newMastersBySts
  branch,      \* which branch of syncCluster runs
  err,         \* a REPLICATE of this pass failed
  cut,         \* history: the loops of syncCluster that were broken off
  faults       \* history

nodeVars == <<known, fresh, meets, ghost, failed, ref, slots, configured>>
passVars == <<conn, todo, masterOf, branch, err>>
crVars == <<status, statusNodes>>
history == <<cut, faults>>
vars == <<MasterSize, host, nodeVars, crVars, pc, passVars, history>>

FaultKinds == {"blind", "refused", "stops", "flags"}

TypeOK ==
  /\ MasterSize \in 1 .. StatefulSets
  /\ host \in HostMaps
  /\ known \in [Pods -> SUBSET Pods]
  /\ meets \subseteq Pods \X Pods
  /\ ghost \in [Pods -> {"none", "up", "fail", "handshake"}]
  /\ failed \subseteq Pods /\ configured \subseteq Pods /\ statusNodes \subseteq Pods
  /\ ref \in [Pods -> Pods]
  /\ slots \in [Pods -> SUBSET Slots]
  /\ status \in {"Creating", "Scaling", "Rebalancing", "Failed", "Healthy"}
  /\ pc \in {"idle", "heal", "forget", "join", "joined", "config", "status", "sync", "attach",
             "alloc", "rebalance", "final"}
  /\ conn \subseteq Pods /\ todo \subseteq Pods \union {Ghost}
  /\ masterOf \in [0 .. StatefulSets - 1 -> Pods]
  /\ branch \in {"none", "create", "scaleup", "slaves"}
  /\ {fresh, err} \subseteq BOOLEAN
  /\ cut \subseteq {"attach", "alloc"}
  /\ faults \in [FaultKinds -> 0 .. MaxFaults]

Shards == 0 .. MasterSize - 1

NoMasters == [s \in 0 .. StatefulSets - 1 |-> <<s, 0>>]

\* The range of slots that AllocSlots gives to the i-th master, i from 0: it
\* rounds (i + 1) * slotsPerNode - 1 to the nearest integer.
RoundedLast(i) == (2 * (i + 1) * NumSlots - MasterSize) \div (2 * MasterSize)

LastSlot(i) == IF i = MasterSize - 1 THEN NumSlots - 1 ELSE RoundedLast(i)
AllocRange(i) == (IF i = 0 THEN 0 ELSE LastSlot(i - 1) + 1) .. LastSlot(i)

\* Empty nodes, each of which knows only itself.
NewCluster ==
  /\ host \in HostMaps
  /\ known = [p \in Pods |-> {p}]
  /\ ghost = [p \in Pods |-> "none"]
  /\ ref = [p \in Pods |-> p]
  /\ slots = [p \in Pods |-> {}]
  /\ configured = {} /\ statusNodes = {}
  /\ status = "Creating"

\* Only the last pod of every StatefulSet is new; where it runs does not matter.
\* One node was not told to forget the ghost.
OneMoreReplica ==
  LET old == {p \in Pods : p[2] < ClusterReplicas} IN
  /\ MasterSize = StatefulSets
  /\ host = CHOOSE h \in HostMaps : TRUE
  /\ known = [p \in Pods |-> IF p \in old THEN old ELSE {p}]
  /\ ghost = [p \in Pods |-> IF p = <<0, 0>> THEN "up" ELSE "none"]
  /\ ref = [p \in Pods |-> IF p \in old THEN <<p[1], 0>> ELSE p]
  /\ slots = [p \in Pods |-> IF p[2] = 0 THEN AllocRange(p[1]) ELSE {}]
  /\ configured = old /\ statusNodes = old
  /\ status = "Scaling"

Init ==
  /\ MasterSize \in {StatefulSets, StatefulSets - 1} \ {0}
  /\ NewCluster \/ OneMoreReplica
  /\ fresh = TRUE /\ meets = {} /\ failed = {}
  /\ pc = "idle"
  /\ conn = {} /\ todo = {} /\ masterOf = NoMasters /\ branch = "none" /\ err = FALSE
  /\ cut = {}
  /\ faults = [kind \in FaultKinds |-> 0]

Fault(kind) ==
  /\ faults["blind"] + faults["refused"] + faults["stops"] + faults["flags"] < MaxFaults
  /\ faults' = [faults EXCEPT ![kind] = @ + 1]

EndPass ==
  /\ pc' = "idle"
  /\ conn' = {} /\ todo' = {} /\ masterOf' = NoMasters /\ branch' = "none" /\ err' = FALSE

SetClusterFailed == status' = "Failed" /\ UNCHANGED statusNodes

-----------------------------------------------------------------------------
(***************************************************************************)
(* The nodes among themselves: Redis, as far as the operator relies on it. *)
(***************************************************************************)
\* Two nodes exchange gossip when each knows the other or they shake hands.
Linked(p, q) ==
  \/ q \in known[p] /\ p \in known[q]
  \/ <<p, q>> \in meets \/ <<q, p>> \in meets

Neighbours(p) == {q \in Pods : Linked(p, q)}

\* A node learns from its neighbours what they know, and meets those nodes.
\* One round of gossip reaches every node; a node that lags is one more
\* disagreement.
Learned(p) == known[p] \union Neighbours(p) \union UNION {known[q] : q \in Neighbours(p)}

Gossip ==
  LET then == [p \in Pods |-> Learned(p)] IN
  /\ then # known \/ ~ fresh
  /\ known' = then
  /\ fresh' = TRUE
  /\ meets' = {m \in meets \union UNION {{p} \X (then[p] \ known[p]) : p \in Pods} :
                 m[2] \notin then[m[1]] \/ m[1] \notin then[m[2]]}
  /\ UNCHANGED <<MasterSize, host, ghost, failed, ref, slots, configured, crVars, pc, passVars, history>>

\* Gossip about the ghost makes p try a handshake, which ends without an answer
\* (bound: one handshake at a time); a node that lists the ghost ends up flagging
\* it.
GhostSpreads(p) ==
  /\ \A q \in Pods : ghost[q] # "handshake"
  /\ ghost[p] = "none"
  /\ \E q \in Neighbours(p) : ghost[q] = "up"
  /\ ghost' = [ghost EXCEPT ![p] = "handshake"]
  /\ UNCHANGED <<MasterSize, host, known, fresh, meets, failed, ref, slots, configured, crVars, pc,
                 passVars, history>>

HandshakeEnds(p) ==
  /\ ghost[p] = "handshake"
  /\ ghost' = [ghost EXCEPT ![p] = "none"]
  /\ UNCHANGED <<MasterSize, host, known, fresh, meets, failed, ref, slots, configured, crVars, pc,
                 passVars, history>>

FlagGhost(p) ==
  /\ ghost[p] = "up"
  /\ ghost' = [ghost EXCEPT ![p] = "fail"]
  /\ UNCHANGED <<MasterSize, host, known, fresh, meets, failed, ref, slots, configured, crVars, pc,
                 passVars, history>>

\* A live node is slow to answer the others, then answers again.
FlagLive(p) ==
  /\ p \notin failed
  /\ Fault("flags")
  /\ failed' = failed \union {p}
  /\ UNCHANGED <<MasterSize, host, known, fresh, meets, ghost, ref, slots, configured, crVars, pc,
                 passVars, cut>>

UnflagLive(p) ==
  /\ p \in failed
  /\ failed' = failed \ {p}
  /\ UNCHANGED <<MasterSize, host, known, fresh, meets, ghost, ref, slots, configured, crVars, pc,
                 passVars, history>>

-----------------------------------------------------------------------------
(***************************************************************************)
(* The start of a pass: newRedisAdmin, GetClusterInfos, Heal.  A pass that *)
(* a missing answer ends at the first GetClusterInfos has done nothing and *)
(* is left out.                                                            *)
(***************************************************************************)
\* NewAdminConnections leaves out, without an error, what it cannot connect to: a
\* pod, or the pods of a StatefulSet.
Unreachable == {{p} : p \in Pods} \union {{q \in Pods : q[1] = p[1]} : p \in Pods}

StartPass ==
  /\ pc = "idle"
  /\ pc' = "heal"
  /\ \/ conn' = Pods /\ UNCHANGED faults
     \/ Fault("blind") /\ \E lost \in Unreachable : conn' = Pods \ lost
  /\ UNCHANGED <<MasterSize, host, nodeVars, crVars, todo, masterOf, branch, err, cut>>

\* Mutant: Status.Nodes is not consulted.
AnyFailed ==
  {p \in failed : \E q \in conn \ {p} : p \in known[q]}
    \union {g \in {Ghost} : \E q \in conn : ghost[q] = "fail"}

\* Mutant: nothing is ever taken for a ghost.
NoGhosts == {}

\* listGhostNodes: flagged as failed, or without an address, in the list of a
\* connected node, and not in Status.Nodes.
GhostNodes ==
  {p \in failed \ statusNodes : \E q \in conn \ {p} : p \in known[q]}
    \union {g \in {Ghost} : \E q \in conn : ghost[q] = "fail"}

\* listUntrustedNodes, without the handshakes with a node the pass is connected to.
UntrustedMeets == {m \in meets : (m[1] \in conn) # (m[2] \in conn)}
UntrustedGhosts == {p \in conn : ghost[p] = "handshake"}

HealFailed ==
  /\ pc = "heal"
  /\ GhostNodes # {}
  /\ todo' = GhostNodes
  /\ pc' = "forget"
  /\ UNCHANGED <<MasterSize, host, nodeVars, crVars, conn, masterOf, branch, err, history>>

\* ForgetNode(x): the replicas of x are reset and met again, then every
\* connected node forgets x.  An error is logged.
ForgetNode(x) ==
  /\ pc = "forget" /\ x \in todo
  /\ \E told \in {conn \ {x}} \union {conn \ {x, p} : p \in conn} :
       LET reset == {p \in told : ref[p] = x /\ x # p} IN
       /\ IF told = conn \ {x} THEN UNCHANGED faults ELSE Fault("refused")
       /\ known' = [p \in Pods |-> CASE p \in reset -> {p}
                                     [] p \in told \ reset -> known[p] \ {x}
                                     [] OTHER -> known[p]]
       /\ meets' = {m \in meets : m[1] \notin reset /\ m[2] \notin reset}
                     \union {m \in conn \X reset : m[1] # m[2]}
       /\ ref' = [p \in Pods |-> IF p \in reset THEN p ELSE ref[p]]
       /\ fresh' = (fresh /\ reset = {})
       /\ ghost' = [p \in Pods |->
            IF p \in reset \/ (x = Ghost /\ p \in told) THEN "none" ELSE ghost[p]]
  /\ IF todo = {x}
       THEN EndPass
       ELSE todo' = todo \ {x} /\ UNCHANGED <<pc, conn, masterOf, branch, err>>
  /\ UNCHANGED <<MasterSize, host, failed, slots, configured, crVars, cut>>

\* FixUntrustedNodes: a friend has no PodName, so no pod is deleted.
HealUntrusted ==
  /\ pc = "heal"
  /\ GhostNodes = {}
  /\ UntrustedMeets # {} \/ UntrustedGhosts # {}
  /\ meets' = meets \ UntrustedMeets
  /\ ghost' = [p \in Pods |-> IF p \in UntrustedGhosts THEN "none" ELSE ghost[p]]
  /\ EndPass
  /\ UNCHANGED <<MasterSize, host, known, fresh, failed, ref, slots, configured, crVars, history>>

NothingToHeal ==
  /\ pc = "heal"
  /\ GhostNodes = {} /\ UntrustedMeets = {} /\ UntrustedGhosts = {}
  /\ pc' = "join"
  /\ UNCHANGED <<MasterSize, host, nodeVars, crVars, passVars, history>>

-----------------------------------------------------------------------------
(***************************************************************************)
(* waitForClusterJoin, SetConfigIfNeed and the first status.               *)
(***************************************************************************)
IsMaster(p) == ref[p] = p

\* ComputeStatus: every connected node lists the connected masters, with their
\* slots, and no other master.  A node in handshake has no role.
Consistent ==
  fresh /\ \A p \in conn :
    /\ ghost[p] \in {"none", "handshake"}
    /\ {q \in known[p] : IsMaster(q)} = {q \in conn : IsMaster(q)}

\* The nodes agree already.
AlreadyJoined ==
  /\ pc = "join"
  /\ Consistent
  /\ pc' = "config"
  /\ UNCHANGED <<MasterSize, host, nodeVars, crVars, passVars, history>>

\* AttachNodeToCluster: all others meet one of the connected nodes, the first of
\* a map.  Meeting a node that is linked already changes nothing.  The first
\* command that fails, here that of the last node, ends the pass.
MeetNodes ==
  /\ pc = "join"
  /\ ~ Consistent
  /\ \E first \in conn, sent \in {conn} \union {conn \ {p} : p \in conn} :
       /\ meets' = meets \union {m \in sent \X {first} : ~ Linked(m[1], first)}
       /\ IF sent = conn
            THEN /\ pc' = "joined"
                 /\ UNCHANGED <<crVars, conn, todo, masterOf, branch, err, faults>>
            ELSE /\ first \in sent
                 /\ Fault("refused")
                 /\ SetClusterFailed
                 /\ EndPass
  /\ UNCHANGED <<MasterSize, host, known, fresh, ghost, failed, ref, slots, configured, cut>>

\* One second later the nodes agree, or the pass is tried again.
CheckJoined ==
  /\ pc = "joined"
  /\ IF Consistent THEN pc' = "config" /\ UNCHANGED passVars ELSE EndPass
  /\ UNCHANGED <<MasterSize, host, nodeVars, crVars, history>>

\* SetConfigIfNeed, node by node; the first command that fails, here that of the
\* last node, ends the pass.
SetConfigIfNeed ==
  /\ pc = "config"
  /\ \E done \in {conn} \union {conn \ {p} : p \in conn} :
       /\ configured' = configured \union done
       /\ IF done = conn
            THEN pc' = "status" /\ UNCHANGED <<passVars, faults>>
            ELSE Fault("refused") /\ EndPass
  /\ UNCHANGED <<MasterSize, host, known, fresh, meets, ghost, failed, ref, slots, crVars, cut>>

CurrentMasters == {p \in conn : IsMaster(p) /\ slots[p] # {}}

\* The replication factors that buildClusterStatus counts.
Followers(x) == Cardinality({p \in conn : ref[p] = x /\ p # x})
ReplicationFactors ==
  {Followers(x) : x \in CurrentMasters \union {ref[p] : p \in {q \in conn : ~ IsMaster(q)}}}
MinReplicationFactor == IF ReplicationFactors = {} THEN 0 ELSE Min(ReplicationFactors)

\* Mutant: the replicas are not counted.
MastersMissing == Cardinality(CurrentMasters) # MasterSize

needClusterOperation ==
  \/ Cardinality(CurrentMasters) # MasterSize
  \/ ReplicationFactors # {ClusterReplicas}

\* More StatefulSets than the spec asks for.
isScalingDown == StatefulSets > MasterSize

\* buildClusterStatus, updateClusterIfNeed.
StoreStatus ==
  /\ pc = "status"
  /\ statusNodes' = conn
  /\ status' = IF isScalingDown THEN "Rebalancing" ELSE status
  /\ pc' = IF needClusterOperation THEN "sync" ELSE "final"
  /\ UNCHANGED <<MasterSize, host, nodeVars, passVars, history>>

-----------------------------------------------------------------------------
(***************************************************************************)
(* syncCluster.                                                            *)
(***************************************************************************)
NodesOf(s) == {p \in conn : p[1] = s}
CurrentOf(s) == {p \in CurrentMasters : p[1] = s}

\* A StatefulSet without a node, or with two masters that have slots.
CannotDispatch == \E s \in Shards : NodesOf(s) = {} \/ Cardinality(CurrentOf(s)) > 1

\* Mutant: the first node of the StatefulSet, wherever it runs.
AnyNode(s, m) == NodesOf(s)

\* PlaceMasters: the first node, in the order of a map, on a host that has no
\* master yet, or else the first node.
PlaceMasters(s, m) ==
  LET taken == {host[p] : p \in CurrentMasters \union {m[t] : t \in 0 .. s - 1}}
      free == {p \in NodesOf(s) : host[p] \notin taken}
  IN  IF free # {} THEN free ELSE NodesOf(s)

\* DispatchMasters, StatefulSet by StatefulSet.
DispatchMasters(m) ==
  \A s \in DOMAIN m :
    m[s] \in CASE s \notin Shards -> {NoMasters[s]}
              [] s \in Shards /\ CurrentOf(s) # {} -> CurrentOf(s)
              [] OTHER -> PlaceMasters(s, m)

DispatchFails ==
  /\ pc = "sync"
  /\ CannotDispatch
  /\ SetClusterFailed
  /\ EndPass
  /\ UNCHANGED <<MasterSize, host, nodeVars, history>>

Branch ==
  CASE CurrentMasters = {} -> "create"
    [] CurrentMasters # {} /\ MasterSize > Cardinality(CurrentMasters) -> "scaleup"
    [] MasterSize <= Cardinality(CurrentMasters) /\ MinReplicationFactor < ClusterReplicas -> "slaves"
    [] OTHER -> "none"

\* PlaceSlaves: the nodes that do not follow the master of their StatefulSet.
PlaceSlaves(m) == {p \in conn : p # m[p[1]] /\ ref[p] # m[p[1]]}

\* A StatefulSet beyond MasterSize has no master: PlaceSlaves dereferences nil and
\* the operator starts again.
PlaceSlavesPanics ==
  /\ pc = "sync"
  /\ ~ CannotDispatch
  /\ Branch # "none" /\ \E p \in conn : p[1] \notin Shards
  /\ EndPass
  /\ UNCHANGED <<MasterSize, host, nodeVars, crVars, history>>

\* Scaling down, when it is what is left to do, is the subject of ScaleDown.
Dispatch(m) ==
  /\ pc = "sync"
  /\ ~ CannotDispatch
  /\ DispatchMasters(m)
  /\ Branch = "none" \/ \A p \in conn : p[1] \in Shards
  /\ masterOf' = m
  /\ branch' = Branch
  /\ IF Branch = "none"
       THEN pc' = "final" /\ todo' = {}
       ELSE pc' = "attach" /\ todo' = PlaceSlaves(m)
  /\ UNCHANGED <<MasterSize, host, nodeVars, crVars, conn, err, history>>

\* CLUSTER REPLICATE: the master is known, is a master, and p is empty.
Replicates(p, x) == x \in known[p] /\ IsMaster(x) /\ slots[p] = {}

\* AttachingSlavesToMaster goes on after an error and returns it at the end.
AttachSlaveToMaster(p) ==
  LET x == masterOf[p[1]] IN
  /\ pc = "attach" /\ p \in todo
  /\ \/ /\ Replicates(p, x)
        /\ ref' = [ref EXCEPT ![p] = x]
        /\ fresh' = FALSE
        /\ UNCHANGED <<err, faults>>
     \/ /\ IF Replicates(p, x) THEN Fault("refused") ELSE UNCHANGED faults
        /\ err' = TRUE
        /\ UNCHANGED <<ref, fresh>>
  /\ todo' = todo \ {p}
  /\ UNCHANGED <<MasterSize, host, known, meets, ghost, failed, slots, configured, crVars, pc, conn,
                 masterOf, branch, cut>>

NextOf(b) == CASE b = "create" -> "alloc" [] b = "scaleup" -> "rebalance" [] OTHER -> "final"

\* Mutant: the error of a REPLICATE is only logged.
AttachErrorIgnored ==
  /\ pc = "attach" /\ todo = {}
  /\ pc' = NextOf(branch)
  /\ todo' = IF branch = "create" THEN {masterOf[s] : s \in Shards} ELSE {}
  /\ UNCHANGED <<MasterSize, host, nodeVars, crVars, conn, masterOf, branch, err, history>>

Attached ==
  /\ pc = "attach" /\ todo = {}
  /\ IF err
       THEN SetClusterFailed /\ EndPass /\ cut' = cut \union {"attach"}
       ELSE /\ pc' = NextOf(branch)
            /\ todo' = IF branch = "create" THEN {masterOf[s] : s \in Shards} ELSE {}
            /\ UNCHANGED <<crVars, conn, masterOf, branch, err, cut>>
  /\ UNCHANGED <<MasterSize, host, nodeVars, faults>>

\* CLUSTER ADDSLOTS: no node that p lists has one of the slots.
Accepts(p, range) == \A q \in known[p] : slots[q] \intersect range = {}

\* AllocSlots, one master after the other in the order of a map; the first
\* error ends the pass.
AllocSlots(p) ==
  LET range == AllocRange(MasterSize - Cardinality(todo)) IN
  /\ pc = "alloc" /\ p \in todo
  /\ \/ /\ Accepts(p, range)
        /\ slots' = [slots EXCEPT ![p] = @ \union range]
        /\ fresh' = FALSE
        /\ todo' = todo \ {p}
        /\ pc' = IF todo = {p} THEN "final" ELSE "alloc"
        /\ UNCHANGED <<crVars, conn, masterOf, branch, err, cut, faults>>
     \/ /\ IF Accepts(p, range) THEN Fault("refused") ELSE UNCHANGED faults
        /\ cut' = cut \union {"alloc"}
        /\ SetClusterFailed
        /\ EndPass
        /\ UNCHANGED <<slots, fresh>>
  /\ UNCHANGED <<MasterSize, host, known, meets, ghost, failed, ref, configured>>

\* What RebalancedCluster, the subject of ScaleUp, does with masters that have no
\* slots when slots have no owner: a master with more slots than the quotient
\* gives up the rest.
RebalancedCluster ==
  LET masters == {masterOf[s] : s \in Shards}
      quota == NumSlots \div MasterSize
      owned == UNION {slots[p] : p \in masters}
      Kept(to, p) == {k \in slots[p] : to[k] = p}
      Got(to, p) == {k \in owned : to[k] = p} IN
  /\ pc = "rebalance"
  /\ \E to \in [owned -> masters] :
       /\ \A p \in masters :
            /\ Cardinality(Kept(to, p)) = Min({quota, Cardinality(slots[p])})
            /\ Cardinality(slots[p]) >= quota => Got(to, p) = Kept(to, p)
       /\ slots' = [p \in Pods |-> IF p \in masters THEN Got(to, p) ELSE slots[p]]
       /\ fresh' = (fresh /\ slots' = slots)
  /\ pc' = "final"
  /\ UNCHANGED <<MasterSize, host, known, meets, ghost, failed, ref, configured, crVars, passVars, history>>

\* The second GetClusterInfos: its error is judged by the status of the first,
\* so a node that did not answer is left out of Status.Nodes.
SetClusterOK ==
  /\ pc = "final"
  /\ \/ statusNodes' = conn /\ UNCHANGED faults
     \/ Fault("blind") /\ \E p \in conn : statusNodes' = conn \ {p}
  /\ status' = "Healthy"
  /\ EndPass
  /\ UNCHANGED <<MasterSize, host, nodeVars, cut>>

\* The operator stops anywhere in a pass.
Crash ==
  /\ pc # "idle"
  /\ Fault("stops")
  /\ cut' = cut \union ({pc} \intersect {"attach", "alloc"})
  /\ EndPass
  /\ UNCHANGED <<MasterSize, host, nodeVars, crVars>>

-----------------------------------------------------------------------------
DispatchSome == \E m \in [0 .. StatefulSets - 1 -> Pods] : Dispatch(m)

Operator ==
  \/ StartPass \/ HealFailed \/ HealUntrusted \/ NothingToHeal
  \/ \E x \in Pods \union {Ghost} : ForgetNode(x)
  \/ AlreadyJoined \/ MeetNodes \/ CheckJoined \/ SetConfigIfNeed \/ StoreStatus
  \/ DispatchFails \/ PlaceSlavesPanics \/ DispatchSome
  \/ \E p \in Pods : AttachSlaveToMaster(p) \/ AllocSlots(p)
  \/ Attached \/ RebalancedCluster \/ SetClusterOK

GhostIsFlagged == \E p \in Pods : FlagGhost(p)
TimesOut == \E p \in Pods : HandshakeEnds(p) \/ UnflagLive(p)

Next ==
  \/ Operator \/ Gossip \/ GhostIsFlagged \/ TimesOut \/ Crash
  \/ \E p \in Pods : GhostSpreads(p) \/ FlagLive(p)

Spec == Init /\ [][Next]_vars

\* A pass that may pick a node that is a master picks one every now and then:
\* Go starts the iteration of a map at random.
PicksMasters == \E m \in [0 .. StatefulSets - 1 -> Pods] : Dispatch(m) /\ \A s \in Shards : IsMaster(m[s])

FairSpec ==
  /\ Spec
  /\ WF_vars(Operator) /\ SF_vars(PicksMasters)
  /\ WF_vars(Gossip) /\ WF_vars(GhostIsFlagged) /\ WF_vars(TimesOut)

-----------------------------------------------------------------------------
Formed ==
  /\ configured = Pods
  /\ \A s \in Shards : \E x \in Pods :
       /\ x[1] = s /\ IsMaster(x) /\ slots[x] # {}
       /\ \A p \in Pods : p[1] = s => ref[p] = x
  /\ UNION {slots[p] : p \in Pods} = Slots

\* Slots are given to masters only, to one pod of a StatefulSet at most, and no
\* slot twice: whatever passes failed before, AllocSlots and syncCluster never
\* make two owners out of the random choices of PlaceMasters.  A pass that sees
\* all the pods keeps to this in a cluster of any size; one that does not see
\* the owner of the slots, because it belongs to the one StatefulSet there is,
\* allocates them a second time.
SlotsOnMasters ==
  \A p, q \in Pods :
    /\ slots[p] # {} => IsMaster(p)
    /\ p # q => slots[p] \intersect slots[q] = {}
    /\ p # q /\ slots[p] # {} /\ slots[q] # {} => p[1] # q[1]

\* The operator reports Healthy only when the cluster is formed: every slot has
\* an owner and every pod follows the master of its own StatefulSet.  Reconcile
\* does not look, so a pass that saw less than the whole cluster and an
\* allocation broken off between two masters are excepted.
HealthyMeansFormed ==
  status = "Healthy" /\ "alloc" \notin cut /\ faults["blind"] = 0 => Formed

\* PlaceMasters spreads the masters: two share a host only when one of them had
\* no pod on a host without a master.
Spread ==
  status = "Healthy" /\ faults["blind"] = 0 =>
    \A p, q \in {x \in Pods : IsMaster(x) /\ slots[x] # {}} :
      p # q /\ host[p] = host[q] =>
        \E x \in {p, q} : \A y \in Pods : y[1] = x[1] =>
          \E z \in Pods : IsMaster(z) /\ z[1] # x[1] /\ host[z] = host[y]

\* The healer makes no node of a healthy cluster forget a pod that runs, however
\* the others flag it, as long as the operator has seen all of them: the pods
\* know one another, and the status lists them.
MembershipKept ==
  status = "Healthy" /\ faults["blind"] = 0 =>
    statusNodes = Pods /\ \A p, q \in Pods : q \in known[p]

(***************************************************************************)
(* The inductive invariant, for the passes that see all the pods.          *)
(***************************************************************************)
\* AllocSlots comes to a master at most once.
MastersToAlloc == pc = "alloc" => todo \subseteq {masterOf[s] : s \in Shards}

\* A node follows a pod of its own StatefulSet, and no two follow each other.
Following ==
  \A p \in Pods : ref[p][1] = p[1] /\ (ref[p] # p => ref[ref[p]] # p)

\* What was in the status when it was stored knows one another, and so does
\* whoever knows one of them; only such nodes follow and are followed.
StatusKnown ==
  /\ \A p \in Pods : p \in known[p]
  /\ \A p, q \in Pods : q \in known[p] \intersect statusNodes => statusNodes \subseteq known[p]
  /\ \A p \in Pods : ref[p] # p => {p, ref[p]} \subseteq statusNodes
  /\ statusNodes \in {{}, Pods} \/ \E x \in statusNodes : IsMaster(x)

\* What a pass has established by the time it gets to a step.
PassKnows ==
  /\ pc # "idle" => conn = Pods
  /\ pc = "forget" => todo \subseteq (Pods \ statusNodes) \union {Ghost}
  /\ pc \in {"config", "status"} => \A p, q \in Pods : IsMaster(q) => q \in known[p]
  /\ pc \in {"status", "sync", "attach", "alloc", "rebalance", "final"} => configured = Pods
  /\ pc \in {"sync", "attach", "alloc", "rebalance", "final"} => statusNodes = Pods
  /\ status = "Healthy" => statusNodes = Pods /\ configured = Pods

\* syncCluster picks the master that has slots, and goes on when all the pods
\* of the StatefulSet follow the one it picked.
MastersPicked ==
  /\ \A s \in DOMAIN masterOf : masterOf[s][1] = s
  /\ pc \in {"attach", "alloc", "rebalance"} =>
       /\ MasterSize = StatefulSets
       /\ \A p \in Pods : slots[p] # {} => p = masterOf[p[1]]
  /\ pc = "attach" =>
       /\ \A p \in todo : p \in Pods /\ masterOf[p[1]] \notin {p, ref[p]}
       /\ \A p \in Pods : err \/ p \in todo \/ masterOf[p[1]] \in {p, ref[p]}
       /\ \A s \in Shards :
            err \/ IsMaster(masterOf[s]) \/ ref[masterOf[s]] \in todo
  /\ pc \in {"alloc", "rebalance"} => \A p \in Pods : ref[p] = masterOf[p[1]]

NoSlots == \A p \in Pods : slots[p] = {}

AllSlots ==
  /\ UNION {slots[p] : p \in Pods} = Slots
  /\ \A s \in Shards : \E p \in Pods : p[1] = s /\ slots[p] # {}

\* The slots are all given out or none is, except while AllocSlots runs: it has
\* given out the first ones, to the masters it is done with.
SlotsInOrder ==
  /\ \A p \in Pods : slots[p] # {} => p[1] \in Shards
  /\ pc = "attach" => (NoSlots <=> branch = "create")
  /\ pc \in {"attach", "rebalance"} /\ branch = "scaleup" => "alloc" \in cut
  /\ pc = "rebalance" => branch = "scaleup"
  /\ pc = "alloc" =>
       /\ todo # {}
       /\ \A s \in Shards : slots[masterOf[s]] = {} <=> masterOf[s] \in todo
       /\ UNION {slots[p] : p \in Pods} =
            {k \in Slots : \E j \in Shards : k <= LastSlot(j) /\ j + Cardinality(todo) < MasterSize}
  /\ pc = "alloc" \/ "alloc" \in cut \/ NoSlots \/ AllSlots
  /\ (pc = "final" \/ status = "Healthy") /\ "alloc" \notin cut => Formed

SeenInv ==
  /\ Following /\ StatusKnown /\ PassKnows /\ MastersPicked /\ SlotsInOrder
  /\ SlotsOnMasters

IInv ==
  /\ TypeOK /\ MastersToAlloc
  /\ faults["blind"] = 0 => SeenInv

\* Of two masters of X on one host, one had no pod on a host without another
\* master of X.
SpreadOn(h, X) ==
  \A p, q \in X : p # q /\ h[p] = h[q] =>
    \E x \in {p, q} : \A y \in Pods : y[1] = x[1] => \E z \in X : z[1] # x[1] /\ h[z] = h[y]

\* The cluster that gets one more replica was spread when it was formed.
StartsSpread ==
  LET h == CHOOSE h \in HostMaps : TRUE IN
  SpreadOn(h, {<<s, 0>> : s \in 0 .. StatefulSets - 1})

\* X are masters of all the StatefulSets, spread, among them those that have
\* slots; the ones without slots are followed by their whole StatefulSet, so
\* that no later choice of PlaceMasters can put another in their place.
SpreadMasters(X) ==
  /\ \A x \in X : IsMaster(x)
  /\ SpreadOn(host, X)
  /\ \A p \in Pods : slots[p] # {} => p \in X
  /\ \A s \in Shards : \E x \in X : x[1] = s
  /\ \A x \in X : slots[x] = {} => \A p \in Pods : p[1] = x[1] => ref[p] = x

\* The inductive invariant of Spread: what is picked before the first slot is
\* given out is spread, and from then on there are such masters.
SpreadInv ==
  faults["blind"] = 0 =>
    /\ pc = "alloc" \/ (pc = "attach" /\ branch = "create") =>
         SpreadOn(host, {masterOf[s] : s \in Shards})
    /\ NoSlots \/ \E X \in SUBSET Pods : SpreadMasters(X)

\* The passes end with a formed cluster that is reported as such, the ghost
\* forgotten by every node, unless a StatefulSet is left over.
Done == Formed /\ status = "Healthy" /\ \A p \in Pods : ghost[p] = "none"

\* That is so after any finite number of faults, as long as no pass broke off
\* between the first CLUSTER REPLICATE and the last ADDSLOTS of syncCluster.
FormsUnlessCut == <>[](Done \/ isScalingDown \/ cut # {})

\* It is not so when a REPLICATE fails: PlaceMasters picks masters anew, by host
\* and not by role, and may never again pick those the replicas follow.
ClusterForms == <>[](Done \/ isScalingDown \/ "alloc" \in cut)
=============================================================================
