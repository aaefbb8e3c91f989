------------------------------ MODULE RedisSlots ------------------------------
(***************************************************************************)
(* The hash slots of a Redis Cluster as the operator's redisutil.Admin     *)
(* drives them.  Redis itself is not part of the repository: its side of   *)
(* each command is external, modelled from the way admin.go uses it and    *)
(* from the documented behaviour of CLUSTER SETSLOT, MIGRATE and the       *)
(* cluster bus.  Only masters appear; a replica never decides who owns a   *)
(* slot.                                                                   *)
(***************************************************************************)
EXTENDS Integers, FiniteSets

CONSTANTS
  Nodes,      \* the masters, one per StatefulSet
  NumSlots,   \* GetHashMaxSlot() + 1, 16384 in production
  Keys,       \* keys the clients may write
  SlotOf,     \* the hash slot of each key
  None        \* "no node"

Slots == 0 .. NumSlots - 1

ASSUME RedisAssumption ==
  /\ NumSlots \in Nat \ {0}
  /\ SlotOf \in [Keys -> Slots]
  /\ None \notin Nodes

VARIABLES
  owner,        \* owner[n][s]: who owns s in n's own slot table
  migrating,    \* migrating[n][s]: where n redirects the keys of s it misses
  importing,    \* importing[n][s]: set while n accepts ASKING commands for s
  keys,         \* keys[n]: the keys stored by n
  epoch,        \* epoch[n]: n's configEpoch
  currentEpoch, \* the cluster's current epoch
  acked         \* keys whose write was acknowledged to a client

tables == <<owner, migrating, importing, epoch, currentEpoch>>
redisVars == <<owner, migrating, importing, keys, epoch, currentEpoch, acked>>

RedisTypeOK ==
  /\ owner \in [Nodes -> [Slots -> Nodes \cup {None}]]
  /\ migrating \in [Nodes -> [Slots -> Nodes \cup {None}]]
  /\ importing \in [Nodes -> [Slots -> Nodes \cup {None}]]
  /\ keys \in [Nodes -> SUBSET Keys]
  /\ epoch \in [Nodes -> Nat]
  /\ currentEpoch \in Nat
  /\ acked \in SUBSET Keys

\* The slots a node reports as its own in CLUSTER NODES.
Owned(n) == {s \in Slots : owner[n][s] = n}

KeysIn(n, s) == {k \in keys[n] : SlotOf[k] = s}

(***************************************************************************)
(* A cluster in which the masters of "assigned" own the slots, every node  *)
(* agrees, and the other nodes have joined with no slot and epoch 0.       *)
(***************************************************************************)
RedisInit(assigned, epochs) ==
  /\ owner = [n \in Nodes |-> assigned]
  /\ migrating = [n \in Nodes |-> [s \in Slots |-> None]]
  /\ importing = [n \in Nodes |-> [s \in Slots |-> None]]
  /\ acked \in SUBSET {k \in Keys : assigned[SlotOf[k]] # None}
  /\ keys = [n \in Nodes |-> {k \in acked : assigned[SlotOf[k]] = n}]
  /\ epoch = epochs
  /\ currentEpoch = Cardinality(Nodes)

-----------------------------------------------------------------------------
(***************************************************************************)
(* CLUSTER SETSLOT, sent for a set S of slots in one pipeline.  The        *)
(* commands Redis refuses change nothing and make the pipeline return an   *)
(* error; the others take effect.                                          *)
(***************************************************************************)
AcceptsImporting(n) == {s \in Slots : owner[n][s] # n}
AcceptsMigrating(n) == {s \in Slots : owner[n][s] = n}
AcceptsNode(n, id)  ==
  {s \in Slots : owner[n][s] = n /\ id # n => KeysIn(n, s) = {}}

SetImporting(n, S, id) ==
  /\ importing' = [importing EXCEPT ![n] =
        [s \in Slots |-> IF s \in S \cap AcceptsImporting(n)
                         THEN id ELSE importing[n][s]]]
  /\ UNCHANGED <<owner, migrating, keys, epoch, currentEpoch, acked>>

SetMigrating(n, S, id) ==
  /\ migrating' = [migrating EXCEPT ![n] =
        [s \in Slots |-> IF s \in S \cap AcceptsMigrating(n)
                         THEN id ELSE migrating[n][s]]]
  /\ UNCHANGED <<owner, importing, keys, epoch, currentEpoch, acked>>

\* A node that finishes an import takes a new configEpoch, unless it already
\* has the highest one.
TakesEpoch(n, P, id) ==
  /\ id = n
  /\ \E s \in P : importing[n][s] # None
  /\ epoch[n] = 0 \/ epoch[n] # currentEpoch

SetNode(n, S, id) ==
  LET P == S \cap AcceptsNode(n, id) IN
  /\ owner' = [owner EXCEPT ![n] =
        [s \in Slots |-> IF s \in P THEN id ELSE owner[n][s]]]
  /\ migrating' = [migrating EXCEPT ![n] =
        [s \in Slots |-> IF s \in P /\ KeysIn(n, s) = {}
                         THEN None ELSE migrating[n][s]]]
  /\ importing' = [importing EXCEPT ![n] =
        [s \in Slots |-> IF s \in P /\ id = n
                         THEN None ELSE importing[n][s]]]
  /\ IF TakesEpoch(n, P, id)
     THEN /\ currentEpoch' = currentEpoch + 1
          /\ epoch' = [epoch EXCEPT ![n] = currentEpoch + 1]
     ELSE UNCHANGED <<epoch, currentEpoch>>
  /\ UNCHANGED <<keys, acked>>

\* CLUSTER ADDSLOTS refuses the whole command if one slot is taken.
AcceptsAddSlots(n, S) == \A s \in S : owner[n][s] = None

AddSlots(n, S) ==
  /\ owner' = [owner EXCEPT ![n] = [s \in Slots |-> IF s \in S THEN n ELSE owner[n][s]]]
  /\ importing' = [importing EXCEPT ![n] =
        [s \in Slots |-> IF s \in S THEN None ELSE importing[n][s]]]
  /\ UNCHANGED <<migrating, keys, epoch, currentEpoch, acked>>

\* CLUSTER FORGET of node x, run on the nodes N: whatever they know of x goes.
Forget(N, x) ==
  LET Drop(f) == [n \in Nodes |-> [s \in Slots |->
                    IF n \in N /\ f[n][s] = x THEN None ELSE f[n][s]]] IN
  /\ owner' = Drop(owner)
  /\ migrating' = Drop(migrating)
  /\ importing' = Drop(importing)
  /\ UNCHANGED <<keys, epoch, currentEpoch, acked>>

\* MIGRATE of key k: RESTORE-ASKING on the target, DEL on the source.
AcceptsRestore(n, s) == owner[n][s] = n \/ importing[n][s] # None

Migrate(from, to, k) ==
  /\ keys' = [keys EXCEPT ![from] = @ \ {k}, ![to] = @ \cup {k}]
  /\ UNCHANGED <<tables, acked>>

\* MIGRATE whose DEL on the source did not happen: the key is on both.
CopyOnly(to, k) ==
  /\ keys' = [keys EXCEPT ![to] = @ \cup {k}]
  /\ UNCHANGED <<tables, acked>>

-----------------------------------------------------------------------------
(***************************************************************************)
(* The environment: clients create keys, and the masters' claims reach the *)
(* other nodes over the cluster bus.                                       *)
(***************************************************************************)
\* A missing key is created by the owner of a slot that is not migrating.
ClientWrite(k, n) ==
  LET s == SlotOf[k] IN
  /\ k \notin acked
  /\ owner[n][s] = n
  /\ migrating[n][s] = None
  /\ keys' = [keys EXCEPT ![n] = @ \cup {k}]
  /\ acked' = acked \cup {k}
  /\ UNCHANGED tables

\* The owner of a migrating slot answers ASK: the key is created on the
\* node the slot migrates to, if that node is importing the slot.
ClientAskWrite(k, n, t) ==
  LET s == SlotOf[k] IN
  /\ k \notin acked
  /\ owner[n][s] = n
  /\ migrating[n][s] = t
  /\ owner[t][s] # t
  /\ importing[t][s] # None
  /\ keys' = [keys EXCEPT ![t] = @ \cup {k}]
  /\ acked' = acked \cup {k}
  /\ UNCHANGED tables

\* The slots of claimant q that node p takes over when it hears from q.
Rebound(p, q) ==
  {s \in Slots : /\ owner[q][s] = q
                 /\ owner[p][s] # q
                 /\ importing[p][s] = None
                 /\ owner[p][s] # None => epoch[owner[p][s]] < epoch[q]}

\* Node p hears from q.  Keys p still holds in a slot it loses this way are
\* deleted ("dirty slots").
Gossip(p, q) ==
  /\ Rebound(p, q) # {}
  /\ owner' = [owner EXCEPT ![p] =
        [s \in Slots |-> IF s \in Rebound(p, q) THEN q ELSE owner[p][s]]]
  /\ keys' = [keys EXCEPT ![p] =
        {k \in @ : ~ (SlotOf[k] \in Rebound(p, q) /\ owner[p][SlotOf[k]] = p)}]
  /\ UNCHANGED <<migrating, importing, epoch, currentEpoch, acked>>

\* What may happen at any time: clients reach the running nodes, and the
\* members of the cluster hear from each other.
Environment(running, members) ==
  \/ \E k \in Keys, n \in running : ClientWrite(k, n)
  \/ \E k \in Keys, n, t \in running : ClientAskWrite(k, n, t)
  \/ \E p, q \in members : Gossip(p, q)

-----------------------------------------------------------------------------
(***************************************************************************)
(* ComputeStatus: every node's view of every master's slots is the view    *)
(* that master has of itself.                                              *)
(***************************************************************************)
InfosConsistent(N) ==
  \A n, m \in N, s \in Slots : owner[n][s] = m <=> owner[m][s] = m
===============================================================================
