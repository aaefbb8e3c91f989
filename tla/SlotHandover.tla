----------------------------- MODULE SlotHandover -----------------------------
(***************************************************************************)
(* What a scale-up promises, free of commands, epochs and gossip: every    *)
(* slot has one holder, slots are handed over one at a time, from a master *)
(* that has more than its share to one that has less, and no stored key is *)
(* ever dropped.  Once something has gone wrong (a command failed or the   *)
(* operator stopped) the shares are no longer promised and a slot may be   *)
(* left without a holder; the keys still are.                              *)
(***************************************************************************)
EXTENDS Integers, FiniteSets

CONSTANTS
  Masters,
  HashSlots,
  Names,      \* the keys clients may store
  SlotOfName, \* their slots
  Nobody,     \* "no holder"
  Share,      \* the slots every master is entitled to
  Spare       \* the slots left over when everybody has a share

VARIABLES
  holder,     \* who answers for each slot
  stored,     \* the keys the cluster has
  calm        \* nothing has gone wrong so far

promised == <<holder, stored, calm>>

Held(n) == {s \in HashSlots : holder[s] = n}

HandoverInit ==
  /\ holder \in [HashSlots -> Masters]
  /\ stored \subseteq Names
  /\ calm = TRUE

HandOver(s, n) ==
  /\ holder[s] \in Masters \ {n}
  /\ calm => /\ Cardinality(Held(holder[s])) > Share
             /\ Cardinality(Held(n)) < Share + Spare
  /\ holder' = [holder EXCEPT ![s] = n]
  /\ UNCHANGED <<stored, calm>>

Store(k) ==
  /\ holder[SlotOfName[k]] # Nobody
  /\ stored' = stored \cup {k}
  /\ UNCHANGED <<holder, calm>>

GoesWrong ==
  /\ calm' = FALSE
  /\ UNCHANGED <<holder, stored>>

\* A slot whose new owner was not told while the old one was.
Orphan(s) ==
  /\ ~ calm
  /\ holder[s] # Nobody
  /\ holder' = [holder EXCEPT ![s] = Nobody]
  /\ UNCHANGED <<stored, calm>>

HandoverNext ==
  \/ \E s \in HashSlots, n \in Masters : HandOver(s, n)
  \/ \E k \in Names : Store(k)
  \/ GoesWrong
  \/ \E s \in HashSlots : Orphan(s)

HandoverSpec == HandoverInit /\ [][HandoverNext]_promised
===============================================================================
