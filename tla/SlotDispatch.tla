----------------------------- MODULE SlotDispatch -----------------------------
(***************************************************************************)
(* Which slots go where when the cluster scales down: feedMigInfo and the  *)
(* functions it calls (migration.go).  The arguments are the slots of each *)
(* node as last read (bom), the masters to keep (new, newMasterNodes) and  *)
(* the current masters (old, oldMasterNodes), both sequences.  These       *)
(* sequences, and the order in which the sources are visited, come from    *)
(* the iteration of Go maps, so a caller tries all of them.                *)
(***************************************************************************)
EXTENDS Integers, Sequences, FiniteSets, SequencesExt

CONSTANT Nowhere  \* the "" source of the slots no master has

nbSlotByNode(nbSlots, new) == (nbSlots + Len(new) - 1) \div Len(new)

\* Mutant: a master that stays gives nothing away.
KeepSurplus(bom, n, nb) == {}

\* What a master that stays gives away: its slots beyond the first nb.
retrieveSlotToMigrateFrom(bom, n, nb) ==
  {s \in bom[n] : Cardinality({t \in bom[n] : t < s}) >= nb}

\* Mutant: the last slot is never looked at.
MissLastSlot(bom, old, nbSlots) ==
  {s \in 0 .. nbSlots - 2 : \A n \in ToSet(old) : s \notin bom[n]}

\* The slots that no current master has.
retrieveLostSlots(bom, old, nbSlots) ==
  {s \in 0 .. nbSlots - 1 : \A n \in ToSet(old) : s \notin bom[n]}

\* The slots to place, by where they come from: a master that stays, a master
\* that goes (all its slots), or nowhere.
slotToMigrateByNode(bom, new, old, nbSlots) ==
  [n \in ToSet(old) \cup {Nowhere} |->
     IF n = Nowhere THEN retrieveLostSlots(bom, old, nbSlots)
     ELSE IF n \in ToSet(new)
          THEN retrieveSlotToMigrateFrom(bom, n, nbSlotByNode(nbSlots, new))
          ELSE bom[n]]

\* The two loops over slotToMigrateByNode visit slot s of source order[j] as
\* <<j, s>>: source after source, the slots of a source in increasing order.
Visits(byNode, order) == UNION {{j} \X byNode[order[j]] : j \in 1 .. Len(order)}

Turn(visits, v) ==
  Cardinality({w \in visits : w[1] < v[1] \/ (w[1] = v[1] /\ w[2] < v[2])}) + 1

\* One turn of the inner loop.  f.id is idNode, f.size the lengths of
\* slotOfNode: when the current master is full the next one takes the slot,
\* full or not; the last one takes whatever remains.
Filling(f, nb) ==
  LET id == IF nb - f.size[f.id] > 0 \/ f.id = Len(f.size) THEN f.id ELSE f.id + 1
  IN  [id |-> id, size |-> [f.size EXCEPT ![id] = @ + 1]]

\* idNode and slotOfNode after so many turns.
Filled(bom, new, nb) ==
  LET fill[k \in Nat] ==
        IF k = 0
        THEN [id |-> 1, size |-> [j \in 1 .. Len(new) |-> Cardinality(bom[new[j]])]]
        ELSE Filling(fill[k - 1], nb)
  IN  fill

\* buildSlotByNodeFromAvailableSlots: the new masters are filled one after
\* the other.
buildSlotByNodeFromAvailableSlots(bom, new, nb, visits) ==
  {[slot |-> v[2], node |-> new[Filled(bom, new, nb)[Turn(visits, v)].id]] : v \in visits}

\* buildSlotsByNode, for one order in which the sources are visited.
buildSlotsByNode(bom, new, old, nbSlots, order) ==
  buildSlotByNodeFromAvailableSlots(bom, new, nbSlotByNode(nbSlots, new),
    Visits(slotToMigrateByNode(bom, new, old, nbSlots), order))

\* feedMigInfo: the first current master that has the slot gives it; a slot
\* its taker has already is left alone; a slot nobody has comes from Nowhere.
SourceOf(bom, old, s) ==
  LET having == {j \in 1 .. Len(old) : s \in bom[old[j]]}
  IN  IF having = {} THEN Nowhere ELSE old[CHOOSE j \in having : \A l \in having : j <= l]

feedMigInfo(bom, new, old, nbSlots, order) ==
  LET moves == {[from |-> SourceOf(bom, old, p.slot), to |-> p.node, slot |-> p.slot] :
                  p \in buildSlotsByNode(bom, new, old, nbSlots, order)}
  IN  {[from |-> m.from, to |-> m.to,
        slots |-> {x.slot : x \in {y \in moves : y.from = m.from /\ y.to = m.to}}] :
         m \in {y \in moves : y.from # y.to}}
===============================================================================
