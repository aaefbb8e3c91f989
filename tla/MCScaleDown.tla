----------------------------- MODULE MCScaleDown ------------------------------
(* Instances of ScaleDown: from three masters to two. *)
EXTENDS ScaleDown

MCSlotOf == [k \in Keys |-> k % NumSlots]

\* Contiguous ranges of which slots may have been lost.
MCHoled == {a \in [Slots -> Nodes \cup {None}] :
              \A s, t \in Slots : s < t /\ None \notin {a[s], a[t]} => a[s] <= a[t]}

\* Contiguous ranges, as AllocSlots hands them out.
MCRanges == {a \in [Slots -> Nodes] : \A s, t \in Slots : s < t => a[s] <= a[t]}
===============================================================================
