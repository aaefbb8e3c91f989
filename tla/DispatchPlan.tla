----------------------------- MODULE DispatchPlan -----------------------------
(***************************************************************************)
(* One plan of feedMigInfo, made when there are more masters with slots    *)
(* than expected (the "Scaling down" branch of syncCluster), and carried   *)
(* out by DispatchSlotToNewMasters without anybody in its way.  No slot    *)
(* has two owners here, so the order of oldMasterNodes does not matter.    *)
(***************************************************************************)
EXTENDS SlotDispatch

CONSTANTS
  Masters,       \* the masters there are
  Expect,        \* Spec.MasterSize; masters 0 .. Expect - 1 stay
  NumSlots,      \* GetHashMaxSlot() + 1
  Distributions  \* the slots the masters may have at the start

ASSUME DispatchPlanAssumption ==
  /\ Expect \in Nat \ {0} /\ NumSlots \in Nat
  /\ IsFiniteSet(Masters) /\ Nowhere \notin Masters
  /\ \A d \in Distributions :
       /\ d \in [Masters -> SUBSET (0 .. NumSlots - 1)]
       /\ \A m, n \in Masters : m # n => d[m] \cap d[n] = {}

VARIABLES
  bom,   \* the slots of each master
  plan,  \* the groups of slots to move
  phase  \* how far the pass has come

vars == <<bom, plan, phase>>

New == 0 .. Expect - 1
Current == {n \in Masters : bom[n] # {}}

Init ==
  /\ bom \in Distributions
  /\ New \subseteq Masters
  /\ Cardinality(Current) > Expect
  /\ plan = {}
  /\ phase = "read"

Plan ==
  /\ phase = "read"
  /\ \E new \in SetToSeqs(New), order \in SetToSeqs(Current \cup {Nowhere}) :
       plan' = feedMigInfo(bom, new, SetToSeq(Current), NumSlots, order)
  /\ phase' = "planned"
  /\ UNCHANGED bom

\* What master n has when every group of the plan has been moved.
CarriedOut(b, groups, n) ==
  (b[n] \ UNION {g.slots : g \in {x \in groups : x.from = n}})
    \cup UNION {g.slots : g \in {x \in groups : x.to = n}}

Apply ==
  /\ phase = "planned"
  /\ bom' = [n \in Masters |-> CarriedOut(bom, plan, n)]
  /\ phase' = "done"
  /\ UNCHANGED plan

Next == Plan \/ Apply
Spec == Init /\ [][Next]_vars

-----------------------------------------------------------------------------
(***************************************************************************)
(* Properties.                                                             *)
(***************************************************************************)
\* A carried out plan of DispatchSlotToNewMasters (migration.go:56-174)
\* leaves every slot, the lost ones included, with exactly one of the masters
\* that stay, and the masters that go with none: scalingDown refuses to
\* remove a node that has slots (sync_handler.go:280).
SlotsEndUpOnce ==
  phase = "done" =>
    /\ \A n \in Masters \ New : bom[n] = {}
    /\ \A s \in 0 .. NumSlots - 1 : Cardinality({n \in New : s \in bom[n]}) = 1

\* No master that stays gets more than one slot above the even share nb, and
\* none is left more than 2(n-1) below it, however uneven the start
\* (buildSlotByNodeFromAvailableSlots, migration.go:294-325).
EvenSpread ==
  phase = "done" =>
    \A n \in New :
      LET nb == (NumSlots + Expect - 1) \div Expect IN
      Cardinality(bom[n]) - nb \in -2 * (Expect - 1) .. 1
===============================================================================
