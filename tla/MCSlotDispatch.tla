---------------------------- MODULE MCSlotDispatch ----------------------------
(***************************************************************************)
(* Every plan on every small distribution of slots, lost slots included.   *)
(* The plan looks at the slots of one source at a time, in increasing      *)
(* order: renumbering the slots changes nothing, and contiguous ranges,    *)
(* the lost slots last, stand for every distribution.                      *)
(***************************************************************************)
EXTENDS DispatchPlan

\* Where each master's range starts; the lost slots start at the last bound.
MCBounds == {b \in [0 .. Cardinality(Masters) -> 0 .. NumSlots] :
               b[0] = 0 /\ \A n \in Masters : b[n] <= b[n + 1]}

MCRanges == {[n \in Masters |-> b[n] .. b[n + 1] - 1] : b \in MCBounds}
===============================================================================
