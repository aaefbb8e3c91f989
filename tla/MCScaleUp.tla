------------------------------ MODULE MCScaleUp -------------------------------
(* Instances of ScaleUp: InitMasters are there, the others are added. *)
EXTENDS ScaleUpHandover

MCSlotOf == [k \in Keys |-> k % NumSlots]
MCInitEpoch == [n \in Nodes |-> IF n \in InitMasters THEN n + 1 ELSE 0]
===============================================================================
