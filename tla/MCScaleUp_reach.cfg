\* One new master, no fault.
CONSTANTS
  Nodes = {0, 1, 2}
  InitMasters = {0, 1}
  NumSlots = 4
  Keys = {0, 4}
  SlotOf <- MCSlotOf
  InitEpoch <- MCInitEpoch
  None = None
  CmdFails = FALSE
  Crashes = FALSE
  MaxPasses = 2
SPECIFICATION HSpec
CHECK_DEADLOCK FALSE
INVARIANT KeyReachable
