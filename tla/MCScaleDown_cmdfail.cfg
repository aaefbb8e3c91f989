CONSTANTS
  Nodes = {0, 1, 2}
  Expect = 2
  NumSlots = 5
  Keys = {3, 4}
  SlotOf <- MCSlotOf
  None = None
  Nowhere = Nowhere
  CmdFails = TRUE
  Crashes = FALSE
  Assignments <- MCRanges
  MaxPasses = 2
SPECIFICATION Spec
CHECK_DEADLOCK FALSE
INVARIANT NoKeyLoss
