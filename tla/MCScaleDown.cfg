\* Ranges with lost slots; the operator may stop anywhere.
CONSTANTS
  Nodes = {0, 1, 2}
  Expect = 2
  NumSlots = 4
  Keys = {3, 7}
  SlotOf <- MCSlotOf
  None = None
  Nowhere = Nowhere
  CmdFails = FALSE
  Crashes = TRUE
  Assignments <- MCHoled
  MaxPasses = 2
SPECIFICATION FairSpec
CHECK_DEADLOCK FALSE
INVARIANT Inv
INVARIANT NoFalseMiss
INVARIANT KeyReachable
INVARIANT SlotOwned
INVARIANT HealthyMeansScaledDown
INVARIANT NoKeyLoss
PROPERTY ScaleDownEnds
