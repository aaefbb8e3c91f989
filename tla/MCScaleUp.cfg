\* Two masters are added to one; commands fail and the operator stops.
CONSTANTS
  Nodes = {0, 1, 2}
  InitMasters = {0}
  NumSlots = 4
  Keys = {0}
  SlotOf <- MCSlotOf
  InitEpoch <- MCInitEpoch
  None = None
  CmdFails = TRUE
  Crashes = TRUE
  MaxPasses = 2
SPECIFICATION HFairSpec
CHECK_DEADLOCK FALSE
INVARIANT TypeOK
INVARIANT IInv
INVARIANT NoKeyLoss
INVARIANT HInv
INVARIANT CalmMeansAnswered
INVARIANT CalmMeansBalanced
PROPERTY ImplementsHandover
PROPERTY PassEnds
