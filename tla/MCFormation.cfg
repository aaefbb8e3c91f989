SPECIFICATION FairSpec
CONSTANTS
  StatefulSets = 2
  ClusterReplicas = 1
  NumSlots = 3
  HostMaps <- MCHostMaps
  MaxFaults = 1
INVARIANT SlotsOnMasters
INVARIANT HealthyMeansFormed
INVARIANT Spread
INVARIANT MembershipKept
INVARIANT IInv
INVARIANT SpreadInv
PROPERTY FormsUnlessCut
