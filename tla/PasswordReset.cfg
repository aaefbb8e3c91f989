\* Two shards of a master and a replica, with and without an old password.
CONSTANTS
  MasterSize = 2
  ClusterReplicas = 1
  OldPasswords = {"", "old"}
  MaxFaults = 1
SPECIFICATION FairSpec
INVARIANT TypeOK
INVARIANT AdminLetIn
INVARIANT IInv
PROPERTY MasterHandsOver
PROPERTY ResetEnds
