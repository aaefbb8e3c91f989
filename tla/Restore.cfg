\* The cache lags, the operator stops, the user edits and pods restart.
CONSTANTS
  BackupMasters = 2
  BackupReplicas = 1
  UserMasters = {1, 2}
  UserReplicas = {0, 1}
  UserDefaulted = {TRUE, FALSE}
  MinMasters = 1
  CacheLag = TRUE
  Crashes = TRUE
  UserEdits = TRUE
  MaxFaults = 2
SPECIFICATION FairSpec
CHECK_DEADLOCK FALSE
INVARIANT MastersOnly
INVARIANT ShardsRestored
INVARIANT IInv
PROPERTY PhaseForward
PROPERTY NoSecondRestoreUndisturbed
PROPERTY RestoreEndsUndisturbed
