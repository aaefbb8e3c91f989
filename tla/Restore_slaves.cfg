\* The user's spec is complete and equal to the backup's; nothing fails.
CONSTANTS
  BackupMasters = 2
  BackupReplicas = 1
  UserMasters = {2}
  UserReplicas = {1}
  UserDefaulted = {TRUE}
  MinMasters = 1
  CacheLag = FALSE
  Crashes = FALSE
  UserEdits = FALSE
  MaxFaults = 0
SPECIFICATION FairSpec
CHECK_DEADLOCK FALSE
PROPERTY RestoreEnds
