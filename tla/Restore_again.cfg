\* A backup without replicas; the operator stops once and a pod restarts.
CONSTANTS
  BackupMasters = 2
  BackupReplicas = 0
  UserMasters = {2}
  UserReplicas = {0}
  UserDefaulted = {FALSE}
  MinMasters = 1
  CacheLag = FALSE
  Crashes = TRUE
  UserEdits = FALSE
  MaxFaults = 2
SPECIFICATION Spec
CHECK_DEADLOCK FALSE
PROPERTY NoSecondRestore
