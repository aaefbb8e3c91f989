\* Two backups, two workers as by default, one fault: a restart or an error.
CONSTANTS
  Backups = {b1, b2}
  Workers = 2
  MaxFaults = 1
SPECIFICATION FairSpec
CHECK_DEADLOCK FALSE
INVARIANT PhaseTellsJob
INVARIANT JobAnnounced
INVARIANT IInv
PROPERTY CompletedIsFinal
PROPERTY EndsUnlessDropped
