SPECIFICATION Spec
CONSTANTS
  Jobs = {j1, j2, j3}
  NoJob = nojob
  MaxVersion = 1
  BackupRooms <- MCBackupRooms
SYMMETRY JobSymmetry
CHECK_DEADLOCK FALSE
INVARIANTS
  TypeOK
  RetentionSafe
  NoFalseAlarm
  RestoreSound
