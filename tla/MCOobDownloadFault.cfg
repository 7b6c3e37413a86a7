\* One flash write fails, in any call and at any region; one attempt, one poll.
SPECIFICATION Spec
CONSTANTS
  i1 = i1
  i2 = i2
  Image <- MCImage
  Backup = Backup
  BackupSigned = TRUE
  BackupCount = 2
  Flagged = Flagged
  Table = Table
  Corrupt = Corrupt
  NoFile = NoFile
  Smc = Smc
  Blank = Blank
  Torn = Torn
  MaxRetry = 1
  MaxWait = 1
  MaxFault = 1
  Bakerville = TRUE
SYMMETRY MCSymmetry
INVARIANTS
  PreserveHonoured
PROPERTIES
  PreservedReachesNvram
  DeliversAtMostOnce
