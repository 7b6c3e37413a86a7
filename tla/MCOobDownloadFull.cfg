\* A Bakerville board: FULL_REGION is rewritten after the restore.
SPECIFICATION Spec
CONSTANTS
  i1 = i1
  i2 = i2
  Image <- MCImage
  Backup = Backup
  BackupSigned = TRUE
  BackupCount = 2
  Flagged = Flagged
  Table = Table
  Corrupt = Corrupt
  NoFile = NoFile
  Smc = Smc
  Blank = Blank
  Torn = Torn
  MaxRetry = 1
  MaxWait = 1
  MaxFault = 0
  Bakerville = TRUE
INVARIANT StoredAwaitsInBand
