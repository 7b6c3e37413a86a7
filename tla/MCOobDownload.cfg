\* Two attempts and two polls: the last attempt differs from the others.
SPECIFICATION FairSpec
CONSTANTS
  i1 = i1
  i2 = i2
  Image <- MCImage
  Backup = Backup
  BackupSigned = TRUE
  BackupCount = 0
  Flagged = Flagged
  Table = Table
  Corrupt = Corrupt
  NoFile = NoFile
  Smc = Smc
  Blank = Blank
  Torn = Torn
  MaxRetry = 2
  MaxWait = 2
  MaxFault = 0
  Bakerville = FALSE
INVARIANTS
  TypeOK
  SuccessReportIsTruthful
  StoredAwaitsInBand
  PreserveHonoured
PROPERTIES
  DownloadTerminates
  DeliversAtMostOnce
