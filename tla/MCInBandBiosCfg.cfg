SPECIFICATION FairSpec
CONSTANTS
  p = p
  q = q
  absent = absent
  other = other
  raidcmd = raidcmd
  d0 = d0
  d1 = d1
  d2 = d2
  misfit = misfit
  none = none
  A = A
  B = B
  C = C
  Var <- MCVar
  PlatformVar <- MCPlatformVar
  Data <- MCData
  Misfit = misfit
  None = none
  Default <- MCDefault
  RaidCmd = raidcmd
  Arrays <- MCArrays
  Files <- MCFiles
  MaxFiles = 2
  MaxNvFault = 1
  MaxRomFault = 1
  MaxRaidFault = 1
  MaxCrash = 1
  MaxLong = 1
INVARIANTS
  TypeOK
  FileTakesEffect
  ExactArrays
  RunsBounded
PROPERTIES
  PostEnds
