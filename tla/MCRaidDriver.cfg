SPECIFICATION FairSpec
CONSTANTS
  x = x
  y = y
  v1 = v1
  v2 = v2
  zero = zero
  nocmd = nocmd
  cmd = cmd
  misfit = misfit
  Cards = 3
  LsiVar <- MCLsiVar
  VarsOf <- MCVarsOf
  Applied <- MCApplied
  Value <- MCValue
  Zero = zero
  NoCmd = nocmd
  CmdVar = cmd
  Misfit = misfit
  Files <- MCFiles
  MaxPost = 2
  MaxFault = 2
CHECK_DEADLOCK FALSE
INVARIANTS
  TypeOK
  HookBalanced
  ChangesReachTheirCard
  ExportedOnce
PROPERTIES
  PostEnds
