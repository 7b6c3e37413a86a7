SPECIFICATION Spec
CONSTANTS
  HiiSize = 3
  FullSize = 2
  CfgSize = 3
  CommSize = 2
  MaxSize = 6
  MaxPost = 2
CHECK_DEADLOCK FALSE
INVARIANTS
  TypeOK
  RepliesIntact
  UploadsIntact
