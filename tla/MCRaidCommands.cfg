SPECIFICATION FairSpec
CONSTANTS
  Items <- MCItems
  Level <- MCLevel
  Size <- MCSize
  Programs <- MCPrograms
  None = None
  Bad = Bad
  MaxFault = 2
INVARIANTS
  TypeOK
  BuildExact
  DeletesOnlyNamed
  CommandsMeaning
PROPERTIES
  HandlingEnds
