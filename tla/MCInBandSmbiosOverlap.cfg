\* A second file arrives in the POST after the first one was applied.
SPECIFICATION Spec
CONSTANTS
  t0 = t0
  t1 = t1
  Fields <- MCFields
  StringField <- MCStringField
  Text <- MCText
  Factory <- MCFactory
  Type <- MCType
  LoadDefault = LoadDefault
  None = None
  Damaged = Damaged
  MaxRecords = 4
  MaxFiles = 2
  MaxFault = 0
  MaxCrash = 0
INVARIANT LastFileWins
