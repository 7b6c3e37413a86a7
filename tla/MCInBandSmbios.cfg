\* Two files; one power loss, two failed NVRAM writes and two failed ROM writes: enough
\* for a record that is looked for in a list of the largest count.
SPECIFICATION FairSpec
CONSTANTS
  t0 = t0
  t1 = t1
  Fields <- MCFields
  StringField <- MCStringField
  Text <- MCText
  Factory <- MCFactory
  Type <- MCType
  LoadDefault = LoadDefault
  None = None
  Damaged = Damaged
  MaxRecords = 4
  MaxFiles = 2
  MaxFault = 2
  MaxCrash = 1
INVARIANTS
  TypeOK
  ListedWhenSet
  FileTakesEffect
PROPERTIES
  UpdateSettles
