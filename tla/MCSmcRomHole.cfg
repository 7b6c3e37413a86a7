\* The first region of the hole and one in its middle; one failed call.
SPECIFICATION Spec
CONSTANTS
  a = a
  Blank = Blank
  Torn = Torn
  Content <- MCContent
  Target <- MCTarget
  MaxLeak = 1
INVARIANTS
  TypeOK
  DirectSuccessIsWritten
  EnabledOnlyByErrors
PROPERTY
  WritesOneRegion
