SPECIFICATION Spec
CONSTANTS
  old = old
  new = new
  flawed = flawed
  NoImage = NoImage
  Images <- MCImages
  Flawed <- MCFlawed
  Files <- AnyFiles
  MfgStates <- AnyMfg
  FirstTables <- AnyTables
  FirstImages <- AnyFirst
  MaxAge = 3
  MaxResets = 3
CHECK_DEADLOCK FALSE
INVARIANTS
  HaltsOnlyLost
PROPERTIES
  SourceKept
