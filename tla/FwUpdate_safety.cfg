SPECIFICATION BootSpec
CONSTANTS
  old = old
  new = new
  flawed = flawed
  NoImage = NoImage
  Images <- MCImages
  Flawed <- MCFlawed
  Files <- MCFiles
  MfgStates <- SoundMfg
  FirstTables <- SoundTables
  FirstImages <- SoundFirst
  MaxAge = 3
  MaxResets = 3
CHECK_DEADLOCK FALSE
INVARIANTS
  AlwaysStartable Boot2CanStep
PROPERTIES
  ImplementsAtomicUpdate Boots
