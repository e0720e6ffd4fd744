SPECIFICATION HSpec
CONSTANT MaxDrops = 2
INVARIANTS
  NoDoubleCount
  TornSaveIsOfADroppedDrop
  CleanUnloadExact
  ResetReachesDisk
  LostOnlyInTheWrite
PROPERTIES
  RefinesLedger
  NoDropLost
  DropsAreCounted
  UnloadEnds
  AutosaveCatchesUp
