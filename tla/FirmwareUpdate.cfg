CONSTANTS
  b1 = b1
  b2 = b2
  d1 = d1
  d2 = d2
  info = info
  json = json
  hap = hap
  Builds <- MCBuilds
  Names <- MCNames
  Members <- MCMembers
  Kinds <- MCKinds
  Configs <- MCConfigs
  Marker = info
  Size = 2
  NoFile = NoFile
  NoDir = NoDir
  Devices = {d1, d2}
  NoDevice = NoDevice
  Older = Older
  Parts <- MCParts
  Images <- MCBuilds
  MaxTools = 2
SPECIFICATION Spec
INVARIANTS PackagesOK FlashedIsWhole
PROPERTIES CacheOutlivesCopy OnlyAskedDevice
CHECK_DEADLOCK FALSE
