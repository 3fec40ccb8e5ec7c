CONSTANTS
  Numbers = {0, 1, 2, 3, 4, 5, 6, 7}
  Firmwares <- TwoVolumes
  OtherPaths <- Disk
  Handles <- MCHandles
  MaxEdits = 0
  MaxBoots = 2
CHECK_DEADLOCK FALSE
SPECIFICATION BootSpec
INVARIANT HotKeysOpenMenu
