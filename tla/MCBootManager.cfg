CONSTANTS
  Numbers = {0, 1, 2, 3, 4, 5, 6, 7}
  Firmwares <- MCFirmwares
  OtherPaths <- Disk
  Handles <- MCHandles
  MaxEdits = 2
  MaxBoots = 3
CHECK_DEADLOCK FALSE
SPECIFICATION BootSpec
INVARIANTS ShellBootable NoStaleOption HotKeysMapped EntropyConnected ConsolesComplete
PROPERTIES UserOptionsKept ShellNotDuplicated
