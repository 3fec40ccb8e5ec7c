CONSTANTS
  MaxCode = 130
  CELL = 16
  PAGE = 4
  Absent = Absent
  FB_BYTES_PER_PIXEL = 4
  WORD = 16
  BYTE = 4
  HALFWORD = 16
  KB = 2
  MB = 8
  DEVICE_SIZE_LIMIT = 7
  MIN_MHZ = 1
  MAX_MHZ = 10
  HZ_PER_MHZ = 2
  Calls <- MCCalls
  CellValues = {0, 1, 6, 15}
  MaxArray = 5
SPECIFICATION CallSpec
INVARIANTS KeysDistinct HotKeysExact FirstEnabledDevice RegExact PagesCoverRegisters FramebufferFits SmbiosExact SortCorrect
