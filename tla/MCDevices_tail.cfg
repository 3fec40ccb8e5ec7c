CONSTANTS
  Devices = {"rng"}
  Lengths <- OneTail
  FifoDepth = 2
  MaxChanges = 4
  Times <- ZonedTimes
  RNG_MAX_RETRIES = 2
  MAX_UINTN = 31
  Changing <- AcAndBattery
  Values = {0, 1}
  Half = 16
  NANO_SEC = 4
  SEC_PER_MIN = 3
  SEC_PER_HOUR = 6
  Unspecified = 2047
  StartTimes <- Around
  MaxTicks = 4
CHECK_DEADLOCK FALSE
SPECIFICATION DevicesSpec
INVARIANT ExactBytes
