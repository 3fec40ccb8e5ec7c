CONSTANTS
  CELL = 16
  PAGE = 4
  Absent = Absent
  Trees <- MCTrees
  MaxHobs = 20
  MinSize <- MCMinSize
  VIRTUAL = 1024
CHECK_DEADLOCK FALSE
SPECIFICATION Spec
INVARIANTS HobsExact DevicesReachable

PROPERTY StartupEnds
