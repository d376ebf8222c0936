SPECIFICATION Spec
CONSTANTS
  NaN = NaN
  KLine <- MCKLine
  MaxKLines = 6
  Length = 2
  SlowLength = 3
  SignalLengths = {2, 3}
  Factor <- MCFactor
  Grid <- MCGrid
INVARIANTS
  IndicatorsMatchDefinitions
  MirrorSymmetry
  SuperTrendFollowsClose
  CrossingsTellTheSide
  NearestLevelIsFound
PROPERTIES
  HistoryIsKept
CHECK_DEADLOCK FALSE
