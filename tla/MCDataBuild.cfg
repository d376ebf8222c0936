SPECIFICATION DataSpec
CONSTANTS
  c1 = c1  c2 = c2
  b1 = b1  b2 = b2
  None = None
  Call <- MCCall
  WindowAsked <- MCWindow
  Interval <- MCInterval
  Build <- MCBuild
  Day = {1, 2, 3, 4}
  Stretch <- MCStretch
  Archive <- MCArchive
  FirstFile <- MCFirstFile
  CacheSize = 2
SYMMETRY MCSymmetry
INVARIANTS
  AnswersAreExact
  AnswersAreRecent
PROPERTIES
  OnlyCollisionsSpoilFile
CHECK_DEADLOCK FALSE
