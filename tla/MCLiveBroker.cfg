SPECIFICATION Spec
CONSTANTS
  Id = {a, b, c}
  Venues <- MCVenues
  BatchSize = 2
  Size = 2
  MaxFaults = 1
  None = None
SYMMETRY Symmetry
INVARIANTS
  TypeOK
  AnswersAreTrue
  NullHasReason
  TrueMeansCancelled
  CancelsReachEveryOrder
