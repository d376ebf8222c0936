SPECIFICATION Spec
CONSTANTS
  Number = 2
  MaxTrial = 2
  Config <- MCConfig
  Price <- MCPrice
  ZeroPrice <- MCZeroPrice
  StopPrice <- MCStopPrice
  MaxOrders <- MCMaxOrders
  MaxFaults = 1
  None = None
INVARIANTS
  TypeOK
  FillsAreTracked
  PositionIsExplained
  NoUnmatchedPair
PROPERTIES
  CallsEnd
  FillsAreProtected
