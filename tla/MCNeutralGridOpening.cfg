SPECIFICATION Spec
CONSTANTS
  Number = 2
  MaxTrial = 2
  Config <- MCLive
  Price <- MCPrice
  ZeroPrice <- MCZeroPrice
  StopPrice <- MCStopPrice
  MaxOrders <- MCMaxOrders
  MaxFaults = 0
  None = None
INVARIANTS
  OpeningLevelHasOrder
