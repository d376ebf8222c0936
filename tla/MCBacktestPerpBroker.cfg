SPECIFICATION Spec
CONSTANTS
  btc = btc  eth = eth
  usdt = usdt  usdc = usdc
  None = None
  Symbol <- MCSymbol
  Currency <- MCCurrency
  Quote <- MCQuote
  Bar <- MCBar
  Market <- MCMarket
  Request <- MCRequest
  Lot = 2
  Maker = 100
  Taker = 200
  InitialBalance = 1200000
  MaxOrders = 3
  MaxClock = 2
  CancelBatch <- MCCancelBatch
INVARIANTS
  TypeOK
  FillsAreAccountedFor
  RecordsShowEquity
PROPERTIES
  PositionsMoveByFills
  FinalOrdersStay
  ImplementsLedger
CHECK_DEADLOCK FALSE
