SPECIFICATION Spec
CONSTANTS
  btcusdt = btcusdt  ethbtc = ethbtc
  btc = btc  eth = eth  usdt = usdt
  None = None
  Symbol <- MCSymbol
  Currency <- MCCurrency
  Base <- MCBase
  Quote <- MCQuote
  Bar <- MCBar
  Market <- MCMarket
  Request <- MCRequest
  Lot = 10000
  Maker = 100
  Taker = 200
  InitialBalance = 1000
  MaxOrders = 3
  MaxClock = 2
  CancelBatch <- MCCancelBatch
INVARIANTS
  TypeOK
  FillsAreAccountedFor
PROPERTIES
  FinalOrdersStay
CHECK_DEADLOCK FALSE
