CONSTANTS
  TxSize = 3
  RxSize = 3
  TxData <- SixBytes
  RxData <- NoData
  MaxTx = 8
  LineErrors = {}
  EIE = FALSE
  PEIE = FALSE
  Handler = "micro_stdio"
SPECIFICATION FairSpec
INVARIANT TxFifoUnlessHit
INVARIANT NoLostWakeup
PROPERTY PutReturns
PROPERTY TxDrains
