CONSTANTS
  TxSize = 3
  RxSize = 3
  TxData <- TwoBytes
  RxData <- NoData
  MaxTx = 4
  LineErrors = {}
  EIE = FALSE
  PEIE = FALSE
  Handler = "micro_stdio"
SPECIFICATION Spec
INVARIANT TxFifo
