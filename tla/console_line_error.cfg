CONSTANTS
  TxSize = 3
  RxSize = 3
  TxData <- TwoBytes
  RxData <- TwoBytes
  MaxTx = 4
  LineErrors = {"FE"}
  EIE = FALSE
  PEIE = FALSE
  Handler = "micro_stdio"
SPECIFICATION FairSpec
PROPERTY ProgramRuns
