CONSTANTS
  TxSize = 3
  RxSize = 3
  TxData <- OneByte
  RxData <- SixBytes
  MaxTx = 2
  LineErrors = {"FE", "PE"}
  EIE = TRUE
  PEIE = TRUE
  Handler = "micro_stdio"
SPECIFICATION FairSpec
INVARIANT TypeOK
INVARIANT RxFifo
PROPERTY RxDrains
PROPERTY ProgramRuns
PROPERTY RxDropsOnlyWhenFull
PROPERTY RxPipeSpec
