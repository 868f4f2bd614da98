\* Everything taken down after a step of mmc_attach_sdio has failed.
SPECIFICATION Spec
CONSTANTS
  N = 2
  ByteLimit = 3
  BlockLimit = 2
  Word = 4
  Geometry <- OneGeometry
  FuncBlk = 2
  Radix = 4
  Chains <- SomeChains
  BlockSizes = {4}
  Sizes = {7, 8}
  RuntimePm = {2}
  PowerOff = TRUE
CHECK_DEADLOCK FALSE
INVARIANTS
  FunctionsFreed
