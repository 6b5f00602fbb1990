SPECIFICATION FairSpec
CONSTANTS
  XLEN = 3
  Reg <- MCReg
  PC_rst = 0
  BTB_SIZE = 2
  Mem0 <- MCMem0
  Programs <- MCCsrPrograms
PROPERTIES ImplementsIsa RetiresForever
