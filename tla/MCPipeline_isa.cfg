SPECIFICATION FairSpec
CONSTANTS
  XLEN = 2
  Reg <- MCReg
  PC_rst = 0
  BTB_SIZE = 2
  Mem0 <- MCMem0
  Programs <- MCPrograms
INVARIANTS TypeOK RedirectNotStalled WriteRequestIsValid BtbTargetsAreReal
PROPERTIES ImplementsIsa
