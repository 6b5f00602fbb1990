SPECIFICATION Spec
CONSTANT XLEN = 4
INVARIANTS AluComputesArith BranchesCompare
