-------------------------------- MODULE Arith --------------------------------
(***************************************************************************)
(* What the arithmetic instructions and the branches of RV32I compute, as  *)
(* a reader of the instruction set would state it: the reference for       *)
(* ALU.v and for the branch conditions of datapath.v.                      *)
(***************************************************************************)
EXTENDS Words

(* alt is bit 30: subtraction instead of addition, arithmetic shift right  *)
(* instead of logical.                                                     *)
Arith(funct3, alt, a, b) ==
  CASE funct3 = 0 -> Wrap(IF alt THEN a - b ELSE a + b)
    [] funct3 = 1 -> Wrap(a * 2^(b % XLEN))
    [] funct3 = 2 -> IF Signed(a) < Signed(b) THEN 1 ELSE 0
    [] funct3 = 3 -> IF a < b THEN 1 ELSE 0
    [] funct3 = 4 -> Xor(a, b)
    [] funct3 = 5 -> IF alt THEN Wrap(Signed(a) \div 2^(b % XLEN))
                            ELSE a \div 2^(b % XLEN)
    [] funct3 = 6 -> Or(a, b)
    [] funct3 = 7 -> And(a, b)

Taken(funct3, a, b) ==
  CASE funct3 = 0 -> a = b
    [] funct3 = 1 -> a # b
    [] funct3 = 4 -> Signed(a) < Signed(b)
    [] funct3 = 5 -> Signed(a) >= Signed(b)
    [] funct3 = 6 -> a < b
    [] funct3 = 7 -> a >= b
    [] OTHER      -> FALSE
=============================================================================
