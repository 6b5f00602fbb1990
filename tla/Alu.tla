--------------------------------- MODULE Alu ---------------------------------
(***************************************************************************)
(* core/vsrc/ALU.v without the RV32M option: one adder that adds or        *)
(* subtracts, comparisons derived from its carry and overflow, logic, and  *)
(* a shifter.  The control code selects among them bit by bit.             *)
(***************************************************************************)
EXTENDS Words

(* define.v: the codes of ALU_CTL.                                         *)
ADD == 0
SUB == 1
SLL == 5
SRL == 6
SRA == 7
SLTU == 10
SLT == 11
AND == 12
OR == 13
XOR == 14

SUBctr(ctl) == Bit(ctl, 0) = 1 \/ Bit(ctl, 1) = 1
Opctr(ctl) == ctl \div 4
SIGctr(ctl) == Bit(ctl, 0) = 1

(* {ADD_carry, ADD_result} = A + B + Cin                                   *)
Adder(A, B, Cin) ==
  LET sum == A + B + Cin
  IN  [carry |-> sum \div 2^XLEN,
       result |-> Wrap(sum),
       overflow |-> Msb(A) = Msb(B) /\ Msb(Wrap(sum)) # Msb(A)]

AddSub(ctl, a, b) ==
  IF SUBctr(ctl) THEN Adder(a, Not(b), 1) ELSE Adder(a, b, 0)

ALU_ZERO(ctl, a, b) == AddSub(ctl, a, b).result = 0

(* Mutant: the sign of the difference alone decides a signed comparison.   *)
Less_SignOnly(ctl, a, b) ==
  LET s == AddSub(ctl, a, b)
  IN  IF SIGctr(ctl) THEN Msb(s.result) = 1 ELSE (s.carry = 1) # SUBctr(ctl)

Less(ctl, a, b) ==
  LET s == AddSub(ctl, a, b)
  IN  IF SIGctr(ctl) THEN s.overflow # (Msb(s.result) = 1)
      ELSE (s.carry = 1) # SUBctr(ctl)

Logic(ctl, a, b) ==
  CASE ctl % 4 = 0 -> And(a, b)
    [] ctl % 4 = 1 -> Or(a, b)
    [] ctl % 4 = 2 -> Xor(a, b)
    [] ctl % 4 = 3 -> Not(Or(a, b))

Shifter(ctl, a, sh) ==
  CASE ctl % 4 = 1 -> Wrap(a * 2^sh)
    [] ctl % 4 = 2 -> a \div 2^sh
    [] ctl % 4 = 3 -> Or(Wrap(Msb(a) * (2^XLEN - 1) * 2^(XLEN - sh)), a \div 2^sh)
    [] OTHER       -> a

ALU_DC(ctl, a, b) ==
  CASE Opctr(ctl) = 0 -> AddSub(ctl, a, b).result
    [] Opctr(ctl) = 3 -> Logic(ctl, a, b)
    [] Opctr(ctl) = 2 -> IF Less(ctl, a, b) THEN 1 ELSE 0
    [] Opctr(ctl) = 1 -> Shifter(ctl, a, b % XLEN)

(* datapath.v: a branch compares with the zero flag of the subtraction or  *)
(* with bit 0 of a set-less-than.                                          *)
branch_true(funct3, zero, less) ==
  CASE funct3 = 0        -> zero
    [] funct3 = 1        -> ~zero
    [] funct3 \in {4, 6} -> less
    [] funct3 \in {5, 7} -> ~less
    [] OTHER             -> FALSE
=============================================================================
