------------------------------- MODULE AluCheck -------------------------------
(***************************************************************************)
(* ALU.v, as the decoder of mulcu_decoder.v drives it and datapath.v reads *)
(* its flags, against the reference arithmetic of Arith: one computation   *)
(* per step, through every pair of operands.                               *)
(***************************************************************************)
EXTENDS Decode, Arith

VARIABLES
  ins,     \* the instruction being executed
  a, b     \* operands A and B of the ALU

Op(opcode, f3, f7) ==
  [opcode |-> opcode, funct3 |-> f3, funct7 |-> f7, rd |-> 0, rs1 |-> 0, rs2 |-> 0,
   imm |-> 0, csr |-> "mtvec"]

ArithOps ==
  {Op("R_type", f3, f7) : f3 \in {0, 5}, f7 \in {0, 1}}
  \cup {Op("R_type", f3, 0) : f3 \in {1, 2, 3, 4, 6, 7}}
  \cup {Op("I_type", f3, f7) : f3 \in 0 .. 7 \ {1}, f7 \in {0, 1}}
  \cup {Op("I_type", 1, 0)}
BranchOps == {Op("B_type", f3, f7) : f3 \in {0, 1, 4, 5, 6, 7}, f7 \in {0, 1}}

Init == ins \in ArithOps \cup BranchOps /\ a = 0 /\ b = 0

NextOperands ==
  /\ b' = Wrap(b + 1)
  /\ a' = IF b' = 0 THEN Wrap(a + 1) ELSE a
  /\ UNCHANGED ins

Spec == Init /\ [][NextOperands]_<<ins, a, b>>

(* Decoded and executed, every arithmetic instruction gives the result the *)
(* instruction set defines, at every operand pair: at the extremes of the  *)
(* signed range, for a shift by 0 (shift_n = 32 in Shifter), and for an    *)
(* I-type immediate whose bit 30 is set, which is not a subtraction.       *)
AluComputesArith ==
  ins.opcode # "B_type" =>
    ALU_DC(alu_op(ins), a, b)
      = Arith(ins.funct3, ins.funct7 = 1 /\ (ins.opcode = "R_type" \/ ins.funct3 = 5), a, b)

(* A branch is taken exactly when its comparison holds, although the       *)
(* condition is read from the flags of a set-less-than: the overflow of    *)
(* the subtraction for blt and bge, its borrow for bltu and bgeu.          *)
BranchesCompare ==
  ins.opcode = "B_type" =>
    LET ctl == alu_op(ins)
    IN  branch_true(ins.funct3, ALU_ZERO(ctl, a, b), Bit(ALU_DC(ctl, a, b), 0) = 1)
          = Taken(ins.funct3, a, b)
=============================================================================
