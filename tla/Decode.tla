-------------------------------- MODULE Decode --------------------------------
(***************************************************************************)
(* core/vsrc/mulcu_decoder.v: the control signals of an instruction.       *)
(*                                                                         *)
(* An instruction is a record of the fields the pipeline looks at:         *)
(*   opcode              its name in define.v; "none" for any other code,  *)
(*                       in particular the 0 a buffer holds after reset    *)
(*   funct3, funct7      bits 14..12, bit 30                               *)
(*   rd, rs1, rs2        the register fields, present in every encoding    *)
(*                       (in lui, auipc and jal they are immediate bits,   *)
(*                       in a CSR instruction rs2 is part of the address)  *)
(*   imm                 what Imme_decoder extracts for its opcode         *)
(*   csr                 the CSR named by bits 31..20                      *)
(***************************************************************************)
EXTENDS Alu

CSR_OPCODE == "CSR_OPCODE"

I_type(i) == i.opcode \in {"jalr", "load", "I_type"}
U_type(i) == i.opcode \in {"lui", "auipc"}
J_type(i) == i.opcode = "jal"
B_type(i) == i.opcode = "B_type"
S_type(i) == i.opcode = "store"
jal(i) == i.opcode = "jal"
branch(i) == i.opcode = "B_type" /\ i.funct3 \notin {2, 3}

reg_wen(i) ==
  i.opcode \in {"R_type", "I_type", "load", "jal", "jalr", "lui", "auipc", CSR_OPCODE}

(* Operand B of the ALU is a register, else the immediate.                 *)
ALU_DB_Src(i) == i.opcode \in {"B_type", "R_type"}

mem_wen(i) == i.opcode = "store"
mem_ren(i) == i.opcode = "load"

csrrw(i) == i.opcode = CSR_OPCODE /\ i.funct3 = 1
csrrs(i) == i.opcode = CSR_OPCODE /\ i.funct3 = 2
mret(i) == i.opcode = CSR_OPCODE /\ i.funct3 = 0 /\ i.csr = "mret"

(* An address the CSR file does not know selects its first register.       *)
csr_idx(csr) == IF csr \in {"mtvec", "mstatus", "mepc", "mcause"} THEN csr ELSE "mtvec"
(* Mutant: mret reads the CSR its own address field names.                 *)
csr_raddr_Plain(i) == i.csr
csr_raddr(i) == IF mret(i) THEN "mepc" ELSE i.csr

Reg_Src(i) ==
  CASE i.opcode = "load"            -> "data"
    [] i.opcode \in {"jal", "jalr"} -> "PC"
    [] i.opcode = "lui"             -> "imme"
    [] OTHER                        -> "ALU"

(* Mutant: bit 30 of an immediate turns addi into a subtraction.           *)
calcu_op_SubImm(i) ==
  CASE i.funct3 = 0 -> IF i.funct7 = 1 THEN SUB ELSE ADD
    [] i.funct3 = 1 -> SLL
    [] i.funct3 = 2 -> SLT
    [] i.funct3 = 3 -> SLTU
    [] i.funct3 = 4 -> XOR
    [] i.funct3 = 5 -> IF i.funct7 = 1 THEN SRA ELSE SRL
    [] i.funct3 = 6 -> OR
    [] i.funct3 = 7 -> AND

calcu_op(i) ==
  CASE i.funct3 = 0 -> IF i.opcode = "R_type" /\ i.funct7 = 1 THEN SUB ELSE ADD
    [] i.funct3 = 1 -> SLL
    [] i.funct3 = 2 -> SLT
    [] i.funct3 = 3 -> SLTU
    [] i.funct3 = 4 -> XOR
    [] i.funct3 = 5 -> IF i.funct7 = 1 THEN SRA ELSE SRL
    [] i.funct3 = 6 -> OR
    [] i.funct3 = 7 -> AND

alu_op(i) ==
  CASE i.opcode \in {"R_type", "I_type"} -> calcu_op(i)
    [] i.opcode = "B_type" -> IF Bit(i.funct3, 1) = 1 THEN SLTU ELSE SLT
    [] OTHER -> ADD
=============================================================================
