------------------------------ MODULE MCPipeline ------------------------------
(* Pipeline on every program of 2^XLEN instructions over a small alphabet.  *)
(* Addresses wrap around, so every program runs for ever.                   *)
EXTENDS Pipeline

I(op, f3, f7, rd, rs1, rs2, imm) ==
  [opcode |-> op, funct3 |-> f3, funct7 |-> f7, rd |-> rd, rs1 |-> rs1, rs2 |-> rs2,
   imm |-> imm, csr |-> "mtvec"]

Addi(rd, rs1, imm) == I("I_type", 0, 0, rd, rs1, 0, imm)
Add(rd, rs1, rs2) == I("R_type", 0, 0, rd, rs1, rs2, 0)
Sub(rd, rs1, rs2) == I("R_type", 0, 1, rd, rs1, rs2, 0)
Load(rd, rs1, imm) == I("load", 2, 0, rd, rs1, 0, imm)
Store(rs1, rs2, imm) == I("store", 2, 0, 0, rs1, rs2, imm)
Beq(rs1, rs2, imm) == I("B_type", 0, 0, 0, rs1, rs2, imm)
Bne(rs1, rs2, imm) == I("B_type", 1, 0, 0, rs1, rs2, imm)
Blt(rs1, rs2, imm) == I("B_type", 4, 0, 0, rs1, rs2, imm)
Jal(rd, imm) == I("jal", 0, 0, rd, 1, 2, imm)
Jalr(rd, rs1, imm) == I("jalr", 0, 0, rd, rs1, 0, imm)

MCReg == 0 .. 2
MCMem0 == [a \in Word |-> (a + 1) % 2^XLEN]

Lui(rd, imm) == I("lui", 0, 0, rd, 1, 2, imm)
Auipc(rd, imm) == I("auipc", 0, 0, rd, 1, 2, imm)

MCAlphabet == {Addi(1, 1, 1), Addi(0, 2, 1), Add(2, 1, 2), Sub(1, 2, 1),
               Load(1, 1, 0), Load(2, 1, 1), Load(1, 2, 3), Store(1, 2, 0), Store(2, 1, 3),
               Bne(1, 2, 3), Beq(1, 0, 2), Blt(2, 1, 3), Jal(1, 3), Jalr(2, 1, 1), Lui(2, 1), Auipc(1, 2)}
MCPrograms == [Word -> MCAlphabet]

(* Programs with CSR instructions.  A CSR is read in D and written in W,    *)
(* and its old value is forwarded from W only, so software keeps three      *)
(* instructions between a CSR instruction and the next one and two before   *)
(* the use of its result (yield() and trap.S of the abstract machine do).   *)
Csrrw(rd, csrname, rs1) == [I("CSR_OPCODE", 1, 0, rd, rs1, 2, 0) EXCEPT !.csr = csrname]
Csrrs(rd, csrname, rs1) == [I("CSR_OPCODE", 2, 0, rd, rs1, 1, 0) EXCEPT !.csr = csrname]
Mret == [I("CSR_OPCODE", 0, 0, 0, 0, 2, 0) EXCEPT !.csr = "mret"]

MCCsrInstr == {Csrrw(2, "mepc", 1), Csrrs(2, "mepc", 0), Csrrs(0, "mtvec", 1),
               Csrrs(2, "mtvec", 0), Mret}
MCBetween == {Addi(1, 1, 1), Load(1, 1, 0), Store(1, 1, 1)}
MCUse == {Store(1, 2, 0), Load(1, 2, 1)}

(* yield() of the abstract machine, with its two nops, and a handler at 0.  *)
MCYield ==
  <<Auipc(1, 7), Csrrw(0, "mepc", 1), Addi(2, 0, 3), Csrrw(0, "mcause", 2),
    Csrrs(2, "mtvec", 0), Addi(0, 0, 0), Addi(0, 0, 0), Jalr(0, 2, 0)>>

MCCsrPrograms ==
  {[a \in Word |-> MCYield[a + 1]]} \cup
  {[a \in Word |-> CASE a % 4 = 0 -> c[a \div 4]
                     [] a % 4 = 3 -> u[a \div 4]
                     [] OTHER -> n[2 * (a \div 4) + (a % 2)]] :
     c \in [{0, 1} -> MCCsrInstr], u \in [{0, 1} -> MCUse], n \in [0 .. 3 -> MCBetween]}

(* Both sets of programs satisfy what PipelineImplementsIsa supposes.       *)
ASSUME MCSpacedPrograms == SpacedPrograms
=============================================================================
