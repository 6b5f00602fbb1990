--------------------------------- MODULE Isa ---------------------------------
(***************************************************************************)
(* The sequential machine the pipeline must be indistinguishable from: one *)
(* instruction of RV32I, with csrrw, csrrs and mret, per step.  The code   *)
(* keeps such a machine as a shared object, the reference of its           *)
(* differential test (core/csrc/infrastructure/difftest.c), and compares   *)
(* pc, general registers and the four CSRs with it.                        *)
(*                                                                         *)
(* Results are defined on integers, not on the adder and control codes of  *)
(* the implementation.  The program counter counts instructions and memory *)
(* counts words; the program does not store into itself.                   *)
(***************************************************************************)
EXTENDS Arith

CONSTANTS
  Reg,      \* register numbers, 0 among them
  PC_rst,   \* where execution starts
  Mem0      \* data memory at reset

Csr == {"mtvec", "mstatus", "mepc", "mcause"}

VARIABLES
  prog,     \* the instruction at each address: any program, never written
  pc,
  regs,
  csrs,
  mem

isaVars == <<prog, pc, regs, csrs, mem>>

-----------------------------------------------------------------------------
IsCsr(i) == i.opcode = "CSR_OPCODE" /\ i.funct3 \in {1, 2}
IsMret(i) == i.opcode = "CSR_OPCODE" /\ i.funct3 = 0 /\ i.csr = "mret"

WritesRd(i) == i.opcode \notin {"none", "store", "B_type"} /\ i.rd # 0

Result(i, a, b) ==
  CASE i.opcode = "R_type" -> Arith(i.funct3, i.funct7 = 1, a, b)
    [] i.opcode = "I_type" -> Arith(i.funct3, i.funct7 = 1 /\ i.funct3 = 5, a, i.imm)
    [] i.opcode = "load" -> mem[Wrap(a + i.imm)]
    [] i.opcode \in {"jal", "jalr"} -> Wrap(pc + 1)
    [] i.opcode = "lui" -> i.imm
    [] i.opcode = "auipc" -> Wrap(pc + i.imm)
    [] IsCsr(i) -> csrs[i.csr]
    [] OTHER -> a

NextPc(i, a, b) ==
  CASE i.opcode = "jal" -> Wrap(pc + i.imm)
    [] i.opcode = "jalr" -> Wrap(a + i.imm)
    [] i.opcode = "B_type" /\ Taken(i.funct3, a, b) -> Wrap(pc + i.imm)
    [] IsMret(i) -> csrs["mepc"]
    [] OTHER -> Wrap(pc + 1)

-----------------------------------------------------------------------------
Init ==
  /\ pc = PC_rst
  /\ regs = [r \in Reg |-> 0]
  /\ csrs = [c \in Csr |-> IF c = "mstatus" THEN Wrap(6144) ELSE 0]
  /\ mem = Mem0

Step ==
  LET i == prog[pc]
      a == regs[i.rs1]
      b == regs[i.rs2]
  IN  /\ pc' = NextPc(i, a, b)
      /\ regs' = IF WritesRd(i) THEN [regs EXCEPT ![i.rd] = Result(i, a, b)] ELSE regs
      /\ csrs' = IF IsCsr(i)
                 THEN [csrs EXCEPT ![i.csr] = IF i.funct3 = 1 THEN a ELSE Or(@, a)]
                 ELSE csrs
      /\ mem' = IF i.opcode = "store" THEN [mem EXCEPT ![Wrap(a + i.imm)] = b] ELSE mem
      /\ UNCHANGED prog

Spec == Init /\ [][Step]_isaVars
=============================================================================
