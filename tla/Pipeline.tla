------------------------------- MODULE Pipeline -------------------------------
(***************************************************************************)
(* The five-stage pipeline of core/vsrc with its data: datapath.v composed *)
(* with valid_ctrl.v (ValidCtrl), mulcu_decoder.v (Decode), ALU.v (Alu),   *)
(* the forwarding unit, the BTB, the register and CSR files, the stage     *)
(* buffers, and the memory handshake of npc.v.  Configuration of           *)
(* pipeline_config.v: Predict and SIMULATION on, RV32M and HAS_ECALL off.  *)
(*                                                                         *)
(* One step is one clock edge with rst low.  The program counter counts    *)
(* instructions and data memory counts words (accesses of a byte or a half *)
(* word are not distinguished); instruction memory is not written.         *)
(***************************************************************************)
EXTENDS ValidCtrl, Decode

CONSTANTS
  Reg,        \* register numbers, 0 among them
  PC_rst,
  BTB_SIZE,   \* a power of two
  Mem0,       \* data memory after load_img
  Programs    \* the instruction memories considered

ASSUME PipelineAssumption ==
  /\ 0 \in Reg /\ Reg \subseteq Nat
  /\ PC_rst \in Word
  /\ BTB_SIZE \in Nat \ {0}
  /\ Mem0 \in [Word -> Word]

VARIABLES
  prog,              \* instruction memory
  mem,               \* data memory
  PC_reg_F,
  D, E, M, W,        \* stage buffers, stale in a bubble
  fwd1, fwd2,        \* operands captured by the forwarding unit for E
  rf,                \* register file; entry 0 is written but reads as 0
  csr,               \* CSR file
  btb,               \* branch target buffer
  ReadData_M_valid   \* npc.v: the answer of the data memory

pipeVars == <<valid_D_reg, valid_E_reg, M_state, valid_W_reg, prog, mem,
              PC_reg_F, D, E, M, W, fwd1, fwd2, rf, csr, btb, ReadData_M_valid>>

Csr == {"mtvec", "mstatus", "mepc", "mcause"}

(* The 0 a buffer holds after reset: an opcode that does nothing.          *)
NoInstr == [opcode |-> "none", funct3 |-> 0, funct7 |-> 0, rd |-> 0, rs1 |-> 0,
            rs2 |-> 0, imm |-> 0, csr |-> "mtvec"]
NoForward == [valid |-> FALSE, data |-> 0]

(* Whatever the fetched code is, the decoder sees these fields of it.      *)
Instr == [opcode : {"R_type", "I_type", "load", "store", "B_type", "jal", "jalr",
                    "lui", "auipc", CSR_OPCODE, "none"},
          funct3 : 0 .. 7, funct7 : {0, 1}, rd : Reg, rs1 : Reg, rs2 : Reg,
          imm : Word, csr : Csr \cup {"mret"}]

ASSUME ProgramAssumption == Programs \subseteq [Word -> Instr]

-----------------------------------------------------------------------------
(* M and W.                                                                *)
rvalid == ReadData_M_valid
MemRead_M == mem_ren(M.ins)
MemWrite_M == mem_wen(M.ins)
rdata_M == IF MemRead_M THEN mem[M.alu] ELSE 0

csr_wen_W == csrrw(W.ins) \/ csrrs(W.ins)
wdata ==
  IF csr_wen_W THEN W.csr_rdata
  ELSE IF Reg_Src(W.ins) = "data" THEN W.rdata ELSE W.alu
csr_wdata_W == IF csrrs(W.ins) THEN Or(W.src1, W.csr_rdata) ELSE W.src1

(* E: operands, result, branch condition, misprediction.                   *)
src1_E == IF fwd1.valid THEN fwd1.data ELSE E.rdata1
src2 == IF fwd2.valid THEN fwd2.data ELSE E.rdata2
ALU_DA == IF E.ins.opcode = "auipc" THEN E.pc ELSE src1_E
ALU_DB == IF ALU_DB_Src(E.ins) THEN src2 ELSE E.ins.imm
ALUResult_E ==
  CASE Reg_Src(E.ins) = "PC"   -> Wrap(E.pc + 1)
    [] Reg_Src(E.ins) = "imme" -> E.ins.imm
    [] OTHER                   -> ALU_DC(alu_op(E.ins), ALU_DA, ALU_DB)

branch_taken ==
  branch_true(E.ins.funct3, ALU_ZERO(alu_op(E.ins), ALU_DA, ALU_DB), Bit(ALUResult_E, 0) = 1)

Jump_sign ==
  E.ins.opcode \in {"jal", "jalr"} \/ (branch(E.ins) /\ branch_taken)
Pre_Wrong == E.predict # Jump_sign \/ mret(E.ins)

(* Mutant: the adder of the corrected target keeps its carry.              *)
PC_correction_Carry ==
  IF mret(E.ins) THEN E.csr_rdata
  ELSE IF ~Jump_sign THEN Wrap(E.pc + 1)
  ELSE IF E.ins.opcode = "jalr" THEN E.ins.imm + ALU_DA
  ELSE Wrap(E.pc + E.ins.imm)

PC_correction_path ==
  IF mret(E.ins) THEN E.csr_rdata
  ELSE IF ~Jump_sign THEN Wrap(E.pc + 1)
  ELSE IF E.ins.opcode = "jalr" THEN Wrap(E.ins.imm + ALU_DA)
  ELSE Wrap(E.pc + E.ins.imm)

-----------------------------------------------------------------------------
(* RAWdetect_forward.sv.  A conflict compares register numbers only; type  *)
(* bits say which fields are registers.                                    *)
no_rs2(i) == I_type(i) \/ U_type(i) \/ J_type(i)
no_rd(i) == B_type(i) \/ S_type(i)
conflict(rs, i) == rs = i.rd /\ i.rd # 0 /\ ~no_rd(i)
conflict_rs2(i) == ~no_rs2(D.ins) /\ conflict(D.ins.rs2, i)

idle_E == ~valid_E_reg /\ ready_E(rvalid)
idle_M == ~valid_M(rvalid) /\ ready_M(rvalid)
idle_W == ~valid_W_reg /\ ready_W

(* Mutants: D waits behind any conflict in E, not only behind a load; D    *)
(* waits for M although its data has arrived; a bubble that still shows a  *)
(* load counts as one.                                                     *)
stall_D_BehindAll ==
  ~idle_E /\ (conflict(D.ins.rs1, E.ins) \/ conflict_rs2(E.ins))
stall_D_ArrivedToo ==
  \/ ~idle_E /\ mem_ren(E.ins) /\ (conflict(D.ins.rs1, E.ins) \/ conflict_rs2(E.ins))
  \/ ~idle_M /\ (conflict(D.ins.rs1, M.ins) \/ conflict_rs2(M.ins))
stall_D_StaleLoad ==
  \/ mem_ren(E.ins) /\ (conflict(D.ins.rs1, E.ins) \/ conflict_rs2(E.ins))
  \/ ~idle_M /\ ~valid_M(rvalid) /\ (conflict(D.ins.rs1, M.ins) \/ conflict_rs2(M.ins))

stall_D ==
  \/ ~idle_E /\ mem_ren(E.ins) /\ (conflict(D.ins.rs1, E.ins) \/ conflict_rs2(E.ins))
  \/ ~idle_M /\ ~valid_M(rvalid) /\ (conflict(D.ins.rs1, M.ins) \/ conflict_rs2(M.ins))

(* Mutant: the oldest matching instruction wins.                           *)
Forward_OldestFirst(conflict_E, conflict_M, conflict_W) ==
  IF ~idle_W /\ conflict_W THEN [valid |-> TRUE, data |-> wdata]
  ELSE IF ~idle_M /\ valid_M(rvalid) /\ conflict_M
       THEN [valid |-> TRUE, data |-> IF MemRead_M THEN rdata_M ELSE M.alu]
  ELSE IF ~idle_E /\ ~mem_ren(E.ins) /\ conflict_E THEN [valid |-> TRUE, data |-> ALUResult_E]
  ELSE NoForward

(* What the unit captures for a source register of D: the youngest older   *)
(* instruction that writes it and whose result is known.                   *)
Forward(conflict_E, conflict_M, conflict_W) ==
  IF ~idle_E /\ ~mem_ren(E.ins) /\ conflict_E THEN [valid |-> TRUE, data |-> ALUResult_E]
  ELSE IF ~idle_M /\ valid_M(rvalid) /\ conflict_M
       THEN [valid |-> TRUE, data |-> IF MemRead_M THEN rdata_M ELSE M.alu]
  ELSE IF ~idle_W /\ conflict_W THEN [valid |-> TRUE, data |-> wdata]
  ELSE NoForward

Forward1 ==
  LET rs == D.ins.rs1 IN Forward(conflict(rs, E.ins), conflict(rs, M.ins), conflict(rs, W.ins))
Forward2 == Forward(conflict_rs2(E.ins), conflict_rs2(M.ins), conflict_rs2(W.ins))

ForwardEdge ==
  IF ready_E(rvalid) THEN fwd1' = Forward1 /\ fwd2' = Forward2 ELSE UNCHANGED <<fwd1, fwd2>>

-----------------------------------------------------------------------------
(* F and D: BTB.v and the prediction.                                      *)
btb_index(pc) == pc % BTB_SIZE
btb_tag(pc) == pc \div BTB_SIZE
btb_hit_F ==
  LET e == btb[btb_index(PC_reg_F)] IN e.valid /\ e.tag = btb_tag(PC_reg_F)
instr_F == prog[PC_reg_F]

(* A jal is predicted taken, a branch when it goes backwards (instr[31]).  *)
predict_F ==
  btb_hit_F /\ (btb[btb_index(PC_reg_F)].jal \/ Msb(instr_F.imm) = 1)
PC_predict_path ==
  IF predict_F THEN btb[btb_index(PC_reg_F)].target ELSE Wrap(PC_reg_F + 1)
PC_src == IF Pre_Wrong /\ valid_E_reg THEN PC_correction_path ELSE PC_predict_path

(* Mutant: a jalr, whose target depends on a register, is recorded too.    *)
btb_update_Jalr ==
  (branch(D.ins) \/ D.ins.opcode \in {"jal", "jalr"}) /\ valid_D(stall_D) /\ ~D.btb_hit
btb_update == (branch(D.ins) \/ jal(D.ins)) /\ valid_D(stall_D) /\ ~D.btb_hit
btbEdge ==
  IF btb_update
  THEN btb' = [btb EXCEPT ![btb_index(D.pc)] =
                 [valid |-> TRUE, tag |-> btb_tag(D.pc),
                  target |-> Wrap(D.pc + D.ins.imm), jal |-> jal(D.ins)]]
  ELSE UNCHANGED btb

rdata(r) == IF r = 0 THEN 0 ELSE rf[r]
csr_rdata_D == csr[csr_idx(csr_raddr(D.ins))]

-----------------------------------------------------------------------------
(* buffer_ctrl.v and PC.v: each register loads when its stage hands over.  *)
PCEdge == PC_reg_F' = IF ready_D(rvalid, stall_D) THEN PC_src ELSE PC_reg_F

BufferEdges ==
  /\ D' = IF valid_F /\ ready_D(rvalid, stall_D)
          THEN [ins |-> instr_F, pc |-> PC_reg_F, predict |-> predict_F, btb_hit |-> btb_hit_F]
          ELSE D
  /\ E' = IF valid_D(stall_D) /\ ready_E(rvalid)
          THEN [ins |-> D.ins, pc |-> D.pc, predict |-> D.predict,
                rdata1 |-> rdata(D.ins.rs1), rdata2 |-> rdata(D.ins.rs2),
                csr_rdata |-> csr_rdata_D]
          ELSE E
  /\ M' = IF valid_E_reg /\ ready_M(rvalid)
          THEN [ins |-> E.ins, pc |-> E.pc, alu |-> ALUResult_E, rdata2 |-> src2,
                src1 |-> src1_E, csr_rdata |-> E.csr_rdata]
          ELSE M
  /\ W' = IF valid_M(rvalid) /\ ready_W
          THEN [ins |-> M.ins, pc |-> M.pc, alu |-> M.alu, rdata |-> rdata_M,
                src1 |-> M.src1, csr_rdata |-> M.csr_rdata]
          ELSE W

(* RegisterFile.v and CSR.sv: the enables come from the buffer alone, so   *)
(* a stale W writes again.                                                 *)
RegisterEdges ==
  /\ rf' = IF reg_wen(W.ins) THEN [rf EXCEPT ![W.ins.rd] = wdata] ELSE rf
  /\ csr' = IF csr_wen_W THEN [csr EXCEPT ![csr_idx(W.ins.csr)] = csr_wdata_W] ELSE csr

(* npc.v and memory.v: a read is answered in the cycle after the request,  *)
(* every other cycle while the request stays; a write needs no answer.     *)
MemoryEdges ==
  /\ ReadData_M_valid' = (MemRead_M /\ ~ReadData_M_valid)
  /\ mem' = IF MemWrite_M THEN [mem EXCEPT ![M.alu] = M.rdata2] ELSE mem

Init ==
  /\ CtrlInit
  /\ prog \in Programs
  /\ mem = Mem0
  /\ PC_reg_F = PC_rst
  /\ D = [ins |-> NoInstr, pc |-> PC_rst, predict |-> FALSE, btb_hit |-> FALSE]
  /\ E = [ins |-> NoInstr, pc |-> PC_rst, predict |-> FALSE, rdata1 |-> 0, rdata2 |-> 0,
          csr_rdata |-> 0]
  /\ M = [ins |-> NoInstr, pc |-> PC_rst, alu |-> 0, rdata2 |-> 0, src1 |-> 0, csr_rdata |-> 0]
  /\ W = [ins |-> NoInstr, pc |-> PC_rst, alu |-> 0, rdata |-> 0, src1 |-> 0, csr_rdata |-> 0]
  /\ fwd1 = NoForward /\ fwd2 = NoForward
  /\ rf = [r \in Reg |-> 0]
  /\ csr = [c \in Csr |-> IF c = "mstatus" THEN Wrap(6144) ELSE 0]
  /\ btb = [n \in 0 .. BTB_SIZE - 1 |-> [valid |-> FALSE, tag |-> 0, target |-> 0, jal |-> FALSE]]
  /\ ReadData_M_valid = FALSE

Clk ==
  /\ Edge(rvalid, mem_ren(E.ins), stall_D, Pre_Wrong)
  /\ PCEdge
  /\ BufferEdges
  /\ ForwardEdge
  /\ btbEdge
  /\ RegisterEdges
  /\ MemoryEdges
  /\ UNCHANGED prog

(* The condition on software under which CSR instructions execute in       *)
(* order.  A CSR is read in D and written in W, and what was read is       *)
(* forwarded from W only: an instruction that reads a CSR is not one of    *)
(* the three that may follow one that writes it, and one that uses the     *)
(* result is not one of the next two.  A code is known if it is no CSR     *)
(* instruction, or csrrw or csrrs of an existing CSR, or mret, and names   *)
(* a destination register only if it is an instruction.                    *)
ReadsRs1(i) ==
  i.opcode \in {"R_type", "I_type", "load", "store", "B_type", "jalr"} \/ csrrw(i) \/ csrrs(i)
ReadsRs2(i) == i.opcode \in {"R_type", "store", "B_type"}
WritesCsr(i) == csrrw(i) \/ csrrs(i)
ReadsCsr(i) == mret(i) \/ csrrs(i) \/ (csrrw(i) /\ i.rd # 0)

Known(i) ==
  /\ i.opcode = CSR_OPCODE => (WritesCsr(i) /\ i.csr \in Csr) \/ (mret(i) /\ i.rd = 0)
  /\ i.opcode = "none" => i.rd = 0

MayFollow(p, a, b) ==      \* in program p
  \/ p[a].opcode = "jalr" \/ mret(p[a])
  \/ p[a].opcode \in {"jal", "B_type"} /\ b = Wrap(a + p[a].imm)
  \/ p[a].opcode # "jal" /\ b = Wrap(a + 1)

CsrApart(i, j) == WritesCsr(i) /\ ReadsCsr(j) => i.csr # csr_raddr(j)
UseApart(i, j) ==
  WritesCsr(i) /\ i.rd # 0 => (ReadsRs1(j) => j.rs1 # i.rd) /\ (ReadsRs2(j) => j.rs2 # i.rd)

KeepsDistance(p) ==
  \A a, b \in Word : MayFollow(p, a, b) =>
    /\ CsrApart(p[a], p[b]) /\ UseApart(p[a], p[b])
    /\ \A c \in Word : MayFollow(p, b, c) =>
         /\ CsrApart(p[a], p[c]) /\ UseApart(p[a], p[c])
         /\ \A d \in Word : MayFollow(p, c, d) => CsrApart(p[a], p[d])

SpacedPrograms ==
  \A p \in Programs : KeepsDistance(p) /\ \A a \in Word : Known(p[a])

-----------------------------------------------------------------------------
Spec == Init /\ [][Clk]_pipeVars
FairSpec == Spec /\ WF_pipeVars(Clk)

-----------------------------------------------------------------------------
ForwardedOperand == [valid : BOOLEAN, data : Word]

TypeOK ==
  /\ CtrlTypeOK
  /\ prog \in Programs
  /\ mem \in [Word -> Word]
  /\ PC_reg_F \in Word
  /\ D \in [ins : Instr, pc : Word, predict : BOOLEAN, btb_hit : BOOLEAN]
  /\ E \in [ins : Instr, pc : Word, predict : BOOLEAN, rdata1 : Word, rdata2 : Word,
             csr_rdata : Word]
  /\ M \in [ins : Instr, pc : Word, alu : Word, rdata2 : Word, src1 : Word, csr_rdata : Word]
  /\ W \in [ins : Instr, pc : Word, alu : Word, rdata : Word, src1 : Word, csr_rdata : Word]
  /\ fwd1 \in ForwardedOperand /\ fwd2 \in ForwardedOperand
  /\ rf \in [Reg -> Word] /\ csr \in [Csr -> Word]
  /\ btb \in [0 .. BTB_SIZE - 1 ->
               [valid : BOOLEAN, tag : Word, target : Word, jal : BOOLEAN]]
  /\ ReadData_M_valid \in BOOLEAN

(* The state of the sequential machine: every instruction that has left M  *)
(* is done, nothing else is.                                               *)
OldestPC ==
  IF M_state # "M_IDLE" THEN M.pc
  ELSE IF valid_E_reg THEN E.pc
  ELSE IF valid_D_reg THEN D.pc
  ELSE PC_reg_F

ArchRegs ==
  [r \in Reg |-> IF r = 0 THEN 0
                 ELSE IF reg_wen(W.ins) /\ W.ins.rd = r THEN wdata ELSE rf[r]]

ArchCsrs ==
  [c \in Csr |-> IF csr_wen_W /\ csr_idx(W.ins.csr) = c THEN csr_wdata_W ELSE csr[c]]

(* The pipeline executes the program as the sequential machine does, one   *)
(* instruction whenever M hands over to W: forwarding, load-use stalls,    *)
(* predictions and their corrections, stale bubbles and repeated           *)
(* write-backs leave no trace in pc, registers, CSRs or memory.            *)
Reference == INSTANCE Isa WITH pc <- OldestPC, regs <- ArchRegs, csrs <- ArchCsrs
ImplementsIsa == Reference!Spec

(* The program counter is redirected only if D is not stalled on the edge  *)
(* on which a mispredicted jump leaves E (PC.v is enabled by ready_D).     *)
RedirectNotStalled ==
  valid_E_reg /\ Pre_Wrong /\ ready_M(rvalid) => ready_D(rvalid, stall_D)

(* The write channel is not gated by valid_M, nor the write-back by        *)
(* valid_W: a store request is up only for a store that M finishes now.    *)
WriteRequestIsValid == MemWrite_M => valid_M(rvalid)

(* A BTB entry, even one written while D held an instruction of a wrong    *)
(* path, gives the target of the branch or jal at its address: this is     *)
(* why a taken prediction is never checked for its target, only for its    *)
(* direction (Pre_Wrong).                                                  *)
BtbTargetsAreReal ==
  \A n \in DOMAIN btb : btb[n].valid =>
    \E a \in Word :
      /\ btb_index(a) = n /\ btb_tag(a) = btb[n].tag
      /\ prog[a].opcode \in {"B_type", "jal"}
      /\ btb[n].target = Wrap(a + prog[a].imm)
      /\ btb[n].jal = (prog[a].opcode = "jal")

(* Instructions keep retiring, whatever the program.                       *)
RetiresForever == []<>valid_W_reg
=============================================================================
