---------------------------- MODULE PipelineProofs ----------------------------
(***************************************************************************)
(* Proofs about Pipeline, for every word size, register file, BTB size,    *)
(* data memory and program.                                                *)
(***************************************************************************)
EXTENDS Pipeline, AluProofs

USE PipelineAssumption, ProgramAssumption

-----------------------------------------------------------------------------
(* Type correctness.                                                       *)
Buffer_D == [ins : Instr, pc : Word, predict : BOOLEAN, btb_hit : BOOLEAN]
Buffer_E == [ins : Instr, pc : Word, predict : BOOLEAN, rdata1 : Word, rdata2 : Word,
             csr_rdata : Word]
Buffer_M == [ins : Instr, pc : Word, alu : Word, rdata2 : Word, src1 : Word, csr_rdata : Word]
Buffer_W == [ins : Instr, pc : Word, alu : Word, rdata : Word, src1 : Word, csr_rdata : Word]
Entry == [valid : BOOLEAN, tag : Word, target : Word, jal : BOOLEAN]

LEMMA ZeroIsWord == 0 \in Word /\ 1 \in Word
BY MsbIs DEF Word

LEMMA WordIsInt == \A x \in Word : x \in Int
BY WordRange DEF Word

LEMMA SumIsWord == \A x, y \in Word : Wrap(x + y) \in Word
<1> TAKE x, y \in Word
<1>1. x + y \in Int
  BY WordRange
<1>2. QED BY <1>1, WrapInWord

LEMMA InstrType ==
  ASSUME NEW i \in Instr
  PROVE  /\ i.opcode \in {"R_type", "I_type", "load", "store", "B_type", "jal", "jalr",
                          "lui", "auipc", CSR_OPCODE, "none"}
         /\ i.funct3 \in 0 .. 7 /\ i.rd \in Reg /\ i.rs1 \in Reg /\ i.rs2 \in Reg
         /\ i.imm \in Word /\ i.csr \in Csr \cup {"mret"}
BY DEF Instr

LEMMA TypeInit == Init => TypeOK
<1> SUFFICES ASSUME Init PROVE TypeOK
  OBVIOUS
<1>1. NoInstr \in Instr
  BY ZeroIsWord DEF NoInstr, Instr, Csr
<1>2. CtrlTypeOK
  <2>1. CtrlInit
    BY Zenon DEF Init
  <2>2. QED BY <2>1 DEF CtrlInit, CtrlTypeOK
<1>3. prog \in Programs /\ mem \in [Word -> Word] /\ PC_reg_F \in Word
  BY DEF Init
<1>4. D \in Buffer_D /\ E \in Buffer_E /\ M \in Buffer_M /\ W \in Buffer_W
  BY <1>1, ZeroIsWord DEF Init, Buffer_D, Buffer_E, Buffer_M, Buffer_W
<1>5. fwd1 \in ForwardedOperand /\ fwd2 \in ForwardedOperand
  BY ZeroIsWord DEF Init, NoForward, ForwardedOperand
<1>6. rf \in [Reg -> Word]
  BY ZeroIsWord DEF Init
<1>7. csr \in [Csr -> Word]
  <2>1. Wrap(6144) \in Word
    BY WrapInWord
  <2>2. QED BY <2>1, ZeroIsWord DEF Init
<1>8. btb \in [0 .. BTB_SIZE - 1 -> Entry]
  BY ZeroIsWord DEF Init, Entry
<1>9. ReadData_M_valid \in BOOLEAN
  BY Zenon DEF Init
<1>10. QED
  BY <1>2, <1>3, <1>4, <1>5, <1>6, <1>7, <1>8, <1>9
  DEF TypeOK, Buffer_D, Buffer_E, Buffer_M, Buffer_W, Entry

LEMMA BtbSlot ==
  ASSUME NEW p \in Word
  PROVE  btb_index(p) \in 0 .. BTB_SIZE - 1 /\ btb_tag(p) \in Word
         /\ p = BTB_SIZE * btb_tag(p) + btb_index(p)
<1>1. p \in Nat
  BY WordRange
<1>2. btb_index(p) \in 0 .. BTB_SIZE - 1
  BY <1>1, Division DEF btb_index
<1>3. btb_tag(p) \in Int /\ btb_tag(p) >= 0 /\ p = BTB_SIZE * btb_tag(p) + btb_index(p)
  <2>1. btb_tag(p) \in Int /\ btb_tag(p) >= 0
    <3>1. p \div BTB_SIZE \in Int
      BY <1>1
    <3>2. p \div BTB_SIZE >= 0
      BY <1>1
    <3>3. QED BY <3>1, <3>2 DEF btb_tag
  <2>2. p = BTB_SIZE * btb_tag(p) + btb_index(p)
    BY <1>1, Division DEF btb_tag, btb_index
  <2>3. QED BY <2>1, <2>2
<1>4. btb_tag(p) <= p
  <2> DEFINE t == btb_tag(p)
             n == btb_index(p)
  <2>1. t \in Int /\ t >= 0 /\ n \in Int /\ n >= 0 /\ p = BTB_SIZE * t + n
    BY <1>2, <1>3
  <2> HIDE DEF t, n
  <2>2. BTB_SIZE * t >= t /\ BTB_SIZE * t \in Int
    BY <2>1
  <2>3. t <= p
    BY <1>1, <2>1, <2>2
  <2>4. QED BY <2>3 DEF t
<1>5. btb_tag(p) \in Word
  BY <1>1, <1>3, <1>4, WordRange DEF Word
<1>6. QED BY <1>2, <1>3, <1>5

(* Every signal of a cycle is a word, or an operand of the forwarding unit. *)
LEMMA AluSignals ==
  ASSUME TypeOK
  PROVE  /\ src1_E \in Word /\ src2 \in Word
         /\ ALU_DA \in Word /\ ALU_DB \in Word /\ ALUResult_E \in Word
         /\ PC_correction_path \in Word
<1>1. E.ins \in Instr /\ E.pc \in Word /\ E.rdata1 \in Word /\ E.rdata2 \in Word
      /\ E.csr_rdata \in Word /\ E.ins.imm \in Word /\ E.ins.funct3 \in 0 .. 7
  BY DEF TypeOK, Instr
<1>2. src1_E \in Word /\ src2 \in Word
  BY <1>1 DEF TypeOK, ForwardedOperand, src1_E, src2
<1>3. ALU_DA \in Word /\ ALU_DB \in Word
  BY <1>1, <1>2 DEF ALU_DA, ALU_DB
<1>4. ALU_DC(alu_op(E.ins), ALU_DA, ALU_DB) \in Word
  BY <1>1, <1>3, AluInWord
<1>5. Wrap(E.pc + 1) \in Word /\ Wrap(E.ins.imm + ALU_DA) \in Word
      /\ Wrap(E.pc + E.ins.imm) \in Word
  BY <1>1, <1>3, SumIsWord, ZeroIsWord
<1>6. ALUResult_E \in Word
  BY <1>1, <1>4, <1>5 DEF ALUResult_E
<1>7. PC_correction_path \in Word
  BY <1>1, <1>5 DEF PC_correction_path
<1>8. QED BY <1>2, <1>3, <1>6, <1>7

LEMMA WriteBackSignals ==
  ASSUME TypeOK
  PROVE  rdata_M \in Word /\ wdata \in Word /\ csr_wdata_W \in Word
<1>1. M.alu \in Word /\ W.alu \in Word /\ W.rdata \in Word /\ W.src1 \in Word
      /\ W.csr_rdata \in Word
  BY DEF TypeOK
<1>2. rdata_M \in Word
  BY <1>1, ZeroIsWord DEF TypeOK, rdata_M
<1>3. wdata \in Word
  BY <1>1 DEF wdata
<1>4. Or(W.src1, W.csr_rdata) \in Word
  BY <1>1, OrBits
<1>5. csr_wdata_W \in Word
  BY <1>1, <1>4 DEF csr_wdata_W
<1>6. QED BY <1>2, <1>3, <1>5

LEMMA FetchSignals ==
  ASSUME TypeOK
  PROVE  /\ instr_F \in Instr /\ btb_hit_F \in BOOLEAN /\ predict_F \in BOOLEAN
         /\ PC_predict_path \in Word /\ PC_src \in Word
<1>1. prog \in [Word -> Instr] /\ PC_reg_F \in Word
  BY DEF TypeOK
<1>2. btb[btb_index(PC_reg_F)] \in Entry
  BY <1>1, BtbSlot DEF TypeOK, Entry
<1>3. instr_F \in Instr
  BY <1>1 DEF instr_F
<1>4. btb_hit_F \in BOOLEAN /\ predict_F \in BOOLEAN
  BY <1>2 DEF btb_hit_F, predict_F, Entry
<1>5. Wrap(PC_reg_F + 1) \in Word
  BY <1>1, WordRange, WrapInWord
<1>6. PC_predict_path \in Word
  BY <1>2, <1>5 DEF PC_predict_path, Entry
<1>7. PC_src \in Word
  BY <1>6, AluSignals DEF PC_src
<1>8. QED BY <1>3, <1>4, <1>6, <1>7

LEMMA DecodeSignals ==
  ASSUME TypeOK
  PROVE  /\ \A r \in Reg : rdata(r) \in Word
         /\ csr_rdata_D \in Word
         /\ \A c_E, c_M, c_W : Forward(c_E, c_M, c_W) \in ForwardedOperand
<1>1. \A r \in Reg : rdata(r) \in Word
  BY ZeroIsWord DEF TypeOK, rdata
<1>2. csr_rdata_D \in Word
  BY DEF TypeOK, csr_rdata_D, csr_idx, Csr
<1>3. ASSUME NEW c_E, NEW c_M, NEW c_W
      PROVE  Forward(c_E, c_M, c_W) \in ForwardedOperand
  <2>1. M.alu \in Word
    BY DEF TypeOK
  <2>2. QED
    BY <2>1, ZeroIsWord, AluSignals, WriteBackSignals DEF Forward, NoForward, ForwardedOperand
<1>4. QED BY <1>1, <1>2, <1>3

LEMMA TypeStep == TypeOK /\ [Clk]_pipeVars => TypeOK'
<1> SUFFICES ASSUME TypeOK, Clk PROVE TypeOK'
  BY DEF pipeVars, TypeOK, CtrlTypeOK
<1>1. CtrlTypeOK'
  <2>1. /\ valid_D_reg \in BOOLEAN /\ valid_E_reg \in BOOLEAN
        /\ valid_W_reg \in BOOLEAN /\ M_state \in {"M_IDLE", "M_LOAD", "M_READY"}
    BY DEF TypeOK, CtrlTypeOK
  <2>2. valid_D_reg' \in BOOLEAN /\ valid_E_reg' \in BOOLEAN
    BY <2>1 DEF Clk, Edge, NextD, NextE, valid_F, valid_D
  <2>3. M_state' \in {"M_IDLE", "M_LOAD", "M_READY"}
    BY <2>1 DEF Clk, Edge, NextM, Accept, ready_W
  <2>4. valid_W_reg' \in BOOLEAN
    BY <2>1 DEF Clk, Edge, valid_M, ready_W
  <2>5. QED BY <2>2, <2>3, <2>4 DEF CtrlTypeOK
<1>2. prog' \in Programs
  BY DEF Clk, TypeOK
<1>3. mem' \in [Word -> Word]
  BY DEF Clk, MemoryEdges, TypeOK
<1>4. PC_reg_F' \in Word
  BY FetchSignals DEF Clk, PCEdge, TypeOK
<1>5. D' \in Buffer_D
  BY FetchSignals DEF Clk, BufferEdges, TypeOK, Buffer_D
<1>6. E' \in Buffer_E
  <2>1. D.ins \in Instr /\ D.pc \in Word /\ D.predict \in BOOLEAN
        /\ D.ins.rs1 \in Reg /\ D.ins.rs2 \in Reg
    BY DEF TypeOK, Instr
  <2>2. QED BY <2>1, DecodeSignals DEF Clk, BufferEdges, TypeOK, Buffer_E
<1>7. M' \in Buffer_M
  <2>1. E.ins \in Instr /\ E.pc \in Word /\ E.csr_rdata \in Word
    BY DEF TypeOK
  <2>2. QED BY <2>1, AluSignals DEF Clk, BufferEdges, TypeOK, Buffer_M
<1>8. W' \in Buffer_W
  <2>1. M.ins \in Instr /\ M.pc \in Word /\ M.alu \in Word /\ M.src1 \in Word
        /\ M.csr_rdata \in Word
    BY DEF TypeOK
  <2>2. QED BY <2>1, WriteBackSignals DEF Clk, BufferEdges, TypeOK, Buffer_W
<1>9. fwd1' \in ForwardedOperand /\ fwd2' \in ForwardedOperand
  BY DecodeSignals DEF Clk, ForwardEdge, Forward1, Forward2, TypeOK
<1>10. rf' \in [Reg -> Word]
  BY WriteBackSignals DEF Clk, RegisterEdges, TypeOK
<1>11. csr' \in [Csr -> Word]
  BY WriteBackSignals DEF Clk, RegisterEdges, TypeOK
<1>12. btb' \in [0 .. BTB_SIZE - 1 -> Entry]
  <2>1. D.pc \in Word /\ D.ins.imm \in Word
    BY DEF TypeOK, Instr
  <2>2. Wrap(D.pc + D.ins.imm) \in Word /\ btb_tag(D.pc) \in Word
    BY <2>1, BtbSlot, SumIsWord
  <2>3. jal(D.ins) \in BOOLEAN
    BY DEF jal
  <2>4. btb \in [0 .. BTB_SIZE - 1 -> Entry]
    BY DEF TypeOK, Entry
  <2>5. [valid |-> TRUE, tag |-> btb_tag(D.pc), target |-> Wrap(D.pc + D.ins.imm),
         jal |-> jal(D.ins)] \in Entry
    BY <2>2, <2>3 DEF Entry
  <2>6. QED BY <2>4, <2>5 DEF Clk, btbEdge
<1>13. ReadData_M_valid' \in BOOLEAN
  BY DEF Clk, MemoryEdges
<1>14. QED
  BY <1>1, <1>2, <1>3, <1>4, <1>5, <1>6, <1>7, <1>8, <1>9, <1>10, <1>11, <1>12, <1>13
  DEF TypeOK, Buffer_D, Buffer_E, Buffer_M, Buffer_W, Entry

(* Every register of the pipeline keeps its width and its range, whatever  *)
(* the program: the stage buffers, the register and CSR files, the BTB and *)
(* the data memory.                                                        *)
THEOREM PipelineTypeOK == Spec => []TypeOK
BY TypeInit, TypeStep, PTL DEF Spec

-----------------------------------------------------------------------------
(* The strengthening.  For every program:                                  *)
occupied_M == M_state # "M_IDLE"

(* a buffer holds the instruction at its address,                          *)
BuffersHoldProgram ==
  /\ valid_D_reg => D.ins = prog[D.pc]
  /\ valid_E_reg => E.ins = prog[E.pc]
  /\ occupied_M => M.ins = prog[M.pc]

(* a taken prediction is made only of a branch or a jal,                   *)
JumpsPredicted ==
  /\ D.predict => D.ins.opcode \in {"B_type", "jal"}
  /\ E.predict => E.ins.opcode \in {"B_type", "jal"}

(* what follows an instruction in the pipeline is its predicted successor, *)
Predicted(b) == IF b.predict THEN Wrap(b.pc + b.ins.imm) ELSE Wrap(b.pc + 1)
PredictionFollowed ==
  /\ valid_E_reg /\ valid_D_reg => D.pc = Predicted(E)
  /\ valid_D_reg => PC_reg_F = Predicted(D)

(* M_state says what is in M, and a bubble has only two causes (see Flow). *)
MStateMatches ==
  /\ M_state = "M_LOAD" => MemRead_M
  /\ M_state = "M_READY" => ~MemRead_M
NoHoles ==
  /\ valid_E_reg /\ ~Pre_Wrong => valid_D_reg
  /\ ~valid_E_reg /\ ~valid_D_reg => M_state # "M_LOAD"
  /\ MemWrite_M => M_state = "M_READY" /\ valid_E_reg

FetchInv ==
  /\ TypeOK
  /\ BuffersHoldProgram
  /\ JumpsPredicted
  /\ PredictionFollowed
  /\ BtbTargetsAreReal
  /\ MStateMatches
  /\ NoHoles

(* The signals of valid_ctrl.v in the cycle.                               *)
LEMMA Handshake ==
  ASSUME TypeOK
  PROVE  /\ ready_E(rvalid) <=> ready_M(rvalid)
         /\ ready_D(rvalid, stall_D) <=> ~stall_D /\ ready_M(rvalid)
         /\ ready_M(rvalid) => (valid_M(rvalid) <=> occupied_M)
         /\ ~ready_M(rvalid) => M_state = "M_LOAD" /\ ~valid_M(rvalid)
         /\ stall_D /\ ready_M(rvalid) => valid_E_reg /\ mem_ren(E.ins)
<1>1. M_state \in {"M_IDLE", "M_LOAD", "M_READY"}
  BY DEF TypeOK, CtrlTypeOK
<1>2. QED
  BY <1>1 DEF ready_D, ready_E, ready_M, valid_M, ready_W, stall_D, idle_E, idle_M, occupied_M

(* Neither a load nor a store mispredicts.                                 *)
LEMMA MemoryPredicted ==
  ASSUME TypeOK, JumpsPredicted, mem_ren(E.ins) \/ mem_wen(E.ins)
  PROVE  ~Pre_Wrong /\ ~E.predict
<1>1. E.ins.opcode \in {"load", "store"}
  BY DEF mem_ren, mem_wen
<1>2. E.predict = FALSE
  BY <1>1 DEF JumpsPredicted, TypeOK
<1>3. Jump_sign = FALSE /\ ~mret(E.ins)
  BY <1>1 DEF Jump_sign, branch, mret, CSR_OPCODE
<1>4. QED BY <1>2, <1>3 DEF Pre_Wrong

(* The four kinds of clock edge.  M waits for the memory: only D may be    *)
(* emptied, by a misprediction found in E.                                 *)
Waits == ~ready_M(rvalid)
(* A mispredicted jump leaves E.                                           *)
Diverts == ready_M(rvalid) /\ valid_E_reg /\ Pre_Wrong
(* D is held back behind the load that leaves E.                           *)
Holds == ready_M(rvalid) /\ ~(valid_E_reg /\ Pre_Wrong) /\ stall_D
(* Every stage moves on.                                                   *)
Advances == ready_M(rvalid) /\ ~(valid_E_reg /\ Pre_Wrong) /\ ~stall_D

LEMMA WaitEdge ==
  ASSUME TypeOK, Clk, Waits
  PROVE  /\ M_state = "M_LOAD" /\ M_state' = M_state /\ M' = M
         /\ ~valid_W_reg' /\ W' = W
         /\ (valid_E_reg' <=> valid_E_reg) /\ E' = E /\ fwd1' = fwd1 /\ fwd2' = fwd2
         /\ (valid_D_reg' <=> valid_D_reg /\ ~(valid_E_reg /\ Pre_Wrong)) /\ D' = D
         /\ PC_reg_F' = PC_reg_F
<1>1. /\ M_state = "M_LOAD" /\ ~valid_M(rvalid) /\ ~ready_M(rvalid) /\ ~ready_E(rvalid)
      /\ ~ready_D(rvalid, stall_D) /\ ~rvalid
  BY Handshake DEF Waits, valid_M
<1>2. valid_D_reg \in BOOLEAN /\ valid_E_reg \in BOOLEAN
  BY DEF TypeOK, CtrlTypeOK
<1>3. M_state' = M_state /\ ~valid_W_reg'
  BY <1>1 DEF Clk, Edge, NextM, ready_W
<1>4. valid_E_reg' <=> valid_E_reg
  BY <1>1, <1>2 DEF Clk, Edge, NextE
<1>5. valid_D_reg' <=> valid_D_reg /\ ~(valid_E_reg /\ Pre_Wrong)
  BY <1>1, <1>2 DEF Clk, Edge, NextD, valid_F
<1>6. M' = M /\ W' = W /\ E' = E /\ D' = D
  BY <1>1 DEF Clk, BufferEdges
<1>7. fwd1' = fwd1 /\ fwd2' = fwd2 /\ PC_reg_F' = PC_reg_F
  BY <1>1 DEF Clk, ForwardEdge, PCEdge
<1>8. QED BY <1>1, <1>3, <1>4, <1>5, <1>6, <1>7

(* What W and M take over when M is ready.                                 *)
LEMMA HandOver ==
  ASSUME TypeOK, Clk, ready_M(rvalid)
  PROVE  /\ valid_W_reg' = occupied_M
         /\ W' = IF occupied_M
                 THEN [ins |-> M.ins, pc |-> M.pc, alu |-> M.alu, rdata |-> rdata_M,
                       src1 |-> M.src1, csr_rdata |-> M.csr_rdata]
                 ELSE W
         /\ M_state' = Accept(mem_ren(E.ins))
         /\ M' = IF valid_E_reg
                 THEN [ins |-> E.ins, pc |-> E.pc, alu |-> ALUResult_E, rdata2 |-> src2,
                       src1 |-> src1_E, csr_rdata |-> E.csr_rdata]
                 ELSE M
         /\ fwd1' = Forward1 /\ fwd2' = Forward2
<1>1. valid_M(rvalid) = occupied_M /\ ready_E(rvalid)
  BY Handshake DEF valid_M, occupied_M
<1>2. valid_W_reg' = occupied_M
  BY <1>1 DEF Clk, Edge, ready_W
<1>3. W' = IF occupied_M
           THEN [ins |-> M.ins, pc |-> M.pc, alu |-> M.alu, rdata |-> rdata_M,
                 src1 |-> M.src1, csr_rdata |-> M.csr_rdata]
           ELSE W
  BY <1>1 DEF Clk, BufferEdges, ready_W
<1>4. M_state' = Accept(mem_ren(E.ins))
  BY DEF Clk, Edge, NextM, TypeOK, CtrlTypeOK, ready_M, valid_M, ready_W
<1>5. M' = IF valid_E_reg
           THEN [ins |-> E.ins, pc |-> E.pc, alu |-> ALUResult_E, rdata2 |-> src2,
                 src1 |-> src1_E, csr_rdata |-> E.csr_rdata]
           ELSE M
  BY DEF Clk, BufferEdges
<1>6. fwd1' = Forward1 /\ fwd2' = Forward2
  BY <1>1 DEF Clk, ForwardEdge
<1>7. QED BY <1>2, <1>3, <1>4, <1>5, <1>6

LEMMA DivertEdge ==
  ASSUME TypeOK, JumpsPredicted, Clk, Diverts
  PROVE  /\ ~stall_D /\ ~valid_D_reg' /\ ~valid_E_reg'
         /\ PC_reg_F' = PC_correction_path
         /\ M_state' = "M_READY"
<1>1. ~mem_ren(E.ins)
  BY MemoryPredicted DEF Diverts
<1>2. ~stall_D /\ ready_D(rvalid, stall_D)
  BY <1>1, Handshake DEF Diverts
<1>3. ~valid_D_reg' /\ ~valid_E_reg'
  BY DEF Diverts, Clk, Edge, NextD, NextE
<1>4. PC_reg_F' = PC_correction_path
  BY <1>2 DEF Diverts, Clk, PCEdge, PC_src
<1>5. M_state' = "M_READY"
  BY <1>1, HandOver DEF Diverts, Accept
<1>6. QED BY <1>2, <1>3, <1>4, <1>5

LEMMA HoldEdge ==
  ASSUME TypeOK, NoHoles, Clk, Holds
  PROVE  /\ valid_E_reg /\ mem_ren(E.ins) /\ valid_D_reg
         /\ valid_D_reg' /\ D' = D /\ ~valid_E_reg' /\ E' = E
         /\ PC_reg_F' = PC_reg_F /\ M_state' = "M_LOAD"
<1>1. valid_E_reg /\ mem_ren(E.ins) /\ valid_D_reg
  BY Handshake DEF Holds, NoHoles
<1>2. ~ready_D(rvalid, stall_D) /\ ready_E(rvalid) /\ ~valid_D(stall_D)
  BY Handshake DEF Holds, valid_D
<1>3. valid_D_reg' /\ ~valid_E_reg'
  BY <1>1, <1>2 DEF Holds, Clk, Edge, NextD, NextE, valid_F
<1>4. D' = D /\ E' = E /\ PC_reg_F' = PC_reg_F
  BY <1>2 DEF Clk, BufferEdges, PCEdge
<1>5. M_state' = "M_LOAD"
  BY <1>1, HandOver DEF Holds, Accept
<1>6. QED BY <1>1, <1>3, <1>4, <1>5

LEMMA AdvanceEdge ==
  ASSUME TypeOK, Clk, Advances
  PROVE  /\ valid_D_reg' /\ (valid_E_reg' <=> valid_D_reg)
         /\ D' = [ins |-> instr_F, pc |-> PC_reg_F, predict |-> predict_F,
                  btb_hit |-> btb_hit_F]
         /\ E' = IF valid_D_reg
                 THEN [ins |-> D.ins, pc |-> D.pc, predict |-> D.predict,
                       rdata1 |-> rdata(D.ins.rs1), rdata2 |-> rdata(D.ins.rs2),
                       csr_rdata |-> csr_rdata_D]
                 ELSE E
         /\ PC_reg_F' = PC_predict_path
<1>1. ready_D(rvalid, stall_D) /\ ready_E(rvalid) /\ (valid_D(stall_D) <=> valid_D_reg)
  BY Handshake DEF Advances, valid_D, TypeOK, CtrlTypeOK
<1>2. valid_D_reg' /\ (valid_E_reg' <=> valid_D_reg)
  BY <1>1 DEF Advances, Clk, Edge, NextD, NextE, valid_F
<1>3. D' = [ins |-> instr_F, pc |-> PC_reg_F, predict |-> predict_F, btb_hit |-> btb_hit_F]
  BY <1>1 DEF Clk, BufferEdges, valid_F
<1>4. E' = IF valid_D_reg
           THEN [ins |-> D.ins, pc |-> D.pc, predict |-> D.predict,
                 rdata1 |-> rdata(D.ins.rs1), rdata2 |-> rdata(D.ins.rs2),
                 csr_rdata |-> csr_rdata_D]
           ELSE E
  BY <1>1 DEF Clk, BufferEdges
<1>5. PC_reg_F' = PC_predict_path
  BY <1>1 DEF Advances, Clk, PCEdge, PC_src
<1>6. QED BY <1>2, <1>3, <1>4, <1>5

LEMMA EdgeKinds == Waits \/ Diverts \/ Holds \/ Advances
BY DEF Waits, Diverts, Holds, Advances

(* A hit in the BTB tells the truth about the instruction at its address.  *)
LEMMA HitIsReal ==
  ASSUME TypeOK, BtbTargetsAreReal, btb_hit_F
  PROVE  LET e == btb[btb_index(PC_reg_F)]
         IN  /\ instr_F.opcode \in {"B_type", "jal"}
             /\ e.target = Wrap(PC_reg_F + instr_F.imm)
             /\ e.jal = (instr_F.opcode = "jal")
<1> DEFINE n == btb_index(PC_reg_F)
           e == btb[n]
<1>1. PC_reg_F \in Word /\ n \in DOMAIN btb
  BY BtbSlot DEF TypeOK
<1>2. e.valid /\ e.tag = btb_tag(PC_reg_F)
  BY DEF btb_hit_F
<1>3. PICK a \in Word : /\ btb_index(a) = n /\ btb_tag(a) = e.tag
                        /\ prog[a].opcode \in {"B_type", "jal"}
                        /\ e.target = Wrap(a + prog[a].imm)
                        /\ e.jal = (prog[a].opcode = "jal")
  BY <1>1, <1>2 DEF BtbTargetsAreReal
<1>4. a = PC_reg_F
  BY <1>1, <1>2, <1>3, BtbSlot
<1>5. QED BY <1>3, <1>4 DEF instr_F

LEMMA FetchPredicts ==
  ASSUME TypeOK, BtbTargetsAreReal
  PROVE  /\ predict_F => instr_F.opcode \in {"B_type", "jal"}
         /\ PC_predict_path = IF predict_F THEN Wrap(PC_reg_F + instr_F.imm)
                              ELSE Wrap(PC_reg_F + 1)
BY HitIsReal DEF predict_F, PC_predict_path

(* A misprediction stays one while its jump waits in E.                    *)
LEMMA PreWrongStays ==
  ASSUME UNCHANGED <<E, fwd1, fwd2>>
  PROVE  UNCHANGED <<Pre_Wrong, src1_E, src2, ALUResult_E>>
<1>1. UNCHANGED <<src1_E, src2>>
  BY DEF src1_E, src2
<1>2. UNCHANGED <<ALU_DA, ALU_DB>>
  BY <1>1 DEF ALU_DA, ALU_DB
<1>3. UNCHANGED ALUResult_E
  BY <1>2 DEF ALUResult_E
<1>4. UNCHANGED branch_taken
  BY <1>2, <1>3 DEF branch_taken
<1>5. UNCHANGED Jump_sign
  BY <1>2, <1>4 DEF Jump_sign
<1>6. UNCHANGED Pre_Wrong
  BY <1>5 DEF Pre_Wrong
<1>7. QED BY <1>1, <1>3, <1>6

LEMMA FetchInit == Init => FetchInv
<1> SUFFICES ASSUME Init PROVE FetchInv
  OBVIOUS
<1>1. ~valid_D_reg /\ ~valid_E_reg /\ M_state = "M_IDLE"
  BY DEF Init, CtrlInit
<1>2. BuffersHoldProgram /\ PredictionFollowed /\ MStateMatches
  BY <1>1 DEF BuffersHoldProgram, PredictionFollowed, MStateMatches, occupied_M
<1>3. JumpsPredicted
  BY DEF Init, JumpsPredicted
<1>4. BtbTargetsAreReal
  BY DEF Init, BtbTargetsAreReal
<1>5. NoHoles
  BY <1>1 DEF Init, NoHoles, NoInstr, MemWrite_M, mem_wen
<1>6. QED BY TypeInit, <1>2, <1>3, <1>4, <1>5 DEF FetchInv

LEMMA FetchStep ==
  ASSUME FetchInv, Clk
  PROVE  FetchInv'
<1> USE DEF FetchInv
<1>0. prog' = prog
  BY DEF Clk
<1>1. TypeOK'
  BY TypeStep
<1>2. BuffersHoldProgram'
  <2> USE <1>0 DEF BuffersHoldProgram
  <2>1. CASE Waits
    <3>1. /\ UNCHANGED <<D, E, M, M_state>>
          /\ (valid_E_reg' <=> valid_E_reg) /\ (valid_D_reg' => valid_D_reg)
      BY <2>1, WaitEdge
    <3>2. QED BY <3>1 DEF occupied_M
  <2>2. CASE ready_M(rvalid)
    <3>1. (occupied_M => M.ins = prog[M.pc])'
      BY <2>2, HandOver DEF occupied_M, Accept
    <3>2. CASE Diverts
      BY <3>1, <3>2, DivertEdge
    <3>3. CASE Holds
      BY <3>1, <3>3, HoldEdge
    <3>4. CASE Advances
      BY <3>1, <3>4, AdvanceEdge DEF instr_F
    <3>5. QED BY <2>2, <3>2, <3>3, <3>4, EdgeKinds DEF Waits
  <2>3. QED BY <2>1, <2>2 DEF Waits
<1>3. JumpsPredicted'
  <2> USE DEF JumpsPredicted
  <2>1. D' = D \/ D' = [ins |-> instr_F, pc |-> PC_reg_F, predict |-> predict_F,
                        btb_hit |-> btb_hit_F]
    BY DEF Clk, BufferEdges
  <2>2. (D.predict => D.ins.opcode \in {"B_type", "jal"})'
    BY <2>1, FetchPredicts
  <2>3. E' = E \/ (E'.ins = D.ins /\ E'.predict = D.predict)
    BY DEF Clk, BufferEdges
  <2>4. QED BY <2>2, <2>3
<1>4. PredictionFollowed'
  <2> USE DEF PredictionFollowed, Predicted
  <2>1. CASE Waits
    BY <2>1, WaitEdge
  <2>2. CASE Diverts
    BY <2>2, DivertEdge
  <2>3. CASE Holds
    BY <2>3, HoldEdge
  <2>4. CASE Advances
    <3>1. (valid_E_reg /\ valid_D_reg => D.pc = Predicted(E))'
      BY <2>4, AdvanceEdge
    <3>2. (valid_D_reg => PC_reg_F = Predicted(D))'
      BY <2>4, AdvanceEdge, FetchPredicts
    <3>3. QED BY <3>1, <3>2
  <2>5. QED BY <2>1, <2>2, <2>3, <2>4, EdgeKinds
<1>5. BtbTargetsAreReal'
  <2>1. CASE ~btb_update
    BY <1>0, <2>1 DEF BtbTargetsAreReal, Clk, btbEdge
  <2>2. CASE btb_update
    <3>1. D.pc \in Word /\ D.ins = prog[D.pc] /\ D.ins.opcode \in {"B_type", "jal"}
      BY <2>2 DEF btb_update, branch, jal, valid_D, BuffersHoldProgram, TypeOK
    <3> DEFINE e == [valid |-> TRUE, tag |-> btb_tag(D.pc),
                     target |-> Wrap(D.pc + D.ins.imm), jal |-> jal(D.ins)]
    <3>2. btb' = [btb EXCEPT ![btb_index(D.pc)] = e]
      BY <2>2 DEF Clk, btbEdge
    <3>3. e.target = Wrap(D.pc + prog[D.pc].imm) /\ e.jal = (prog[D.pc].opcode = "jal")
          /\ e.tag = btb_tag(D.pc)
      BY <3>1 DEF jal
    <3> HIDE DEF e
    <3>4. DOMAIN btb' = DOMAIN btb
      BY <3>2
    <3>5. SUFFICES ASSUME NEW n \in DOMAIN btb, btb'[n].valid
                   PROVE  \E a \in Word :
                            /\ btb_index(a) = n /\ btb_tag(a) = btb'[n].tag
                            /\ prog[a].opcode \in {"B_type", "jal"}
                            /\ btb'[n].target = Wrap(a + prog[a].imm)
                            /\ btb'[n].jal = (prog[a].opcode = "jal")
      BY <1>0, <3>4 DEF BtbTargetsAreReal
    <3>6. CASE n = btb_index(D.pc)
      <4>1. btb'[n] = e
        BY <3>2, <3>5, <3>6
      <4>2. QED BY <3>1, <3>3, <3>6, <4>1
    <3>7. CASE n # btb_index(D.pc)
      <4>1. btb'[n] = btb[n]
        BY <3>2, <3>5, <3>7
      <4>2. QED BY <3>5, <4>1 DEF BtbTargetsAreReal
    <3>8. QED BY <3>6, <3>7
  <2>3. QED BY <2>1, <2>2
<1>6. MStateMatches'
  <2>1. CASE Waits
    BY <2>1, WaitEdge DEF MStateMatches, MemRead_M
  <2>2. CASE ready_M(rvalid)
    BY <2>2, HandOver DEF MStateMatches, MemRead_M, Accept
  <2>3. QED BY <2>1, <2>2 DEF Waits
<1>7. NoHoles'
  <2>1. (valid_E_reg /\ ~Pre_Wrong => valid_D_reg)'
    <3>1. CASE Waits
      BY <3>1, WaitEdge, PreWrongStays DEF NoHoles
    <3>2. CASE Diverts
      BY <3>2, DivertEdge
    <3>3. CASE Holds
      BY <3>3, HoldEdge
    <3>4. CASE Advances
      BY <3>4, AdvanceEdge
    <3>5. QED BY <3>1, <3>2, <3>3, <3>4, EdgeKinds
  <2>2. (~valid_E_reg /\ ~valid_D_reg => M_state # "M_LOAD")'
    <3>1. CASE Waits
      BY <3>1, WaitEdge DEF NoHoles
    <3>2. CASE Diverts
      BY <3>2, DivertEdge
    <3>3. CASE Holds
      BY <3>3, HoldEdge
    <3>4. CASE Advances
      BY <3>4, AdvanceEdge
    <3>5. QED BY <3>1, <3>2, <3>3, <3>4, EdgeKinds
  <2>3. (MemWrite_M => M_state = "M_READY" /\ valid_E_reg)'
    <3>1. CASE Waits
      BY <3>1, WaitEdge DEF NoHoles, MemWrite_M
    <3>2. CASE ready_M(rvalid) /\ ~valid_E_reg
      BY <3>2, HandOver DEF NoHoles, MemWrite_M
    <3>3. CASE ready_M(rvalid) /\ valid_E_reg
      <4> SUFFICES ASSUME mem_wen(E.ins)
                   PROVE  M_state' = "M_READY" /\ valid_E_reg'
        BY <3>3, HandOver DEF MemWrite_M
      <4>1. ~Pre_Wrong /\ ~mem_ren(E.ins)
        BY MemoryPredicted DEF mem_wen, mem_ren
      <4>2. Advances /\ valid_D_reg
        BY <3>3, <4>1, Handshake DEF Advances, NoHoles
      <4>3. QED BY <3>3, <4>1, <4>2, HandOver, AdvanceEdge DEF Accept
    <3>4. QED BY <3>1, <3>2, <3>3 DEF Waits
  <2>4. QED BY <2>1, <2>2, <2>3 DEF NoHoles
<1>8. QED BY <1>1, <1>2, <1>3, <1>4, <1>5, <1>6, <1>7

LEMMA FetchStutter ==
  ASSUME FetchInv, UNCHANGED pipeVars
  PROVE  FetchInv'
<1>1. TypeOK'
  BY TypeStep DEF FetchInv
<1>2. BuffersHoldProgram' /\ JumpsPredicted' /\ PredictionFollowed' /\ BtbTargetsAreReal'
  BY DEF pipeVars, FetchInv, BuffersHoldProgram, JumpsPredicted, PredictionFollowed,
         Predicted, BtbTargetsAreReal, occupied_M
<1>3. MStateMatches' /\ NoHoles'
  BY PreWrongStays DEF pipeVars, FetchInv, MStateMatches, NoHoles, MemRead_M, MemWrite_M
<1>4. QED BY <1>1, <1>2, <1>3 DEF FetchInv

(* Whatever the program, the buffers hold instructions of it, each the     *)
(* predicted successor of the one before, the BTB holds real targets, and  *)
(* every bubble is accounted for.                                          *)
THEOREM FetchInvariant == Spec => []FetchInv
<1>1. FetchInv /\ [Clk]_pipeVars => FetchInv'
  BY FetchStep, FetchStutter
<1>2. QED BY FetchInit, <1>1, PTL DEF Spec

(* The write request of datapath.v, which valid_M does not gate, is up     *)
(* only for a store that M finishes in this cycle.                         *)
THEOREM PipelineWriteRequestIsValid == Spec => []WriteRequestIsValid
<1>1. FetchInv => WriteRequestIsValid
  BY DEF FetchInv, NoHoles, WriteRequestIsValid, valid_M
<1>2. QED BY <1>1, FetchInvariant, PTL

(* D is not stalled on the edge on which a mispredicted jump leaves E, so  *)
(* PC.v, enabled by ready_D, takes the corrected address.                  *)
THEOREM PipelineRedirectNotStalled == Spec => []RedirectNotStalled
<1>1. FetchInv => RedirectNotStalled
  <2> SUFFICES ASSUME FetchInv, valid_E_reg, Pre_Wrong, ready_M(rvalid)
               PROVE  ready_D(rvalid, stall_D)
    BY DEF RedirectNotStalled
  <2>1. ~mem_ren(E.ins)
    BY MemoryPredicted DEF FetchInv
  <2>2. QED BY <2>1, Handshake DEF FetchInv
<1>2. QED BY <1>1, FetchInvariant, PTL

(* A BTB entry gives the target of the jump at its address, so a taken     *)
(* prediction needs no check of its target.                                *)
THEOREM PipelineBtbTargetsAreReal == Spec => []BtbTargetsAreReal
<1>1. FetchInv => BtbTargetsAreReal
  BY DEF FetchInv
<1>2. QED BY <1>1, FetchInvariant, PTL

-----------------------------------------------------------------------------
(* Programs whose CSR instructions keep their distance (SpacedPrograms).   *)
(*                                                                         *)
(* The registers once the instruction in M, and then the one in E, is      *)
(* done: what the operands of E and of D must be read from.                *)
Result_M ==
  IF WritesCsr(M.ins) THEN M.csr_rdata ELSE IF MemRead_M THEN mem[M.alu] ELSE M.alu
RegsPastM(r) ==
  IF occupied_M /\ reg_wen(M.ins) /\ M.ins.rd = r /\ r # 0 THEN Result_M ELSE ArchRegs[r]
RegsPastE(r) ==
  IF valid_E_reg /\ reg_wen(E.ins) /\ E.ins.rd = r /\ r # 0 THEN ALUResult_E ELSE RegsPastM(r)

(* What the instruction set makes of instruction i at p with operands a, b, *)
(* and where it goes, c being the CSR it reads.                            *)
Computes(i, p, a, b) ==
  CASE i.opcode = "R_type" -> Arith(i.funct3, i.funct7 = 1, a, b)
    [] i.opcode = "I_type" -> Arith(i.funct3, i.funct7 = 1 /\ i.funct3 = 5, a, i.imm)
    [] i.opcode \in {"load", "store"} -> Wrap(a + i.imm)
    [] i.opcode \in {"jal", "jalr"} -> Wrap(p + 1)
    [] i.opcode = "lui" -> i.imm
    [] i.opcode = "auipc" -> Wrap(p + i.imm)
GoesTo(i, p, a, b, c) ==
  CASE i.opcode = "jal" -> Wrap(p + i.imm)
    [] i.opcode = "jalr" -> Wrap(a + i.imm)
    [] i.opcode = "B_type" /\ Taken(i.funct3, a, b) -> Wrap(p + i.imm)
    [] mret(i) -> c
    [] OTHER -> Wrap(p + 1)

KnownBuffers == Known(D.ins) /\ Known(E.ins) /\ Known(M.ins) /\ Known(W.ins)

(* A W that retires nothing has been written back.                         *)
WrittenBack == ~valid_W_reg /\ reg_wen(W.ins) => rf[W.ins.rd] = wdata

(* E has the operands the program gives it, past the instruction in M.     *)
OperandsRight ==
  valid_E_reg => /\ ReadsRs1(E.ins) => src1_E = RegsPastM(E.ins.rs1)
                 /\ ReadsRs2(E.ins) => src2 = RegsPastM(E.ins.rs2)

(* What E and M read of a CSR in D is still what it holds.                 *)
CsrsRight ==
  /\ valid_E_reg /\ ReadsCsr(E.ins) => E.csr_rdata = ArchCsrs[csr_raddr(E.ins)]
  /\ occupied_M /\ ReadsCsr(M.ins) => M.csr_rdata = ArchCsrs[csr_raddr(M.ins)]

(* The oldest instruction of the pipeline comes after the one W shows, the *)
(* last that was done.                                                     *)
AfterW ==
  \/ W.ins = NoInstr
  \/ W.pc \in Word /\ W.ins = prog[W.pc] /\ MayFollow(prog, W.pc, OldestPC)

(* M has computed what its instruction does, and its successor follows it. *)
FollowsM == IF valid_E_reg THEN E.pc ELSE IF valid_D_reg THEN D.pc ELSE PC_reg_F
Calculates(i) == i.opcode \notin {"B_type", "none", CSR_OPCODE}
ExecutedRight ==
  occupied_M =>
    LET i == M.ins
        a == ArchRegs[i.rs1]
        b == ArchRegs[i.rs2]
    IN  /\ Calculates(i) => M.alu = Computes(i, M.pc, a, b)
        /\ MemWrite_M => M.rdata2 = b
        /\ WritesCsr(i) => M.src1 = a
        /\ FollowsM = GoesTo(i, M.pc, a, b, M.csr_rdata)

IsaInv ==
  /\ FetchInv
  /\ KnownBuffers
  /\ WrittenBack
  /\ OperandsRight
  /\ CsrsRight
  /\ AfterW
  /\ ExecutedRight

(* The reference speaks of the same arithmetic.                            *)
LEMMA SameArithmetic ==
  /\ \A x : Reference!Wrap(x) = Wrap(x)
  /\ \A f, alt, a, b : Reference!Arith(f, alt, a, b) = Arith(f, alt, a, b)
  /\ \A f, a, b : Reference!Taken(f, a, b) <=> Taken(f, a, b)
  /\ \A a, b : Reference!Or(a, b) = Or(a, b)
<1>1. \A x : Reference!Wrap(x) = Wrap(x)
  BY DEF Reference!Wrap, Wrap
<1>2. \A x : Reference!Signed(x) = Signed(x)
  BY DEF Reference!Signed, Signed, Reference!Msb, Msb, Reference!Bit, Bit
<1>3. \A f, a, b : Reference!Taken(f, a, b) <=> Taken(f, a, b)
  BY <1>2 DEF Reference!Taken, Taken
<1>4. \A a, b : Reference!And(a, b) = And(a, b)
  BY DEF Reference!And, And, Reference!WordOf, WordOf, Reference!Word, Word,
         Reference!Bit, Bit
<1>5. \A a, b : Reference!Xor(a, b) = Xor(a, b)
  BY DEF Reference!Xor, Xor, Reference!WordOf, WordOf, Reference!Word, Word,
         Reference!Bit, Bit
<1>6. \A a, b : Reference!Or(a, b) = Or(a, b)
  BY <1>4 DEF Reference!Or, Or, Reference!Not, Not
<1>7. \A f, alt, a, b : Reference!Arith(f, alt, a, b) = Arith(f, alt, a, b)
  <2> TAKE f, alt, a, b
  <2>1. /\ Reference!Signed(a) = Signed(a) /\ Reference!Signed(b) = Signed(b)
        /\ Reference!Xor(a, b) = Xor(a, b) /\ Reference!Or(a, b) = Or(a, b)
        /\ Reference!And(a, b) = And(a, b)
    BY <1>2, <1>4, <1>5, <1>6, Zenon
  <2>2. QED BY <1>1, <2>1, ZenonT(60) DEF Reference!Arith, Arith
<1>8. QED BY <1>1, <1>3, <1>6, <1>7

(* Operands count only where the instruction reads them.                   *)
LEMMA OperandsUsed ==
  ASSUME NEW i \in Instr, NEW p, NEW a, NEW b, NEW x, NEW y, NEW c,
         ReadsRs1(i) => a = x, ReadsRs2(i) => b = y
  PROVE  /\ Calculates(i) => Computes(i, p, a, b) = Computes(i, p, x, y)
         /\ GoesTo(i, p, a, b, c) = GoesTo(i, p, x, y, c)
<1>1. ASSUME Calculates(i) PROVE Computes(i, p, a, b) = Computes(i, p, x, y)
  <2>1. CASE i.opcode = "R_type"
    BY <2>1 DEF Computes, ReadsRs1, ReadsRs2
  <2>2. CASE i.opcode \in {"I_type", "load", "store"}
    BY <2>2 DEF Computes, ReadsRs1
  <2>3. CASE i.opcode \in {"jal", "jalr", "lui", "auipc"}
    BY <2>3 DEF Computes
  <2>4. QED BY <1>1, <2>1, <2>2, <2>3, InstrType DEF Calculates
<1>2. GoesTo(i, p, a, b, c) = GoesTo(i, p, x, y, c)
  BY DEF GoesTo, ReadsRs1, ReadsRs2
<1>3. QED BY <1>1, <1>2

(* Where an instruction goes is a place that may follow it.                *)
LEMMA GoesIsNext ==
  ASSUME NEW a, NEW x, NEW y, NEW c
  PROVE  MayFollow(prog, a, GoesTo(prog[a], a, x, y, c))
BY DEF MayFollow, GoesTo

(* Stage E computes what its instruction does.                             *)
LEMMA StageComputes ==
  ASSUME TypeOK, Calculates(E.ins)
  PROVE  ALUResult_E = Computes(E.ins, E.pc, src1_E, src2)
<1>1. E.ins \in Instr /\ E.pc \in Word /\ E.ins.imm \in Word /\ E.ins.funct3 \in 0 .. 7
      /\ src1_E \in Word /\ src2 \in Word
  BY AluSignals DEF TypeOK, Instr
<1>2. CASE E.ins.opcode = "R_type"
  <2>1. ALUResult_E = ALU_DC(alu_op(E.ins), src1_E, src2)
    BY <1>2 DEF ALUResult_E, Reg_Src, ALU_DA, ALU_DB, ALU_DB_Src
  <2>2. ALUResult_E = Arith(E.ins.funct3, E.ins.funct7 = 1 /\ (E.ins.opcode = "R_type" \/ E.ins.funct3 = 5), src1_E, src2)
    BY <1>1, <1>2, <2>1, DecodedArith
  <2>3. (E.ins.funct7 = 1 /\ (E.ins.opcode = "R_type" \/ E.ins.funct3 = 5)) = (E.ins.funct7 = 1)
    BY <1>2
  <2>4. QED BY <1>2, <2>2, <2>3 DEF Computes
<1>3. CASE E.ins.opcode = "I_type"
  <2>1. ALUResult_E = ALU_DC(alu_op(E.ins), src1_E, E.ins.imm)
    BY <1>3 DEF ALUResult_E, Reg_Src, ALU_DA, ALU_DB, ALU_DB_Src
  <2>2. ALUResult_E = Arith(E.ins.funct3, E.ins.funct7 = 1 /\ (E.ins.opcode = "R_type" \/ E.ins.funct3 = 5), src1_E, E.ins.imm)
    BY <1>1, <1>3, <2>1, DecodedArith
  <2>3. (E.ins.funct7 = 1 /\ (E.ins.opcode = "R_type" \/ E.ins.funct3 = 5)) = (E.ins.funct7 = 1 /\ E.ins.funct3 = 5)
    BY <1>3
  <2>4. QED BY <1>3, <2>2, <2>3 DEF Computes
<1>4. CASE E.ins.opcode \in {"load", "store"}
  <2>1. ALUResult_E = ALU_DC(ADD, src1_E, E.ins.imm)
    BY <1>4 DEF ALUResult_E, Reg_Src, ALU_DA, ALU_DB, ALU_DB_Src, alu_op
  <2>2. QED BY <1>1, <1>4, <2>1, Addition DEF Computes
<1>5. CASE E.ins.opcode = "auipc"
  <2>1. ALUResult_E = ALU_DC(ADD, E.pc, E.ins.imm)
    BY <1>5 DEF ALUResult_E, Reg_Src, ALU_DA, ALU_DB, ALU_DB_Src, alu_op
  <2>2. QED BY <1>1, <1>5, <2>1, Addition DEF Computes
<1>6. CASE E.ins.opcode \in {"jal", "jalr", "lui"}
  BY <1>6 DEF ALUResult_E, Reg_Src, Computes
<1>7. QED
  BY <1>1, <1>2, <1>3, <1>4, <1>5, <1>6, InstrType DEF Calculates

(* Stage E finds where its instruction goes, and a prediction it accepts   *)
(* was right.                                                              *)
LEMMA StageGoes ==
  ASSUME TypeOK, JumpsPredicted
  PROVE  /\ PC_correction_path = GoesTo(E.ins, E.pc, src1_E, src2, E.csr_rdata)
         /\ ~Pre_Wrong => Predicted(E) = GoesTo(E.ins, E.pc, src1_E, src2, E.csr_rdata)
<1>1. E.ins \in Instr /\ E.pc \in Word /\ E.ins.imm \in Word /\ E.ins.funct3 \in 0 .. 7
      /\ src1_E \in Word /\ src2 \in Word /\ E.predict \in BOOLEAN
  BY AluSignals DEF TypeOK, Instr
<1>2. ASSUME E.ins.opcode = "B_type"
      PROVE  Jump_sign <=> Taken(E.ins.funct3, src1_E, src2)
  <2>1. ALU_DA = src1_E /\ ALU_DB = src2 /\ ALUResult_E = ALU_DC(alu_op(E.ins), src1_E, src2)
    BY <1>2 DEF ALUResult_E, Reg_Src, ALU_DA, ALU_DB, ALU_DB_Src
  <2>2. branch_taken <=> Taken(E.ins.funct3, src1_E, src2)
    BY <1>1, <1>2, <2>1, DecodedBranch DEF branch_taken
  <2>3. E.ins.funct3 \in {2, 3} => ~Taken(E.ins.funct3, src1_E, src2)
    BY DEF Taken
  <2>4. QED BY <1>2, <2>2, <2>3 DEF Jump_sign, branch
<1>3. E.ins.opcode # CSR_OPCODE => ~mret(E.ins)
  BY DEF mret
<1>4. E.ins.imm + src1_E = src1_E + E.ins.imm
  <2>1. E.ins.imm \in Int /\ src1_E \in Int
    BY <1>1, WordIsInt
  <2>2. QED BY <2>1
<1>5. PC_correction_path = GoesTo(E.ins, E.pc, src1_E, src2, E.csr_rdata)
  <2>1. CASE E.ins.opcode = "jal"
    BY <1>3, <2>1 DEF PC_correction_path, Jump_sign, GoesTo, CSR_OPCODE
  <2>2. CASE E.ins.opcode = "jalr"
    BY <1>3, <1>4, <2>2 DEF PC_correction_path, Jump_sign, GoesTo, ALU_DA, CSR_OPCODE
  <2>3. CASE E.ins.opcode = "B_type"
    BY <1>2, <1>3, <2>3 DEF PC_correction_path, GoesTo, CSR_OPCODE
  <2>4. CASE E.ins.opcode \notin {"jal", "jalr", "B_type"}
    BY <2>4 DEF PC_correction_path, Jump_sign, branch, GoesTo
  <2>5. QED BY <2>1, <2>2, <2>3, <2>4
<1>6. ASSUME ~Pre_Wrong PROVE Predicted(E) = GoesTo(E.ins, E.pc, src1_E, src2, E.csr_rdata)
  <2>1. (E.predict <=> Jump_sign) /\ ~mret(E.ins)
    BY <1>1, <1>6 DEF Pre_Wrong
  <2>2. CASE E.predict
    BY <1>2, <2>1, <2>2 DEF Predicted, GoesTo, JumpsPredicted
  <2>3. CASE ~E.predict
    <3>1. E.ins.opcode \notin {"jal", "jalr"}
      BY <2>1, <2>3 DEF Jump_sign
    <3>2. QED BY <1>2, <2>1, <2>3, <3>1 DEF Predicted, GoesTo
  <2>4. QED BY <2>2, <2>3
<1>7. QED BY <1>5, <1>6

-----------------------------------------------------------------------------
(* Who writes a register.                                                  *)
LEMMA Conflicts ==
  ASSUME NEW i \in Instr, Known(i), NEW r \in Reg
  PROVE  /\ conflict(r, i) <=> reg_wen(i) /\ i.rd = r /\ r # 0
         /\ mem_ren(i) => reg_wen(i) /\ ~WritesCsr(i)
         /\ Reg_Src(i) = "data" <=> mem_ren(i)
<1>1. i.opcode = "none" => i.rd = 0
  BY DEF Known
<1>2. conflict(r, i) <=> reg_wen(i) /\ i.rd = r /\ r # 0
  BY <1>1, InstrType DEF conflict, no_rd, B_type, S_type, reg_wen, CSR_OPCODE
<1>3. mem_ren(i) => reg_wen(i) /\ ~WritesCsr(i)
  BY DEF mem_ren, reg_wen, WritesCsr, csrrw, csrrs, CSR_OPCODE
<1>4. Reg_Src(i) = "data" <=> mem_ren(i)
  BY DEF mem_ren, Reg_Src
<1>5. QED BY <1>2, <1>3, <1>4

(* Among the CSR instructions.                                             *)
LEMMA CsrOpcodes ==
  ASSUME NEW i \in Instr, Known(i)
  PROVE  /\ WritesCsr(i) => i.csr \in Csr /\ csr_idx(i.csr) = i.csr /\ reg_wen(i)
         /\ ReadsCsr(i) => csr_raddr(i) \in Csr /\ csr_idx(csr_raddr(i)) = csr_raddr(i)
         /\ WritesCsr(i) => csr_raddr(i) = i.csr
         /\ csrrs(i) => WritesCsr(i) /\ ReadsCsr(i)
         /\ WritesCsr(i) /\ i.rd # 0 => ReadsCsr(i)
<1>1. mret(i) => ~csrrw(i) /\ ~csrrs(i)
  BY DEF mret, csrrw, csrrs
<1>2. WritesCsr(i) => i.csr \in Csr /\ i.opcode = CSR_OPCODE
  BY <1>1 DEF Known, WritesCsr, csrrw, csrrs
<1>3. QED
  BY <1>1, <1>2 DEF Csr, csr_idx, csr_raddr, ReadsCsr, WritesCsr, reg_wen

-----------------------------------------------------------------------------
(* Places that follow each other in a program that keeps its distance.     *)
LEMMA Distance ==
  ASSUME SpacedPrograms, TypeOK, NEW a \in Word, NEW b \in Word, MayFollow(prog, a, b)
  PROVE  /\ CsrApart(prog[a], prog[b]) /\ UseApart(prog[a], prog[b])
         /\ \A c \in Word : MayFollow(prog, b, c) =>
              /\ CsrApart(prog[a], prog[c]) /\ UseApart(prog[a], prog[c])
              /\ \A d \in Word : MayFollow(prog, c, d) => CsrApart(prog[a], prog[d])
<1>1. KeepsDistance(prog)
  BY DEF SpacedPrograms, TypeOK
<1>2. QED BY <1>1 DEF KeepsDistance

(* The instructions W, M, E and D hold follow each other in the program,   *)
(* where there are bubbles with fewer between them.                        *)
LEMMA InProgram ==
  ASSUME IsaInv
  PROVE  /\ valid_D_reg => D.pc \in Word /\ D.ins = prog[D.pc]
         /\ valid_E_reg => E.pc \in Word /\ E.ins = prog[E.pc]
         /\ occupied_M => M.pc \in Word /\ M.ins = prog[M.pc]
         /\ valid_E_reg /\ valid_D_reg /\ ~Pre_Wrong => MayFollow(prog, E.pc, D.pc)
         /\ occupied_M => MayFollow(prog, M.pc, FollowsM)
         /\ OldestPC = IF occupied_M THEN M.pc ELSE FollowsM
<1>1. TypeOK /\ BuffersHoldProgram /\ PredictionFollowed /\ JumpsPredicted
  BY DEF IsaInv, FetchInv
<1>2. /\ valid_D_reg => D.pc \in Word /\ D.ins = prog[D.pc]
      /\ valid_E_reg => E.pc \in Word /\ E.ins = prog[E.pc]
      /\ occupied_M => M.pc \in Word /\ M.ins = prog[M.pc]
  BY <1>1 DEF TypeOK, BuffersHoldProgram
<1>3. ASSUME valid_E_reg, valid_D_reg, ~Pre_Wrong PROVE MayFollow(prog, E.pc, D.pc)
  <2>1. D.pc = GoesTo(E.ins, E.pc, src1_E, src2, E.csr_rdata)
    BY <1>1, <1>3, StageGoes DEF PredictionFollowed
  <2>2. E.ins = prog[E.pc]
    BY <1>2, <1>3
  <2>3. QED BY <2>1, <2>2, GoesIsNext
<1>4. ASSUME occupied_M PROVE MayFollow(prog, M.pc, FollowsM)
  <2>1. FollowsM = GoesTo(M.ins, M.pc, ArchRegs[M.ins.rs1], ArchRegs[M.ins.rs2], M.csr_rdata)
    BY <1>4 DEF IsaInv, ExecutedRight
  <2>2. M.ins = prog[M.pc]
    BY <1>2, <1>4
  <2>3. QED BY <2>1, <2>2, GoesIsNext
<1>5. OldestPC = IF occupied_M THEN M.pc ELSE FollowsM
  BY DEF OldestPC, FollowsM, occupied_M
<1>6. QED BY <1>2, <1>3, <1>4, <1>5

(* Hence the instruction that E takes over from D needs nothing of a CSR   *)
(* instruction in E or M, and reads no CSR that one of the three before it *)
(* writes.                                                                 *)
LEMMA DecodedApart ==
  ASSUME SpacedPrograms, IsaInv, valid_D_reg, ~(valid_E_reg /\ Pre_Wrong)
  PROVE  /\ valid_E_reg => CsrApart(E.ins, D.ins) /\ UseApart(E.ins, D.ins)
         /\ occupied_M => CsrApart(M.ins, D.ins) /\ UseApart(M.ins, D.ins)
         /\ CsrApart(W.ins, D.ins)
<1>1. TypeOK /\ AfterW
  BY DEF IsaInv, FetchInv
<1>2. D.pc \in Word /\ D.ins = prog[D.pc]
  BY InProgram
<1>3. CASE W.ins = NoInstr
  <2>1. CsrApart(W.ins, D.ins)
    BY <1>3 DEF CsrApart, WritesCsr, csrrw, csrrs, NoInstr, CSR_OPCODE
  <2>2. CASE valid_E_reg
    <3>1. MayFollow(prog, E.pc, D.pc) /\ E.pc \in Word /\ E.ins = prog[E.pc] /\ FollowsM = E.pc
      BY <2>2, InProgram DEF FollowsM
    <3>2. CsrApart(E.ins, D.ins) /\ UseApart(E.ins, D.ins)
      BY <1>1, <1>2, <3>1, Distance
    <3>3. occupied_M => CsrApart(M.ins, D.ins) /\ UseApart(M.ins, D.ins)
      BY <1>1, <1>2, <3>1, InProgram, Distance
    <3>4. QED BY <2>1, <3>2, <3>3
  <2>3. CASE ~valid_E_reg
    <3>1. FollowsM = D.pc
      BY <2>3 DEF FollowsM
    <3>2. occupied_M => CsrApart(M.ins, D.ins) /\ UseApart(M.ins, D.ins)
      BY <1>1, <1>2, <3>1, InProgram, Distance
    <3>3. QED BY <2>1, <2>3, <3>2
  <2>4. QED BY <2>2, <2>3
<1>4. CASE W.ins # NoInstr
  <2>1. W.pc \in Word /\ W.ins = prog[W.pc] /\ MayFollow(prog, W.pc, OldestPC)
    BY <1>1, <1>4 DEF AfterW
  <2>2. CASE valid_E_reg
    <3>1. MayFollow(prog, E.pc, D.pc) /\ E.pc \in Word /\ E.ins = prog[E.pc] /\ FollowsM = E.pc
      BY <2>2, InProgram DEF FollowsM
    <3>2. CsrApart(E.ins, D.ins) /\ UseApart(E.ins, D.ins)
      BY <1>1, <1>2, <3>1, Distance
    <3>3. CASE occupied_M
      <4>1. M.pc \in Word /\ M.ins = prog[M.pc] /\ MayFollow(prog, M.pc, E.pc) /\ OldestPC = M.pc
        BY <3>1, <3>3, InProgram
      <4>2. CsrApart(M.ins, D.ins) /\ UseApart(M.ins, D.ins)
        BY <1>1, <1>2, <3>1, <4>1, Distance
      <4>3. CsrApart(W.ins, D.ins)
        BY <1>1, <1>2, <2>1, <3>1, <4>1, Distance
      <4>4. QED BY <3>2, <4>2, <4>3
    <3>4. CASE ~occupied_M
      <4>1. OldestPC = E.pc
        BY <3>1, <3>4, InProgram
      <4>2. CsrApart(W.ins, D.ins)
        BY <1>1, <1>2, <2>1, <3>1, <4>1, Distance
      <4>3. QED BY <3>2, <3>4, <4>2
    <3>5. QED BY <3>3, <3>4
  <2>3. CASE ~valid_E_reg
    <3>1. FollowsM = D.pc
      BY <2>3 DEF FollowsM
    <3>2. CASE occupied_M
      <4>1. M.pc \in Word /\ M.ins = prog[M.pc] /\ MayFollow(prog, M.pc, D.pc) /\ OldestPC = M.pc
        BY <3>1, <3>2, InProgram
      <4>2. CsrApart(M.ins, D.ins) /\ UseApart(M.ins, D.ins)
        BY <1>1, <1>2, <4>1, Distance
      <4>3. CsrApart(W.ins, D.ins)
        BY <1>1, <1>2, <2>1, <4>1, Distance
      <4>4. QED BY <2>3, <4>2, <4>3
    <3>3. CASE ~occupied_M
      <4>1. OldestPC = D.pc
        BY <3>1, <3>3, InProgram
      <4>2. CsrApart(W.ins, D.ins)
        BY <1>1, <1>2, <2>1, <4>1, Distance
      <4>3. QED BY <2>3, <3>3, <4>2
    <3>4. QED BY <3>2, <3>3
  <2>4. QED BY <2>2, <2>3
<1>5. QED BY <1>3, <1>4

LEMMA ExecutedApart ==
  ASSUME SpacedPrograms, IsaInv, valid_E_reg, occupied_M
  PROVE  CsrApart(M.ins, E.ins)
<1>1. TypeOK /\ FollowsM = E.pc
  BY DEF IsaInv, FetchInv, FollowsM
<1>2. QED BY <1>1, InProgram, Distance

-----------------------------------------------------------------------------
(* The unit forwards, or the register file holds, what the instructions    *)
(* before D leave in a register: the youngest of them that writes it wins, *)
(* and W counts although it writes on the same edge (RAWdetect_forward.sv).*)
LEMMA ForwardRight ==
  ASSUME IsaInv, ready_M(rvalid), NEW r \in Reg,
         ~(valid_E_reg /\ (mem_ren(E.ins) \/ WritesCsr(E.ins)) /\ conflict(r, E.ins)),
         ~(occupied_M /\ WritesCsr(M.ins) /\ conflict(r, M.ins))
  PROVE  LET f == Forward(conflict(r, E.ins), conflict(r, M.ins), conflict(r, W.ins))
         IN  (IF f.valid THEN f.data ELSE rdata(r)) = RegsPastE(r)
<1> DEFINE f == Forward(conflict(r, E.ins), conflict(r, M.ins), conflict(r, W.ins))
<1>1. TypeOK /\ E.ins \in Instr /\ M.ins \in Instr /\ W.ins \in Instr
      /\ Known(E.ins) /\ Known(M.ins) /\ Known(W.ins)
  BY DEF IsaInv, FetchInv, KnownBuffers, TypeOK
<1>2. /\ conflict(r, E.ins) <=> reg_wen(E.ins) /\ E.ins.rd = r /\ r # 0
      /\ conflict(r, M.ins) <=> reg_wen(M.ins) /\ M.ins.rd = r /\ r # 0
      /\ conflict(r, W.ins) <=> reg_wen(W.ins) /\ W.ins.rd = r /\ r # 0
  BY <1>1, Conflicts
<1>3. /\ ~idle_E <=> valid_E_reg
      /\ ~idle_M <=> occupied_M
      /\ valid_M(rvalid) <=> occupied_M
      /\ ~idle_W <=> valid_W_reg
  BY <1>1, Handshake DEF idle_E, idle_M, idle_W, ready_W
<1>4. CASE valid_E_reg /\ conflict(r, E.ins)
  <2>1. ~mem_ren(E.ins)
    BY <1>4
  <2>2. f = [valid |-> TRUE, data |-> ALUResult_E]
    BY <1>3, <1>4, <2>1 DEF Forward
  <2>3. RegsPastE(r) = ALUResult_E
    BY <1>2, <1>4 DEF RegsPastE
  <2>4. QED BY <2>2, <2>3
<1>5. CASE ~(valid_E_reg /\ conflict(r, E.ins)) /\ occupied_M /\ conflict(r, M.ins)
  <2>1. f = [valid |-> TRUE, data |-> IF MemRead_M THEN rdata_M ELSE M.alu]
    BY <1>3, <1>5 DEF Forward
  <2>2. RegsPastE(r) = Result_M
    BY <1>2, <1>5 DEF RegsPastE, RegsPastM
  <2>3. Result_M = IF MemRead_M THEN rdata_M ELSE M.alu
    BY <1>5 DEF Result_M, rdata_M
  <2>4. f.valid /\ f.data = Result_M
    BY <2>1, <2>3
  <2>5. QED BY <2>2, <2>4
<1>6. CASE ~(valid_E_reg /\ conflict(r, E.ins)) /\ ~(occupied_M /\ conflict(r, M.ins))
  <2>1. RegsPastE(r) = ArchRegs[r]
    BY <1>2, <1>6 DEF RegsPastE, RegsPastM
  <2>2. CASE valid_W_reg /\ conflict(r, W.ins)
    <3>1. f = [valid |-> TRUE, data |-> wdata]
      BY <1>3, <1>6, <2>2 DEF Forward
    <3>2. ArchRegs[r] = wdata
      BY <1>2, <2>2 DEF ArchRegs
    <3>3. QED BY <2>1, <3>1, <3>2
  <2>3. CASE ~(valid_W_reg /\ conflict(r, W.ins))
    <3>1. f = NoForward
      BY <1>3, <1>6, <2>3 DEF Forward
    <3>2. ArchRegs[r] = rdata(r)
      BY <1>2, <2>3 DEF ArchRegs, rdata, IsaInv, WrittenBack
    <3>3. QED BY <2>1, <3>1, <3>2 DEF NoForward
  <2>4. QED BY <2>2, <2>3
<1>7. QED BY <1>4, <1>5, <1>6

-----------------------------------------------------------------------------
(* What an edge leaves in the registers of the sequential machine.         *)
LEMMA KeepsRegs ==
  ASSUME IsaInv, Clk, W' = W
  PROVE  /\ \A r \in Reg : ArchRegs'[r] = ArchRegs[r]
         /\ reg_wen(W.ins) => (rf[W.ins.rd] = wdata)'
<1>1. wdata' = wdata
  BY DEF wdata, csr_wen_W
<1>2. rf \in [Reg -> Word] /\ W.ins.rd \in Reg
  BY DEF IsaInv, FetchInv, TypeOK, Instr
<1>3. rf' = IF reg_wen(W.ins) THEN [rf EXCEPT ![W.ins.rd] = wdata] ELSE rf
  BY DEF Clk, RegisterEdges
<1>4. ASSUME NEW r \in Reg PROVE ArchRegs'[r] = ArchRegs[r]
  BY <1>1, <1>2, <1>3 DEF ArchRegs
<1>5. reg_wen(W.ins) => (rf[W.ins.rd] = wdata)'
  BY <1>1, <1>2, <1>3
<1>6. QED BY <1>4, <1>5

LEMMA RetiresRegs ==
  ASSUME IsaInv, Clk, ready_M(rvalid)
  PROVE  \A r \in Reg : ArchRegs'[r] = RegsPastM(r)
<1>1. TypeOK /\ TypeOK' /\ Known(M.ins)
  BY FetchStep DEF IsaInv, FetchInv, KnownBuffers
<1>2. CASE ~occupied_M
  BY <1>1, <1>2, HandOver, KeepsRegs DEF RegsPastM
<1>3. CASE occupied_M
  <2>1. W' = [ins |-> M.ins, pc |-> M.pc, alu |-> M.alu, rdata |-> rdata_M,
              src1 |-> M.src1, csr_rdata |-> M.csr_rdata]
    BY <1>1, <1>3, HandOver
  <2>2. WritesCsr(M.ins) <=> csr_wen_W'
    BY <2>1 DEF WritesCsr, csr_wen_W, csrrw, csrrs
  <2>3. Reg_Src(W.ins)' = "data" <=> mem_ren(M.ins)
    BY <2>1 DEF Reg_Src, mem_ren
  <2>4. wdata' = Result_M
    BY <2>1, <2>2, <2>3 DEF wdata, Result_M, rdata_M, MemRead_M
  <2>5. rf \in [Reg -> Word] /\ W.ins.rd \in Reg
    BY <1>1 DEF TypeOK, Instr
  <2>6. rf' = IF reg_wen(W.ins) THEN [rf EXCEPT ![W.ins.rd] = wdata] ELSE rf
    BY DEF Clk, RegisterEdges
  <2>7. W'.ins = M.ins
    BY <2>1
  <2>8. ASSUME NEW r \in Reg PROVE ArchRegs'[r] = RegsPastM(r)
    BY <1>3, <2>4, <2>5, <2>6, <2>7, <2>8 DEF ArchRegs, RegsPastM
  <2>9. QED BY <2>8
<1>4. QED BY <1>2, <1>3

(* Data memory changes only when M finishes a store.                       *)
LEMMA MemoryStays ==
  ASSUME FetchInv, Clk, ~occupied_M \/ ~MemWrite_M
  PROVE  mem' = mem
BY DEF FetchInv, NoHoles, occupied_M, Clk, MemoryEdges

(* The registers past M, once the instruction in E has become M: its own   *)
(* result is the load it waits for, or what the ALU computed.              *)
LEMMA PastMoves ==
  ASSUME IsaInv, Clk, ready_M(rvalid), NEW r \in Reg,
         ~(/\ valid_E_reg /\ (mem_ren(E.ins) \/ WritesCsr(E.ins))
           /\ reg_wen(E.ins) /\ E.ins.rd = r /\ r # 0)
  PROVE  RegsPastM(r)' = RegsPastE(r)
<1>1. TypeOK /\ ArchRegs'[r] = RegsPastM(r)
  BY RetiresRegs DEF IsaInv, FetchInv
<1>2. occupied_M' <=> valid_E_reg
  BY <1>1, HandOver DEF occupied_M, Accept
<1>3. CASE ~valid_E_reg
  BY <1>1, <1>2, <1>3 DEF RegsPastM, RegsPastE
<1>4. CASE valid_E_reg
  <2>1. M'.ins = E.ins /\ M'.alu = ALUResult_E
    BY <1>1, <1>4, HandOver
  <2>2. ~mem_ren(E.ins) /\ ~WritesCsr(E.ins) => Result_M' = ALUResult_E
    BY <2>1 DEF Result_M, MemRead_M, WritesCsr, csrrw, csrrs
  <2>3. QED BY <1>1, <1>2, <1>4, <2>1, <2>2 DEF RegsPastM, RegsPastE
<1>5. QED BY <1>3, <1>4

LEMMA PastWaits ==
  ASSUME IsaInv, Clk, Waits, NEW r \in Reg
  PROVE  RegsPastM(r)' = RegsPastM(r)
<1>1. TypeOK /\ M_state = "M_LOAD" /\ UNCHANGED <<M, M_state>> /\ W' = W
  BY WaitEdge DEF IsaInv, FetchInv
<1>2. ArchRegs'[r] = ArchRegs[r]
  BY <1>1, KeepsRegs
<1>3. mem' = mem
  BY <1>1, MemoryStays DEF IsaInv, FetchInv, MStateMatches, MemRead_M, MemWrite_M, mem_ren, mem_wen
<1>4. QED
  BY <1>1, <1>2, <1>3 DEF RegsPastM, Result_M, MemRead_M, occupied_M, WritesCsr, csrrw, csrrs

LEMMA OperandsStep ==
  ASSUME SpacedPrograms, IsaInv, Clk
  PROVE  OperandsRight'
<1>1. TypeOK /\ JumpsPredicted /\ NoHoles /\ OperandsRight
  BY DEF IsaInv, FetchInv
<1>2. CASE Waits
  <2>1. UNCHANGED <<E, src1_E, src2>> /\ (valid_E_reg' <=> valid_E_reg)
    BY <1>1, <1>2, WaitEdge, PreWrongStays
  <2>2. E.ins.rs1 \in Reg /\ E.ins.rs2 \in Reg
    BY <1>1 DEF TypeOK, Instr
  <2>3. RegsPastM(E.ins.rs1)' = RegsPastM(E.ins.rs1)
        /\ RegsPastM(E.ins.rs2)' = RegsPastM(E.ins.rs2)
    <3>1. \A r \in Reg : RegsPastM(r)' = RegsPastM(r)
      BY <1>2, PastWaits
    <3>2. QED BY <2>1, <2>2, <3>1 DEF RegsPastM, ArchRegs
  <2>4. QED BY <1>1, <2>1, <2>3 DEF OperandsRight
<1>3. CASE Diverts
  BY <1>1, <1>3, DivertEdge DEF OperandsRight
<1>4. CASE Holds
  BY <1>1, <1>4, HoldEdge DEF OperandsRight
<1>5. CASE Advances
  <2> SUFFICES ASSUME valid_D_reg
               PROVE  /\ ReadsRs1(E.ins)' => src1_E' = RegsPastM(E.ins.rs1)'
                      /\ ReadsRs2(E.ins)' => src2' = RegsPastM(E.ins.rs2)'
    BY <1>1, <1>5, AdvanceEdge DEF OperandsRight
  <2>1. ready_M(rvalid) /\ ~stall_D /\ ~(valid_E_reg /\ Pre_Wrong)
    BY <1>5 DEF Advances
  <2>2. /\ E'.ins = D.ins /\ E'.rdata1 = rdata(D.ins.rs1) /\ E'.rdata2 = rdata(D.ins.rs2)
        /\ fwd1' = Forward1 /\ fwd2' = Forward2
    BY <1>1, <1>5, <2>1, AdvanceEdge, HandOver
  <2>3. /\ D.ins.rs1 \in Reg /\ D.ins.rs2 \in Reg
        /\ E.ins \in Instr /\ Known(E.ins) /\ M.ins \in Instr /\ Known(M.ins)
    BY <1>1 DEF TypeOK, Instr, IsaInv, KnownBuffers
  <2>4. valid_E_reg => ~idle_E
    BY DEF idle_E
  <2>5. /\ valid_E_reg => UseApart(E.ins, D.ins)
        /\ occupied_M => UseApart(M.ins, D.ins)
    BY <2>1, DecodedApart
  <2>6. ASSUME NEW r \in Reg, r = D.ins.rs1, ReadsRs1(D.ins) PROVE src1_E' = RegsPastM(r)'
    <3>1. /\ ~(valid_E_reg /\ (mem_ren(E.ins) \/ WritesCsr(E.ins)) /\ conflict(r, E.ins))
          /\ ~(occupied_M /\ WritesCsr(M.ins) /\ conflict(r, M.ins))
      BY <2>1, <2>4, <2>5, <2>6 DEF stall_D, UseApart, conflict
    <3>2. src1_E' = RegsPastE(r)
      BY <2>1, <2>2, <2>3, <2>6, <3>1, ForwardRight DEF src1_E, Forward1
    <3>3. ~(/\ valid_E_reg /\ (mem_ren(E.ins) \/ WritesCsr(E.ins))
            /\ reg_wen(E.ins) /\ E.ins.rd = r /\ r # 0)
      BY <2>3, <3>1, Conflicts
    <3>4. QED BY <2>1, <3>2, <3>3, PastMoves
  <2>7. ASSUME NEW r \in Reg, r = D.ins.rs2, ReadsRs2(D.ins) PROVE src2' = RegsPastM(r)'
    <3>1. ~no_rs2(D.ins)
      BY <2>7 DEF ReadsRs2, no_rs2, I_type, U_type, J_type
    <3>2. /\ conflict_rs2(E.ins) <=> conflict(r, E.ins)
          /\ conflict_rs2(M.ins) <=> conflict(r, M.ins)
          /\ conflict_rs2(W.ins) <=> conflict(r, W.ins)
      BY <2>7, <3>1 DEF conflict_rs2
    <3>3. Forward2 = Forward(conflict(r, E.ins), conflict(r, M.ins), conflict(r, W.ins))
      BY <3>2 DEF Forward2, Forward
    <3>4. /\ ~(valid_E_reg /\ (mem_ren(E.ins) \/ WritesCsr(E.ins)) /\ conflict(r, E.ins))
          /\ ~(occupied_M /\ WritesCsr(M.ins) /\ conflict(r, M.ins))
      BY <2>1, <2>4, <2>5, <2>7, <3>2 DEF stall_D, UseApart, conflict
    <3>5. src2' = RegsPastE(r)
      BY <2>1, <2>2, <2>3, <2>7, <3>3, <3>4, ForwardRight DEF src2
    <3>6. ~(/\ valid_E_reg /\ (mem_ren(E.ins) \/ WritesCsr(E.ins))
            /\ reg_wen(E.ins) /\ E.ins.rd = r /\ r # 0)
      BY <2>3, <3>4, Conflicts
    <3>7. QED BY <2>1, <3>5, <3>6, PastMoves
  <2>8. ReadsRs1(E.ins)' => src1_E' = RegsPastM(E.ins.rs1)'
    <3>1. E'.ins.rs1 = D.ins.rs1 /\ (ReadsRs1(E.ins)' <=> ReadsRs1(D.ins))
      BY <2>2 DEF ReadsRs1, csrrw, csrrs
    <3>2. QED BY <2>3, <2>6, <3>1 DEF RegsPastM, ArchRegs
  <2>9. ReadsRs2(E.ins)' => src2' = RegsPastM(E.ins.rs2)'
    <3>1. E'.ins.rs2 = D.ins.rs2 /\ (ReadsRs2(E.ins)' <=> ReadsRs2(D.ins))
      BY <2>2 DEF ReadsRs2
    <3>2. QED BY <2>3, <2>7, <3>1 DEF RegsPastM, ArchRegs
  <2>10. QED BY <2>8, <2>9
<1>6. QED BY <1>2, <1>3, <1>4, <1>5, EdgeKinds

(* The oldest instruction after an edge: the one in M, until M hands it    *)
(* over; then the one behind it.                                           *)
LEMMA NextOldest ==
  ASSUME FetchInv, Clk
  PROVE  /\ ready_M(rvalid) => OldestPC' = FollowsM
         /\ ~ready_M(rvalid) => OldestPC' = OldestPC
         /\ occupied_M => OldestPC = M.pc
         /\ ~occupied_M => OldestPC = FollowsM
<1>1. TypeOK /\ JumpsPredicted /\ NoHoles
  BY DEF FetchInv
<1>2. CASE Waits
  BY <1>1, <1>2, WaitEdge DEF OldestPC, FollowsM, occupied_M, Waits
<1>3. ASSUME ready_M(rvalid) PROVE OldestPC' = FollowsM
  <2>1. (M_state' # "M_IDLE" <=> valid_E_reg) /\ (valid_E_reg => M'.pc = E.pc)
    BY <1>1, <1>3, HandOver DEF Accept
  <2>2. CASE valid_E_reg
    BY <2>1, <2>2 DEF OldestPC, FollowsM
  <2>3. CASE ~valid_E_reg
    <3>1. Advances
      BY <1>1, <1>3, <2>3, Handshake DEF Advances
    <3>2. QED BY <1>1, <2>1, <2>3, <3>1, AdvanceEdge DEF OldestPC, FollowsM
  <2>4. QED BY <2>2, <2>3
<1>4. QED BY <1>2, <1>3 DEF Waits, OldestPC, FollowsM, occupied_M

(* What an edge leaves in the CSRs of the sequential machine: W's write is *)
(* in the CSR file after it, and the one of M is then W's.                 *)
LEMMA CsrsWritten ==
  ASSUME TypeOK, Clk
  PROVE  \A c \in Csr : csr'[c] = ArchCsrs[c]
<1>1. csr \in [Csr -> Word] /\ csr_idx(W.ins.csr) \in Csr
  BY DEF TypeOK, csr_idx, Csr
<1>2. csr' = IF csr_wen_W THEN [csr EXCEPT ![csr_idx(W.ins.csr)] = csr_wdata_W] ELSE csr
  BY DEF Clk, RegisterEdges
<1>3. QED BY <1>1, <1>2 DEF ArchCsrs

LEMMA KeepsCsrs ==
  ASSUME TypeOK, Clk, W' = W
  PROVE  ArchCsrs' = ArchCsrs
<1>1. csr_wen_W' = csr_wen_W /\ csr_wdata_W' = csr_wdata_W
  BY DEF csr_wen_W, csr_wdata_W
<1>2. \A c \in Csr : csr'[c] = ArchCsrs[c]
  BY CsrsWritten
<1>3. ASSUME NEW c \in Csr PROVE ArchCsrs'[c] = ArchCsrs[c]
  BY <1>1, <1>2 DEF ArchCsrs
<1>4. ArchCsrs = [c \in Csr |-> ArchCsrs[c]] /\ ArchCsrs' = [c \in Csr |-> ArchCsrs'[c]]
  BY DEF ArchCsrs
<1>5. QED BY <1>3, <1>4

CsrWritten_M == IF csrrs(M.ins) THEN Or(M.src1, M.csr_rdata) ELSE M.src1

LEMMA RetiresCsrs ==
  ASSUME IsaInv, Clk, ready_M(rvalid)
  PROVE  \A c \in Csr :
           ArchCsrs'[c] = IF occupied_M /\ WritesCsr(M.ins) /\ M.ins.csr = c
                          THEN CsrWritten_M ELSE ArchCsrs[c]
<1>1. TypeOK /\ M.ins \in Instr /\ Known(M.ins)
  BY DEF IsaInv, FetchInv, TypeOK, KnownBuffers
<1>2. CASE ~occupied_M
  BY <1>1, <1>2, HandOver, KeepsCsrs
<1>3. CASE occupied_M
  <2>1. W' = [ins |-> M.ins, pc |-> M.pc, alu |-> M.alu, rdata |-> rdata_M,
              src1 |-> M.src1, csr_rdata |-> M.csr_rdata]
    BY <1>1, <1>3, HandOver
  <2>2. csr_wen_W' <=> WritesCsr(M.ins)
    BY <2>1 DEF WritesCsr, csr_wen_W, csrrw, csrrs
  <2>3. csr_wdata_W' = CsrWritten_M
    BY <2>1 DEF csr_wdata_W, CsrWritten_M, csrrs
  <2>4. WritesCsr(M.ins) => csr_idx(W.ins.csr)' = M.ins.csr
    BY <1>1, <2>1, CsrOpcodes DEF csr_idx
  <2>5. \A c \in Csr : csr'[c] = ArchCsrs[c]
    BY <1>1, CsrsWritten
  <2>6. ASSUME NEW c \in Csr
        PROVE  ArchCsrs'[c] = IF csr_wen_W' /\ csr_idx(W.ins.csr)' = c
                              THEN csr_wdata_W' ELSE csr'[c]
    BY DEF ArchCsrs
  <2>7. QED BY <1>3, <2>2, <2>3, <2>4, <2>5, <2>6
<1>4. QED BY <1>2, <1>3

LEMMA CsrsStep ==
  ASSUME SpacedPrograms, IsaInv, Clk
  PROVE  CsrsRight'
<1>1. TypeOK /\ JumpsPredicted /\ NoHoles /\ CsrsRight
  BY DEF IsaInv, FetchInv
<1>2. CASE Waits
  <2>1. /\ UNCHANGED <<E, M>> /\ (valid_E_reg' <=> valid_E_reg)
        /\ (occupied_M' <=> occupied_M) /\ ArchCsrs' = ArchCsrs
    BY <1>1, <1>2, WaitEdge, KeepsCsrs DEF occupied_M
  <2>2. QED BY <1>1, <2>1 DEF CsrsRight, ReadsCsr, csr_raddr, mret, csrrs, csrrw
<1>3. CASE ready_M(rvalid)
  <2>1. occupied_M' /\ ReadsCsr(M.ins)' => M.csr_rdata' = ArchCsrs[csr_raddr(M.ins)]'
    <3>1. (occupied_M' <=> valid_E_reg)
          /\ (valid_E_reg => M'.ins = E.ins /\ M'.csr_rdata = E.csr_rdata)
      BY <1>1, <1>3, HandOver DEF occupied_M, Accept
    <3> SUFFICES ASSUME valid_E_reg, ReadsCsr(E.ins)
                 PROVE  E.csr_rdata = ArchCsrs'[csr_raddr(E.ins)]
      BY <3>1 DEF ReadsCsr, csr_raddr, mret, csrrs, csrrw
    <3>2. E.csr_rdata = ArchCsrs[csr_raddr(E.ins)]
      BY <1>1 DEF CsrsRight
    <3>3. csr_raddr(E.ins) \in Csr
      BY CsrOpcodes DEF IsaInv, FetchInv, TypeOK, KnownBuffers
    <3>4. ~(occupied_M /\ WritesCsr(M.ins) /\ M.ins.csr = csr_raddr(E.ins))
      BY ExecutedApart DEF CsrApart
    <3>5. QED BY <1>3, <3>2, <3>3, <3>4, RetiresCsrs
  <2>2. valid_E_reg' /\ ReadsCsr(E.ins)' => E.csr_rdata' = ArchCsrs[csr_raddr(E.ins)]'
    <3>1. CASE Diverts
      BY <1>1, <3>1, DivertEdge
    <3>2. CASE Holds
      BY <1>1, <3>2, HoldEdge
    <3>3. CASE Advances
      <4>1. (valid_E_reg' <=> valid_D_reg)
            /\ (valid_D_reg => E'.ins = D.ins /\ E'.csr_rdata = csr_rdata_D)
        BY <1>1, <3>3, AdvanceEdge
      <4> SUFFICES ASSUME valid_D_reg, ReadsCsr(D.ins)
                   PROVE  csr_rdata_D = ArchCsrs'[csr_raddr(D.ins)]
        BY <4>1 DEF ReadsCsr, csr_raddr, mret, csrrs, csrrw
      <4> DEFINE c == csr_raddr(D.ins)
      <4>2. c \in Csr /\ csr_idx(c) = c
        BY CsrOpcodes DEF IsaInv, FetchInv, TypeOK, KnownBuffers
      <4>3. (occupied_M => CsrApart(M.ins, D.ins)) /\ CsrApart(W.ins, D.ins)
        BY <3>3, DecodedApart DEF Advances
      <4>4. WritesCsr(W.ins) => csr_idx(W.ins.csr) = W.ins.csr
        BY CsrOpcodes DEF IsaInv, FetchInv, TypeOK, KnownBuffers
      <4>5. ArchCsrs[c] = csr[c]
        BY <4>2, <4>3, <4>4 DEF ArchCsrs, CsrApart, csr_wen_W, WritesCsr
      <4>6. ArchCsrs'[c] = ArchCsrs[c]
        BY <1>3, <4>2, <4>3, RetiresCsrs DEF CsrApart
      <4>7. QED BY <4>2, <4>5, <4>6 DEF csr_rdata_D
    <3>4. QED BY <1>3, <3>1, <3>2, <3>3, EdgeKinds DEF Waits
  <2>3. QED BY <2>1, <2>2 DEF CsrsRight
<1>4. QED BY <1>2, <1>3 DEF Waits

(* What W shows after an edge comes just before the oldest instruction.    *)
LEMMA AfterWStep ==
  ASSUME IsaInv, Clk
  PROVE  AfterW'
<1>1. FetchInv /\ TypeOK /\ AfterW /\ prog' = prog
  BY DEF IsaInv, FetchInv, Clk
<1>2. CASE ready_M(rvalid) /\ occupied_M
  <2>1. W'.pc = M.pc /\ W'.ins = M.ins /\ OldestPC' = FollowsM
    BY <1>1, <1>2, HandOver, NextOldest
  <2>2. M.pc \in Word /\ M.ins = prog[M.pc] /\ MayFollow(prog, M.pc, FollowsM)
    BY <1>2, InProgram
  <2>3. W'.pc \in Word /\ W'.ins = prog'[W'.pc] /\ MayFollow(prog', W'.pc, OldestPC')
    BY <1>1, <2>1, <2>2
  <2>4. QED BY <2>3 DEF AfterW, MayFollow, mret
<1>3. CASE ~(ready_M(rvalid) /\ occupied_M)
  <2>1. W' = W /\ OldestPC' = OldestPC
    BY <1>1, <1>3, WaitEdge, HandOver, NextOldest DEF Waits
  <2>2. QED BY <1>1, <2>1 DEF AfterW, MayFollow, mret
<1>4. QED BY <1>2, <1>3

(* What follows E once it is in M is where E goes.                         *)
LEMMA FollowsStep ==
  ASSUME FetchInv, Clk, ready_M(rvalid), valid_E_reg
  PROVE  FollowsM' = GoesTo(E.ins, E.pc, src1_E, src2, E.csr_rdata)
<1>1. TypeOK /\ JumpsPredicted /\ NoHoles /\ PredictionFollowed
  BY DEF FetchInv
<1>2. CASE Diverts
  BY <1>1, <1>2, DivertEdge, StageGoes DEF FollowsM
<1>3. CASE ~Diverts
  <2>1. ~Pre_Wrong /\ valid_D_reg /\ D.pc = GoesTo(E.ins, E.pc, src1_E, src2, E.csr_rdata)
    BY <1>1, <1>3, StageGoes DEF Diverts, NoHoles, PredictionFollowed
  <2>2. CASE Holds
    BY <1>1, <2>1, <2>2, HoldEdge DEF FollowsM
  <2>3. CASE Advances
    BY <1>1, <2>1, <2>3, AdvanceEdge DEF FollowsM
  <2>4. QED BY <1>3, <2>2, <2>3, EdgeKinds DEF Waits
<1>4. QED BY <1>2, <1>3

LEMMA ExecutedStep ==
  ASSUME IsaInv, Clk
  PROVE  ExecutedRight'
<1>1. FetchInv /\ TypeOK /\ MStateMatches /\ E.ins \in Instr
  BY DEF IsaInv, FetchInv, TypeOK
<1>2. M.ins.rs1 \in Reg /\ M.ins.rs2 \in Reg /\ E.ins.rs1 \in Reg /\ E.ins.rs2 \in Reg
  BY <1>1 DEF TypeOK, Instr
<1>3. CASE Waits
  <2>1. /\ UNCHANGED <<M, E, D, PC_reg_F, M_state>> /\ W' = W /\ M_state = "M_LOAD"
        /\ (valid_E_reg' <=> valid_E_reg)
        /\ (~valid_E_reg => (valid_D_reg' <=> valid_D_reg))
    BY <1>1, <1>3, WaitEdge
  <2>2. FollowsM' = FollowsM /\ (occupied_M' <=> occupied_M)
    BY <2>1 DEF FollowsM, occupied_M
  <2>3. ArchRegs'[M.ins.rs1] = ArchRegs[M.ins.rs1] /\ ArchRegs'[M.ins.rs2] = ArchRegs[M.ins.rs2]
    BY <1>2, <2>1, KeepsRegs
  <2>4. QED
    BY <2>1, <2>2, <2>3
    DEF IsaInv, ExecutedRight, MemWrite_M, Computes, GoesTo, Calculates, WritesCsr, mret,
        csrrw, csrrs
<1>4. CASE ready_M(rvalid) /\ ~valid_E_reg
  BY <1>1, <1>4, HandOver DEF ExecutedRight, occupied_M, Accept
<1>5. CASE ready_M(rvalid) /\ valid_E_reg
  <2> DEFINE a == ArchRegs'[E.ins.rs1]
             b == ArchRegs'[E.ins.rs2]
  <2>1. /\ M'.ins = E.ins /\ M'.pc = E.pc /\ M'.alu = ALUResult_E /\ M'.rdata2 = src2
        /\ M'.src1 = src1_E /\ M'.csr_rdata = E.csr_rdata
    BY <1>1, <1>5, HandOver
  <2>2. (ReadsRs1(E.ins) => src1_E = a) /\ (ReadsRs2(E.ins) => src2 = b)
    BY <1>2, <1>5, RetiresRegs DEF IsaInv, OperandsRight
  <2>3. Calculates(E.ins) => ALUResult_E = Computes(E.ins, E.pc, a, b)
    BY <1>1, <2>2, StageComputes, OperandsUsed
  <2>4. mem_wen(E.ins) => src2 = b
    BY <2>2 DEF mem_wen, ReadsRs2
  <2>5. WritesCsr(E.ins) => src1_E = a
    BY <2>2 DEF WritesCsr, ReadsRs1
  <2>6. FollowsM' = GoesTo(E.ins, E.pc, a, b, E.csr_rdata)
    <3>1. FollowsM' = GoesTo(E.ins, E.pc, src1_E, src2, E.csr_rdata)
      BY <1>1, <1>5, FollowsStep
    <3>2. QED BY <1>1, <2>2, <3>1, OperandsUsed
  <2> HIDE DEF a, b
  <2>7. a = ArchRegs'[M'.ins.rs1] /\ b = ArchRegs'[M'.ins.rs2]
    BY <2>1 DEF a, b
  <2>8. QED
    BY <2>1, <2>3, <2>4, <2>5, <2>6, <2>7
    DEF ExecutedRight, MemWrite_M, Computes, GoesTo, Calculates, WritesCsr, mret, csrrw, csrrs
<1>6. QED BY <1>3, <1>4, <1>5 DEF Waits

LEMMA WrittenStep ==
  ASSUME IsaInv, Clk
  PROVE  WrittenBack'
<1>1. TypeOK /\ WrittenBack
  BY DEF IsaInv, FetchInv
<1>2. CASE W' = W
  BY <1>2, KeepsRegs DEF WrittenBack
<1>3. CASE W' # W
  <2>1. valid_W_reg'
    BY <1>1, <1>3, WaitEdge, HandOver DEF Waits
  <2>2. QED BY <2>1 DEF WrittenBack
<1>4. QED BY <1>2, <1>3

LEMMA KnownStep ==
  ASSUME SpacedPrograms, IsaInv, Clk
  PROVE  KnownBuffers'
<1>1. TypeOK /\ KnownBuffers
  BY DEF IsaInv, FetchInv
<1>2. Known(instr_F)
  BY <1>1 DEF SpacedPrograms, TypeOK, instr_F
<1>3. D'.ins = D.ins \/ D'.ins = instr_F
  BY DEF Clk, BufferEdges
<1>4. E'.ins = E.ins \/ E'.ins = D.ins
  BY DEF Clk, BufferEdges
<1>5. M'.ins = M.ins \/ M'.ins = E.ins
  BY DEF Clk, BufferEdges
<1>6. W'.ins = W.ins \/ W'.ins = M.ins
  BY DEF Clk, BufferEdges
<1>7. Known(D'.ins) /\ Known(E'.ins) /\ Known(M'.ins) /\ Known(W'.ins)
  BY <1>1, <1>2, <1>3, <1>4, <1>5, <1>6 DEF KnownBuffers
<1>8. QED BY <1>7 DEF KnownBuffers, Known, WritesCsr, mret, csrrw, csrrs

LEMMA IsaInit == Init => IsaInv
<1> SUFFICES ASSUME Init PROVE IsaInv
  OBVIOUS
<1>1. ~valid_E_reg /\ M_state = "M_IDLE" /\ W.ins = NoInstr
  BY DEF Init, CtrlInit
<1>2. KnownBuffers
  BY DEF Init, KnownBuffers, Known, NoInstr, CSR_OPCODE
<1>3. WrittenBack
  BY <1>1 DEF WrittenBack, NoInstr, reg_wen, CSR_OPCODE
<1>4. OperandsRight /\ CsrsRight /\ ExecutedRight
  BY <1>1 DEF OperandsRight, CsrsRight, ExecutedRight, occupied_M
<1>5. AfterW
  BY <1>1 DEF AfterW
<1>6. QED BY FetchInit, <1>2, <1>3, <1>4, <1>5 DEF IsaInv

LEMMA IsaStep ==
  ASSUME SpacedPrograms, IsaInv, Clk
  PROVE  IsaInv'
BY FetchStep, KnownStep, WrittenStep, OperandsStep, CsrsStep, AfterWStep, ExecutedStep DEF IsaInv

-----------------------------------------------------------------------------
LEMMA InitRefines == Init => Reference!Init
<1> SUFFICES ASSUME Init PROVE Reference!Init
  OBVIOUS
<1>1. /\ ~valid_D_reg /\ ~valid_E_reg /\ M_state = "M_IDLE" /\ W.ins = NoInstr
      /\ PC_reg_F = PC_rst /\ mem = Mem0 /\ rf = [r \in Reg |-> 0]
      /\ csr = [c \in Csr |-> IF c = "mstatus" THEN Wrap(6144) ELSE 0]
  BY DEF Init, CtrlInit
<1>2. OldestPC = PC_rst
  BY <1>1 DEF OldestPC
<1>3. ~reg_wen(W.ins) /\ ~csr_wen_W
  BY <1>1 DEF NoInstr, reg_wen, csr_wen_W, csrrw, csrrs, CSR_OPCODE
<1>4. ArchRegs = [r \in Reg |-> 0]
  BY <1>1, <1>3 DEF ArchRegs
<1>5. ArchCsrs = [c \in Reference!Csr |-> IF c = "mstatus" THEN Reference!Wrap(6144) ELSE 0]
  BY <1>1, <1>3, SameArithmetic DEF ArchCsrs, Reference!Csr, Csr
<1>6. QED BY <1>1, <1>2, <1>4, <1>5 DEF Reference!Init

LEMMA OrCommutes ==
  ASSUME NEW a \in Word, NEW b \in Word
  PROVE  Or(a, b) = Or(b, a)
<1>1. Not(a) \in Word /\ Not(b) \in Word
  BY NotBits
<1>2. ASSUME NEW x \in Word, NEW y \in Word PROVE And(x, y) = And(y, x)
  <2>1. ASSUME NEW k \in 0 .. XLEN - 1 PROVE Bit(x, k) * Bit(y, k) = Bit(y, k) * Bit(x, k)
    <3>1. Bit(x, k) \in {0, 1} /\ Bit(y, k) \in {0, 1}
      BY BitRange, WordRange, XLENAssumption
    <3>2. QED BY <3>1
  <2>2. [k \in 0 .. XLEN - 1 |-> Bit(x, k) * Bit(y, k)]
          = [k \in 0 .. XLEN - 1 |-> Bit(y, k) * Bit(x, k)]
    BY <2>1
  <2>3. QED BY <2>2 DEF And
<1>3. And(Not(a), Not(b)) = And(Not(b), Not(a))
  BY <1>1, <1>2
<1>4. QED BY <1>3 DEF Or

LEMMA StepRefines ==
  ASSUME SpacedPrograms, IsaInv, Clk, ready_M(rvalid), occupied_M
  PROVE  Reference!Step
<1> DEFINE i == M.ins
           a == ArchRegs[i.rs1]
           b == ArchRegs[i.rs2]
<1>1. FetchInv /\ TypeOK /\ Known(i) /\ i = prog[M.pc] /\ OldestPC = M.pc /\ prog' = prog
  BY NextOldest DEF IsaInv, FetchInv, KnownBuffers, BuffersHoldProgram, Clk
<1>2. /\ Calculates(i) => M.alu = Computes(i, M.pc, a, b)
      /\ MemWrite_M => M.rdata2 = b
      /\ WritesCsr(i) => M.src1 = a
      /\ FollowsM = GoesTo(i, M.pc, a, b, M.csr_rdata)
      /\ ReadsCsr(i) => M.csr_rdata = ArchCsrs[csr_raddr(i)]
  BY DEF IsaInv, ExecutedRight, CsrsRight
<1>3. i \in Instr /\ i.rd \in Reg /\ i.rs1 \in Reg /\ i.rs2 \in Reg
      /\ M.src1 \in Word /\ M.csr_rdata \in Word
  BY <1>1 DEF TypeOK, Instr
<1>4. (Reference!IsCsr(i) <=> WritesCsr(i)) /\ (Reference!IsMret(i) <=> mret(i))
  BY DEF Reference!IsCsr, Reference!IsMret, WritesCsr, csrrw, csrrs, mret, CSR_OPCODE
<1>5. Reference!WritesRd(i) <=> reg_wen(i) /\ i.rd # 0
  BY <1>1, <1>3, InstrType DEF Reference!WritesRd, reg_wen, Known, CSR_OPCODE
<1>6. /\ WritesCsr(i) => i.csr \in Csr /\ csr_raddr(i) = i.csr /\ i.opcode = CSR_OPCODE
      /\ csrrs(i) => WritesCsr(i) /\ ReadsCsr(i)
      /\ WritesCsr(i) /\ i.rd # 0 => ReadsCsr(i)
      /\ mret(i) => ReadsCsr(i) /\ csr_raddr(i) = "mepc"
  BY <1>1, <1>3, CsrOpcodes DEF WritesCsr, ReadsCsr, csr_raddr, csrrw, csrrs
<1> HIDE DEF i, a, b
<1>7. OldestPC' = Reference!NextPc(i, a, b)
  <2>1. Reference!NextPc(i, a, b) = GoesTo(i, M.pc, a, b, ArchCsrs["mepc"])
    BY <1>1, <1>4, SameArithmetic DEF Reference!NextPc, GoesTo
  <2>2. GoesTo(i, M.pc, a, b, ArchCsrs["mepc"]) = GoesTo(i, M.pc, a, b, M.csr_rdata)
    BY <1>2, <1>6 DEF GoesTo
  <2>3. QED BY <1>1, <1>2, <2>1, <2>2, NextOldest
<1>8. Reference!WritesRd(i) => Result_M = Reference!Result(i, a, b)
  <2> SUFFICES ASSUME Reference!WritesRd(i) PROVE Result_M = Reference!Result(i, a, b)
    OBVIOUS
  <2>1. CASE i.opcode = "load"
    <3>1. Calculates(i) /\ ~WritesCsr(i) /\ MemRead_M
      BY <2>1 DEF Calculates, WritesCsr, csrrw, csrrs, CSR_OPCODE, MemRead_M, mem_ren, i
    <3>2. Result_M = mem[M.alu] /\ M.alu = Wrap(a + i.imm)
      BY <1>2, <2>1, <3>1 DEF Result_M, Computes, i
    <3>3. Reference!Result(i, a, b) = mem[Reference!Wrap(a + i.imm)]
      BY <1>4, <2>1, <3>1 DEF Reference!Result
    <3>4. QED BY <3>2, <3>3, SameArithmetic
  <2>2. CASE WritesCsr(i)
    <3>1. Result_M = M.csr_rdata
      BY <2>2 DEF Result_M, i
    <3>2. M.csr_rdata = ArchCsrs[i.csr]
      BY <1>2, <1>5, <1>6, <2>2
    <3>3. Reference!Result(i, a, b) = ArchCsrs[i.csr]
      BY <1>4, <1>6, <2>2 DEF Reference!Result, CSR_OPCODE
    <3>4. QED BY <3>1, <3>2, <3>3
  <2>3. CASE i.opcode # "load" /\ ~WritesCsr(i)
    <3>1. Result_M = M.alu
      BY <2>3 DEF Result_M, MemRead_M, mem_ren, i
    <3>2. i.opcode \in {"R_type", "I_type", "jal", "jalr", "lui", "auipc"}
      <4>1. i.opcode # CSR_OPCODE
        BY <1>1, <1>5, <2>3 DEF Known
      <4>2. QED BY <1>3, <2>3, <4>1, InstrType DEF Reference!WritesRd
    <3>3. M.alu = Computes(i, M.pc, a, b)
      BY <1>2, <3>2 DEF Calculates, CSR_OPCODE
    <3>4. CASE i.opcode = "R_type"
      <4>1. Reference!Result(i, a, b) = Reference!Arith(i.funct3, i.funct7 = 1, a, b)
        BY <1>4, <2>3, <3>4 DEF Reference!Result
      <4>2. M.alu = Arith(i.funct3, i.funct7 = 1, a, b)
        BY <3>3, <3>4 DEF Computes
      <4>3. QED BY <3>1, <4>1, <4>2, SameArithmetic
    <3>5. CASE i.opcode = "I_type"
      <4>1. Reference!Result(i, a, b)
              = Reference!Arith(i.funct3, i.funct7 = 1 /\ i.funct3 = 5, a, i.imm)
        BY <1>4, <2>3, <3>5 DEF Reference!Result
      <4>2. M.alu = Arith(i.funct3, i.funct7 = 1 /\ i.funct3 = 5, a, i.imm)
        BY <3>3, <3>5 DEF Computes
      <4>3. QED BY <3>1, <4>1, <4>2, SameArithmetic
    <3>6. CASE i.opcode \in {"jal", "jalr", "lui", "auipc"}
      BY <1>1, <1>4, <2>3, <3>1, <3>3, <3>6, SameArithmetic DEF Reference!Result, Computes
    <3>7. QED BY <3>2, <3>4, <3>5, <3>6
  <2>4. QED BY <2>1, <2>2, <2>3
<1>9. ArchRegs' = IF Reference!WritesRd(i)
                  THEN [ArchRegs EXCEPT ![i.rd] = Reference!Result(i, a, b)] ELSE ArchRegs
  <2>1. \A r \in Reg : ArchRegs'[r] = IF Reference!WritesRd(i) /\ i.rd = r
                                      THEN Reference!Result(i, a, b) ELSE ArchRegs[r]
    BY <1>5, <1>8, RetiresRegs DEF RegsPastM, i
  <2>2. ArchRegs = [r \in Reg |-> ArchRegs[r]] /\ ArchRegs' = [r \in Reg |-> ArchRegs'[r]]
    BY DEF ArchRegs
  <2>3. QED BY <2>1, <2>2
<1>10. ArchCsrs' = IF Reference!IsCsr(i)
                   THEN [ArchCsrs EXCEPT ![i.csr] = IF i.funct3 = 1 THEN a
                                                    ELSE Reference!Or(ArchCsrs[i.csr], a)]
                   ELSE ArchCsrs
  <2> DEFINE new == IF i.funct3 = 1 THEN a ELSE Reference!Or(ArchCsrs[i.csr], a)
  <2>1. ASSUME WritesCsr(i) PROVE CsrWritten_M = new
    <3>1. M.src1 = a
      BY <1>2, <2>1
    <3>2. CASE csrrs(i)
      <4>1. M.csr_rdata = ArchCsrs[i.csr] /\ i.funct3 = 2
        BY <1>2, <1>6, <3>2 DEF csrrs
      <4>2. CsrWritten_M = Or(a, M.csr_rdata)
        BY <3>1, <3>2 DEF CsrWritten_M, i
      <4>3. Or(a, M.csr_rdata) = Or(M.csr_rdata, a)
        BY <1>3, <3>1, OrCommutes
      <4>4. QED BY <4>1, <4>2, <4>3, SameArithmetic
    <3>3. CASE ~csrrs(i)
      <4>1. i.funct3 = 1 /\ CsrWritten_M = a
        BY <2>1, <3>1, <3>3 DEF WritesCsr, csrrw, CsrWritten_M, i
      <4>2. QED BY <4>1
    <3>4. QED BY <3>2, <3>3
  <2>2. \A c \in Csr : ArchCsrs'[c] = IF WritesCsr(i) /\ i.csr = c THEN CsrWritten_M
                                                                ELSE ArchCsrs[c]
    BY RetiresCsrs DEF i
  <2>3. ArchCsrs = [c \in Csr |-> ArchCsrs[c]] /\ ArchCsrs' = [c \in Csr |-> ArchCsrs'[c]]
    BY DEF ArchCsrs
  <2> HIDE DEF new
  <2>4. CASE WritesCsr(i)
    <3>1. \A c \in Csr : ArchCsrs'[c] = IF i.csr = c THEN new ELSE ArchCsrs[c]
      BY <2>1, <2>2, <2>4
    <3>2. ArchCsrs' = [ArchCsrs EXCEPT ![i.csr] = new]
      BY <2>3, <3>1
    <3>3. QED BY <1>4, <2>4, <3>2 DEF new
  <2>5. CASE ~WritesCsr(i)
    BY <1>4, <2>2, <2>3, <2>5
  <2>6. QED BY <2>4, <2>5
<1>11. mem' = IF i.opcode = "store"
              THEN [mem EXCEPT ![Reference!Wrap(a + i.imm)] = b] ELSE mem
  <2>1. MemWrite_M <=> i.opcode = "store"
    BY DEF MemWrite_M, mem_wen, i
  <2>2. i.opcode = "store" => M.alu = Wrap(a + i.imm)
    BY <1>2 DEF Computes, Calculates, CSR_OPCODE
  <2>3. QED BY <1>2, <2>1, <2>2, SameArithmetic DEF Clk, MemoryEdges
<1>12. QED
  BY <1>1, <1>7, <1>9, <1>10, <1>11 DEF Reference!Step, a, b

(* Between two hand-overs of M the sequential machine stands still.        *)
LEMMA StepStutters ==
  ASSUME IsaInv, Clk, ~(ready_M(rvalid) /\ occupied_M)
  PROVE  UNCHANGED <<prog, OldestPC, ArchRegs, ArchCsrs, mem>>
<1>1. FetchInv /\ TypeOK /\ MStateMatches
  BY DEF IsaInv, FetchInv
<1>2. W' = W
  BY <1>1, WaitEdge, HandOver DEF Waits
<1>3. OldestPC' = OldestPC
  BY <1>1, NextOldest
<1>4. prog' = prog /\ ArchCsrs' = ArchCsrs
  BY <1>1, <1>2, KeepsCsrs DEF Clk
<1>5. ArchRegs' = ArchRegs
  <2>1. \A r \in Reg : ArchRegs'[r] = ArchRegs[r]
    BY <1>2, KeepsRegs
  <2>2. ArchRegs = [r \in Reg |-> ArchRegs[r]] /\ ArchRegs' = [r \in Reg |-> ArchRegs'[r]]
    BY DEF ArchRegs
  <2>3. QED BY <2>1, <2>2
<1>6. mem' = mem
  <2>1. occupied_M => M_state = "M_LOAD"
    BY <1>1, Handshake
  <2>2. ~occupied_M \/ ~MemWrite_M
    BY <1>1, <2>1 DEF MStateMatches, MemRead_M, MemWrite_M, mem_ren, mem_wen
  <2>3. QED BY <1>1, <2>2, MemoryStays
<1>7. QED BY <1>3, <1>4, <1>5, <1>6

LEMMA IsaStutter ==
  ASSUME IsaInv, UNCHANGED pipeVars
  PROVE  IsaInv'
<1>1. FetchInv'
  BY FetchStutter DEF IsaInv
<1>2. UNCHANGED <<prog, mem, PC_reg_F, D, E, M, W, M_state, rf, csr, fwd1, fwd2>>
      /\ UNCHANGED <<valid_D_reg, valid_E_reg, valid_W_reg>>
  BY DEF pipeVars
<1>3. KnownBuffers'
  BY <1>2 DEF IsaInv, KnownBuffers, Known, WritesCsr, mret, csrrw, csrrs
<1>4. UNCHANGED <<wdata, ArchRegs, FollowsM, MemRead_M, MemWrite_M, Result_M, occupied_M>>
  BY <1>2
  DEF wdata, csr_wen_W, ArchRegs, FollowsM, MemRead_M, MemWrite_M, Result_M, occupied_M,
      WritesCsr, csrrw, csrrs
<1>5. UNCHANGED <<ArchCsrs, OldestPC>>
  BY <1>2 DEF ArchCsrs, csr_wen_W, csr_wdata_W, OldestPC
<1>6. WrittenBack'
  BY <1>2, <1>4 DEF IsaInv, WrittenBack
<1>7. OperandsRight'
  <2>1. src1_E' = src1_E /\ src2' = src2
    BY <1>2, PreWrongStays
  <2>2. QED
    BY <1>2, <1>4, <2>1
    DEF IsaInv, OperandsRight, RegsPastM, ReadsRs1, ReadsRs2, csrrw, csrrs
<1>8. CsrsRight'
  BY <1>2, <1>4, <1>5 DEF IsaInv, CsrsRight, ReadsCsr, csr_raddr, mret, csrrs, csrrw
<1>9. AfterW'
  BY <1>2, <1>5 DEF IsaInv, AfterW, MayFollow, mret
<1>10. ExecutedRight'
  BY <1>2, <1>4
  DEF IsaInv, ExecutedRight, Computes, GoesTo, Calculates, WritesCsr, mret, csrrw, csrrs
<1>11. QED BY <1>1, <1>3, <1>6, <1>7, <1>8, <1>9, <1>10 DEF IsaInv

(* For every word size, register file, BTB size and data memory, and every *)
(* program whose CSR instructions keep their distance, the pipeline        *)
(* executes the program as the sequential machine does: forwarding,        *)
(* load-use stalls, predictions and their corrections, stale bubbles and   *)
(* repeated write-backs leave no trace in pc, registers, CSRs or memory    *)
(* (datapath.v and what it wires).                                         *)
THEOREM PipelineImplementsIsa ==
  ASSUME SpacedPrograms
  PROVE  Spec => ImplementsIsa
<1>1. IsaInv /\ [Clk]_pipeVars => IsaInv'
  <2>1. ASSUME IsaInv, UNCHANGED pipeVars PROVE IsaInv'
    BY <2>1, IsaStutter
  <2>2. QED BY <2>1, IsaStep
<1>2. ASSUME IsaInv, [Clk]_pipeVars
      PROVE  [Reference!Step]_<<prog, OldestPC, ArchRegs, ArchCsrs, mem>>
  <2>1. CASE UNCHANGED pipeVars
    BY <2>1 DEF pipeVars, OldestPC, ArchRegs, ArchCsrs, wdata, csr_wen_W, csr_wdata_W
  <2>2. CASE Clk /\ ready_M(rvalid) /\ occupied_M
    BY <1>2, <2>2, StepRefines
  <2>3. CASE Clk /\ ~(ready_M(rvalid) /\ occupied_M)
    BY <1>2, <2>3, StepStutters
  <2>4. QED BY <1>2, <2>1, <2>2, <2>3
<1>3. QED
  BY <1>1, <1>2, IsaInit, InitRefines, PTL DEF Spec, ImplementsIsa, Reference!Spec, Reference!isaVars
=============================================================================
