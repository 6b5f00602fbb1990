--------------------------------- MODULE Flow ---------------------------------
(***************************************************************************)
(* The flow of instructions through the pipeline: valid_ctrl.v composed    *)
(* with the enables of the stage buffers (buffer_ctrl.v), of the program   *)
(* counter (PC.v), with the shape of the stall condition                   *)
(* (RAWdetect_forward.sv) and with the redirection of a misprediction      *)
(* (datapath.v).  An instruction is abstracted to its place in program     *)
(* order and to the one property of it that the control distinguishes.     *)
(*                                                                         *)
(* What the control reads from the datapath is chosen afresh in every      *)
(* cycle: whether the instruction in D needs a register written by the     *)
(* one in E or in M, and whether the memory answers.  So whatever holds    *)
(* here holds for every program and for a memory of any latency.  Module   *)
(* Pipeline supplies the real values.                                      *)
(***************************************************************************)
EXTENDS ValidCtrl

CONSTANTS
  Id,      \* dynamic instructions, in the order of the program
  First,   \* the one at PC_rst
  Succ,    \* the instruction that follows each one in program order
  None,    \* an idle write-back port
  Wrong    \* whatever is fetched on a path the program does not take

ASSUME FlowAssumption ==
  /\ First \in Id
  /\ Succ \in [Id -> Id]
  /\ None \notin Id
  /\ Wrong \notin Id

VARIABLES
  pc,            \* what PC_reg_F addresses
  D, E, M, W,    \* the contents of the stage buffers, stale in a bubble
  clk            \* toggles with the clock, so an edge that changes nothing
                 \* else is a step too

vars == <<valid_D_reg, valid_E_reg, M_state, valid_W_reg, pc, D, E, M, W, clk>>

(* "miss" is an instruction whose successor the fetch did not predict:     *)
(* a branch or jump with predict_E # Jump_sign, or an mret.                *)
Kind == {"plain", "load", "store", "miss"}
Slot == [id : Id \cup {Wrong}, kind : Kind]

Empty == [id |-> First, kind |-> "plain"]

TypeOK ==
  /\ CtrlTypeOK
  /\ pc \in Id \cup {Wrong}
  /\ D \in Slot /\ E \in Slot /\ M \in Slot /\ W \in Slot
  /\ clk \in BOOLEAN

-----------------------------------------------------------------------------
load_E == E.kind = "load"
MemWrite_M == M.kind = "store"
Pre_Wrong == E.kind = "miss"

idle_E(rvalid) == ~valid_E_reg /\ ready_E(rvalid)
idle_M(rvalid) == ~valid_M(rvalid) /\ ready_M(rvalid)

(* Mutants: D waits behind any conflict in E, not only behind a load; a    *)
(* bubble that still shows a load counts as one.                           *)
stall_D_BehindAll(rvalid, conflict_E, conflict_M) ==
  \/ ~idle_E(rvalid) /\ conflict_E
  \/ ~idle_M(rvalid) /\ ~valid_M(rvalid) /\ conflict_M
stall_D_StaleLoad(rvalid, conflict_E, conflict_M) ==
  \/ load_E /\ conflict_E
  \/ ~idle_M(rvalid) /\ ~valid_M(rvalid) /\ conflict_M

(* conflict_E, conflict_M: a source register of D is the destination of E, *)
(* of M.  Both compare buffers, so they can be true of bubbles.            *)
stall_D(rvalid, conflict_E, conflict_M) ==
  \/ ~idle_E(rvalid) /\ load_E /\ conflict_E
  \/ ~idle_M(rvalid) /\ ~valid_M(rvalid) /\ conflict_M

(* The address the fetch goes on with after an instruction of kind k.      *)
PC_predict_path(k) ==
  IF pc = Wrong \/ k = "miss" THEN Wrong ELSE Succ[pc]

PC_src(k) ==
  IF Pre_Wrong /\ valid_E_reg THEN Succ[E.id] ELSE PC_predict_path(k)

-----------------------------------------------------------------------------
Init ==
  /\ CtrlInit
  /\ pc = First
  /\ D = Empty /\ E = Empty /\ M = Empty /\ W = Empty
  /\ clk = FALSE

(* One clock edge.  k is the kind of the instruction at pc.                *)
Clk(k, rvalid, conflict_E, conflict_M) ==
  LET stall == stall_D(rvalid, conflict_E, conflict_M)
      rdyD == ready_D(rvalid, stall)
  IN  /\ Edge(rvalid, load_E, stall, Pre_Wrong)
      /\ pc' = IF rdyD THEN PC_src(k) ELSE pc
      /\ D' = IF valid_F /\ rdyD THEN [id |-> pc, kind |-> k] ELSE D
      /\ E' = IF valid_D(stall) /\ ready_E(rvalid) THEN D ELSE E
      /\ M' = IF valid_E_reg /\ ready_M(rvalid) THEN E ELSE M
      /\ W' = IF valid_M(rvalid) /\ ready_W THEN M ELSE W
      /\ clk' = ~clk

Tick ==
  \E k \in Kind, rvalid, conflict_E, conflict_M \in BOOLEAN :
    Clk(k, rvalid, conflict_E, conflict_M)

(* An edge with rst high, at any time.                                     *)
Reset ==
  /\ ResetEdge
  /\ pc' = First
  /\ D' = Empty /\ E' = Empty /\ M' = Empty /\ W' = Empty
  /\ clk' = ~clk

Next == Tick \/ Reset

Spec == Init /\ [][Next]_vars

(* The clock runs for ever, and of its edges infinitely many find the read *)
(* channel answering and rst low.  Nothing is assumed of conflicts, kinds  *)
(* and resets.                                                             *)
Answer ==
  \E k \in Kind, conflict_E, conflict_M \in BOOLEAN :
    Clk(k, TRUE, conflict_E, conflict_M)

FairSpec == Spec /\ WF_vars(Answer)

-----------------------------------------------------------------------------
occupied_M == M_state # "M_IDLE"

(* The oldest instruction that has not reached write-back.                 *)
Oldest ==
  IF occupied_M THEN M.id
  ELSE IF valid_E_reg THEN E.id
  ELSE IF valid_D_reg THEN D.id
  ELSE pc

Retiring == IF valid_W_reg THEN W.id ELSE None

(* The strengthening that makes the order of retirement inductive.         *)
(* M_state says what is in M; the instructions in M, E and D and the fetch *)
(* address are consecutive in program order, except behind a "miss", whose *)
(* followers are of a wrong path and are discarded before E;               *)
MStateMatches ==
  /\ M_state = "M_LOAD" => M.kind = "load"
  /\ M_state = "M_READY" => M.kind # "load"

Diverted == valid_E_reg /\ Pre_Wrong

OnPath ==
  /\ occupied_M => M.id \in Id
  /\ valid_E_reg => E.id \in Id
  /\ valid_D_reg /\ ~Diverted => D.id \in Id

InSequence ==
  /\ occupied_M /\ valid_E_reg => E.id = Succ[M.id]
  /\ occupied_M /\ ~valid_E_reg /\ valid_D_reg => D.id = Succ[M.id]
  /\ valid_E_reg /\ valid_D_reg /\ ~Diverted => D.id = Succ[E.id]
  /\ valid_D_reg /\ ~Diverted =>
       pc = IF D.kind = "miss" THEN Wrong ELSE Succ[D.id]

(* and a bubble has only two causes: a misprediction, which empties both D *)
(* and E, or a load, which holds back D.                                   *)
NoHoles ==
  /\ valid_E_reg /\ ~Pre_Wrong => valid_D_reg
  /\ ~valid_E_reg /\ ~valid_D_reg =>
       /\ M_state # "M_LOAD"
       /\ pc \in Id
       /\ occupied_M => pc = Succ[M.id]
  /\ MemWrite_M => M_state = "M_READY" /\ valid_E_reg

FlowInv == TypeOK /\ MStateMatches /\ OnPath /\ InSequence /\ NoHoles

-----------------------------------------------------------------------------
(* The pipeline retires the instructions of the program, in program order, *)
(* each exactly once, whatever the stalls, the memory latency, the         *)
(* mispredictions and the resets: nothing of a wrong path reaches          *)
(* write-back, and no instruction is lost when D, E and M advance at       *)
(* different times (valid_ctrl.v).                                         *)
Order == INSTANCE InOrder WITH next <- Oldest, out <- Retiring
RetiresInOrder == Order!Spec

(* The write channel is driven by MemWrite_M, which valid_M does not gate  *)
(* (datapath.v, data_axi_awvalid).  It is nevertheless high in one cycle   *)
(* per store: a cycle with a write request is one in which M finishes a    *)
(* store of the program, and if the next cycle requests a write again it   *)
(* is for the next instruction.                                            *)
StoresOnlyWhenValid ==
  MemWrite_M => M_state = "M_READY" /\ M.id \in Id

StoreIssuedOnce ==
  [][MemWrite_M /\ MemWrite_M' => M.id' = Succ[M.id]]_vars

(* A misprediction found while stage M is still busy is not forgotten: the *)
(* jump stays in E with D empty until the edge that redirects the program  *)
(* counter to its real successor.  Were D ever stalled on that edge the    *)
(* redirection would be dropped, because PC_reg is enabled by ready_D.     *)
RedirectNotLost ==
  [][valid_E_reg /\ Pre_Wrong /\ ~(valid_E_reg' /\ E' = E)
       => \/ pc' = Succ[E.id] /\ ~valid_D_reg' /\ ~valid_E_reg'
          \/ Reset]_vars

(* Every instruction of the program that reaches D retires, unless a reset *)
(* takes it away, and unless resets never end something retires again:     *)
(* no combination of stalls, bubbles and slow answers stops the pipeline.  *)
Restarted == ~valid_D_reg /\ ~valid_E_reg /\ M_state = "M_IDLE" /\ pc = First

EveryDecodedRetires ==
  \A i \in Id :
    (valid_D_reg /\ D.id = i /\ ~Diverted) ~> (valid_W_reg /\ W.id = i) \/ Restarted

AlwaysRetiresAgain == <>[][Tick]_vars => []<>valid_W_reg
=============================================================================
