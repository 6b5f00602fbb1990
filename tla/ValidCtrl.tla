------------------------------ MODULE ValidCtrl ------------------------------
(***************************************************************************)
(* core/vsrc/valid_ctrl.v: the valid/ready handshake between the five      *)
(* stages F D E M W of the pipeline.                                       *)
(*                                                                         *)
(* The module is synchronous: its registers are the VARIABLES, its         *)
(* combinational outputs are operators of the current state and of the     *)
(* inputs of the cycle, and Edge is the clock edge.  The modules that      *)
(* compose the pipeline EXTEND this one, supply the inputs (rvalid,        *)
(* load_E, stall, Pre_Wrong) and conjoin Edge with the edges of the        *)
(* datapath registers.                                                     *)
(***************************************************************************)

VARIABLES
  valid_D_reg,   \* stage D holds an instruction
  valid_E_reg,   \* stage E holds an instruction
  M_state,       \* stage M: empty, waiting for load data, or finished
  valid_W_reg    \* stage W holds an instruction, retired in this cycle

ctrlVars == <<valid_D_reg, valid_E_reg, M_state, valid_W_reg>>

CtrlTypeOK ==
  /\ valid_D_reg \in BOOLEAN
  /\ valid_E_reg \in BOOLEAN
  /\ M_state \in {"M_IDLE", "M_LOAD", "M_READY"}
  /\ valid_W_reg \in BOOLEAN

-----------------------------------------------------------------------------
(* Outputs of a cycle in which rst is low.                                 *)

valid_F == TRUE
valid_D(stall) == valid_D_reg /\ ~stall
valid_M(rvalid) == M_state = "M_READY" \/ (M_state = "M_LOAD" /\ rvalid)

ready_W == TRUE
ready_M(rvalid) == M_state = "M_IDLE" \/ (valid_M(rvalid) /\ ready_W)
ready_E(rvalid) == ready_M(rvalid)
ready_D(rvalid, stall) == ~stall /\ ready_E(rvalid)

-----------------------------------------------------------------------------
(* The state of stage M once it accepts whatever E presents.               *)
Accept(load_E) ==
  IF ~valid_E_reg THEN "M_IDLE" ELSE IF load_E THEN "M_LOAD" ELSE "M_READY"

NextM(rvalid, load_E) ==
  CASE M_state = "M_IDLE"  -> Accept(load_E)
    [] M_state = "M_LOAD"  -> IF ~rvalid THEN "M_LOAD"
                              ELSE IF ready_W THEN Accept(load_E) ELSE "M_READY"
    [] M_state = "M_READY" -> IF ready_W THEN Accept(load_E) ELSE "M_READY"

(* Mutants: D is not flushed; an instruction stalled in D is dropped when  *)
(* E moves on; E is not flushed; E is flushed without waiting for M.       *)
NextD_NoFlush(rvalid, stall, Pre_Wrong) ==
  IF ready_D(rvalid, stall) \/ (stall /\ valid_D_reg) THEN valid_F
  ELSE IF ready_E(rvalid) THEN FALSE ELSE valid_D_reg
NextD_DropStalled(rvalid, stall, Pre_Wrong) ==
  IF Pre_Wrong /\ valid_E_reg THEN FALSE
  ELSE IF ready_D(rvalid, stall) THEN valid_F
  ELSE IF ready_E(rvalid) THEN FALSE ELSE valid_D_reg
NextE_NoFlush(rvalid, stall, Pre_Wrong) ==
  IF ready_E(rvalid) THEN valid_D(stall) ELSE valid_E_reg
NextE_FlushEarly(rvalid, stall, Pre_Wrong) ==
  IF Pre_Wrong /\ valid_E_reg THEN FALSE
  ELSE IF ready_E(rvalid) THEN valid_D(stall) ELSE valid_E_reg

(* A misprediction found in E empties D at once, and E as soon as M takes  *)
(* the jump itself.                                                        *)
NextD(rvalid, stall, Pre_Wrong) ==
  IF Pre_Wrong /\ valid_E_reg THEN FALSE
  ELSE IF ready_D(rvalid, stall) \/ (stall /\ valid_D_reg) THEN valid_F
  ELSE IF ready_E(rvalid) THEN FALSE
  ELSE valid_D_reg

NextE(rvalid, stall, Pre_Wrong) ==
  IF Pre_Wrong /\ valid_E_reg /\ ready_M(rvalid) THEN FALSE
  ELSE IF ready_E(rvalid) THEN valid_D(stall)
  ELSE IF ready_M(rvalid) THEN FALSE
  ELSE valid_E_reg

Edge(rvalid, load_E, stall, Pre_Wrong) ==
  /\ valid_D_reg' = NextD(rvalid, stall, Pre_Wrong)
  /\ valid_E_reg' = NextE(rvalid, stall, Pre_Wrong)
  /\ M_state' = NextM(rvalid, load_E)
  /\ valid_W_reg' = IF ready_W THEN valid_M(rvalid) ELSE valid_W_reg

(* Before the first edge, and an edge with rst high.                       *)
CtrlInit ==
  /\ valid_D_reg = FALSE
  /\ valid_E_reg = FALSE
  /\ M_state = "M_IDLE"
  /\ valid_W_reg = FALSE

ResetEdge ==
  /\ valid_D_reg' = FALSE
  /\ valid_E_reg' = FALSE
  /\ M_state' = "M_IDLE"
  /\ valid_W_reg' = FALSE
=============================================================================
