------------------------------ MODULE FlowProofs ------------------------------
(***************************************************************************)
(* Proofs about Flow, for every set of instructions, every program order   *)
(* and every choice the datapath and the memory make in a cycle; and, at   *)
(* the end, what they say of the edges the host's loop makes (MemPort).    *)
(***************************************************************************)
EXTENDS MemPort, TLAPS

(* The signals of one cycle, expanded.                                     *)
USE DEF valid_F, valid_D, valid_M, ready_W, ready_M, ready_E, ready_D,
        Accept, NextM, NextD, NextE, Edge, ResetEdge, CtrlInit, CtrlTypeOK,
        Kind, Slot, Empty, load_E, MemWrite_M, Pre_Wrong, occupied_M, Diverted

LEMMA InitInv == Init => FlowInv
<1> SUFFICES ASSUME Init PROVE FlowInv
  OBVIOUS
<1>1. TypeOK
  BY FlowAssumption DEF Init, TypeOK
<1>2. MStateMatches /\ OnPath /\ InSequence
  BY DEF Init, MStateMatches, OnPath, InSequence
<1>3. NoHoles
  BY FlowAssumption DEF Init, NoHoles
<1>4. QED BY <1>1, <1>2, <1>3 DEF FlowInv

LEMMA ResetInv == Reset => FlowInv'
<1> SUFFICES ASSUME Reset PROVE FlowInv'
  OBVIOUS
<1>1. TypeOK'
  BY FlowAssumption DEF Reset, TypeOK
<1>2. MStateMatches' /\ OnPath' /\ InSequence'
  BY DEF Reset, MStateMatches, OnPath, InSequence
<1>3. NoHoles'
  BY FlowAssumption DEF Reset, NoHoles
<1>4. QED BY <1>1, <1>2, <1>3 DEF FlowInv

(* A stalled D never coincides with an edge on which E advances, unless E  *)
(* holds a load.                                                           *)
LEMMA StallOnlyBehindLoad ==
  ASSUME CtrlTypeOK, NEW rvalid \in BOOLEAN,
         NEW conflict_E \in BOOLEAN, NEW conflict_M \in BOOLEAN,
         stall_D(rvalid, conflict_E, conflict_M), ready_E(rvalid)
  PROVE  valid_E_reg /\ load_E
BY DEF stall_D, idle_E, idle_M

LEMMA TickType ==
  ASSUME TypeOK, OnPath, NEW k \in Kind, NEW rvalid \in BOOLEAN,
         NEW conflict_E \in BOOLEAN, NEW conflict_M \in BOOLEAN,
         Clk(k, rvalid, conflict_E, conflict_M)
  PROVE  TypeOK'
<1> DEFINE stall == stall_D(rvalid, conflict_E, conflict_M)
<1>1. stall \in BOOLEAN
  BY DEF stall_D, idle_E, idle_M
<1>2. CtrlTypeOK'
  BY <1>1 DEF Clk, TypeOK
<1>3. (pc \in Id \cup {Wrong})'
  BY FlowAssumption DEF Clk, TypeOK, OnPath, PC_src, PC_predict_path
<1>4. D' \in Slot /\ E' \in Slot /\ M' \in Slot /\ W' \in Slot
  BY DEF Clk, TypeOK
<1>5. clk' \in BOOLEAN
  BY DEF Clk, TypeOK
<1>6. QED BY <1>2, <1>3, <1>4, <1>5 DEF TypeOK

LEMMA TickInv ==
  ASSUME FlowInv, NEW k \in Kind, NEW rvalid \in BOOLEAN,
         NEW conflict_E \in BOOLEAN, NEW conflict_M \in BOOLEAN,
         Clk(k, rvalid, conflict_E, conflict_M)
  PROVE  FlowInv'
<1> DEFINE stall == stall_D(rvalid, conflict_E, conflict_M)
<1> USE FlowAssumption DEF FlowInv, PC_src, PC_predict_path
<1>1. TypeOK'
  BY TickType
<1>2. stall /\ ready_E(rvalid) => valid_E_reg /\ load_E
  BY StallOnlyBehindLoad DEF TypeOK
<1>3. MStateMatches'
  BY DEF Clk, TypeOK, MStateMatches
<1>4. OnPath'
  BY <1>2 DEF Clk, TypeOK, MStateMatches, OnPath, InSequence, NoHoles
<1>5. InSequence'
  <2> USE <1>2 DEF Clk, TypeOK, MStateMatches, OnPath, InSequence, NoHoles
  <2>1. (occupied_M /\ valid_E_reg => E.id = Succ[M.id])'
    OBVIOUS
  <2>2. (occupied_M /\ ~valid_E_reg /\ valid_D_reg => D.id = Succ[M.id])'
    OBVIOUS
  <2>3. (valid_E_reg /\ valid_D_reg /\ ~Diverted => D.id = Succ[E.id])'
    OBVIOUS
  <2>4. (valid_D_reg /\ ~Diverted
           => pc = IF D.kind = "miss" THEN Wrong ELSE Succ[D.id])'
    <3>1. CASE ready_D(rvalid, stall)
      <4>1. D'.id = pc /\ D'.kind = k /\ pc' = PC_src(k)
        BY <3>1
      <4>2. valid_D_reg' => ~Diverted
        BY <3>1
      <4>3. (valid_D_reg /\ ~Diverted)' => D'.id # Wrong
        BY <1>4 DEF OnPath
      <4>4. QED BY <4>1, <4>2, <4>3
    <3>2. CASE ~ready_D(rvalid, stall)
      BY <3>2, SMTT(30)
    <3>3. QED BY <3>1, <3>2
  <2>5. QED BY <2>1, <2>2, <2>3, <2>4
<1>6. NoHoles'
  BY <1>2 DEF Clk, TypeOK, MStateMatches, OnPath, InSequence, NoHoles
<1>7. QED BY <1>1, <1>3, <1>4, <1>5, <1>6

LEMMA NextInv == FlowInv /\ [Next]_vars => FlowInv'
<1> SUFFICES ASSUME FlowInv, [Next]_vars PROVE FlowInv'
  OBVIOUS
<1>1. CASE Tick
  <2>1. PICK k \in Kind, rvalid \in BOOLEAN, conflict_E \in BOOLEAN, conflict_M \in BOOLEAN :
          Clk(k, rvalid, conflict_E, conflict_M)
    BY <1>1 DEF Tick
  <2>2. QED BY <2>1, TickInv
<1>2. CASE Reset
  BY <1>2, ResetInv
<1>3. CASE UNCHANGED vars
  BY <1>3 DEF vars, FlowInv, TypeOK, MStateMatches, OnPath, InSequence, NoHoles
<1>4. QED BY <1>1, <1>2, <1>3 DEF Next

(* In every reachable state the stages hold consecutive instructions of    *)
(* the program, and every bubble is accounted for (valid_ctrl.v).          *)
THEOREM FlowInvariant == Spec => []FlowInv
BY InitInv, NextInv, PTL DEF Spec

(* Type correctness of the handshake and of the stage buffers.             *)
THEOREM FlowTypeOK == Spec => []TypeOK
<1>1. FlowInv => TypeOK
  BY DEF FlowInv
<1>2. QED BY <1>1, FlowInvariant, PTL

(* The ungated write request of datapath.v is only ever up while stage M   *)
(* finishes a store of the program.                                        *)
THEOREM FlowStoresOnlyWhenValid == Spec => []StoresOnlyWhenValid
<1>1. FlowInv => StoresOnlyWhenValid
  BY DEF FlowInv, OnPath, NoHoles, StoresOnlyWhenValid
<1>2. QED BY <1>1, FlowInvariant, PTL

(* Two adjacent cycles with a write request serve consecutive              *)
(* instructions: no store reaches the memory, or the UART, twice.          *)
THEOREM FlowStoreIssuedOnce == Spec => StoreIssuedOnce
<1> DEFINE Once == MemWrite_M /\ MemWrite_M' => M.id' = Succ[M.id]
<1>1. ASSUME FlowInv, [Next]_vars PROVE [Once]_vars
  <2>1. CASE Tick
    <3>1. PICK k \in Kind, rvalid \in BOOLEAN, conflict_E \in BOOLEAN, conflict_M \in BOOLEAN :
            Clk(k, rvalid, conflict_E, conflict_M)
      BY <2>1 DEF Tick
    <3>2. MemWrite_M => M' = E /\ E.id = Succ[M.id]
      BY <1>1, <3>1 DEF Clk, FlowInv, NoHoles, InSequence
    <3>3. QED BY <3>2
  <2>2. CASE Reset
    BY <2>2 DEF Reset
  <2>3. CASE UNCHANGED vars
    BY <2>3
  <2>4. QED BY <1>1, <2>1, <2>2, <2>3 DEF Next
<1>2. QED BY <1>1, FlowInvariant, PTL DEF Spec, StoreIssuedOnce

(* The redirection of a misprediction survives however long stage M keeps  *)
(* the jump waiting in E.                                                  *)
THEOREM FlowRedirectNotLost == Spec => RedirectNotLost
<1> DEFINE Kept == valid_E_reg /\ Pre_Wrong /\ ~(valid_E_reg' /\ E' = E)
                     => \/ pc' = Succ[E.id] /\ ~valid_D_reg' /\ ~valid_E_reg'
                        \/ Reset
<1>1. ASSUME FlowInv, [Next]_vars PROVE [Kept]_vars
  <2>1. CASE Tick
    <3>1. PICK k \in Kind, rvalid \in BOOLEAN, conflict_E \in BOOLEAN, conflict_M \in BOOLEAN :
            Clk(k, rvalid, conflict_E, conflict_M)
      BY <2>1 DEF Tick
    <3> DEFINE stall == stall_D(rvalid, conflict_E, conflict_M)
    <3>2. stall /\ ready_E(rvalid) => valid_E_reg /\ load_E
      BY <1>1, StallOnlyBehindLoad DEF FlowInv, TypeOK
    <3>3. QED BY <1>1, <3>1, <3>2 DEF Clk, FlowInv, TypeOK, PC_src
  <2>2. CASE Reset
    BY <2>2
  <2>3. CASE UNCHANGED vars
    BY <2>3
  <2>4. QED BY <1>1, <2>1, <2>2, <2>3 DEF Next
<1>2. QED BY <1>1, FlowInvariant, PTL DEF Spec, RedirectNotLost

-----------------------------------------------------------------------------
LEMMA InitRefines == Init => Order!Init
BY FlowAssumption DEF Init, Order!Init, Oldest, Retiring

(* What an edge does to the oldest instruction: when stage M finishes, the *)
(* oldest instruction is in W and the next in program order is the oldest; *)
(* otherwise W is empty and keeps its contents, and the oldest stays.      *)
LEMMA TickOldest ==
  ASSUME FlowInv, NEW k \in Kind, NEW rvalid \in BOOLEAN,
         NEW conflict_E \in BOOLEAN, NEW conflict_M \in BOOLEAN,
         Clk(k, rvalid, conflict_E, conflict_M)
  PROVE  /\ Oldest \in Id
         /\ valid_W_reg' => W' = M /\ W'.id = Oldest /\ Oldest' = Succ[Oldest]
         /\ ~valid_W_reg' => W' = W /\ Oldest' = Oldest
<1> DEFINE stall == stall_D(rvalid, conflict_E, conflict_M)
<1> USE FlowAssumption DEF FlowInv, Clk, Oldest
<1>1. stall /\ ready_E(rvalid) => valid_E_reg /\ load_E
  BY StallOnlyBehindLoad DEF TypeOK
<1>2. Oldest \in Id
  BY DEF TypeOK, OnPath, NoHoles
<1>3. CASE valid_M(rvalid)
  <2>1. valid_W_reg' /\ W' = M /\ W'.id = Oldest
    BY <1>3 DEF TypeOK
  <2>2. Oldest' = Succ[Oldest]
    BY <1>1, <1>3
    DEF TypeOK, MStateMatches, OnPath, InSequence, NoHoles, PC_src, PC_predict_path
  <2>3. QED BY <1>2, <2>1, <2>2
<1>4. CASE ~valid_M(rvalid)
  <2>1. ~valid_W_reg' /\ W' = W
    BY <1>4 DEF TypeOK
  <2>2. Oldest' = Oldest
    BY <1>1, <1>4
    DEF TypeOK, MStateMatches, OnPath, InSequence, NoHoles, PC_src, PC_predict_path
  <2>3. QED BY <1>2, <2>1, <2>2
<1>5. QED BY <1>3, <1>4

LEMMA TickRefines ==
  ASSUME FlowInv, NEW k \in Kind, NEW rvalid \in BOOLEAN,
         NEW conflict_E \in BOOLEAN, NEW conflict_M \in BOOLEAN,
         Clk(k, rvalid, conflict_E, conflict_M)
  PROVE  Order!Retire \/ Order!Idle
<1>1. valid_W_reg' \in BOOLEAN
  BY TickInv DEF FlowInv, TypeOK
<1>2. QED BY <1>1, TickOldest DEF Order!Retire, Order!Idle, Retiring

LEMMA ResetRefines == Reset => Order!Restart
BY DEF Reset, Order!Restart, Oldest, Retiring

(* The pipeline implements InOrder: instructions retire in program order,  *)
(* each exactly once, with nothing of a wrong path between them.           *)
THEOREM FlowRetiresInOrder == Spec => RetiresInOrder
<1>1. ASSUME FlowInv, [Next]_vars
      PROVE  [Order!Next]_<<Oldest, Retiring>>
  <2>1. CASE Tick
    <3>1. PICK k \in Kind, rvalid \in BOOLEAN, conflict_E \in BOOLEAN, conflict_M \in BOOLEAN :
            Clk(k, rvalid, conflict_E, conflict_M)
      BY <2>1 DEF Tick
    <3>2. QED BY <1>1, <3>1, TickRefines DEF Order!Next
  <2>2. CASE Reset
    BY <2>2, ResetRefines DEF Order!Next
  <2>3. CASE UNCHANGED vars
    BY <2>3 DEF vars, Oldest, Retiring
  <2>4. QED BY <1>1, <2>1, <2>2, <2>3 DEF Next
<1>2. QED
  BY <1>1, InitRefines, FlowInvariant, PTL DEF Spec, RetiresInOrder, Order!Spec

-----------------------------------------------------------------------------
(* Each edge of the host's loop is an edge of Flow, so the invariant of    *)
(* the pipeline holds for whatever composes with MemPort, and the oldest   *)
(* instruction is the one that retires.                                    *)
PortInv == FlowInv /\ where_M \in Where /\ where_F \in Where

LEMMA PortInit == Init /\ where_M = "memory" /\ where_F = "memory" => PortInv
BY InitInv DEF PortInv, Where

(* The inputs MemPort considers are inputs of Flow.                        *)
LEMMA EdgeIsTick ==
  ASSUME NEW rvalid \in Answers, CoreEdge(rvalid)
  PROVE  /\ \E k \in Kind, conflict_E \in BOOLEAN : Clk(k, rvalid, conflict_E, FALSE)
         /\ \E where \in Where : where_M_edge(rvalid, where)
         /\ where_F' \in Where
<1>1. PICK conflict_E \in Conflicts_E(rvalid) :
        LET stall == stall_D(rvalid, conflict_E, FALSE)
        IN  /\ \E k \in Kinds(rvalid, stall) : Clk(k, rvalid, conflict_E, FALSE)
            /\ \E where \in Addresses(rvalid) : where_M_edge(rvalid, where)
            /\ \E fetch \in Where : where_F_edge(rvalid, stall, fetch)
  BY Zenon DEF CoreEdge
<1>2. conflict_E \in BOOLEAN
  BY DEF Conflicts_E
<1>3. Kinds(rvalid, stall_D(rvalid, conflict_E, FALSE)) \subseteq Kind
  BY DEF Kinds, Kind
<1>4. Addresses(rvalid) \subseteq Where
  BY DEF Addresses, Where
<1>5. \E k \in Kind : Clk(k, rvalid, conflict_E, FALSE)
  BY <1>1, <1>3
<1>6. \E where \in Where : where_M_edge(rvalid, where)
  BY <1>1, <1>4
<1>7. where_F' \in Where
  BY <1>1 DEF where_F_edge
<1>8. QED BY <1>2, <1>5, <1>6, <1>7

LEMMA EdgeInv ==
  ASSUME PortInv, NEW rvalid \in Answers, CoreEdge(rvalid)
  PROVE  /\ PortInv'
         /\ Oldest \in Id
         /\ valid_W_reg' => W' = M /\ W'.id = Oldest /\ Oldest' = Succ[Oldest]
         /\ ~valid_W_reg' => W' = W /\ Oldest' = Oldest
<1>1. PICK k \in Kind, conflict_E \in BOOLEAN : Clk(k, rvalid, conflict_E, FALSE)
  BY EdgeIsTick
<1>2. rvalid \in BOOLEAN /\ FALSE \in BOOLEAN
  BY DEF Answers
<1>3. FlowInv'
  BY <1>1, <1>2, TickInv DEF PortInv
<1>4. where_M' \in Where /\ where_F' \in Where
  BY EdgeIsTick DEF where_M_edge, PortInv
<1>5. QED BY <1>1, <1>2, <1>3, <1>4, TickOldest DEF PortInv

(* Commands of the debugger leave the core alone.                          *)
LEMMA PortStutter ==
  ASSUME PortInv, UNCHANGED <<vars, portVars>>
  PROVE  PortInv' /\ Oldest' = Oldest
BY NextInv DEF PortInv, portVars, vars, Oldest, occupied_M
=============================================================================
