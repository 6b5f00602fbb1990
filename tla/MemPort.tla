------------------------------- MODULE MemPort -------------------------------
(***************************************************************************)
(* The two memory ports of the core as the host sees them (npc.v).  In the *)
(* evaluation of every edge memory.v calls pmem_read or pmem_write         *)
(* (memory.cpp) with what is shown after the edge.  The data port, of      *)
(* stage M, is not told whether M is valid, so a load is read again in     *)
(* every cycle it stays in the buffer, the cycles after it has left for W  *)
(* included.  The instruction port reads at PC_reg_F, on a wrong path too, *)
(* and pmem_read treats both ports alike: it does not look at is_IF.       *)
(***************************************************************************)
EXTENDS Flow

VARIABLES
  where_M,   \* where the address in M points: memory, a device, neither
  where_F    \* where the fetch of this cycle goes; memory if there is none

Where == {"memory", "device", "outside"}

portVars == <<where_M, where_F>>

accesses(slot) == slot.kind \in {"load", "store"}

(* The address comes with the instruction when it enters M.                *)
where_M_edge(rvalid, where) ==
  where_M' = IF valid_E_reg /\ ready_M(rvalid) THEN where ELSE where_M

(* inst_axi_arvalid is ready_F: what is fetched goes to D at the next edge, *)
(* so every address is read in one cycle, its last.                        *)
where_F_edge(rvalid, stall, fetch) ==
  /\ where_F # "memory" => ready_D(rvalid, stall)
  /\ where_F' = fetch

(* The target of the call the data port makes after the edge; "memory"     *)
(* also stands for no call at all.                                         *)
Access == IF accesses(M') THEN where_M' ELSE "memory"

in_mmio == "device" \in {Access, where_F'}
memory_out_of_bound == "outside" \in {Access, where_F'}

(* The inputs of an edge, one for all that give the same next state: a     *)
(* conflict with E matters only behind a load that moves on, one with M    *)
(* never, as it stops D while M stops E; an answer matters only while a    *)
(* load waits, a kind or an address only when it is taken over.  Outside   *)
(* memory pmem_read returns 0, which decodes to nothing the control looks  *)
(* at.                                                                     *)
Answers == IF M_state = "M_LOAD" THEN BOOLEAN ELSE {TRUE}
Conflicts_E(rvalid) == IF load_E /\ ready_E(rvalid) THEN BOOLEAN ELSE {FALSE}
Kinds(rvalid, stall) ==
  IF ready_D(rvalid, stall) /\ where_F # "outside" THEN Kind ELSE {"plain"}
Addresses(rvalid) ==
  IF accesses(E) /\ valid_E_reg /\ ready_M(rvalid) THEN Where ELSE {"memory"}

(* The edge of the core, the address of the access it brings into M, and   *)
(* that of the fetch after it.                                             *)
CoreEdge(rvalid) ==
  \E conflict_E \in Conflicts_E(rvalid) :
    LET stall == stall_D(rvalid, conflict_E, FALSE)
    IN  /\ \E k \in Kinds(rvalid, stall) : Clk(k, rvalid, conflict_E, FALSE)
        /\ \E where \in Addresses(rvalid) : where_M_edge(rvalid, where)
        /\ \E fetch \in Where : where_F_edge(rvalid, stall, fetch)
=============================================================================
