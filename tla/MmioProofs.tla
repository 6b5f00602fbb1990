------------------------------ MODULE MmioProofs ------------------------------
(***************************************************************************)
(* Proofs about Mmio, for every size of a wave file, every program and     *)
(* every latency of the memory.                                            *)
(***************************************************************************)
EXTENDS Mmio, FlowProofs

ClockTypeOK ==
  /\ sim_time \in 1 .. MAX_WAVE_SIZE
  /\ last_simtime \in 0 .. MAX_WAVE_SIZE - 1
  /\ new_file \in BOOLEAN /\ fetched \in BOOLEAN

(* As long as the file of the last effective device store is still open,   *)
(* that store is older than three evaluations, or it was in the cycle      *)
(* before and M still shows it; a device load that waits in M has been     *)
(* read from the input.                                                    *)
StoreTimeKnown ==
  ~new_file => \/ last_simtime <= sim_time - 3
               \/ last_simtime = sim_time - 1 /\ ShownDeviceStore
LoadFetched == ShownDeviceLoad => fetched

MmioInv == PortInv /\ ClockTypeOK /\ StoreTimeKnown /\ LoadFetched

LEMMA MmioInitInv == MmioInit => MmioInv
<1> SUFFICES ASSUME MmioInit PROVE MmioInv
  OBVIOUS
<1>1. PortInv
  BY PortInit DEF MmioInit
<1>2. ClockTypeOK
  <2>1. sim_time \in 1 .. MAX_WAVE_SIZE /\ last_simtime \in 0 .. MAX_WAVE_SIZE - 1
    BY MmioAssumption DEF MmioInit
  <2>2. new_file \in BOOLEAN /\ fetched \in BOOLEAN
    BY DEF MmioInit
  <2>3. QED BY <2>1, <2>2 DEF ClockTypeOK
<1>3. StoreTimeKnown
  BY MmioAssumption DEF MmioInit, StoreTimeKnown
<1>4. LoadFetched
  BY DEF MmioInit, LoadFetched, ShownDeviceLoad
<1>5. QED BY <1>1, <1>2, <1>3, <1>4 DEF MmioInv

(* The edge of a cycle is one evaluation after the time of the cycle       *)
(* before, unless a file was begun: then it is among the first two of it.  *)
LEMMA PosedgeTimes ==
  ASSUME ClockTypeOK
  PROVE  /\ PosedgeTime \in 0 .. MAX_WAVE_SIZE - 1
         /\ PosedgeTime = sim_time + 1 \/ PosedgeTime < sim_time
BY MmioAssumption DEF ClockTypeOK, PosedgeTime, SwitchWaveTrace

LEMMA CycleInv ==
  ASSUME MmioInv, NEW rvalid \in Answers, single_cycle(rvalid)
  PROVE  MmioInv'
<1>1. PortInv'
  BY EdgeInv DEF MmioInv, single_cycle
<1>2. PosedgeTime \in 0 .. MAX_WAVE_SIZE - 1
  BY PosedgeTimes DEF MmioInv
<1>3. uart_write \in BOOLEAN /\ uart_read \in BOOLEAN /\ LoadLeaves(rvalid) \in BOOLEAN
  BY DEF uart_write, uart_read, DeviceStore, DeviceLoad, LoadLeaves, Answers
<1>4. ClockTypeOK'
  BY <1>2, <1>3, MmioAssumption DEF MmioInv, ClockTypeOK, single_cycle
<1>5. StoreTimeKnown'
  <2>1. CASE uart_write
    <3>1. ShownDeviceStore'
      BY <2>1 DEF uart_write, DeviceStore, Access, accesses, ShownDeviceStore
    <3>2. sim_time' = PosedgeTime + 1 /\ last_simtime' = PosedgeTime
      BY <2>1 DEF single_cycle
    <3>3. last_simtime' = sim_time' - 1
      BY <1>2, <3>2, MmioAssumption
    <3>4. QED BY <3>1, <3>3 DEF StoreTimeKnown
  <2>2. ASSUME ~uart_write, ~new_file' PROVE last_simtime' <= sim_time' - 3
    <3>1. ~new_file /\ ~(PosedgeTime < sim_time)
      BY <2>2 DEF single_cycle
    <3>2. PosedgeTime = sim_time + 1
      BY <3>1, PosedgeTimes DEF MmioInv
    <3>3. last_simtime <= sim_time - 1
      BY <3>1 DEF MmioInv, ClockTypeOK, StoreTimeKnown
    <3>4. sim_time' = sim_time + 2 /\ last_simtime' = last_simtime
      BY <2>2, <3>2 DEF single_cycle, MmioInv, ClockTypeOK
    <3>5. QED BY <3>3, <3>4 DEF MmioInv, ClockTypeOK
  <2>3. QED BY <2>1, <2>2 DEF StoreTimeKnown
<1>6. LoadFetched'
  BY DEF LoadFetched, single_cycle, uart_read, DeviceLoad, Access, accesses,
         ShownDeviceLoad
<1>7. QED BY <1>1, <1>4, <1>5, <1>6 DEF MmioInv

LEMMA MmioNextInv == MmioInv /\ [MmioNext]_mmioVars => MmioInv'
<1> SUFFICES ASSUME MmioInv, [MmioNext]_mmioVars PROVE MmioInv'
  OBVIOUS
<1>1. CASE MmioNext
  BY <1>1, CycleInv DEF MmioNext
<1>2. CASE UNCHANGED mmioVars
  <2>1. PortInv'
    BY <1>2, PortStutter DEF MmioInv, mmioVars
  <2>2. M' = M /\ where_M' = where_M
    BY <1>2 DEF mmioVars, vars, portVars
  <2>3. QED
    BY <1>2, <2>1, <2>2
    DEF MmioInv, mmioVars, ClockTypeOK, StoreTimeKnown, LoadFetched,
        ShownDeviceStore, ShownDeviceLoad
<1>3. QED BY <1>1, <1>2

(* The wave-file clock, the time of the last device store and the state of *)
(* the pipeline stay related as above (mmio.c, wavemanager.cpp).           *)
THEOREM MmioInvariant == MmioSpec => []MmioInv
BY MmioInitInv, MmioNextInv, PTL DEF MmioSpec

(* The clock of the wave files never leaves a file, and the pipeline under *)
(* the host's clock is type correct (EvalAndWaveTrace).                    *)
THEOREM MmioTypesOK == MmioSpec => []MmioTypeOK
<1>1. MmioInv => MmioTypeOK
  BY DEF MmioInv, ClockTypeOK, MmioTypeOK, PortInv, FlowInv
<1>2. QED BY <1>1, MmioInvariant, PTL

(* A device store that is neither in the cycle after another one nor in a  *)
(* file begun since the last one that took effect takes effect, although   *)
(* mmio_write takes it for repeated by its time alone (mmio.c).            *)
THEOREM MmioStoreReachesDevice == MmioSpec => StoreReachesDevice
<1> DEFINE Reaches ==
      DeviceStore /\ ~ShownDeviceStore /\ ~new_file' => last_simtime' = PosedgeTime
<1>1. ASSUME MmioInv, [MmioNext]_mmioVars PROVE [Reaches]_mmioVars
  <2>1. ASSUME NEW rvalid \in Answers, single_cycle(rvalid) PROVE Reaches
    <3>1. CASE uart_write
      BY <2>1, <3>1 DEF single_cycle
    <3>2. ASSUME ~uart_write, ~ShownDeviceStore, ~new_file' PROVE ~DeviceStore
      <4>1. ~new_file /\ PosedgeTime = sim_time + 1
        BY <1>1, <2>1, <3>2, PosedgeTimes DEF MmioInv, ClockTypeOK, single_cycle
      <4>2. ~RepeatedWrite(PosedgeTime)
        BY <1>1, <3>2, <4>1 DEF MmioInv, ClockTypeOK, StoreTimeKnown, RepeatedWrite
      <4>3. QED BY <3>2, <4>2 DEF uart_write
    <3>3. QED BY <3>1, <3>2
  <2>2. QED BY <1>1, <2>1 DEF MmioNext
<1>2. QED BY <1>1, MmioInvariant, PTL DEF MmioSpec, StoreReachesDevice

(* No byte of input goes to two loads, although the host calls uart_read   *)
(* in cycles without a load too (mmio_read).                               *)
THEOREM MmioNoByteTwice == MmioSpec => NoByteTwice
<1>1. MmioInv => (LoadLeaves(valid_W_reg') => fetched)
  BY DEF MmioInv, LoadFetched, LoadLeaves
<1>2. QED BY <1>1, MmioInvariant, PTL DEF MmioSpec, NoByteTwice
=============================================================================
