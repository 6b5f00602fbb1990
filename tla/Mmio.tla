--------------------------------- MODULE Mmio ---------------------------------
(***************************************************************************)
(* Device accesses on the host (mmio.c) under the clock of the wave files  *)
(* (wavemanager.cpp).  mmio_write takes a store for a repeated call by the *)
(* time since the last one, and the time starts again with every file;     *)
(* mmio_read has no such test, so each call takes a byte of input.  A      *)
(* fetch from a device calls mmio_read as well: that byte no load gets.    *)
(***************************************************************************)
EXTENDS MemPort, Integers

CONSTANTS
  MAX_WAVE_SIZE,   \* evaluations in a wave file, 1000000 in the code
  ResetTime        \* evaluations under reset, 30: reset(10) and reset(5)

ASSUME MmioAssumption == MAX_WAVE_SIZE \in Nat /\ ResetTime \in 3 .. MAX_WAVE_SIZE

VARIABLES
  sim_time,        \* evaluations dumped to the current file
  last_simtime,    \* when a device store last took effect
  new_file,        \* history: a file was begun since then
  fetched          \* history: M has called uart_read since a device load
                   \* last left it

mmioVars == <<vars, portVars, sim_time, last_simtime, new_file, fetched>>

MmioInit ==
  /\ Init /\ where_M = "memory" /\ where_F = "memory"
  /\ sim_time = ResetTime /\ last_simtime = 0 /\ new_file = FALSE
  /\ fetched = FALSE

-----------------------------------------------------------------------------
(* EvalAndWaveTrace: a full file is closed before the next evaluation.  A  *)
(* cycle has two evaluations, and the edge is in the second.  Mutant: it    *)
(* is closed one evaluation late.                                          *)
SwitchWaveTrace_Late(t) == IF t > MAX_WAVE_SIZE THEN 0 ELSE t
SwitchWaveTrace(t) == IF t >= MAX_WAVE_SIZE THEN 0 ELSE t
PosedgeTime == SwitchWaveTrace(SwitchWaveTrace(sim_time) + 1)

DeviceStore == Access = "device" /\ M'.kind = "store"
DeviceLoad == Access = "device" /\ M'.kind = "load"
ShownDeviceStore == M.kind = "store" /\ where_M = "device"
ShownDeviceLoad == M.kind = "load" /\ where_M = "device"

(* mmio_write returns early when it is true; the mutant waits for two cycles. *)
RepeatedWrite_Wide(t) == t - last_simtime < 5
RepeatedWrite(t) == t - last_simtime < 3
uart_write == DeviceStore /\ ~RepeatedWrite(PosedgeTime)

(* mmio_read never does; the mutant is the test its comment announces, by  *)
(* comparing with the cycle before.                                        *)
uart_read_Changed == DeviceLoad /\ ~ShownDeviceLoad
uart_read == DeviceLoad

(* A device load takes its data to W.                                      *)
LoadLeaves(rvalid) == ShownDeviceLoad /\ M_state = "M_LOAD" /\ rvalid

single_cycle(rvalid) ==
  /\ CoreEdge(rvalid)
  /\ sim_time' = PosedgeTime + 1
  /\ last_simtime' = IF uart_write THEN PosedgeTime ELSE last_simtime
  /\ new_file' = (~uart_write /\ (new_file \/ PosedgeTime < sim_time))
  /\ fetched' = (uart_read \/ (fetched /\ ~LoadLeaves(rvalid)))

MmioNext == \E rvalid \in Answers : single_cycle(rvalid)

MmioSpec == MmioInit /\ [][MmioNext]_mmioVars

-----------------------------------------------------------------------------
MmioTypeOK ==
  /\ TypeOK /\ {where_M, where_F} \subseteq Where
  /\ sim_time \in 1 .. MAX_WAVE_SIZE
  /\ last_simtime \in 0 .. MAX_WAVE_SIZE - 1
  /\ new_file \in BOOLEAN /\ fetched \in BOOLEAN

(* A store to a device takes effect, although mmio_write drops calls it    *)
(* takes for repeated, if the cycle before showed no such store and no     *)
(* wave file was begun since the last one that took effect.  In those two  *)
(* cases it may be lost: the second of two in consecutive cycles, and all  *)
(* of a new file until the time of the last one of the old file is past    *)
(* (mmio.c, wavemanager.cpp).                                              *)
StoreReachesDevice ==
  [][DeviceStore /\ ~ShownDeviceStore /\ ~new_file' => last_simtime' = PosedgeTime]_mmioVars

(* No byte of input goes to two loads: when a device load takes its data   *)
(* to W, uart_read has been called since the device load before it left,   *)
(* although the calls go on without a load, and for fetches, and are not   *)
(* told apart (mmio_read).                                                 *)
NoByteTwice ==
  [][LoadLeaves(valid_W_reg') => fetched]_mmioVars
=============================================================================
