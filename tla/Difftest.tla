------------------------------- MODULE Difftest -------------------------------
(***************************************************************************)
(* The loop of the simulation host around the core: cpu.cpp clocks it      *)
(* until an instruction is in W (exec_once), repeats that n times          *)
(* (execute, cpu_exec), lets a reference execute the same program one      *)
(* instruction behind and compares the registers (difftest.c), and keeps   *)
(* the last instructions in a ring (trace.c).                              *)
(*                                                                         *)
(* An instruction is what it is in Flow.  Of its result one thing matters  *)
(* here: whether the reference computes the same.  The reference itself is *)
(* external: it executes one instruction of the program per call.          *)
(***************************************************************************)
EXTENDS MemPort, Integers

CONSTANTS
  IRINGBUF_LEN,    \* 32 in the code
  MaxN             \* bound: the largest n of a command si n

ASSUME DifftestAssumption == IRINGBUF_LEN \in Nat \ {0} /\ MaxN \in Nat \ {0}

VARIABLES
  state,           \* CPU_state
  n,               \* what the running call of execute has left to do
  first,           \* nothing has retired yet
  skip_difftest,   \* a device was accessed since the last retirement
  skip_ref,        \* the two low bits of the mask in difftest.c, all that is read
  ref_pc,          \* the instruction the reference executes next
  result_W,        \* the result W is about to write, against the reference's
  ebreak_W,        \* W shows an ebreak, or the jump to itself that counts as one
  iringbuf, iringbuf_ptr,
  seen             \* history: where a port has pointed, other than to memory

coreVars == <<vars, portVars>>
diffVars == <<first, skip_difftest, skip_ref, ref_pc, seen>>
resultVars == <<result_W, ebreak_W>>
ringVars == <<iringbuf, iringbuf_ptr>>
hostVars == <<coreVars, state, n, diffVars, resultVars, ringVars>>

Verdict == {"same", "fault", "device"}
Slots == 0 .. IRINGBUF_LEN - 1

DiffTypeOK ==
  /\ TypeOK /\ {where_M, where_F} \subseteq Where
  /\ state \in {"RUNNING", "STOP", "END", "ABORT"}
  /\ n \in 0 .. MaxN
  /\ {first, skip_difftest, ebreak_W} \subseteq BOOLEAN
  /\ seen \subseteq Where
  /\ skip_ref \in 0 .. 3
  /\ ref_pc \in Id
  /\ result_W \in Verdict
  /\ iringbuf \in [Slots -> Id \cup {None}] /\ iringbuf_ptr \in Slots

DiffInit ==
  /\ Init /\ where_M = "memory" /\ where_F = "memory"
  /\ state = "RUNNING" /\ n = 0
  /\ first = TRUE /\ skip_difftest = FALSE /\ skip_ref = 0 /\ seen = {}
  /\ ref_pc = First
  /\ result_W = "same" /\ ebreak_W = FALSE
  /\ iringbuf = [i \in Slots |-> None] /\ iringbuf_ptr = 0

-----------------------------------------------------------------------------
Ended == state \in {"END", "ABORT"}

(* Commands.  si n and c start execute; si 0 returns at once; once the     *)
(* program has ended they print a message and do nothing.                  *)
cpu_exec ==
  /\ n = 0
  /\ IF Ended
       THEN UNCHANGED <<state, n>>
       ELSE n' \in 0 .. MaxN /\ state' = IF n' = 0 THEN "STOP" ELSE "RUNNING"
  /\ UNCHANGED <<coreVars, diffVars, resultVars, ringVars>>

-----------------------------------------------------------------------------
(* The bits of skip_ref that are ever read.                                *)
difftest_skip_ref_Shift(flag) == (skip_ref * 2 + IF flag THEN 1 ELSE 0) % 4
difftest_skip_ref(flag) == IF flag THEN (skip_ref * 2 + 1) % 4 ELSE skip_ref
SkipCheck(mask) == mask \div 2 = 1

DifftestDue_Always == TRUE
DifftestDue == ~first

(* The next place of the ring.  Mutants: it returns to the start too early, *)
(* or never.                                                               *)
NextRing_Short == IF iringbuf_ptr + 2 >= IRINGBUF_LEN THEN 0 ELSE iringbuf_ptr + 1
NextRing_NoWrap == iringbuf_ptr + 1
NextRing == (iringbuf_ptr + 1) % IRINGBUF_LEN

(* What the evaluation at the edge leaves in state: ebreak looks at W as   *)
(* it was before the edge, the memory is accessed as M, valid or not, and  *)
(* the PC show after it.  Mutant: only the data port is tested.            *)
StateAfterEval_Data ==
  IF Access = "outside" THEN "ABORT" ELSE IF ebreak_W THEN "END" ELSE state
StateAfterEval ==
  IF memory_out_of_bound THEN "ABORT" ELSE IF ebreak_W THEN "END" ELSE state

(* exec_once goes on clocking while W holds no instruction, even once the  *)
(* program has ended.                                                      *)
Bubble ==
  /\ ~valid_W_reg'
  /\ state' = StateAfterEval
  /\ skip_difftest' = (skip_difftest \/ in_mmio)
  /\ UNCHANGED <<n, first, skip_ref, ref_pc, resultVars, ringVars>>

(* An instruction is in W: the rest of exec_once, difftest_step and        *)
(* check_wp, whose answer is pause.  The registers the core shows do not   *)
(* include the result in W yet, so the reference is to have executed what  *)
(* retired before; the result compared is that one's.                      *)
Retire(result, brk, pause) ==
  LET flag == skip_difftest \/ in_mmio
      mask == difftest_skip_ref(flag)
      refNow == IF SkipCheck(mask) THEN W'.id ELSE Succ[ref_pc]
      mismatch == /\ DifftestDue /\ ~SkipCheck(mask)
                  /\ refNow # W'.id \/ result_W # "same"
      checked == IF mismatch THEN "ABORT" ELSE StateAfterEval
      after == IF checked = "RUNNING" /\ pause THEN "STOP" ELSE checked
  IN  /\ valid_W_reg'
      /\ skip_difftest' = FALSE /\ skip_ref' = mask
      /\ IF StateAfterEval = "END"
           THEN UNCHANGED ringVars
           ELSE /\ iringbuf' = [iringbuf EXCEPT ![iringbuf_ptr] = W'.id]
                /\ iringbuf_ptr' = NextRing
      /\ first' = FALSE
      /\ ref_pc' = IF DifftestDue THEN refNow ELSE ref_pc
      /\ result_W' = result /\ ebreak_W' = brk
      /\ n' = IF after = "RUNNING" THEN n - 1 ELSE 0
      /\ state' = IF after = "RUNNING" /\ n = 1 THEN "STOP" ELSE after

(* A store writes no register; a device answers a load of the core and the  *)
(* same load of the reference as it likes.                                 *)
Verdicts ==
  CASE W'.kind = "store" -> {"same"}
    [] W'.kind = "load" /\ where_M = "device" -> Verdict
    [] OTHER -> {"same", "fault"}
Breaks == IF W'.kind = "plain" THEN BOOLEAN ELSE {FALSE}

(* Of the inputs of CoreEdge those that can show the host something new.   *)
(* A fetch that does not go to memory narrows what the core does next, and *)
(* has no other effect when the data port goes there too, when the flag it *)
(* sets is set or no longer read, or when the program is aborted already.  *)
FetchMatters ==
  IF where_F' = "device"
    THEN Access # "device" /\ ~skip_difftest /\ skip_ref # 3
    ELSE Access # "outside" /\ (state = "ABORT" => ebreak_W)

(* A pause at the last of n, and a result once the program has ended, make *)
(* no difference; an ebreak and the jump to itself write no register.      *)
exec_once(rvalid) ==
  /\ n > 0
  /\ CoreEdge(rvalid)
  /\ where_F' # "memory" => FetchMatters
  /\ seen' = seen \cup ({Access, where_F'} \ {"memory"})
  /\ \/ Bubble
     \/ \E result \in Verdicts, brk \in Breaks, pause \in BOOLEAN :
          /\ pause => n > 1
          /\ brk => result = "same"
          /\ Retire(result, brk, pause)
          /\ Ended' => ~pause /\ result = "same"

DiffNext == cpu_exec \/ \E rvalid \in Answers : exec_once(rvalid)

(* An edge on which a waiting load, if there is one, is answered.          *)
Answered ==
  /\ n > 0
  /\ clk' = ~clk
  /\ M_state = "M_LOAD" => valid_W_reg' = TRUE

(* The loop of execute runs on and the memory answers again and again;     *)
(* commands come or do not come.                                           *)
DiffSpec == DiffInit /\ [][DiffNext]_hostVars /\ WF_clk(Answered)

-----------------------------------------------------------------------------
Retires == n > 0 /\ valid_W_reg'

(* The reference runs one instruction behind the retirement it is compared *)
(* at: whatever was skipped or copied, after each comparison it stands at  *)
(* the instruction in W, so it has executed exactly what the registers of  *)
(* the core show (execute skips the first call; difftest_step).            *)
RefInStep == [][Retires => ref_pc' = W'.id]_hostVars

(* Until a port has pointed to a device, difftest is a fair judge.  A      *)
(* wrong result stops the program with ABORT at the next retirement, and   *)
(* nothing else does but an address outside memory, at either port: that   *)
(* one stops it at the next retirement too, if only as the END of an       *)
(* ebreak (checkregs, pmem_read, pmem_write, ebreak).  An address the      *)
(* program never uses is enough: M shows stale ones, and the PC those of   *)
(* wrong paths.                                                            *)
VerdictIsRight ==
  [][Retires /\ "device" \notin seen' =>
       /\ result_W = "fault" => state' = "ABORT"
       /\ state' = "ABORT" => result_W = "fault" \/ "outside" \in seen'
       /\ "outside" \in seen' => state' \in {"ABORT", "END"}]_hostVars

(* A device answers the reference otherwise than the core.  The delay of   *)
(* the skip mask hides that from the comparison in all cases but one: the  *)
(* first device access of all, when only one retirement was flagged.       *)
FalseAlarmOnlyOnce ==
  [][Retires /\ result_W = "device" /\ state' = "ABORT" /\ "outside" \notin seen'
       => skip_ref' = 1]_hostVars

(* The ring, read backwards from iringbuf_ptr, holds the instructions that *)
(* retired last, in the order of the program and without a gap             *)
(* (write_iringbuf).                                                       *)
Newest(j) == iringbuf[(iringbuf_ptr - j) % IRINGBUF_LEN]
RingHoldsLast ==
  /\ \A j \in 1 .. IRINGBUF_LEN - 1 :
       Newest(j + 1) # None => Newest(j) = Succ[Newest(j + 1)]
  /\ ~first /\ state \in {"RUNNING", "STOP"} => Newest(1) = W.id

(* si n and c return to the prompt, whatever the stalls and the latency.   *)
CommandReturns == n > 0 ~> n = 0

(* What init_difftest announces: the result of every instruction is        *)
(* compared.  At the least a wrong result must then be found when no       *)
(* device was accessed between its retirement and the next.                *)
EveryResultCompared ==
  [][Retires /\ result_W = "fault" /\ ~skip_difftest /\ ~in_mmio
       => state' = "ABORT"]_hostVars
=============================================================================
