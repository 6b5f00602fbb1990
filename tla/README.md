# A TLA+ model of RV32-pipeline-summer

The repository is a five-stage in-order RV32 core in Verilog (`core/vsrc`), the
C++ program that simulates it under Verilator with differential testing and a
small debugger (`core/csrc`), and the Abstract Machine port that runs on it
(`abstract-machine`, `tests`).  This directory models the parts with logic of
their own, checks them with TLC on small instances, and proves with TLAPS, for
every instance, what the runs check of safety: that the pipeline retires the
program in order and computes what the instruction set says, that the host's
view of it keeps pace, and that the UART and the watchpoints do what they promise.

## 1. The system

### The core (`core/vsrc`)

| component | state | operations | interacts with |
|---|---|---|---|
| `valid_ctrl.v` | `valid_D_reg`, `valid_E_reg`, `M_state`, `valid_W_reg` | one clock edge: accept, hold, flush | enables every stage buffer and the PC; reads `stall_D`, `Pre_Wrong`, `load_E`, `rvalid` |
| `PC.v`, `BTB.v`, prediction in `datapath.v` | `PC_reg_F`, BTB entries | predict in F, update the BTB in D, correct in E | enabled by `ready_D`; flushes D and E |
| `mulcu_decoder.v` | none | decode an instruction to control signals | feeds `buffer_D_E` |
| `RAWdetect_forward.sv` | two captured operands | detect conflicts, stall D, capture forwarded values | reads all stage buffers and the valid signals |
| `ALU.v` | none | arithmetic, comparison, shift, flags | operands from E; branch condition |
| `buffer_ctrl.v`, `datapath.v` | stage buffers D, E, M, W | move an instruction one stage on | everything above |
| `RegisterFile.v`, `CSR.sv` | `rf`; `mtvec`, `mstatus`, `mepc`, `mcause` | write from W, read in D | not gated by `valid_W` |
| `npc.v`, `memory.v` | memory, `ReadData_M_valid_reg` | answer a read the cycle after its request | `rvalid` into `valid_ctrl.v` |
| `uart.sv` | FIFO, transmitter, receiver | take a byte from a store, shift it out, receive it back | written by the data bus, line looped back in `npc.v` |

### The simulation host (`core/csrc`)

| component | state | operations |
|---|---|---|
| `cpu.cpp` | `state`, `skip_difftest`, `first` | `single_cycle`, `exec_once` (clock until an instruction is in W), `execute`, `reset` |
| `difftest.c` | `skip_ref`, the reference's state | `difftest_step`: run the reference one instruction, compare, or copy and skip |
| `device/mmio.c`, `memory.cpp` | `last_simtime`, memory | `mmio_read`, `mmio_write` with a test against repeated calls |
| `watchpoint.c` | the pool, `head`, `free_` | `new_wp`, `free_wp`, `check_wp`, `delete_wp` |
| `sdb.c`, `expr.c` | none that lasts | commands; evaluate an expression |
| `trace.c`, `disasm.c`, `log.cpp` | ring buffer, call stack | text output |
| `wavemanager.cpp` | `sim_time`, the current wave file | evaluate the core, count evaluations, begin a new file |

### The software on the core (`abstract-machine`)

| component | state | operations |
|---|---|---|
| `klib/src/string.c` | none | copies and comparisons of strings and memory |
| `klib/src/stdlib.c` | `addr` | `malloc` moves a pointer up; `free` does nothing |
| `klib/src/stdio.c` | none | `vsnprintf` and its callers |
| `am/src/riscv/jingyeda`, `am/src/riscv/npc` | the trap context | `cte.c`, `trap.S`: `yield`, in `jingyeda` through CSRs and a jump, in `npc` by an `ecall`; `trm.c`: the heap |

### Where it is hard

* The stages do not advance together.  A load holds M while D and E wait or are
  flushed; a misprediction found in E during such a wait empties D at once and E
  only when M takes the jump.
* Nothing clears a stage buffer.  A bubble still shows the last instruction, and
  several signals look at the buffer without its valid bit: the write request
  (`MemWrite_M`), the read request, the register and CSR write enables of W, the
  conflict comparators.  Each is correct only because of an invariant about where
  a stale instruction can be.
* Operands are captured one cycle before they are used, from three stages, while
  the younger stages may stall in between.
* The prediction compares directions and never targets, so that the BTB must be
  right about every target it holds, even when a wrong-path instruction wrote it.
* The UART's FIFO counter has two writers in one cycle; both ends of the line
  leave a frame in the middle of its stop bit.
* The host sees the core only through `valid_W`, once per instruction, while
  MMIO reaches the host in every cycle in which M shows an access, valid or not.
  `difftest.c` and `mmio.c` must bridge the two: which retirement an access belongs
  to, and whether a call repeats the one before.
* The fetch reaches the host in the same way: `pmem_read` is called for whatever the
  PC holds, on a wrong path too, and does not look at `is_IF` (`npc.v:228`,
  `memory.cpp:74`).  An address the program never executes can end the run, take a
  byte of input or make `difftest.c` skip a comparison.
* The registers the host reads at a retirement do not have its result yet; the
  reference runs one instruction behind, from the second retirement on.
* Watchpoints move between two hand-written linked lists.

`PROJECT.json` lists each hazard at its line.

## 2. The modules

| module | what it is | source |
|---|---|---|
| `ValidCtrl` | the valid/ready control: its registers, its outputs as operators of the cycle's inputs, its clock edge | `valid_ctrl.v` |
| `Flow` | `ValidCtrl` composed with the buffer and PC enables, the stall condition and the redirection, for any program | `buffer_ctrl.v`, `PC.v`, `RAWdetect_forward.sv`, `datapath.v` |
| `InOrder` | abstract: each cycle retires nothing or the next instruction of the program | promise to `exec_once` |
| `FlowProofs` | the proofs about `Flow` and about `MemPort` | |
| `Words` | words of XLEN bits, signed view, wrapping | |
| `Decode` | the decoder | `mulcu_decoder.v`, `define.v` |
| `Alu` | adder, flags, logic, shifter, branch condition | `ALU.v` |
| `Arith` | reference arithmetic on integers (external: the instruction set) | |
| `AluProofs` | lemmas about words, the adder, the shifter and the decoder | |
| `Isa` | abstract: the sequential machine, one instruction per step (external: the reference of difftest) | |
| `Pipeline` | `ValidCtrl`, `Decode` and `Alu` composed with every data register of the core and its memory | `datapath.v`, `RAWdetect_forward.sv`, `BTB.v`, `PC.v`, `buffer_ctrl.v`, `RegisterFile.v`, `CSR.sv`, `npc.v` |
| `PipelineProofs` | the proofs about `Pipeline` | |
| `Uart` | transmitter with FIFO, receiver, looped back | `uart.sv`, `npc.v` |
| `ByteChannel` | abstract: bytes arrive once, in order, unchanged | |
| `UartProofs` | the proofs about `Uart` | |
| `Watchpoint` | the pool of watchpoints, the commands and the loop that use it | `watchpoint.c`, `sdb.c`, `cpu.cpp` |
| `WatchSet` | abstract: a set of numbered watchpoints | |
| `WatchpointProofs` | the proofs about `Watchpoint` | |
| `MemPort` | `Flow` with the addresses of M and of the fetch: which calls to the host each edge makes | `memory.v`, `memory.cpp`, `npc.v` |
| `Mmio` | `MemPort` under the clock of the wave files, with the tests of device accesses | `mmio.c`, `wavemanager.cpp` |
| `Difftest` | `MemPort` under the loop of the host, with the reference and the trace ring | `cpu.cpp`, `difftest.c`, `trace.c` |
| `MmioProofs`, `DifftestProofs` | the proofs about `Mmio` and about `Difftest` | |
| `Expr` | the expression evaluator, from the tokens on | `expr.c` |
| `ByteAccess` | loads and stores of every width | `datapath.v`, `memory.cpp` |
| `Strings`, `Heap` | copies and comparisons; `malloc` | `string.c`, `stdlib.c` |
| `MemoryCheck` | a byte memory, disjoint blocks and contents of strings, as references for `ByteAccess`, `Heap` and `Strings` | |
| `CheckProofs` | the proofs about `AluCheck` and `MemoryCheck` | |
| `Stdio` | `vsnprintf`, from the parsed format on | `stdio.c` |
| `FunctionCheck` | `MemoryCheck` with a grammar and the read-back of numbers, as references for `Expr` and `Stdio` | |
| `AluCheck`, `MCFlow`, `MCPipeline`, `MCUart`, `MCMmio`, `MCDifftest`, `MCFunctions` | instances for TLC | |

How state and actions correspond to the code:

* **Hardware.**  A register is a variable of the same name (a stage buffer is one
  record: `D`, `E`, `M`, `W`), a wire is an operator of the current state, and a
  clock edge with `rst` low is one step.  The edges of several modules are
  conjoined, as they happen together: `Clk` of `Flow` and of `Pipeline`.  Names
  are those of the Verilog.
* **`Flow` against `Pipeline`.**  `Flow` knows of an instruction its place in the
  program and one of four kinds (`plain`, `load`, `store`, `miss`); what the
  control reads from the data (register conflicts, memory answers) is chosen
  afresh in every cycle.  What holds in `Flow` therefore holds for every program
  and every memory latency.  `Pipeline` has the values: it computes conflicts,
  forwards, predicts and executes.  An instruction there is a record of its
  fields, with the immediate already extended: the slicing of bits in
  `Imme_decoder` is left out, everything the fields drive is in.
* **`Flow` has resets**, at any time, as `cpu_init` and `initialize` assert `rst`
  one after the other.  `Pipeline` starts from the state after a reset.
* **The host.**  A command of the watchpoints is one action; a failing assertion or
  a null pointer followed is a terminal value of `state`.
* **The host over the core.**  `Mmio` and `Difftest` extend `Flow` through `MemPort`: one
  step is one `single_cycle`, the edge of the core together with what the host does
  in and after its evaluation.  `MemPort!Access` is the call `memory.v` makes for M after the
  edge; its address is chosen when an instruction enters M and otherwise kept
  (`where_M`).  `where_F` is where the fetch of the cycle goes, on any path: to memory, to a
  device or outside both.  Its valid signal is `ready_F`, so that D is ready at the
  next edge (`where_F_edge`) and every address is read in one cycle.  Either port can
  call `mmio_read` (`in_mmio`) or set `ABORT` (`memory_out_of_bound`).  What is read outside
  memory is 0, no instruction the control looks at.  In `Pipeline` every address is one
  of the instruction memory.
  `Difftest!Bubble` is an iteration of the loop in `exec_once`, `Difftest!Retire` its last
  one with the rest of `exec_once`, `difftest_step` and `check_wp`; `cpu_exec` is a
  command `c` or `si N`, of which `si 0` returns at once.  Of a result only one thing is kept: whether the reference gets the
  same (`same`), not (`fault`), or reads a device as well (`device`).
* **Functions.**  `Expr`, `ByteAccess`, `Heap`, `Strings` and `Stdio` are operators, loops
  written as folds, as recursive functions or as the least index at which a loop
  stops; a state of `MemoryCheck` is a memory or a heap, changed by stores and
  allocations, and one of `FunctionCheck` may also be an expression or a conversion.
  A token, a character or a byte is a member of a small set; a loop that does not
  end is a result of its own (`Loops`), as is an error or an assertion of `eval`.

## 3. The runs

| run | instance | shows |
|---|---|---|
| `flow` | 6 dynamic instructions in a ring | the inductive invariant; retirement refines `InOrder`; stores are requested once; redirections are not lost; liveness |
| `pipeline_isa` | XLEN = 2: all 65536 programs of four instructions over 16 | the pipeline refines `Isa`; the hazards of stale requests and of the BTB |
| `pipeline_csr` | XLEN = 3: programs of eight instructions with CSR accesses | the same with CSRs and `mret`, and that retirement never stops |
| `alu` | XLEN = 4: all operand pairs, all operations | decoder and ALU against integer arithmetic |
| `uart` | FIFO of 4, 10 clocks per bit, 2 data bits, two bytes | order and integrity from FIFO to receiver, draining |
| `uart_full` | the same | **violation**: `fifo_full` with a free place |
| `wp` | 4 nodes, 2 expressions, 2 values | lists intact, refinement of `WatchSet`, pauses on change and at the end of an `si N` only |
| `wp_delete` | the same | **violation**: deleting the oldest watchpoint |
| `mmio` | ring of 3 instructions, wave files of 12 evaluations | device stores take effect, input is not delivered twice |
| `difftest` | ring of 3, trace ring of 3, commands of up to 2 instructions | the reference keeps pace, verdicts are right with either port astray, commands return |
| `difftest_skip` | the same | **violation**: nothing is compared after two device accesses |
| `functions` | see below | evaluator, byte accesses and klib against their references |

Why the bounds are enough:

* `MCK = 6`.  At most five instructions are between fetch and retirement, so with
  six in the ring the next one differs from all in flight and a lost, repeated or
  reordered instruction shows.
* Four instruction addresses with three registers (one of them x0) give every
  pair and triple of dependences at distances 1, 2 and 3, taken and not taken
  branches in both directions, BTB aliasing (two entries for four addresses) and
  addresses that wrap; programs loop for ever.  Nothing in the datapath other than
  the ALU depends on the width of a word, and the ALU has a run of its own, in
  which 4 bits give every combination of sign, carry and overflow.
* `FIFO_DEPTH = 4` is enough for the pointers to wrap at different times while
  the counter meets its limit.  `BPS_CNT = 10` is the value in the code: the
  margins of the receiver depend on it, so it is not reduced.  Two data bits in
  place of eight leave the margins as they are: the distance between the two
  clocks is set at the start bit and does not grow within a frame.
* `NR_WP = 4`: deleting a watchpoint with a neighbour on both sides needs three in
  use and, because an empty free list crashes, one that is not.
* `lost` in `Uart` counts to 2 only: the state after the second lost decrement is
  reached, and `FifoIntact` claims nothing beyond the first.

* `MCK = 3` in `mmio` and `difftest`: order and exactly-once retirement are the matter of
  `flow`; here an instruction must differ from its two neighbours only, which are
  what a device access, its retirement and the comparison behind it touch.
* Wave files of 12 evaluations, six cycles: a new file begins at every distance from
  a device store, and more than once while stores are dropped.  `MAX_WAVE_SIZE` is even
  in the code as here, so that a file never begins inside a cycle.
* A fetch from a device or from outside memory is an input of `difftest` only where it
  does something a fetch from memory does not (`FetchMatters`); `mmio` has all fetches.
* A command of two instructions is one that goes on after a retirement and one that
  ends there; several commands follow one another, which is when `first` matters.
* `functions`: all token sequences of up to seven tokens over numbers, `-`, `*` and
  parentheses, and over `-`, `/`, `<`, `&&`, and of up to five over the other operators.
  Seven tokens are the least for `(a)-(b)`, which is not one parenthesis, and for three
  operators of different levels; the value of a number depends on its place, one is
  0.  Bytes have 2 bits: what is tested is which byte goes where and which bit is
  copied.  Memories of six characters over three values, all of them; pairs of
  places and lengths, all of them.  All combinations of four flags, widths and
  precisions below, at and above the length of the number, four lengths and the
  extreme arguments of each; three formats around them and every size from 0 to 8.

`wp` is checked without deadlock detection: a crash ends the debugger.  So is
`functions`: an input that is complete has no successor.

### Fairness

* `Flow!FairSpec` is weak fairness of an edge with `rst` low on which the read
  channel answers.  `single_cycle` is called in a loop and `npc.v` answers a read
  at the next edge or the one after, so both are what the code does.  Resets are not
  assumed to end: the properties say so where they need it.
* `Pipeline!FairSpec` and `Uart!Spec` are weak fairness of the clock edge.
* `Difftest!DiffSpec` is weak fairness of an edge, while a command runs, on which a
  waiting load is answered: the loop of `execute` calls `single_cycle` for ever, and
  `npc.v` answers.  Nobody has to type a command.  `Mmio` has safety properties only.

### What the violations show

* `uart_full` (`uart.sv:76`).  The decrement of `fifo_cnt` is the `else` branch of
  the CPU's write.  A write in the one cycle in which `uart_tx_en` is high swallows
  it; `fifo_cnt` stays one too large, and the flag that means "FIFO满标志，告诉CPU不再接受写入"
  (`uart.sv:10`) is raised with one place free.  After the second such write
  the transmitter sends a byte that was never written.  `FifoIntact` shows that
  up to the first one the bytes themselves are safe.
* `wp_delete` (`watchpoint.c:48`).  `new_wp` inserts at the head, so the oldest
  watchpoint has `next == NULL`, and `free_wp` writes through it.
* `difftest_skip` (`difftest.c:66`).  `skip_ref` is shifted and one is added when a
  retirement was flagged, and is left alone when none was, so the second flagged
  retirement sets bit 1 for good.  From then on `difftest_step` copies the registers
  of the core to the reference and compares nothing, against "The result of every
  instruction will be compared" (`difftest.c:54`).  The trace has two device accesses and
  then a wrong result with no device access next to it.

### Properties with a condition

* `ImplementsIsa` is about programs whose CSR instructions keep a distance, as those of
  `am/src/riscv/jingyeda` (`yield` in `cte.c`, with its two `nop`, and `trap.S`) do.  CSRs are read in D and written
  from W, what was read is forwarded from W only, and nothing in the hardware
  enforces the distance.  `Pipeline!SpacedPrograms` states it: along every path an
  instruction that reads a CSR is not one of the three behind one that writes it
  (`CsrApart`), and one that uses the result of a CSR instruction is not one of the
  next two (`UseApart`).  Neither distance can be less: with two instructions in
  place of three, or one in place of two, TLC finds programs of `csrrw`, `csrrs`,
  `mret`, `addi`, `store` and `bne` for which `ImplementsIsa` fails.  TLC evaluates
  `SpacedPrograms` for the programs of both pipeline runs.
* Programs do not write instruction memory.  A BTB entry is never invalidated, so
  `BtbTargetsAreReal` needs it.
* `TwoWaitingDrain` is about two waiting bytes, because the transmitter starts only
  with `fifo_cnt > 1`: a single byte waits for the next one.
* `PausesExactlyOnChange` is about sessions in which `w` always had an expression:
  without one `cmd_w` (`sdb.c:131`) keeps a node whose empty text does not evaluate, and
  `check_wp` returns at the first such node.  Of an `si N` it says that it pauses when a
  value changes, and may pause without a change only because its last instruction
  is done.
* `VerdictIsRight` is about the time until a port has pointed to a device (afterwards see
  `difftest_skip`).  It says that a wrong result stops the program with `ABORT` at the next
  retirement; that nothing else does, except an address outside memory; and that
  after such an address no retirement leaves the program running.  The address need
  not be one the program uses: M shows stale ones in a bubble, and the fetch follows
  wrong paths and predictions, so a right run can end with `ABORT`.  An `ebreak` in W at
  an evaluation after the `ABORT` turns it into `END` (`npc.cpp:37`), which the property allows.
* `FalseAlarmOnlyOnce`: the delay of the skip mask covers a device load that retires at
  the retirement after the flagged one.  The first device load of a session is not
  covered when it is flagged once only: the reference, which reads no device, may then
  differ and the session ends with `ABORT`.  A fetch from a device flags a retirement as a
  load does.  Runs with an address outside memory are left out: they are aborted by it.
* `StoreReachesDevice` leaves out two cases in which `mmio_write` loses a store: the
  second of two device stores in consecutive cycles, and the stores of a new wave
  file until the time of the last store of the old file is past, because `sim_time`
  starts again (`wavemanager.cpp:27`) and `last_simtime` (`mmio.c:71`) does not.
* `NoByteTwice` says that no byte goes to two loads, not that none is lost: `getchar` is
  called in every cycle a load of the UART stays in M, and for a fetch there, and the
  comment "prevent repeat read" (`mmio.c:25`) has no test under it.
* `DeleteNeverCrashes` is about `d`.  That a `w` with a bad expression in the last free node
  writes through the null `free_` as well (`watchpoint.c:52`) is a state of the model
  (`SEGV_w`) which no property forbids.
* `MovesOldContents` allows `memmove` not to return when the destination is not below
  the source: `i >= 0` is true of every `size_t` (`string.c:83`).
* `FieldReadsBack` reads `%x` and `%X` in base 10, as `format_integer` prints them
  (`stdio.c:175`), and accepts a sign before an unsigned number when a flag asks for it.
* `TruncatesToPrefix` allows the terminating 0 at `buf[size]`, one place behind the
  buffer (`stdio.c:332`).
* `BlocksApart` is about sizes that do not wrap a pointer, and only blocks before the
  last lie within the heap (`stdlib.c:45`).
* `ExprMeansGrammar` is about the value; both operands of `&&` and `||` are evaluated, so
  `0 && 1/0` ends the simulator, in the reference grammar too, and where parentheses do
  not match it accepts the assertion (`expr.c:181`) as well as an error.  An address outside
  `pmem` is undefined in `paddr_read` and not among the inputs.

## 4. The proofs

Every safety invariant, action property and refinement that a passing run checks is
also a theorem, for every value of the constants, except three invariants of
`functions` (`ExprMeansGrammar`, `FieldReadsBack`, `TruncatesToPrefix`).  The assumptions are those
the modules state with `ASSUME`, which TLC evaluates in the runs, and one
hypothesis of one theorem (`SpacedPrograms`), which TLC evaluates as well.

| module | for every | theorems | property |
|---|---|---|---|
| `FlowProofs` | program order, memory latency, data | `FlowInvariant`, `FlowStoresOnlyWhenValid`, `FlowStoreIssuedOnce`, `FlowRedirectNotLost`, `FlowRetiresInOrder` | `FlowInv`, `StoresOnlyWhenValid`, `StoreIssuedOnce`, `RedirectNotLost`, `RetiresInOrder` |
| `CheckProofs` | width of a word | `AluIsRight`, `BranchesAreRight` | `AluComputesArith`, `BranchesCompare` |
| | values of a byte, size of memory, words stored | `MemoryLoadsReadStores` | `LoadsReadWhatStoresWrote` |
| | bounds of the heap, requests | `HeapBlocksApart` | `BlocksApart` |
| | characters, size of memory | `StringFunctionsAreRight`, `MovesAreRight` | `StringsAreRight`, `MovesOldContents` |
| `PipelineProofs` | width, registers, BTB, memory, set of programs | `PipelineTypeOK`, `PipelineWriteRequestIsValid`, `PipelineRedirectNotStalled`, `PipelineBtbTargetsAreReal` | `TypeOK`, `WriteRequestIsValid`, `RedirectNotStalled`, `BtbTargetsAreReal` |
| | the same, CSR instructions at their distance | `PipelineImplementsIsa` | `ImplementsIsa` |
| `MmioProofs` | size of a wave file | `MmioTypesOK`, `MmioStoreReachesDevice`, `MmioNoByteTwice` | `MmioTypeOK`, `StoreReachesDevice`, `NoByteTwice` |
| `DifftestProofs` | length of the ring and of commands | `DiffTypesOK`, `DiffRingHoldsLast`, `DiffRefInStep`, `DiffVerdictIsRight`, `DiffFalseAlarmOnlyOnce` | `DiffTypeOK`, `RingHoldsLast`, `RefInStep`, `VerdictIsRight`, `FalseAlarmOnlyOnce` |
| `UartProofs` | depth, clocks per bit from 5, data bits | `UartTypesOK`, `UartFifoIntact`, `UartLoopbackIsReliable` | `TypeOK`, `FifoIntact`, `LoopbackIsReliable` |
| `WatchpointProofs` | size of the pool, expressions, values | `WatchTypesOK`, `WatchListsIntact`, `WatchImplementsSet`, `WatchPausesOnChange` | `TypeOK`, `ListsIntact`, `ImplementsSet`, `PausesExactlyOnChange` |

None of the properties is inductive as it stands.  What had to be added, and why:

* **`Flow`** (`FlowInv`).  That D follows E in the program is lost if an instruction can
  stall in D while E moves on, and the PC can miss a redirection if D can stall on
  that edge.  `InSequence` says that M, E, D and the fetch address hold consecutive
  instructions, except behind a mispredicted jump in E; `OnPath` that M and E never hold a
  wrong-path instruction; `NoHoles` that there are only two causes for a bubble, and
  hence that an instruction waiting in D always has its load right in front of it,
  and that a store in M, even a stale one, is one that finishes now.  There is one
  lemma for `Init` and one for each disjunct of `Next` (`Tick`, `Reset`).
* **`MemPort`, `Mmio`, `Difftest`**.  Their steps are edges of `Flow` together with what the host
  does, so that `FlowInv` carries over (`PortInv`, in `FlowProofs`).  `MmioInv` adds that a
  wave file still open has seen no device store within three evaluations except the one
  M shows, and that a load waiting in M was read.  `DiffInv` adds where the reference
  stands (at the instruction in W; before the first retirement at the oldest of the
  pipeline), that the ring ends there, that a flag is in the mask before the result
  of a device load can differ, and that the program has ended once an address was
  outside memory, and is not aborted while a command runs unless one was (`Strayed`).
* **`AluCheck`**.  No invariant but the type of the inputs is needed; the work is in
  `AluProofs`.  Its lemmas take the code's definitions, which work on the bits of
  words, to integers: subtraction with its carry and overflow (`Subtraction`), the signed
  and the unsigned comparison (`SignedLess`, `UnsignedLess`), the shifts
  (`ArithmeticShift`), and that a word is determined by its bits (`SameBits`).
  The law of powers they need, 2^k = 2^j * 2^(k-j), is `PowerAssumption` of `Words`: TLC
  evaluates it, and the provers take it as given because they do not define `^`.
* **`MemoryCheck`** (`MemoryInv`).  Its specification, `MemorySpec`, is the part of
  `FunctionCheck!Spec` that no recursive operator enters: the states in which a memory
  or a heap is looked at.  The invariant is that the two memories are equal byte by
  byte (`AccessInv`), that the pointer of the heap is aligned and above every block
  (`HeapInv`), and that a memory of strings is one (`StringInv`).  The work is in the
  lemmas.  `FourDigits`: a word is its bytes, whatever the number of values of a byte
  (`RadixAssumption`, the law of powers again), from which `LoadIsRight` follows for every
  width, sign and alignment.  `CopyUpIs`: the loop that copies upwards, a recursive
  function of the number of steps, ends with the contents moved when no byte is
  overwritten before it is read, which is so for a lower destination or a region
  apart; `CopyMoves`, `StrcpyIsRight`, `StrcatIsRight` and `StrncpyIsRight` are what it
  means for their callers.  `OrderAt`: the least index at which two texts differ or
  one ends (`EndsIs`) decides their order in the dictionary, from which `StrcmpIsRight`,
  `StrncmpIsRight` and `MemcmpIsRight` follow.
* **`Pipeline`** (`FetchInv`, for all programs).  `BuffersHoldProgram`: what a buffer shows, valid
  or not, is the program's instruction at its address.  `JumpsPredicted`, `PredictionFollowed`:
  only jumps and branches are ever predicted taken, and the instruction behind one in E
  is at the predicted address, or at none.  `MStateMatches`, `NoHoles` are those of the
  control.  `BtbTargetsAreReal` itself is inductive only together with them.
  `ProgramAssumption` (the programs consist of instructions) is what TLC's instances
  satisfy and the type of the instruction memory in the code.
* **`Pipeline` implements `Isa`** (`IsaInv`).  `OperandsRight`: the operands E uses are those after
  the instruction in M, whatever captured and forwarded values they were chosen from;
  `ExecutedRight`: M has computed what the instruction set makes of its instruction
  from the registers then, and its successor in the pipeline is where it goes;
  `WrittenBack`: writing W again while it is invalid changes nothing.  Each is shown over
  four kinds of edges: M waits (`Waits`), a mispredicted jump leaves E (`Diverts`), D
  stalls (`Holds`), everything moves (`Advances`).  A step of `Isa` is the edge on which M
  leaves; all others stutter.
* **CSR instructions** (in `IsaInv`).  `CsrsRight`: what E and M read of a CSR in D is what it
  holds when they are the next to be done.  The instruction whose write would make
  it stale is in W or further on, or has just left W; `AfterW` says of the last one
  done that the oldest instruction of the pipeline may follow it in the program, so
  that the three steps of `CsrApart` reach from W to D.  The result of a CSR
  instruction is not among those forwarded from E and M, and `UseApart` keeps its readers
  two steps away (`OperandsRight`).
* **`SpacedPrograms`**, the hypothesis of `PipelineImplementsIsa`, is the distance of section
  3.  `Known` adds that a CSR instruction is one the core has (`csrrw`, `csrrs`, `mret`,
  on an existing CSR: others alias `mtvec`), and that a code which is no instruction
  names no destination register; the invariant carries it as `KnownBuffers`.
* **`Uart`** (`UartInv`).  `TxCounters`, `RxWaits`, `RxFollows`: from the start bit on the receiver is
  exactly three clocks behind the transmitter (`ThreeBehind`), or it waits and the edge
  of a start bit is at most three clocks away.  `OnLine` says which bit is on the line, so
  that a sample in the middle of the receiver's bit is the same bit of the transmitter:
  this holds when three more than half a bit is at most a bit.  `LineHolds`: there is at most
  one byte on the way, in one place after the other, and the bits sampled are its first
  ones.  The proof attempt with any number of clocks failed for a reason: with 2, the
  counter of a bit runs past the stop bit, and with 4 the receiver samples the next
  bit (TLC has the counterexamples), so `UartAssumption` asks for 5, and for at most
  14 data bits, which the 4-bit counters can number.  The code has 10 and 8.
  `Ring` is the invariant of the FIFO: the write pointer is as many slots after the
  oldest byte as there are bytes.
* **`Watchpoint`** (`WatchInv`).  `InOrder`: the two lists are the two parts of one order of all nodes;
  taking a node from the free list and giving one back permute that order
  (`ToFront`, `ToBack`).  This replaces reachability, for which `Nth` recurses along `next`.
  `NthIs` shows that `Nth` walks the order, by the least place at which it would not.
  `ShowNow`: while the program may run, every watchpoint shows the present value.

What is model-checked only:

* Liveness (`AlwaysRetiresAgain`, `EveryDecodedRetires`, `RetiresForever`, `TwoWaitingDrain`,
  `CommandReturns`): the proof system does not reason about fairness and `ENABLED`.
* `ExprMeansGrammar`, `FieldReadsBack` and `TruncatesToPrefix`.  `eval`, the grammar and `Digits` are
  recursive operators, for which the provers have no rule; what they compute for
  every input is an induction over expressions and numbers.

Induction on numbers is used in one form only, that a non-empty set of naturals has a
least element (`Least`); it follows from `WellFoundedInduction`.

## 5. What is not modelled

* byte and half-word loads and stores and resets of the data registers inside
  `Pipeline` (`ByteAccess` has the former by themselves, `Flow` the resets); the
  multiplier (`RV32M` is off in `pipeline_config.v`);
* `uart_top` and `uart_tx`, `AXI4Lite_*.sv`, `Reg.v` and the FPGA top: not part of the
  simulated design;
* `performance_counter.sv`, `instr_trace.v`, the memory, device and call traces,
  disassembly, logs: they observe and drive nothing.  `ftrace_decode` (`trace.c:133`) counts
  its depth below 0 and beyond the 32 names it keeps, which shows in its text only;
* the crosswise call of `Cget_CSR` (`cpu.cpp:298`): `Difftest` has one verdict for all
  registers;
* loading of the image (`memory.cpp`); the tokenizer of `expr.c`, a table of
  regular expressions; the commands `info`, `x`, `p` and `help`; `parse_format`, `atoi`,
  `rand` and `abs`; the timer and the terminal behind the UART of the host;
* a division by zero or an unmapped address inside a watched expression, which end the
  simulator from inside `check_wp`;
* lengths of texts: `cmd_w` copies an expression of any length into the 128 characters of
  a node (`sdb.c:142`);
* vendored code (`core/tools/capstone`, nearly all of the repository's C), `core/useless`,
  `netlist`, tests: no logic of this program.

## 6. The plan

Done: all modules of section 2, their runs, and the proofs of section 4.  One proof
would add to them: that `Pipeline` implements `Flow` with the addresses of the program as
places in it, so that what `FlowProofs` and the host's proofs say holds of the
datapath as well.  `Flow` numbers the instructions that were executed while `Pipeline`
knows addresses only, so it needs a variable in `Pipeline` that counts them.
