---------------------------- MODULE DifftestProofs ----------------------------
(***************************************************************************)
(* Proofs about Difftest, for every program, every latency of the memory,  *)
(* every length of a command and every length of the ring.                 *)
(***************************************************************************)
EXTENDS Difftest, FlowProofs

HostTypeOK ==
  /\ state \in {"RUNNING", "STOP", "END", "ABORT"}
  /\ n \in 0 .. MaxN
  /\ {first, skip_difftest, ebreak_W} \subseteq BOOLEAN
  /\ seen \subseteq Where
  /\ skip_ref \in 0 .. 3
  /\ ref_pc \in Id
  /\ result_W \in Verdict
  /\ iringbuf \in [Slots -> Id \cup {None}] /\ iringbuf_ptr \in Slots

(* A command that has something left to do has not stopped.                *)
Working == n > 0 => state # "STOP"

(* The reference stands at the instruction in W, one before the oldest of  *)
(* the pipeline, once an instruction is there.                             *)
RefBehind ==
  IF first THEN ref_pc = Oldest ELSE ref_pc = W.id /\ Oldest = Succ[ref_pc]

(* A flag that entered the mask stays its low bit, and it is there before  *)
(* the result of a device load can disagree.                               *)
ShownDevice == accesses(M) /\ where_M = "device"
FlagsCover ==
  /\ skip_ref \in {0, 1, 3}
  /\ ShownDevice => skip_difftest \/ skip_ref # 0
  /\ result_W = "device" => skip_ref # 0

(* Nothing is flagged or to be excused before the first device access, and *)
(* W shows neither a wrong result nor an ebreak before the first retires.  *)
Untouched ==
  "device" \notin seen =>
    ~skip_difftest /\ skip_ref = 0 /\ ~ShownDevice /\ result_W # "device"
NothingYet == first => result_W = "same" /\ ~ebreak_W

(* An address outside memory ends the program, and while a command goes on *)
(* nothing else has aborted it.                                            *)
Strayed ==
  /\ "outside" \in seen => Ended
  /\ n > 0 /\ state = "ABORT" => "outside" \in seen

(* The ring ends with the instruction in W as long as another can retire.  *)
Chained ==
  \A j \in 1 .. IRINGBUF_LEN - 1 :
    Newest(j + 1) # None => Newest(j) = Succ[Newest(j + 1)]
RingBehind ==
  IF first THEN \A i \in Slots : iringbuf[i] = None
  ELSE n > 0 \/ state \in {"RUNNING", "STOP"} => Newest(1) = ref_pc

DiffInv ==
  /\ PortInv /\ HostTypeOK /\ Working /\ RefBehind
  /\ FlagsCover /\ Untouched /\ NothingYet /\ Strayed
  /\ Chained /\ RingBehind

-----------------------------------------------------------------------------
(* Writing the ring moves every entry one further from its end.            *)
LEMMA RingStep ==
  ASSUME HostTypeOK, NEW x,
         iringbuf' = [iringbuf EXCEPT ![iringbuf_ptr] = x], iringbuf_ptr' = NextRing
  PROVE  /\ iringbuf_ptr' \in Slots
         /\ Newest(1)' = x
         /\ \A j \in 1 .. IRINGBUF_LEN - 1 : Newest(j + 1)' = Newest(j)
<1> USE DifftestAssumption
<1> DEFINE L == IRINGBUF_LEN
           p == iringbuf_ptr
           q == iringbuf_ptr'
<1>1. L \in Nat \ {0} /\ p \in 0 .. L - 1
  BY DEF HostTypeOK, Slots
<1>2. q = IF p = L - 1 THEN 0 ELSE p + 1
  <2>1. CASE p = L - 1
    <3>1. p + 1 \in L .. 2 * L - 1 /\ p + 1 - L = 0
      BY <1>1, <2>1
    <3>2. (p + 1) % L = 0
      BY <1>1, <3>1
    <3>3. QED BY <2>1, <3>2 DEF NextRing
  <2>2. CASE p # L - 1
    <3>1. p + 1 \in 0 .. L - 1
      BY <1>1, <2>2
    <3>2. (p + 1) % L = p + 1
      BY <1>1, <3>1
    <3>3. QED BY <2>2, <3>2 DEF NextRing
  <2>3. QED BY <2>1, <2>2
<1>3. (q - 1) % L = p
  BY <1>1, <1>2
<1>4. \A j \in 1 .. L - 1 : (q - (j + 1)) % L = (p - j) % L /\ (p - j) % L \in (0 .. L - 1) \ {p}
  <2> SUFFICES ASSUME NEW j \in 1 .. L - 1
               PROVE  (q - (j + 1)) % L = (p - j) % L /\ (p - j) % L \in (0 .. L - 1) \ {p}
    OBVIOUS
  <2>1. CASE j <= p
    <3>1. (p - j) % L = p - j
      BY <1>1, <2>1
    <3>2. (q - (j + 1)) % L = p - j
      <4>1. CASE p = L - 1
        <5>1. q - (j + 1) \in Int /\ -L <= q - (j + 1) /\ q - (j + 1) < 0
              /\ q - (j + 1) + L = p - j
          BY <1>1, <1>2, <4>1
        <5>2. QED BY <1>1, <5>1
      <4>2. CASE p # L - 1
        BY <1>1, <1>2, <2>1, <4>2
      <4>3. QED BY <4>1, <4>2
    <3>3. QED BY <1>1, <2>1, <3>1, <3>2
  <2>2. CASE p < j
    <3>1. (p - j) % L = p - j + L
      BY <1>1, <2>2
    <3>2. (q - (j + 1)) % L = p - j + L
      <4>1. q - (j + 1) \in Int /\ -L <= q - (j + 1) /\ q - (j + 1) < 0
            /\ q - (j + 1) + L = p - j + L
        BY <1>1, <1>2, <2>2
      <4>2. QED BY <1>1, <4>1
    <3>3. QED BY <1>1, <2>2, <3>1, <3>2
  <2>3. QED BY <1>1, <2>1, <2>2
<1>5. q \in Slots
  BY <1>1, <1>2 DEF Slots
<1>6. Newest(1)' = x
  BY <1>1, <1>3 DEF Newest, HostTypeOK, Slots
<1>7. \A j \in 1 .. L - 1 : Newest(j + 1)' = Newest(j)
  BY <1>1, <1>4 DEF Newest, HostTypeOK, Slots
<1>8. QED BY <1>5, <1>6, <1>7

-----------------------------------------------------------------------------
LEMMA DiffInitInv == DiffInit => DiffInv
<1> SUFFICES ASSUME DiffInit PROVE DiffInv
  OBVIOUS
<1>1. PortInv
  BY PortInit DEF DiffInit
<1>2. HostTypeOK
  <2>1. ref_pc \in Id /\ iringbuf \in [Slots -> Id \cup {None}]
    BY FlowAssumption DEF DiffInit
  <2>2. n \in 0 .. MaxN /\ iringbuf_ptr \in Slots
    BY DifftestAssumption DEF DiffInit, Slots
  <2>3. {first, skip_difftest, ebreak_W} \subseteq BOOLEAN /\ seen \subseteq Where
    BY DEF DiffInit
  <2>4. result_W \in Verdict /\ state = "RUNNING" /\ skip_ref = 0
    BY DEF DiffInit, Verdict
  <2>5. QED BY <2>1, <2>2, <2>3, <2>4 DEF HostTypeOK
<1>3. Working /\ Untouched /\ NothingYet /\ FlagsCover /\ Strayed
  BY DEF DiffInit, Working, Untouched, NothingYet, FlagsCover, ShownDevice, Strayed
<1>4. RefBehind
  BY DEF DiffInit, Init, CtrlInit, RefBehind, Oldest, occupied_M
<1>5. RingBehind
  BY DEF DiffInit, RingBehind
<1>6. Chained
  <2>1. ASSUME NEW j \in 1 .. IRINGBUF_LEN - 1 PROVE Newest(j + 1) = None
    <3>1. (iringbuf_ptr - (j + 1)) % IRINGBUF_LEN \in Slots
      BY <1>2, DifftestAssumption DEF HostTypeOK, Slots
    <3>2. QED BY <3>1 DEF DiffInit, Newest
  <2>2. QED BY <2>1 DEF Chained
<1>7. QED BY <1>1, <1>2, <1>3, <1>4, <1>5, <1>6 DEF DiffInv

(* The commands c and si.                                                  *)
LEMMA CommandInv == DiffInv /\ cpu_exec => DiffInv'
<1> SUFFICES ASSUME DiffInv, cpu_exec PROVE DiffInv'
  OBVIOUS
<1>1. PortInv' /\ Oldest' = Oldest /\ W' = W /\ M' = M /\ where_M' = where_M
  BY PortStutter DEF DiffInv, cpu_exec, coreVars, vars, portVars
<1>2. UNCHANGED <<diffVars, resultVars, ringVars>>
  BY DEF cpu_exec
<1>3. HostTypeOK' /\ Working' /\ Strayed'
  BY <1>2, DifftestAssumption
  DEF DiffInv, HostTypeOK, Working, Strayed, Ended, cpu_exec, diffVars, resultVars, ringVars
<1>4. RefBehind' /\ FlagsCover' /\ Untouched' /\ NothingYet'
  BY <1>1, <1>2
  DEF DiffInv, RefBehind, FlagsCover, Untouched, NothingYet, ShownDevice, accesses,
      diffVars, resultVars
<1>5. Chained'
  BY <1>2 DEF DiffInv, Chained, Newest, ringVars
<1>6. RingBehind'
  BY <1>2 DEF DiffInv, RingBehind, HostTypeOK, Newest, Ended, ringVars, diffVars, cpu_exec
<1>7. QED BY <1>1, <1>3, <1>4, <1>5, <1>6 DEF DiffInv

(* What holds after any edge of the core in exec_once.                     *)
LEMMA ExecEdge ==
  ASSUME DiffInv, NEW rvalid \in Answers, exec_once(rvalid)
  PROVE  /\ PortInv' /\ Oldest \in Id
         /\ valid_W_reg' => W' = M /\ W'.id = Oldest /\ Oldest' = Succ[Oldest]
         /\ ~valid_W_reg' => W' = W /\ Oldest' = Oldest
         /\ ShownDevice' => in_mmio
         /\ in_mmio \in BOOLEAN /\ valid_W_reg' \in BOOLEAN
         /\ seen \subseteq seen' /\ seen' \subseteq Where
         /\ in_mmio => "device" \in seen'
         /\ "outside" \in seen' <=> "outside" \in seen \/ memory_out_of_bound
<1>1. PortInv' /\ Oldest \in Id
  BY EdgeInv DEF DiffInv, exec_once
<1>2. /\ valid_W_reg' => W' = M /\ W'.id = Oldest /\ Oldest' = Succ[Oldest]
      /\ ~valid_W_reg' => W' = W /\ Oldest' = Oldest
  BY EdgeInv DEF DiffInv, exec_once
<1>3. ShownDevice' => in_mmio
  BY DEF in_mmio, Access, ShownDevice, accesses
<1>4. in_mmio \in BOOLEAN
  BY DEF in_mmio
<1>5. valid_W_reg' \in BOOLEAN
  BY <1>1 DEF PortInv, FlowInv, TypeOK, CtrlTypeOK
<1>6. seen' = seen \cup ({Access, where_F'} \ {"memory"})
  BY DEF exec_once
<1>7. Access \in Where /\ where_F' \in Where
  BY <1>1 DEF PortInv, Access, Where
<1>8. seen \subseteq seen' /\ seen' \subseteq Where
  BY <1>6, <1>7 DEF DiffInv, HostTypeOK
<1>9. /\ in_mmio => "device" \in seen'
      /\ "outside" \in seen' <=> "outside" \in seen \/ memory_out_of_bound
  BY <1>6 DEF in_mmio, memory_out_of_bound
<1>10. QED BY <1>1, <1>2, <1>3, <1>4, <1>5, <1>8, <1>9

LEMMA BubbleInv ==
  ASSUME DiffInv, NEW rvalid \in Answers, exec_once(rvalid), Bubble
  PROVE  DiffInv'
<1>1. /\ PortInv' /\ W' = W /\ Oldest' = Oldest
      /\ ShownDevice' => in_mmio
      /\ in_mmio \in BOOLEAN
      /\ seen \subseteq seen' /\ seen' \subseteq Where
      /\ in_mmio => "device" \in seen'
      /\ "outside" \in seen' <=> "outside" \in seen \/ memory_out_of_bound
  BY ExecEdge DEF Bubble
<1>2. UNCHANGED <<n, first, skip_ref, ref_pc, resultVars, ringVars>>
      /\ skip_difftest' = (skip_difftest \/ in_mmio)
      /\ state' = StateAfterEval /\ n > 0
  BY DEF exec_once, Bubble
<1>3. StateAfterEval \in {"ABORT", "END", state}
      /\ (memory_out_of_bound => StateAfterEval = "ABORT")
      /\ (StateAfterEval = "ABORT" => memory_out_of_bound \/ state = "ABORT")
  BY DEF StateAfterEval
<1>4. HostTypeOK'
  BY <1>1, <1>2, <1>3 DEF DiffInv, HostTypeOK, resultVars, ringVars
<1>5. Working' /\ RefBehind' /\ NothingYet'
  BY <1>1, <1>2, <1>3 DEF DiffInv, Working, RefBehind, NothingYet, resultVars
<1>6. FlagsCover' /\ Untouched'
  BY <1>1, <1>2 DEF DiffInv, HostTypeOK, FlagsCover, Untouched, resultVars
<1>7. Chained'
  BY <1>2 DEF DiffInv, Chained, Newest, ringVars
<1>8. RingBehind'
  BY <1>2 DEF DiffInv, RingBehind, HostTypeOK, Newest, ringVars
<1>9. Strayed'
  BY <1>1, <1>2, <1>3 DEF DiffInv, Strayed, Ended
<1>10. QED BY <1>1, <1>4, <1>5, <1>6, <1>7, <1>8, <1>9 DEF DiffInv

(* The mask after the flag of a retirement has entered it.                 *)
LEMMA MaskStep ==
  ASSUME skip_ref \in {0, 1, 3}, NEW flag \in BOOLEAN
  PROVE  /\ difftest_skip_ref(flag) \in {0, 1, 3}
         /\ flag \/ skip_ref # 0 => difftest_skip_ref(flag) # 0
         /\ ~flag => difftest_skip_ref(flag) = skip_ref
         /\ SkipCheck(difftest_skip_ref(flag)) <=> difftest_skip_ref(flag) = 3
BY DEF difftest_skip_ref, SkipCheck

(* A retirement: where the reference stands after it, when it disagrees,   *)
(* and what that does to the state of the simulation.                      *)
LEMMA RetireStep ==
  ASSUME DiffInv, NEW rvalid \in Answers, exec_once(rvalid),
         NEW result \in Verdicts, NEW brk \in Breaks, NEW pause \in BOOLEAN,
         Retire(result, brk, pause)
  PROVE  /\ ref_pc' = W'.id
         /\ skip_ref' = difftest_skip_ref(skip_difftest \/ in_mmio)
         /\ state' = "ABORT" <=> \/ ~first /\ ~SkipCheck(skip_ref') /\ result_W # "same"
                                 \/ StateAfterEval = "ABORT"
         /\ n' > 0 => state' = "RUNNING"
         /\ n' > 0 \/ state' \in {"RUNNING", "STOP"} => StateAfterEval \notin {"END", "ABORT"}
         /\ n' \in 0 .. MaxN
         /\ state' \in {"RUNNING", "STOP", "END", "ABORT"}
<1> DEFINE mask == difftest_skip_ref(skip_difftest \/ in_mmio)
           refNow == IF SkipCheck(mask) THEN W'.id ELSE Succ[ref_pc]
           mismatch == /\ DifftestDue /\ ~SkipCheck(mask)
                       /\ refNow # W'.id \/ result_W # "same"
           checked == IF mismatch THEN "ABORT" ELSE StateAfterEval
           after == IF checked = "RUNNING" /\ pause THEN "STOP" ELSE checked
<1>1. /\ skip_ref' = mask /\ first' = FALSE
      /\ ref_pc' = (IF DifftestDue THEN refNow ELSE ref_pc)
      /\ n' = (IF after = "RUNNING" THEN n - 1 ELSE 0)
      /\ state' = (IF after = "RUNNING" /\ n = 1 THEN "STOP" ELSE after)
      /\ valid_W_reg'
  BY DEF Retire
<1>2. W'.id = Oldest /\ W' = M /\ Oldest' = Succ[Oldest] /\ in_mmio \in BOOLEAN
  BY <1>1, ExecEdge
<1>3. DifftestDue => refNow = W'.id
  BY <1>2 DEF DiffInv, RefBehind, DifftestDue
<1>4. ref_pc' = W'.id
  BY <1>1, <1>2, <1>3 DEF DiffInv, RefBehind, DifftestDue
<1>5. mismatch <=> ~first /\ ~SkipCheck(mask) /\ result_W # "same"
  BY <1>3 DEF DifftestDue
<1>6. StateAfterEval \in {"ABORT", "END", state} /\ state \in {"RUNNING", "STOP", "END", "ABORT"}
  BY DEF StateAfterEval, DiffInv, HostTypeOK
<1>7. state # "STOP" /\ n \in 1 .. MaxN
  BY DEF DiffInv, Working, HostTypeOK, exec_once
<1>8. state' = "ABORT" <=> mismatch \/ StateAfterEval = "ABORT"
  BY <1>1, <1>6
<1>9. n' \in 0 .. MaxN /\ (n' > 0 => state' = "RUNNING")
  <2>1. CASE after = "RUNNING"
    BY <1>1, <1>7, <2>1, DifftestAssumption
  <2>2. CASE after # "RUNNING"
    BY <1>1, <1>7, <2>2, DifftestAssumption
  <2>3. QED BY <2>1, <2>2
<1>10. n' > 0 \/ state' \in {"RUNNING", "STOP"} => StateAfterEval \notin {"END", "ABORT"}
  BY <1>1, <1>6, <1>7
<1>11. state' \in {"RUNNING", "STOP", "END", "ABORT"}
  BY <1>1, <1>6
<1>12. QED BY <1>1, <1>4, <1>5, <1>8, <1>9, <1>10, <1>11

LEMMA RetireInv ==
  ASSUME DiffInv, NEW rvalid \in Answers, exec_once(rvalid),
         NEW result \in Verdicts, NEW brk \in Breaks, NEW pause \in BOOLEAN,
         Retire(result, brk, pause)
  PROVE  DiffInv'
<1>1. /\ PortInv' /\ Oldest \in Id
      /\ W' = M /\ W'.id = Oldest /\ Oldest' = Succ[Oldest]
      /\ ShownDevice' => in_mmio
      /\ in_mmio \in BOOLEAN
      /\ seen \subseteq seen' /\ seen' \subseteq Where
      /\ in_mmio => "device" \in seen'
      /\ "outside" \in seen' <=> "outside" \in seen \/ memory_out_of_bound
  BY ExecEdge DEF Retire
<1> DEFINE flag == skip_difftest \/ in_mmio
<1>2. flag \in BOOLEAN /\ (skip_difftest => flag)
  BY <1>1 DEF DiffInv, HostTypeOK
<1>3. /\ skip_difftest' = FALSE /\ skip_ref' = difftest_skip_ref(flag)
      /\ first' = FALSE /\ result_W' = result /\ ebreak_W' = brk
      /\ IF StateAfterEval = "END"
           THEN UNCHANGED ringVars
           ELSE /\ iringbuf' = [iringbuf EXCEPT ![iringbuf_ptr] = W'.id]
                /\ iringbuf_ptr' = NextRing
      /\ n > 0
  BY DEF Retire, exec_once
<1>4. /\ ref_pc' = W'.id
      /\ n' > 0 => state' = "RUNNING"
      /\ n' > 0 \/ state' \in {"RUNNING", "STOP"} => StateAfterEval \notin {"END", "ABORT"}
      /\ n' \in 0 .. MaxN
      /\ state' \in {"RUNNING", "STOP", "END", "ABORT"}
  BY RetireStep
<1>5. result \in Verdict /\ brk \in BOOLEAN /\ (result = "device" => ShownDevice)
  BY <1>1 DEF Verdicts, Verdict, Breaks, ShownDevice, accesses
<1>6. skip_ref' \in {0, 1, 3} /\ (flag \/ skip_ref # 0 => skip_ref' # 0)
      /\ (~flag => skip_ref' = skip_ref)
  BY <1>2, <1>3, MaskStep DEF DiffInv, FlagsCover
<1>7. FlagsCover'
  BY <1>1, <1>2, <1>3, <1>5, <1>6 DEF DiffInv, FlagsCover
<1>8. Untouched'
  BY <1>1, <1>2, <1>3, <1>5, <1>6 DEF DiffInv, HostTypeOK, Untouched
<1>9. Working' /\ NothingYet'
  BY <1>3, <1>4 DEF Working, NothingYet
<1>10. RefBehind'
  BY <1>1, <1>3, <1>4 DEF RefBehind
<1>11. HostTypeOK'
  <2>1. iringbuf' \in [Slots -> Id \cup {None}] /\ iringbuf_ptr' \in Slots
    <3>1. CASE StateAfterEval = "END"
      BY <1>3, <3>1 DEF DiffInv, HostTypeOK, ringVars
    <3>2. CASE StateAfterEval # "END"
      BY <1>1, <1>3, <3>2, RingStep DEF DiffInv, HostTypeOK
    <3>3. QED BY <3>1, <3>2
  <2>2. seen' \subseteq Where
    BY <1>1
  <2>3. {first, skip_difftest, ebreak_W}' \subseteq BOOLEAN
    BY <1>3, <1>5
  <2>4. skip_ref' \in 0 .. 3 /\ ref_pc' \in Id /\ result_W' \in Verdict
    BY <1>1, <1>3, <1>4, <1>5, <1>6
  <2>5. QED BY <1>4, <2>1, <2>2, <2>3, <2>4 DEF HostTypeOK
<1>12. Chained' /\ RingBehind'
  <2>1. CASE StateAfterEval = "END"
    <3>1. Chained'
      BY <1>3, <2>1 DEF DiffInv, Chained, Newest, ringVars
    <3>2. QED BY <1>3, <1>4, <2>1, <3>1 DEF RingBehind
  <2>2. CASE StateAfterEval # "END"
    <3>1. Newest(1)' = W'.id /\ \A j \in 1 .. IRINGBUF_LEN - 1 : Newest(j + 1)' = Newest(j)
      BY <1>3, <2>2, RingStep DEF DiffInv
    <3>2. ASSUME NEW j \in 1 .. IRINGBUF_LEN - 1, Newest(j + 1)' # None
          PROVE  Newest(j)' = Succ[Newest(j + 1)']
      <4>1. CASE j = 1
        <5>1. Newest(2)' = Newest(1) /\ Newest(1) # None
          BY <3>1, <3>2, <4>1
        <5>2. Newest(1) = IF first THEN None ELSE ref_pc
          <6>1. iringbuf_ptr - 1 \in Int
            BY DifftestAssumption DEF DiffInv, HostTypeOK, Slots
          <6>2. (iringbuf_ptr - 1) % IRINGBUF_LEN \in Slots
            BY <6>1, DifftestAssumption DEF Slots
          <6>3. QED BY <1>3, <6>2 DEF DiffInv, RingBehind, Newest
        <5>3. QED BY <1>1, <3>1, <4>1, <5>1, <5>2 DEF DiffInv, RefBehind
      <4>2. CASE j # 1
        <5>1. j - 1 \in 1 .. IRINGBUF_LEN - 1 /\ (j - 1) + 1 = j
          BY <4>2, DifftestAssumption
        <5>2. Newest(j)' = Newest(j - 1) /\ Newest(j + 1)' = Newest(j)
          BY <3>1, <5>1
        <5>3. QED BY <3>2, <5>1, <5>2 DEF DiffInv, Chained
      <4>3. QED BY <4>1, <4>2
    <3>3. QED BY <1>3, <1>4, <3>1, <3>2 DEF Chained, RingBehind
  <2>3. QED BY <2>1, <2>2
<1>13. Strayed'
  <2>1. StateAfterEval = "ABORT" \/ StateAfterEval = state \/ StateAfterEval = "END"
    BY DEF StateAfterEval
  <2>2. "outside" \in seen' => StateAfterEval \in {"END", "ABORT"}
    BY <1>1, <2>1 DEF DiffInv, Strayed, Ended, StateAfterEval
  <2>3. QED BY <1>4, <2>2 DEF Strayed, Ended
<1>14. QED
  BY <1>1, <1>7, <1>8, <1>9, <1>10, <1>11, <1>12, <1>13 DEF DiffInv

LEMMA DiffNextInv == DiffInv /\ [DiffNext]_hostVars => DiffInv'
<1> SUFFICES ASSUME DiffInv, [DiffNext]_hostVars PROVE DiffInv'
  OBVIOUS
<1>1. CASE cpu_exec
  BY <1>1, CommandInv
<1>2. ASSUME NEW rvalid \in Answers, exec_once(rvalid) PROVE DiffInv'
  <2>1. CASE Bubble
    BY <1>2, <2>1, BubbleInv
  <2>2. ASSUME NEW result \in Verdicts, NEW brk \in Breaks, NEW pause \in BOOLEAN,
               Retire(result, brk, pause)
        PROVE  DiffInv'
    BY <1>2, <2>2, RetireInv
  <2>3. QED BY <1>2, <2>1, <2>2 DEF exec_once
<1>3. CASE UNCHANGED hostVars
  <2>1. PortInv' /\ Oldest' = Oldest /\ W' = W /\ M' = M /\ where_M' = where_M
    BY <1>3, PortStutter DEF DiffInv, hostVars, coreVars, vars, portVars
  <2>2. UNCHANGED <<state, n, diffVars, resultVars, ringVars>>
    BY <1>3 DEF hostVars
  <2>3. /\ HostTypeOK' /\ Working' /\ RefBehind' /\ FlagsCover' /\ Untouched' /\ NothingYet'
        /\ Strayed'
    BY <2>1, <2>2
    DEF DiffInv, HostTypeOK, Working, RefBehind, FlagsCover, Untouched, NothingYet, Strayed,
        Ended, ShownDevice, accesses, diffVars, resultVars, ringVars
  <2>4. Chained' /\ RingBehind'
    BY <2>2 DEF DiffInv, Chained, RingBehind, Newest, diffVars, ringVars
  <2>5. QED BY <2>1, <2>3, <2>4 DEF DiffInv
<1>4. QED BY <1>1, <1>2, <1>3 DEF DiffNext

(* The reference, the skip mask, the trace ring and the pipeline stay      *)
(* related as above in every reachable state (cpu.cpp, difftest.c).        *)
THEOREM DiffInvariant == DiffSpec => []DiffInv
BY DiffInitInv, DiffNextInv, PTL DEF DiffSpec

(* Type correctness of the host around the pipeline.                       *)
THEOREM DiffTypesOK == DiffSpec => []DiffTypeOK
<1>1. DiffInv => DiffTypeOK
  BY DEF DiffInv, HostTypeOK, DiffTypeOK, PortInv, FlowInv
<1>2. QED BY <1>1, DiffInvariant, PTL

(* The trace ring holds the instructions that retired last, in program     *)
(* order and without a gap (write_iringbuf).                               *)
THEOREM DiffRingHoldsLast == DiffSpec => []RingHoldsLast
<1>1. DiffInv => RingHoldsLast
  BY DEF DiffInv, Chained, RingBehind, RefBehind, RingHoldsLast
<1>2. QED BY <1>1, DiffInvariant, PTL

(* A step of the host that retires an instruction is a retirement of       *)
(* exec_once, or no step at all.                                           *)
LEMMA RetiresOnce ==
  ASSUME DiffInv, DiffNext, Retires
  PROVE  \E rvalid \in Answers : exec_once(rvalid) /\
           \E result \in Verdicts, brk \in Breaks, pause \in BOOLEAN :
             Retire(result, brk, pause)
BY DEF DiffNext, Retires, cpu_exec, exec_once, Bubble

(* Whatever was skipped or copied, the reference stands at the instruction *)
(* in W after every retirement: it runs exactly one behind the registers   *)
(* it is compared with (execute, difftest_step).                           *)
THEOREM DiffRefInStep == DiffSpec => RefInStep
<1> DEFINE Stands == Retires => ref_pc' = W'.id
<1>1. ASSUME DiffInv, [DiffNext]_hostVars PROVE [Stands]_hostVars
  BY <1>1, RetiresOnce, RetireStep
<1>2. QED BY <1>1, DiffInvariant, PTL DEF DiffSpec, RefInStep

(* Until a port has pointed to a device, difftest stops the simulation at  *)
(* the retirement after a wrong result, and nothing else aborts it but an  *)
(* address outside the memory at the data port or at the instruction port, *)
(* on a wrong path too: that never lets the program go on (checkregs,      *)
(* pmem_read, pmem_write).                                                 *)
THEOREM DiffVerdictIsRight == DiffSpec => VerdictIsRight
<1> DEFINE Judged ==
      Retires /\ "device" \notin seen' =>
        /\ result_W = "fault" => state' = "ABORT"
        /\ state' = "ABORT" => result_W = "fault" \/ "outside" \in seen'
        /\ "outside" \in seen' => state' \in {"ABORT", "END"}
<1>1. ASSUME DiffInv, [DiffNext]_hostVars PROVE [Judged]_hostVars
  <2> SUFFICES ASSUME DiffNext, Retires, "device" \notin seen' PROVE Judged
    BY <1>1
  <2>1. PICK rvalid \in Answers : exec_once(rvalid) /\
          \E result \in Verdicts, brk \in Breaks, pause \in BOOLEAN :
            Retire(result, brk, pause)
    BY <1>1, RetiresOnce
  <2>2. "device" \notin seen /\ ~in_mmio
        /\ ("outside" \in seen' <=> "outside" \in seen \/ memory_out_of_bound)
    BY <1>1, <2>1, ExecEdge
  <2>3. /\ ~skip_difftest /\ skip_ref = 0 /\ result_W \in {"same", "fault"}
        /\ first => result_W = "same"
    BY <1>1, <2>2 DEF DiffInv, Untouched, NothingYet, HostTypeOK, Verdict
  <2>4. skip_ref' = difftest_skip_ref(skip_difftest \/ in_mmio)
        /\ (state' = "ABORT" <=> \/ ~first /\ ~SkipCheck(skip_ref') /\ result_W # "same"
                                 \/ StateAfterEval = "ABORT")
    BY <1>1, <2>1, RetireStep
  <2>5. skip_ref' = 0 /\ ~SkipCheck(skip_ref')
    BY <2>2, <2>3, <2>4 DEF difftest_skip_ref, SkipCheck
  <2>6. StateAfterEval = "ABORT" => "outside" \in seen'
    BY <1>1, <2>2 DEF StateAfterEval, DiffInv, Strayed, Retires
  <2>7. "outside" \in seen' => state' \in {"ABORT", "END"}
    BY <1>1, DiffNextInv DEF DiffInv, Strayed, Ended
  <2>8. QED BY <2>3, <2>4, <2>5, <2>6, <2>7
<1>2. QED BY <1>1, DiffInvariant, PTL DEF DiffSpec, VerdictIsRight

(* As long as no address has been outside the memory, the delay of the     *)
(* skip mask hides every device load whose answer differs but one that is  *)
(* compared while a single retirement has been flagged                     *)
(* (difftest_skip_ref, difftest_step).                                     *)
THEOREM DiffFalseAlarmOnlyOnce == DiffSpec => FalseAlarmOnlyOnce
<1> DEFINE OnlyOnce ==
      Retires /\ result_W = "device" /\ state' = "ABORT" /\ "outside" \notin seen'
        => skip_ref' = 1
<1>1. ASSUME DiffInv, [DiffNext]_hostVars PROVE [OnlyOnce]_hostVars
  <2> SUFFICES ASSUME DiffNext, Retires, result_W = "device", state' = "ABORT",
                      "outside" \notin seen'
               PROVE  skip_ref' = 1
    BY <1>1
  <2>1. PICK rvalid \in Answers : exec_once(rvalid) /\
          \E result \in Verdicts, brk \in Breaks, pause \in BOOLEAN :
            Retire(result, brk, pause)
    BY <1>1, RetiresOnce
  <2>2. skip_ref' = difftest_skip_ref(skip_difftest \/ in_mmio)
        /\ (state' = "ABORT" <=> \/ ~first /\ ~SkipCheck(skip_ref') /\ result_W # "same"
                                 \/ StateAfterEval = "ABORT")
    BY <1>1, <2>1, RetireStep
  <2>3. StateAfterEval # "ABORT"
    <3>1. "outside" \notin seen /\ ~memory_out_of_bound
      BY <1>1, <2>1, ExecEdge
    <3>2. QED BY <1>1, <3>1 DEF StateAfterEval, DiffInv, Strayed, Retires
  <2>4. ~SkipCheck(skip_ref')
    BY <2>2, <2>3
  <2>5. skip_difftest \/ in_mmio \in BOOLEAN
    BY <1>1, <2>1, ExecEdge DEF DiffInv, HostTypeOK
  <2>6. skip_ref \in {1, 3}
    BY <1>1 DEF DiffInv, FlagsCover
  <2>7. QED BY <2>2, <2>4, <2>5, <2>6, MaskStep
<1>2. QED BY <1>1, DiffInvariant, PTL DEF DiffSpec, FalseAlarmOnlyOnce
=============================================================================
