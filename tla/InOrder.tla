------------------------------- MODULE InOrder -------------------------------
(***************************************************************************)
(* What the control of the pipeline promises to its observer, the host     *)
(* that counts instructions at write-back (exec_once in                    *)
(* core/csrc/cpu.cpp waits for valid_W): every cycle retires either    *)
(* nothing or exactly the next instruction of the program order            *)
(* First, Succ[First], Succ[Succ[First]], ...                              *)
(***************************************************************************)

CONSTANTS
  Id,      \* dynamic instructions
  First,   \* the one that executes first after reset
  Succ,    \* program order
  None     \* nothing retires in this cycle

VARIABLES
  next,    \* the oldest instruction that has not retired
  out      \* what the write-back port shows in this cycle

Init == next = First /\ out = None

Retire == out' = next /\ next' = Succ[next]
Idle == out' = None /\ UNCHANGED next
Restart == out' = None /\ next' = First

Next == Retire \/ Idle \/ Restart

Spec == Init /\ [][Next]_<<next, out>>
=============================================================================
