------------------------------ MODULE MCDifftest ------------------------------
(* Difftest on a ring of MCK dynamic instructions, with a short trace ring. *)
EXTENDS Difftest

CONSTANT MCK
MCId == 0 .. MCK - 1
MCSucc == [i \in MCId |-> (i + 1) % MCK]
=============================================================================
