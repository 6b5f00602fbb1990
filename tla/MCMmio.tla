-------------------------------- MODULE MCMmio --------------------------------
(* Mmio on a ring of MCK dynamic instructions and with wave files of few    *)
(* cycles.                                                                  *)
EXTENDS Mmio

CONSTANT MCK
MCId == 0 .. MCK - 1
MCSucc == [i \in MCId |-> (i + 1) % MCK]
=============================================================================
