-------------------------------- MODULE MCFlow --------------------------------
(* Flow on a ring of MCK dynamic instructions: more of them than the        *)
(* pipeline can hold, so a lost, repeated or reordered instruction shows.   *)
EXTENDS Flow, Naturals

CONSTANT MCK
MCId == 0 .. MCK - 1
MCSucc == [i \in MCId |-> (i + 1) % MCK]
=============================================================================
