-------------------------------- MODULE MCUart --------------------------------
(* Uart with frames of two data bits and the clocks per bit of the code.    *)
EXTENDS Uart

MCByte == {[k \in 1 .. DataBits |-> k % 2], [k \in 1 .. DataBits |-> 1]}
=============================================================================
