-------------------------------- MODULE Words --------------------------------
(***************************************************************************)
(* Machine words of XLEN bits, unsigned, with wrap-around.  The code has   *)
(* XLEN = 32; the bit operations here are defined for any power of two.    *)
(***************************************************************************)
EXTENDS Integers

CONSTANT XLEN

ASSUME XLENAssumption == XLEN \in Nat \ {0}

(* A law of arithmetic, stated because the provers know none about powers. *)
ASSUME PowerAssumption ==
  \A k \in 0 .. XLEN : 2^k \in Nat \ {0} /\ \A j \in 0 .. k : 2^k = 2^j * 2^(k - j)

Word == 0 .. 2^XLEN - 1
Wrap(x) == x % 2^XLEN

Bit(x, k) == (x \div 2^k) % 2
Msb(x) == Bit(x, XLEN - 1)

(* The word with the given bits, and the word read as two's complement.    *)
WordOf(bits) == CHOOSE x \in Word : \A k \in 0 .. XLEN - 1 : Bit(x, k) = bits[k]
Signed(x) == IF Msb(x) = 1 THEN x - 2^XLEN ELSE x

Not(a) == 2^XLEN - 1 - a
And(a, b) == WordOf([k \in 0 .. XLEN - 1 |-> Bit(a, k) * Bit(b, k)])
Or(a, b) == Not(And(Not(a), Not(b)))
Xor(a, b) == WordOf([k \in 0 .. XLEN - 1 |-> (Bit(a, k) + Bit(b, k)) % 2])
=============================================================================
