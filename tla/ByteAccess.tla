------------------------------ MODULE ByteAccess ------------------------------
(***************************************************************************)
(* How a load or a store of a byte, a half-word or a word reaches the      *)
(* memory of the simulator: the lanes and the extension of datapath.v, and *)
(* the word that memory.cpp reads and writes whatever the width, at any    *)
(* alignment.  A word is an integer of four digits in base RADIX.          *)
(*                                                                         *)
(* mem has the MSIZE bytes of pmem and the three behind them, which the    *)
(* code reaches because it tests the first address of an access only.      *)
(***************************************************************************)
EXTENDS Integers

CONSTANTS
  RADIX,     \* 256: one more than the largest byte
  MSIZE

ASSUME ByteAssumption == RADIX \in Nat /\ RADIX % 2 = 0 /\ RADIX > 0 /\ MSIZE \in Nat \ {0}

(* A law of arithmetic, stated because the provers know none about powers. *)
ASSUME RadixAssumption == RADIX^0 = 1 /\ \A i \in 0 .. 3 : RADIX^(i + 1) = RADIX * RADIX^i

Lanes == 0 .. 3
Cells == 0 .. MSIZE + 2
Lane(word, i) == (word \div RADIX^i) % RADIX
Low(word, k) == word % RADIX^k

memory_out_of_bound(addr) == addr \notin 0 .. MSIZE - 1

(* Outside memory the simulator stops, after it has answered 0.            *)
pmem_read(mem, addr) ==
  IF memory_out_of_bound(addr) THEN 0
  ELSE mem[addr] + mem[addr + 1] * RADIX + mem[addr + 2] * RADIX^2 + mem[addr + 3] * RADIX^3

(* The word is read, the lanes of the mask are replaced, and the word is   *)
(* written back.                                                           *)
pmem_write(mem, addr, wdata, mask) ==
  IF memory_out_of_bound(addr) THEN mem
  ELSE [a \in Cells |-> IF a - addr \in mask THEN Lane(wdata, a - addr) ELSE mem[a]]

(* Mutant: a half-word takes the lanes of a word.                          *)
wmask_Wide(funct3) == IF funct3 % 4 = 0 THEN {0} ELSE Lanes
wmask(funct3) ==
  CASE funct3 % 4 = 0 -> {0} [] funct3 % 4 = 1 -> {0, 1} [] funct3 % 4 = 2 -> Lanes [] OTHER -> {}

(* The low k lanes, and above them copies of the topmost bit.              *)
SignExtended(word, k) ==
  IF Low(word, k) >= RADIX^k \div 2 THEN Low(word, k) + RADIX^4 - RADIX^k ELSE Low(word, k)

rdata_M(funct3, word) ==
  CASE funct3 = 0 -> SignExtended(word, 1)
    [] funct3 = 1 -> SignExtended(word, 2)
    [] funct3 = 4 -> Low(word, 1)
    [] funct3 = 5 -> Low(word, 2)
    [] OTHER -> word
=============================================================================
