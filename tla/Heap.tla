---------------------------------- MODULE Heap ----------------------------------
(***************************************************************************)
(* malloc of klib's stdlib.c: a pointer that only moves up; a pointer has  *)
(* UPTR values.  free does nothing.                                        *)
(***************************************************************************)
EXTENDS Integers

CONSTANTS UPTR, HeapStart, HeapEnd
ASSUME HeapAssumption ==
  /\ UPTR \in Nat /\ HeapStart \in 1 .. UPTR - 1 /\ HeapEnd \in HeapStart .. UPTR - 1
  /\ UPTR % 8 = 0 /\ HeapStart % 8 = 0

NULL == 0

(* Mutant: rounds down.                                                    *)
ROUNDUP_Down(a) == (a \div 8) * 8
ROUNDUP(a) == (((a + 7) % UPTR) \div 8) * 8

(* What it returns, and addr afterwards.                                   *)
malloc(addr, size) ==
  IF size = 0 \/ addr > HeapEnd THEN [ptr |-> NULL, addr |-> addr]
  ELSE [ptr |-> addr, addr |-> (addr + ROUNDUP(size)) % UPTR]
=============================================================================
