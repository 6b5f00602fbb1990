-------------------------------- MODULE Strings --------------------------------
(***************************************************************************)
(* klib's string.c.  A memory mem is a function from 0 .. Size(mem) to     *)
(* characters; a character is an unsigned number, 0 the end of a string.   *)
(***************************************************************************)
EXTENDS Integers, FiniteSetsExt

(* The loops of string.c stop at the least index at which they may.        *)
Size(mem) == Max(DOMAIN mem)
Zeros(mem, s) == {i \in 0 .. Size(mem) - s : mem[s + i] = 0}
strlen(mem, s) == Min(Zeros(mem, s))

(* One byte after the other, upwards, each read from the memory the        *)
(* previous ones have left.                                                *)
CopyUp(mem, dst, src, n) ==
  LET after[i \in 0 .. n] ==
        IF i = 0 THEN mem
        ELSE LET m == after[i - 1] IN [m EXCEPT ![dst + i - 1] = m[src + i - 1]]
  IN  after[n]

memcpy(mem, out, in, n) == CopyUp(mem, out, in, n)

(* Downwards the index is unsigned and never becomes negative: the loop    *)
(* does not end, and there is no memory afterwards.  Mutant: always up.    *)
Loops == <<>>
memmove_Up(mem, dst, src, n) == CopyUp(mem, dst, src, n)
memmove(mem, dst, src, n) == IF dst < src THEN CopyUp(mem, dst, src, n) ELSE Loops

memset(mem, s, c, n) == [a \in DOMAIN mem |-> IF a \in s .. s + n - 1 THEN c ELSE mem[a]]

strcpy(mem, dst, src) ==
  LET n == strlen(mem, src) IN [CopyUp(mem, dst, src, n) EXCEPT ![dst + n] = 0]

strncpy(mem, dst, src, n) ==
  LET k == Min({n} \cup Zeros(mem, src))
  IN  memset(CopyUp(mem, dst, src, k), dst + k, 0, n - k)

strcat(mem, dst, src) ==
  LET i == strlen(mem, dst)
      n == strlen(mem, src)
  IN  [CopyUp(mem, dst + i, src, n) EXCEPT ![dst + i + n] = 0]

(* Where two strings differ or one of them ends.                           *)
Ends(mem, s1, s2) ==
  {i \in 0 .. Size(mem) - (IF s1 > s2 THEN s1 ELSE s2) :
     mem[s1 + i] = 0 \/ mem[s2 + i] = 0 \/ mem[s1 + i] # mem[s2 + i]}

strcmp(mem, s1, s2) == LET i == Min(Ends(mem, s1, s2)) IN mem[s1 + i] - mem[s2 + i]

(* Mutant: the bound is forgotten.                                         *)
strncmp_Bare(mem, s1, s2, n) == strcmp(mem, s1, s2)
strncmp(mem, s1, s2, n) ==
  LET i == Min({n} \cup Ends(mem, s1, s2)) IN IF i = n THEN 0 ELSE mem[s1 + i] - mem[s2 + i]

memcmp(mem, s1, s2, n) ==
  LET i == Min({n} \cup {j \in 0 .. n - 1 : mem[s1 + j] # mem[s2 + j]})
  IN  IF i = n THEN 0 ELSE mem[s1 + i] - mem[s2 + i]
=============================================================================
