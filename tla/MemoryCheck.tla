------------------------------ MODULE MemoryCheck ------------------------------
(***************************************************************************)
(* Memory as a program sees it, over the code that provides it: loads and  *)
(* stores of every width (ByteAccess) against a memory of bytes, the       *)
(* blocks malloc hands out (Heap), and what string.c does to memory        *)
(* (Strings).  A step is a store or an allocation.                         *)
(***************************************************************************)
EXTENDS ByteAccess, Heap, Strings, Sequences

CONSTANTS
  Data,        \* words that are stored
  Sizes,       \* arguments of malloc
  Requests,    \* bound: the largest number of allocations
  Chars,       \* characters
  MemSize      \* how many of them the memory of string.c has, besides a last 0

ASSUME DataAssumption == Data \subseteq 0 .. RADIX^4 - 1 /\ Sizes \subseteq Nat
ASSUME CharAssumption == Chars \subseteq Nat /\ MemSize \in Nat

VARIABLES
  subject,     \* which function is looked at
  input        \* the state it works on
vars == <<subject, input>>

-----------------------------------------------------------------------------
(* Loads and stores.  bytes is the memory of a machine that stores and     *)
(* loads byte by byte.                                                     *)
Width(funct3) == CASE funct3 % 4 = 0 -> 1 [] funct3 % 4 = 1 -> 2 [] OTHER -> 4

AccessInit ==
  LET zero == [c \in Cells |-> c % 2] IN input = [mem |-> zero, bytes |-> zero]
StoreStep ==
  /\ subject = "access"
  /\ \E funct3 \in 0 .. 2, addr \in 0 .. MSIZE - 1, wdata \in Data :
       LET k == Width(funct3) IN
       /\ addr + k <= MSIZE
       /\ input' = [mem |-> pmem_write(input.mem, addr, wdata, wmask(funct3)),
                    bytes |-> [c \in Cells |-> IF c \in addr .. addr + k - 1
                                               THEN Lane(wdata, c - addr) ELSE input.bytes[c]]]
  /\ UNCHANGED subject

LoadBytes(bytes, funct3, addr) ==
  LET k == Width(funct3)
      byte(i) == IF i < k THEN bytes[addr + i] * RADIX^i ELSE 0
      value == byte(0) + byte(1) + byte(2) + byte(3)
      signed == IF funct3 < 2 /\ value >= RADIX^k \div 2 THEN value - RADIX^k ELSE value
  IN  signed % RADIX^4

(* Whatever was stored at whatever width and alignment, a load of any      *)
(* width gets the bytes last stored there, extended as the instruction     *)
(* says, although datapath.v and memory.cpp move whole words; and a store  *)
(* leaves the three bytes behind pmem, which it writes too, as they were.  *)
LoadsReadWhatStoresWrote ==
  subject = "access" =>
    /\ \A addr \in 0 .. MSIZE - 1, funct3 \in {0, 1, 2, 4, 5} :
         addr + Width(funct3) <= MSIZE =>
           rdata_M(funct3, pmem_read(input.mem, addr)) = LoadBytes(input.bytes, funct3, addr)
    /\ \A c \in MSIZE .. MSIZE + 2 : input.mem[c] = c % 2

-----------------------------------------------------------------------------
(* The heap: the blocks handed out so far.                                 *)
HeapInit == input = [addr |-> HeapStart, blocks |-> <<>>]
Allocate ==
  /\ subject = "malloc"
  /\ Len(input.blocks) < Requests
  /\ \E size \in Sizes :
       LET answer == malloc(input.addr, size) IN
       /\ input.addr + size + 7 < UPTR
       /\ input' = [addr |-> answer.addr,
                    blocks |-> Append(input.blocks, [ptr |-> answer.ptr, size |-> size])]
  /\ UNCHANGED subject

(* Blocks are aligned and never overlap, whatever is asked for in whatever *)
(* order, if no request wraps a pointer; only the last block that is       *)
(* handed out can reach beyond the end of the heap, which malloc compares  *)
(* with the start of a block only.                                         *)
BlocksApart ==
  subject = "malloc" =>
    \A i, j \in DOMAIN input.blocks :
      LET x == input.blocks[i]
          y == input.blocks[j]
      IN  i < j /\ x.ptr # NULL /\ y.ptr # NULL =>
            /\ x.ptr + x.size <= y.ptr
            /\ x.ptr % 8 = 0 /\ y.ptr % 8 = 0
            /\ x.ptr + x.size <= HeapEnd

-----------------------------------------------------------------------------
(* Strings, by contents rather than by loops.  The last cell of the memory *)
(* is 0, so that there is a string at every place.                         *)
Place == 0 .. MemSize
StringInit ==
  \E cells \in [0 .. MemSize - 1 -> Chars] :
    input = [mem |-> [c \in Place |-> IF c = MemSize THEN 0 ELSE cells[c]]]

Text(mem, s) == [i \in 1 .. strlen(mem, s) |-> mem[s + i - 1]]
Cell(mem, s, n) == [i \in 1 .. n |-> mem[s + i - 1]]
UnchangedBut(mem, after, dst, n) == \A c \in Place \ (dst .. dst + n - 1) : after[c] = mem[c]
Apart(d, n, s, k) == d + n <= s \/ s + k <= d

Before(s, t) ==     \* of two texts, the order of a dictionary
  \E i \in 1 .. Len(t) :
    (\A j \in 1 .. i - 1 : j <= Len(s) /\ s[j] = t[j]) /\ (i > Len(s) \/ s[i] < t[i])
Order(s, t) == IF Before(s, t) THEN -1 ELSE IF Before(t, s) THEN 1 ELSE 0
Sgn(x) == IF x > 0 THEN 1 ELSE IF x < 0 THEN -1 ELSE 0
Prefix(s, n) == SubSeq(s, 1, IF n < Len(s) THEN n ELSE Len(s))

CopiesAreRight(mem, d, s) ==
  LET k == Len(Text(mem, s)) + 1 IN
  /\ d + k - 1 \in Place /\ Apart(d, k, s, k) =>
       LET after == strcpy(mem, d, s) IN Text(after, d) = Text(mem, s) /\ UnchangedBut(mem, after, d, k)
  /\ LET j == Len(Text(mem, d)) IN
     d + j + k - 1 \in Place /\ Apart(d, j + k, s, k) =>
       LET after == strcat(mem, d, s)
       IN  Text(after, d) = Text(mem, d) \o Text(mem, s) /\ UnchangedBut(mem, after, d + j, k)
  /\ \A n \in 0 .. MemSize :
       d + n - 1 \in -1 .. MemSize /\ Apart(d, n, s, IF n < k THEN n ELSE k) =>
         LET after == strncpy(mem, d, s, n)
             text == Prefix(Text(mem, s), n)
         IN  Cell(after, d, n) = text \o [i \in 1 .. n - Len(text) |-> 0] /\ UnchangedBut(mem, after, d, n)

ComparisonsAreRight(mem, d, s) ==
  /\ Sgn(strcmp(mem, d, s)) = Order(Text(mem, d), Text(mem, s))
  /\ \A n \in 0 .. MemSize :
       Sgn(strncmp(mem, d, s, n)) = Order(Prefix(Text(mem, d), n), Prefix(Text(mem, s), n))
  /\ \A n \in 0 .. MemSize :
       d + n <= MemSize + 1 /\ s + n <= MemSize + 1 =>
         Sgn(memcmp(mem, d, s, n)) = Order(Cell(mem, d, n), Cell(mem, s, n))

(* string.c: copies give the destination the source's text and touch       *)
(* nothing else, comparisons order texts as sequences of unsigned          *)
(* characters, and no bound n is overrun or ignored.                       *)
StringsAreRight ==
  subject = "string" =>
    \A d, s \in Place : CopiesAreRight(input.mem, d, s) /\ ComparisonsAreRight(input.mem, d, s)

(* memcpy moves the contents of a region to another one, and memmove moves *)
(* the old contents even where the two overlap, when it returns: it does   *)
(* not, unless the destination is below the source.                        *)
MovesOldContents ==
  subject = "string" =>
    \A d, s \in Place, n \in 0 .. MemSize :
      d + n <= MemSize + 1 /\ s + n <= MemSize + 1 =>
        LET Moved(after) == Cell(after, d, n) = Cell(input.mem, s, n) /\ UnchangedBut(input.mem, after, d, n)
            after == memmove(input.mem, d, s, n)
        IN  /\ after = Loops \/ Moved(after)
            /\ d < s => after # Loops
            /\ Apart(d, n, s, n) => Moved(memcpy(input.mem, d, s, n))

-----------------------------------------------------------------------------
MemoryInit ==
  \/ subject = "access" /\ AccessInit
  \/ subject = "malloc" /\ HeapInit
  \/ subject = "string" /\ StringInit

MemoryNext == StoreStep \/ Allocate
MemorySpec == MemoryInit /\ [][MemoryNext]_vars
=============================================================================
