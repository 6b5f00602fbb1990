----------------------------- MODULE CheckProofs -----------------------------
(***************************************************************************)
(* The properties of AluCheck, from the facts about ALU.v and its decoder  *)
(* that AluProofs establishes, for every operand pair and word size; and   *)
(* those of MemoryCheck, for memories, bytes and requests of every size.   *)
(***************************************************************************)
EXTENDS AluCheck, AluProofs, MemoryCheck, SequenceTheorems

-----------------------------------------------------------------------------
(* The ALU.  The operands stay words and the instruction one of those checked.       *)
CheckInv ==
  /\ ins \in ArithOps \cup BranchOps
  /\ a \in Word
  /\ b \in Word

LEMMA CheckedOps ==
  ASSUME NEW i \in ArithOps \cup BranchOps
  PROVE  /\ i.opcode \in {"R_type", "I_type", "B_type"}
         /\ i.funct3 \in 0 .. 7
BY DEF ArithOps, BranchOps, Op

LEMMA CheckInvariant == Spec => []CheckInv
<1>1. Init => CheckInv
  BY WordRange DEF Init, CheckInv, Word
<1>2. CheckInv /\ [NextOperands]_<<ins, a, b>> => CheckInv'
  <2> SUFFICES ASSUME CheckInv, [NextOperands]_<<ins, a, b>>
               PROVE  CheckInv'
    OBVIOUS
  <2>1. CASE NextOperands
    <3>1. a + 1 \in Int /\ b + 1 \in Int
      BY WordRange DEF CheckInv
    <3>2. Wrap(a + 1) \in Word /\ Wrap(b + 1) \in Word
      BY <3>1, WrapInWord
    <3>3. QED BY <2>1, <3>2 DEF NextOperands, CheckInv, Word
  <2>2. CASE UNCHANGED <<ins, a, b>>
    BY <2>2 DEF CheckInv, Word
  <2>3. QED BY <2>1, <2>2
<1>3. QED BY <1>1, <1>2, PTL DEF Spec

(* Decoded by mulcu_decoder.v and executed by ALU.v, every R-type and      *)
(* I-type instruction gives the result the instruction set defines,        *)
(* whatever the operands and the width of a word.                          *)
THEOREM AluIsRight == Spec => []AluComputesArith
<1>1. CheckInv => AluComputesArith
  BY CheckedOps, DecodedArith DEF CheckInv, AluComputesArith
<1>2. QED BY <1>1, CheckInvariant, PTL

(* The condition datapath.v reads from the flags is the comparison the     *)
(* branch names, whatever the operands and the width of a word.            *)
THEOREM BranchesAreRight == Spec => []BranchesCompare
<1>1. CheckInv => BranchesCompare
  <2> SUFFICES ASSUME CheckInv, ins.opcode = "B_type"
               PROVE  branch_true(ins.funct3, ALU_ZERO(alu_op(ins), a, b),
                                  Bit(ALU_DC(alu_op(ins), a, b), 0) = 1)
                        = Taken(ins.funct3, a, b)
    BY DEF BranchesCompare
  <2>1. ins.funct3 \in 0 .. 7
    BY CheckedOps DEF CheckInv
  <2>2. branch_true(ins.funct3, ALU_ZERO(alu_op(ins), a, b),
                    Bit(ALU_DC(alu_op(ins), a, b), 0) = 1) <=> Taken(ins.funct3, a, b)
    BY <2>1, DecodedBranch DEF CheckInv
  <2>3. Taken(ins.funct3, a, b) \in BOOLEAN
    <3>1. a \in Int /\ b \in Int /\ Signed(a) \in Int /\ Signed(b) \in Int
      BY WordRange DEF CheckInv, Signed
    <3>2. CASE ins.funct3 = 0
      <4>1. Taken(ins.funct3, a, b) = (a = b)
        BY <3>1, <3>2 DEF Taken
      <4>2. QED BY <3>1, <4>1
    <3>3. CASE ins.funct3 = 1
      <4>1. Taken(ins.funct3, a, b) = (a # b)
        BY <3>1, <3>3 DEF Taken
      <4>2. QED BY <3>1, <4>1
    <3>4. CASE ins.funct3 = 4
      <4>1. Taken(ins.funct3, a, b) = (Signed(a) < Signed(b))
        BY <3>1, <3>4 DEF Taken
      <4>2. QED BY <3>1, <4>1
    <3>5. CASE ins.funct3 = 5
      <4>1. Taken(ins.funct3, a, b) = (Signed(a) >= Signed(b))
        BY <3>1, <3>5 DEF Taken
      <4>2. QED BY <3>1, <4>1
    <3>6. CASE ins.funct3 = 6
      <4>1. Taken(ins.funct3, a, b) = (a < b)
        BY <3>1, <3>6 DEF Taken
      <4>2. QED BY <3>1, <4>1
    <3>7. CASE ins.funct3 = 7
      <4>1. Taken(ins.funct3, a, b) = (a >= b)
        BY <3>1, <3>7 DEF Taken
      <4>2. QED BY <3>1, <4>1
    <3>8. CASE ins.funct3 \in {2, 3}
      <4>1. Taken(ins.funct3, a, b) = FALSE
        BY <3>8 DEF Taken
      <4>2. QED BY <4>1
    <3>9. QED BY <2>1, <3>2, <3>3, <3>4, <3>5, <3>6, <3>7, <3>8
  <2>4. branch_true(ins.funct3, ALU_ZERO(alu_op(ins), a, b),
                    Bit(ALU_DC(alu_op(ins), a, b), 0) = 1) \in BOOLEAN
    BY <2>1 DEF branch_true, ALU_ZERO
  <2>5. QED BY <2>2, <2>3, <2>4
<1>2. QED BY <1>1, CheckInvariant, PTL
-----------------------------------------------------------------------------
(* Loads and stores.  The digits of a word in base RADIX.                  *)
LEMMA Radices ==
  /\ RADIX \in Nat /\ RADIX >= 2
  /\ RADIX^0 = 1 /\ RADIX^1 = RADIX /\ RADIX^2 = RADIX * RADIX
  /\ RADIX^3 = RADIX * RADIX^2 /\ RADIX^4 = RADIX * RADIX^3
  /\ \A i \in 0 .. 4 : RADIX^i \in Nat \ {0}
<1>1. RADIX \in Nat /\ RADIX >= 2
  BY ByteAssumption
<1>2. \A i \in 0 .. 3 : RADIX^(i + 1) = RADIX * RADIX^i
  BY RadixAssumption
<1>3. RADIX^0 = 1
  BY RadixAssumption
<1>4. RADIX^1 = RADIX
  <2>1. RADIX^(0 + 1) = RADIX * RADIX^0
    BY <1>2
  <2>2. QED BY <1>1, <1>3, <2>1
<1>5. RADIX^2 = RADIX * RADIX
  <2>1. RADIX^(1 + 1) = RADIX * RADIX^1
    BY <1>2
  <2>2. QED BY <1>4, <2>1
<1>6. RADIX^3 = RADIX * RADIX^2
  <2>1. RADIX^(2 + 1) = RADIX * RADIX^2
    BY <1>2
  <2>2. QED BY <2>1
<1>7. RADIX^4 = RADIX * RADIX^3
  <2>1. RADIX^(3 + 1) = RADIX * RADIX^3
    BY <1>2
  <2>2. QED BY <2>1
<1>8. ASSUME NEW p \in Nat \ {0} PROVE RADIX * p \in Nat \ {0}
  BY <1>1
<1>9. RADIX^0 \in Nat \ {0} /\ RADIX^1 \in Nat \ {0}
  BY <1>1, <1>3, <1>4
<1>10. RADIX^2 \in Nat \ {0}
  BY <1>4, <1>5, <1>8, <1>9
<1>11. RADIX^3 \in Nat \ {0}
  BY <1>6, <1>8, <1>10
<1>12. RADIX^4 \in Nat \ {0}
  BY <1>7, <1>8, <1>11
<1>13. \A i \in 0 .. 4 : i \in {0, 1, 2, 3, 4}
  OBVIOUS
<1>14. QED BY <1>1, <1>3, <1>4, <1>5, <1>6, <1>7, <1>9, <1>10, <1>11, <1>12, <1>13

LEMMA TwoDigits ==
  ASSUME NEW p \in Nat \ {0}, NEW q \in Nat \ {0}, NEW x \in 0 .. p - 1, NEW y \in 0 .. q - 1
  PROVE  x + p * y \in 0 .. p * q - 1
<1>1. p * y <= p * (q - 1)
  OBVIOUS
<1>2. p * (q - 1) = p * q - p
  OBVIOUS
<1>3. p * y \in Nat /\ p * q \in Nat
  OBVIOUS
<1>4. QED BY <1>1, <1>2, <1>3

(* A word from its bytes, and its low bytes again.                         *)
WordOfBytes(w, x, y, z) == w + x * RADIX + y * RADIX^2 + z * RADIX^3

LEMMA FourDigits ==
  ASSUME NEW w \in 0 .. RADIX - 1, NEW x \in 0 .. RADIX - 1,
         NEW y \in 0 .. RADIX - 1, NEW z \in 0 .. RADIX - 1
  PROVE  LET word == WordOfBytes(w, x, y, z)
         IN  /\ Low(word, 1) = w
             /\ Low(word, 2) = w + x * RADIX
             /\ w + x * RADIX \in 0 .. RADIX^2 - 1
             /\ word \in 0 .. RADIX^4 - 1
<1> DEFINE R2 == RADIX^2
           R3 == RADIX^3
           low == w + RADIX * x
           high == y + RADIX * z
           word == WordOfBytes(w, x, y, z)
<1>1. /\ RADIX \in Nat \ {0} /\ RADIX^1 = RADIX /\ R2 = RADIX * RADIX /\ R3 = RADIX * R2
      /\ R2 \in Nat \ {0} /\ R3 \in Nat \ {0}
  BY Radices
<1>2. RADIX^4 = R2 * R2
  <2>1. RADIX^4 = RADIX * (RADIX * R2)
    BY <1>1, Radices
  <2>2. RADIX * (RADIX * R2) = (RADIX * RADIX) * R2
    BY <1>1
  <2>3. QED BY <1>1, <2>1, <2>2
<1>3. low \in 0 .. R2 - 1 /\ high \in 0 .. R2 - 1
  BY <1>1, TwoDigits
<1>4. word = low + R2 * high
  <2>1. word = w + x * RADIX + y * R2 + z * R3
    BY DEF WordOfBytes
  <2>2. z * R3 = R2 * (RADIX * z)
    BY <1>1
  <2>3. R2 * high = R2 * y + R2 * (RADIX * z)
    BY <1>1
  <2>4. x * RADIX = RADIX * x /\ y * R2 = R2 * y
    BY <1>1
  <2>5. RADIX * x \in Int /\ R2 * y \in Int /\ R2 * (RADIX * z) \in Int
    BY <1>1
  <2>6. QED BY <2>1, <2>2, <2>3, <2>4, <2>5
<1>5. word = RADIX * (x + RADIX * high) + w
  <2>1. R2 * high = RADIX * (RADIX * high)
    BY <1>1, <1>3
  <2>2. RADIX * (x + RADIX * high) = RADIX * x + RADIX * (RADIX * high)
    BY <1>1, <1>3
  <2>3. RADIX * x \in Int /\ RADIX * (RADIX * high) \in Int
    BY <1>1, <1>3
  <2>4. QED BY <1>4, <2>1, <2>2, <2>3
<1>6. x + RADIX * high \in Int
  BY <1>1, <1>3
<1> HIDE DEF R2, R3, low, high, word
<1>7. word % RADIX = w
  BY <1>1, <1>5, <1>6, DivisionUnique
<1>8. word % R2 = low
  <2>1. word = R2 * high + low
    BY <1>1, <1>3, <1>4
  <2>2. high \in Int
    BY <1>3
  <2>3. (R2 * high + low) % R2 = low
    BY <1>1, <1>3, <2>2, DivisionUnique
  <2>4. QED BY <2>1, <2>3
<1>9. word \in 0 .. RADIX^4 - 1
  BY <1>1, <1>2, <1>3, <1>4, TwoDigits
<1>10. low = w + x * RADIX
  BY <1>1 DEF low
<1>11. QED BY <1>1, <1>3, <1>7, <1>8, <1>9, <1>10 DEF Low, R2, word

(* A load gets the bytes at its place, whichever word datapath.v slices    *)
(* them from.                                                              *)
Byte == 0 .. RADIX - 1

LEMMA Extension ==
  ASSUME NEW k \in {1, 2}, NEW v \in 0 .. RADIX^k - 1
  PROVE  /\ v % RADIX^4 = v
         /\ (v - RADIX^k) % RADIX^4 = v + RADIX^4 - RADIX^k
<1>1. RADIX^k \in Nat \ {0} /\ RADIX^4 \in Nat \ {0} /\ RADIX^k <= RADIX^4
  <2>1. /\ RADIX \in Nat /\ RADIX >= 2 /\ RADIX^2 \in Nat \ {0} /\ RADIX^3 \in Nat \ {0}
        /\ RADIX^4 \in Nat \ {0} /\ RADIX^1 = RADIX /\ RADIX^2 = RADIX * RADIX
        /\ RADIX^3 = RADIX * RADIX^2 /\ RADIX^4 = RADIX * RADIX^3
    BY Radices
  <2>2. ASSUME NEW p \in Nat PROVE p <= RADIX * p
    BY <2>1
  <2>3. RADIX <= RADIX^2 /\ RADIX^2 <= RADIX^3 /\ RADIX^3 <= RADIX^4
    BY <2>1, <2>2
  <2>4. QED BY <2>1, <2>3
<1> DEFINE p == RADIX^k
           q == RADIX^4
<1>2. p \in Nat \ {0} /\ q \in Nat \ {0} /\ p <= q /\ v \in 0 .. p - 1
  BY <1>1
<1> HIDE DEF p, q
<1>3. v % q = v
  BY <1>2
<1>4. (v - p) % q = v + q - p
  <2> DEFINE r == v + q - p
  <2>1. v - p = q * (-1) + r /\ r \in 0 .. q - 1
    BY <1>2
  <2> HIDE DEF r
  <2>2. (q * (-1) + r) % q = r
    BY <1>2, <2>1, DivisionUnique
  <2>3. QED BY <2>1, <2>2 DEF r
<1>5. QED BY <1>3, <1>4 DEF p, q

LEMMA LoadIsRight ==
  ASSUME NEW mem \in [Cells -> Byte], NEW addr \in 0 .. MSIZE - 1,
         NEW funct3 \in {0, 1, 2, 4, 5}
  PROVE  rdata_M(funct3, pmem_read(mem, addr)) = LoadBytes(mem, funct3, addr)
<1> DEFINE w == mem[addr]
           x == mem[addr + 1]
           y == mem[addr + 2]
           z == mem[addr + 3]
           word == WordOfBytes(w, x, y, z)
<1>1. w \in Byte /\ x \in Byte /\ y \in Byte /\ z \in Byte
  BY ByteAssumption DEF Cells
<1>2. pmem_read(mem, addr) = word
  BY DEF pmem_read, memory_out_of_bound, WordOfBytes
<1>3. /\ Low(word, 1) = w /\ Low(word, 2) = w + x * RADIX
      /\ w + x * RADIX \in 0 .. RADIX^2 - 1 /\ word \in 0 .. RADIX^4 - 1
  <2> HIDE DEF w, x, y, z
  <2>1. w \in 0 .. RADIX - 1 /\ x \in 0 .. RADIX - 1 /\ y \in 0 .. RADIX - 1 /\ z \in 0 .. RADIX - 1
    BY <1>1 DEF Byte
  <2>2. QED BY <2>1, FourDigits
<1>4. RADIX \in Nat /\ RADIX^0 = 1 /\ RADIX^1 = RADIX
      /\ \A i \in 0 .. 4 : RADIX^i \in Nat \ {0}
  BY Radices
<1>5. /\ w \in 0 .. RADIX^1 - 1 /\ w * 1 = w /\ x * RADIX \in Int /\ w \in Int
      /\ y * RADIX^2 \in Int /\ z * RADIX^3 \in Int /\ mem[addr + 0] = w
  BY <1>1, <1>4 DEF Byte
<1> HIDE DEF w, x, y, z, word
<1> DEFINE k == Width(funct3)
           byte(i) == IF i < k THEN mem[addr + i] * RADIX^i ELSE 0
           value == byte(0) + byte(1) + byte(2) + byte(3)
<1>6. LoadBytes(mem, funct3, addr)
        = (IF funct3 < 2 /\ value >= RADIX^k \div 2 THEN value - RADIX^k ELSE value) % RADIX^4
  BY DEF LoadBytes
<1>7. CASE funct3 \in {0, 4}
  <2>1. k = 1
    BY <1>7 DEF Width
  <2>2. value = w
    <3>1. byte(0) = w /\ byte(1) = 0 /\ byte(2) = 0 /\ byte(3) = 0
      BY <1>4, <1>5, <2>1
    <3>2. QED BY <1>5, <3>1
  <2> HIDE DEF k, value
  <2>3. w % RADIX^4 = w /\ (w - RADIX^1) % RADIX^4 = w + RADIX^4 - RADIX^1
    BY <1>5, Extension
  <2>4. CASE funct3 = 0
    <3>1. rdata_M(funct3, word) = IF w >= RADIX^1 \div 2 THEN w + RADIX^4 - RADIX^1 ELSE w
      BY <1>3, <2>4 DEF rdata_M, SignExtended
    <3>2. QED BY <1>2, <1>6, <2>1, <2>2, <2>3, <2>4, <3>1
  <2>5. CASE funct3 = 4
    <3>1. rdata_M(funct3, word) = w
      BY <1>3, <2>5 DEF rdata_M
    <3>2. QED BY <1>2, <1>6, <2>1, <2>2, <2>3, <2>5, <3>1
  <2>6. QED BY <1>7, <2>4, <2>5
<1>8. CASE funct3 \in {1, 5}
  <2> DEFINE v == w + x * RADIX
  <2>1. k = 2
    BY <1>8 DEF Width
  <2>2. value = v
    <3>1. byte(0) = w /\ byte(1) = x * RADIX /\ byte(2) = 0 /\ byte(3) = 0
      BY <1>4, <1>5, <2>1 DEF x
    <3>2. QED BY <1>5, <3>1
  <2>3. v \in 0 .. RADIX^2 - 1 /\ Low(word, 2) = v
    BY <1>3
  <2> HIDE DEF k, value, v
  <2>4. v % RADIX^4 = v /\ (v - RADIX^2) % RADIX^4 = v + RADIX^4 - RADIX^2
    BY <2>3, Extension
  <2>5. CASE funct3 = 1
    <3>1. rdata_M(funct3, word) = IF v >= RADIX^2 \div 2 THEN v + RADIX^4 - RADIX^2 ELSE v
      BY <2>3, <2>5 DEF rdata_M, SignExtended
    <3>2. QED BY <1>2, <1>6, <2>1, <2>2, <2>4, <2>5, <3>1
  <2>6. CASE funct3 = 5
    <3>1. rdata_M(funct3, word) = v
      BY <2>3, <2>6 DEF rdata_M
    <3>2. QED BY <1>2, <1>6, <2>1, <2>2, <2>4, <2>6, <3>1
  <2>7. QED BY <1>8, <2>5, <2>6
<1>9. CASE funct3 = 2
  <2>1. k = 4
    BY <1>9 DEF Width
  <2>2. value = word
    <3>1. /\ byte(0) = w /\ byte(1) = x * RADIX
          /\ byte(2) = y * RADIX^2 /\ byte(3) = z * RADIX^3
      BY <1>4, <1>5, <2>1 DEF x, y, z
    <3>2. QED BY <3>1 DEF word, WordOfBytes
  <2> HIDE DEF k, value
  <2>3. word % RADIX^4 = word
    BY <1>3, <1>4
  <2>4. rdata_M(funct3, word) = word
    BY <1>9 DEF rdata_M
  <2>5. QED BY <1>2, <1>6, <1>9, <2>2, <2>3, <2>4
<1>10. QED BY <1>7, <1>8, <1>9
-----------------------------------------------------------------------------
(* Strings.  The loops stop at the least index at which they may.          *)
Memories == [Place -> Nat]
Ended(mem) == mem[MemSize] = 0

LEMMA MinIs ==
  ASSUME NEW S \in SUBSET Nat, S # {}
  PROVE  Min(S) \in S /\ \A y \in S : Min(S) <= y
<1>1. \E x \in S : \A y \in S : x <= y
  BY Least
<1>2. QED BY <1>1 DEF Min

LEMMA MinUnique ==
  ASSUME NEW S \in SUBSET Nat, NEW n \in S, \A y \in S : n <= y
  PROVE  Min(S) = n
<1>1. Min(S) \in S /\ Min(S) <= n
  BY MinIs
<1>2. n <= Min(S) /\ n \in Nat /\ Min(S) \in Nat
  BY <1>1
<1>3. QED BY <1>1, <1>2

LEMMA SizeIs == ASSUME NEW mem \in Memories PROVE Size(mem) = MemSize
<1>1. DOMAIN mem = 0 .. MemSize /\ MemSize \in Nat
  BY CharAssumption DEF Memories, Place
<1> DEFINE x == Max(DOMAIN mem)
<1>2. x \in 0 .. MemSize /\ \A y \in 0 .. MemSize : x >= y
  <2>1. \E z \in 0 .. MemSize : \A y \in 0 .. MemSize : z >= y
    BY <1>1
  <2>2. QED BY <1>1, <2>1 DEF Max
<1>3. QED BY <1>1, <1>2 DEF Size

(* The length of a string is where its first 0 is.                         *)
IsLength(mem, s, n) ==
  n \in 0 .. MemSize - s /\ mem[s + n] = 0 /\ \A i \in 0 .. n - 1 : mem[s + i] # 0

LEMMA LengthIs ==
  ASSUME NEW mem \in Memories, Ended(mem), NEW s \in Place
  PROVE  IsLength(mem, s, strlen(mem, s))
<1> DEFINE Z == {i \in 0 .. MemSize - s : mem[s + i] = 0}
           n == Min(Z)
<1>1. strlen(mem, s) = n
  BY SizeIs DEF strlen, Zeros
<1>2. MemSize \in Nat /\ s \in 0 .. MemSize
  BY CharAssumption DEF Place
<1>3. MemSize - s \in Z
  BY <1>2 DEF Ended
<1>4. n \in Z /\ \A i \in Z : n <= i
  <2>1. Z \in SUBSET Nat
    BY <1>2
  <2> HIDE DEF Z
  <2>2. QED BY <1>3, <2>1, MinIs
<1> HIDE DEF n
<1>5. ASSUME NEW i \in 0 .. n - 1 PROVE mem[s + i] # 0
  BY <1>2, <1>4
<1>6. QED BY <1>1, <1>4, <1>5 DEF IsLength

LEMMA LengthUnique ==
  ASSUME NEW mem \in Memories, NEW s \in Place, NEW n, IsLength(mem, s, n)
  PROVE  strlen(mem, s) = n
<1> DEFINE Z == {i \in 0 .. MemSize - s : mem[s + i] = 0}
<1>1. strlen(mem, s) = Min(Z)
  BY SizeIs DEF strlen, Zeros
<1>2. MemSize \in Nat /\ s \in 0 .. MemSize
  BY CharAssumption DEF Place
<1>3. n \in Z
  BY DEF IsLength
<1>4. ASSUME NEW i \in Z PROVE n <= i
  <2>1. i \notin 0 .. n - 1
    BY DEF IsLength
  <2>2. QED BY <1>2, <1>3, <2>1
<1>5. Min(Z) = n
  <2>1. Z \in SUBSET Nat
    BY <1>2
  <2> HIDE DEF Z
  <2>2. QED BY <1>3, <1>4, <2>1, MinUnique
<1>6. QED BY <1>1, <1>5

(* Copying upwards moves the contents, when no byte is overwritten before  *)
(* it is read.                                                             *)
Copied(mem, dst, src, n) ==
  [c \in Place |-> IF c \in dst .. dst + n - 1 THEN mem[src + (c - dst)] ELSE mem[c]]

LEMMA CopyUpIs ==
  ASSUME NEW mem \in Memories, NEW dst \in Nat, NEW src \in Nat, NEW n \in Nat,
         dst + n <= MemSize + 1, src + n <= MemSize + 1,
         dst < src \/ Apart(dst, n, src, n)
  PROVE  CopyUp(mem, dst, src, n) = Copied(mem, dst, src, n)
<1> DEFINE Body(f) ==
      [i \in 0 .. n |-> IF i = 0 THEN mem
                        ELSE [f[i - 1] EXCEPT ![dst + i - 1] = f[i - 1][src + i - 1]]]
           q == [i \in 0 .. n |-> Copied(mem, dst, src, i)]
           g == CHOOSE f : f = Body(f)
<1>1. CopyUp(mem, dst, src, n) = g[n]
  BY DEF CopyUp
<1>2. MemSize \in Nat /\ \A c \in Place : c \in 0 .. MemSize
  BY CharAssumption DEF Place
<1>3. Copied(mem, dst, src, 0) = mem
  BY DEF Copied, Memories
<1>4. ASSUME NEW i \in 1 .. n
      PROVE  LET m == Copied(mem, dst, src, i - 1)
             IN  [m EXCEPT ![dst + i - 1] = m[src + i - 1]] = Copied(mem, dst, src, i)
  <2> DEFINE m == Copied(mem, dst, src, i - 1)
  <2>1. m[src + i - 1] = mem[src + i - 1]
    <3>1. src + i - 1 \in Place
      BY <1>2 DEF Place
    <3>2. src + i - 1 \notin dst .. dst + (i - 1) - 1
      BY DEF Apart
    <3>3. QED BY <3>1, <3>2 DEF Copied
  <2>2. DOMAIN m = Place
    BY DEF Copied
  <2>3. ASSUME NEW c \in Place
        PROVE  (IF c = dst + i - 1 THEN mem[src + i - 1] ELSE m[c])
                 = IF c \in dst .. dst + i - 1 THEN mem[src + (c - dst)] ELSE mem[c]
    <3>1. CASE c = dst + i - 1
      <4>1. c \in dst .. dst + i - 1 /\ src + (c - dst) = src + i - 1
        BY <3>1
      <4>2. QED BY <3>1, <4>1
    <3>2. CASE c # dst + i - 1
      <4>1. c \in dst .. dst + i - 1 <=> c \in dst .. dst + (i - 1) - 1
        BY <1>2, <3>2
      <4>2. QED BY <3>2, <4>1 DEF Copied
    <3>3. QED BY <3>1, <3>2
  <2> HIDE DEF m
  <2>4. [m EXCEPT ![dst + i - 1] = m[src + i - 1]] = Copied(mem, dst, src, i)
    BY <2>1, <2>2, <2>3 DEF Copied
  <2>5. QED BY <2>4 DEF m
<1>5. q = Body(q)
  <2>1. ASSUME NEW i \in 0 .. n
        PROVE  q[i] = IF i = 0 THEN mem
                      ELSE [q[i - 1] EXCEPT ![dst + i - 1] = q[i - 1][src + i - 1]]
    <3>1. CASE i = 0
      BY <1>3, <3>1
    <3>2. CASE i # 0
      <4>1. i \in 1 .. n /\ i - 1 \in 0 .. n
        BY <3>2
      <4>2. q[i] = Copied(mem, dst, src, i) /\ q[i - 1] = Copied(mem, dst, src, i - 1)
        BY <4>1
      <4> HIDE DEF q
      <4>3. QED BY <1>4, <3>2, <4>1, <4>2
    <3>3. QED BY <3>1, <3>2
  <2>2. QED BY <2>1
<1>6. g = Body(g)
  <2> HIDE DEF Body, q
  <2>1. QED BY <1>5
<1> HIDE DEF g
<1>7. /\ g[0] = mem
      /\ \A i \in 1 .. n :
           g[i] = [g[i - 1] EXCEPT ![dst + i - 1] = g[i - 1][src + i - 1]]
  <2>1. \A i \in 0 .. n : g[i] = IF i = 0 THEN mem
                ELSE [g[i - 1] EXCEPT ![dst + i - 1] = g[i - 1][src + i - 1]]
    BY <1>6
  <2>2. 0 \in 0 .. n /\ \A i \in 1 .. n : i \in 0 .. n /\ i # 0
    OBVIOUS
  <2>3. g[0] = mem
    BY <2>1, <2>2
  <2>4. ASSUME NEW i \in 1 .. n
        PROVE  g[i] = [g[i - 1] EXCEPT ![dst + i - 1] = g[i - 1][src + i - 1]]
    <3>1. i \in 0 .. n /\ i # 0
      BY <2>2
    <3>2. QED BY <2>1, <3>1
  <2>5. QED BY <2>3, <2>4
<1> DEFINE T == {i \in 0 .. n : g[i] # Copied(mem, dst, src, i)}
<1>8. T = {}
  <2>1. SUFFICES ASSUME T # {} PROVE FALSE
    OBVIOUS
  <2>2. PICK i \in T : \A j \in T : i <= j
    <3>1. T \in SUBSET Nat
      OBVIOUS
    <3> HIDE DEF T
    <3>2. QED BY <2>1, <3>1, Least
  <2>3. i # 0
    BY <1>3, <1>7
  <2>4. i \in 1 .. n /\ i - 1 \in 0 .. n /\ i - 1 \notin T
    BY <2>2, <2>3
  <2>5. g[i - 1] = Copied(mem, dst, src, i - 1)
    BY <2>4
  <2>6. g[i] = Copied(mem, dst, src, i)
    BY <1>4, <1>7, <2>4, <2>5
  <2>7. QED BY <2>6
<1>9. QED BY <1>1, <1>8

(* Contents as sequences.                                                  *)
LEMMA Concatenation ==
  ASSUME NEW t \in Seq(Nat), NEW u \in Seq(Nat)
  PROVE  t \o u = [i \in 1 .. Len(t) + Len(u) |-> IF i <= Len(t) THEN t[i] ELSE u[i - Len(t)]]
<1>1. /\ t \o u \in Seq(Nat) /\ Len(t \o u) = Len(t) + Len(u)
      /\ \A i \in 1 .. Len(t) + Len(u) :
           (t \o u)[i] = IF i <= Len(t) THEN t[i] ELSE u[i - Len(t)]
  BY ConcatProperties
<1>2. Len(t) \in Nat /\ Len(u) \in Nat
  OBVIOUS
<1> DEFINE w == t \o u
           n == Len(t) + Len(u)
<1>3. w \in Seq(Nat) /\ Len(w) = n
  BY <1>1
<1> HIDE DEF w
<1>4. w = [i \in 1 .. Len(w) |-> w[i]]
  BY <1>3
<1> HIDE DEF n
<1>5. w = [i \in 1 .. n |-> w[i]]
  BY <1>3, <1>4
<1>6. \A i \in 1 .. n : w[i] = IF i <= Len(t) THEN t[i] ELSE u[i - Len(t)]
  BY <1>1 DEF w, n
<1>7. w = [i \in 1 .. n |-> IF i <= Len(t) THEN t[i] ELSE u[i - Len(t)]]
  BY <1>5, <1>6
<1>8. QED BY <1>7 DEF w, n

LEMMA TextIs ==
  ASSUME NEW mem \in Memories, NEW s \in Place, NEW n, IsLength(mem, s, n)
  PROVE  /\ Text(mem, s) = [i \in 1 .. n |-> mem[s + i - 1]]
         /\ Text(mem, s) \in Seq(Nat) /\ Len(Text(mem, s)) = n
         /\ \A i \in 1 .. n : Text(mem, s)[i] = mem[s + i - 1] /\ mem[s + i - 1] \in Nat \ {0}
<1>1. MemSize \in Nat /\ s \in 0 .. MemSize
  BY CharAssumption DEF Place
<1>2. n \in 0 .. MemSize - s
  BY DEF IsLength
<1>3. ASSUME NEW i \in 1 .. n PROVE mem[s + i - 1] \in Nat \ {0}
  <2>1. s + i - 1 \in Place /\ i - 1 \in 0 .. n - 1 /\ s + i - 1 = s + (i - 1)
    BY <1>1, <1>2 DEF Place
  <2>2. QED BY <2>1 DEF Memories, IsLength
<1>4. Text(mem, s) = [i \in 1 .. n |-> mem[s + i - 1]]
  BY LengthUnique DEF Text
<1> DEFINE t == [i \in 1 .. n |-> mem[s + i - 1]]
<1>5. t \in Seq(Nat) /\ Len(t) = n /\ \A i \in 1 .. n : t[i] = mem[s + i - 1]
  <2>1. n \in Nat
    BY <1>1, <1>2
  <2>2. \A i \in 1 .. n : mem[s + i - 1] \in Nat
    BY <1>3
  <2>3. QED BY <2>1, <2>2
<1> HIDE DEF t
<1>6. QED BY <1>3, <1>4, <1>5 DEF t

LEMMA CellIs ==
  ASSUME NEW mem \in Memories, NEW s \in Nat, NEW n \in Nat, s + n <= MemSize + 1
  PROVE  /\ Cell(mem, s, n) \in Seq(Nat) /\ Len(Cell(mem, s, n)) = n
         /\ \A i \in 1 .. n : Cell(mem, s, n)[i] = mem[s + i - 1] /\ mem[s + i - 1] \in Nat
<1>1. ASSUME NEW i \in 1 .. n PROVE mem[s + i - 1] \in Nat
  <2>1. s + i - 1 \in Place
    BY CharAssumption DEF Place
  <2>2. QED BY <2>1 DEF Memories
<1>2. QED BY <1>1 DEF Cell

-----------------------------------------------------------------------------
(* Copies.                                                                 *)
IsCopy(mem, after, dst, src, n) ==
  /\ after \in Memories
  /\ \A i \in 0 .. n - 1 : after[dst + i] = mem[src + i]
  /\ \A c \in Place : c \notin dst .. dst + n - 1 => after[c] = mem[c]

LEMMA CopiedIs ==
  ASSUME NEW mem \in Memories, NEW dst \in Nat, NEW src \in Nat, NEW n \in Nat,
         dst + n <= MemSize + 1, src + n <= MemSize + 1
  PROVE  IsCopy(mem, Copied(mem, dst, src, n), dst, src, n)
<1>1. MemSize \in Nat /\ Place = 0 .. MemSize
  BY CharAssumption DEF Place
<1>2. ASSUME NEW c \in Place, c \in dst .. dst + n - 1 PROVE src + (c - dst) \in Place
  BY <1>1, <1>2
<1>3. Copied(mem, dst, src, n) \in Memories
  BY <1>2 DEF Copied, Memories
<1>4. ASSUME NEW i \in 0 .. n - 1 PROVE Copied(mem, dst, src, n)[dst + i] = mem[src + i]
  <2>1. dst + i \in Place /\ dst + i \in dst .. dst + n - 1 /\ (dst + i) - dst = i
    BY <1>1
  <2>2. QED BY <2>1 DEF Copied
<1>5. ASSUME NEW c \in Place, c \notin dst .. dst + n - 1
      PROVE  Copied(mem, dst, src, n)[c] = mem[c]
  BY <1>5 DEF Copied
<1>6. QED BY <1>3, <1>4, <1>5 DEF IsCopy

(* A 0 behind a copied string ends the copy.                               *)
LEMMA TextsEqual ==
  ASSUME NEW mem \in Memories, NEW after \in Memories, NEW d \in Place, NEW s \in Place,
         NEW n, IsLength(mem, s, n), d + n \in Place, after[d + n] = 0,
         \A i \in 0 .. n - 1 : after[d + i] = mem[s + i]
  PROVE  Text(after, d) = Text(mem, s)
<1>1. MemSize \in Nat /\ d \in 0 .. MemSize /\ s \in 0 .. MemSize /\ n \in 0 .. MemSize - s
  BY CharAssumption DEF Place, IsLength
<1>2. n \in 0 .. MemSize - d
  BY <1>1 DEF Place
<1>3. IsLength(after, d, n)
  BY <1>2 DEF IsLength
<1>4. /\ Text(after, d) = [i \in 1 .. n |-> after[d + i - 1]]
      /\ Text(mem, s) = [i \in 1 .. n |-> mem[s + i - 1]]
  BY <1>3, TextIs
<1>5. ASSUME NEW i \in 1 .. n PROVE after[d + i - 1] = mem[s + i - 1]
  <2>1. i - 1 \in 0 .. n - 1 /\ d + i - 1 = d + (i - 1) /\ s + i - 1 = s + (i - 1)
    BY <1>1
  <2>2. QED BY <2>1
<1>6. QED BY <1>4, <1>5

LEMMA StrcpyIsRight ==
  ASSUME NEW mem \in Memories, Ended(mem), NEW d \in Place, NEW s \in Place,
         NEW k, k = Len(Text(mem, s)) + 1, d + k - 1 \in Place, Apart(d, k, s, k)
  PROVE  LET after == strcpy(mem, d, s)
         IN  Text(after, d) = Text(mem, s) /\ UnchangedBut(mem, after, d, k)
<1> DEFINE n == strlen(mem, s)
           copy == Copied(mem, d, s, n)
           after == [copy EXCEPT ![d + n] = 0]
<1>1. IsLength(mem, s, n) /\ k = n + 1
  BY LengthIs, TextIs
<1> HIDE DEF n
<1>2. MemSize \in Nat /\ d \in 0 .. MemSize /\ s \in 0 .. MemSize /\ n \in 0 .. MemSize - s
  BY <1>1, CharAssumption DEF Place, IsLength
<1>3. d + n \in Place /\ d + n <= MemSize /\ s + n <= MemSize
  BY <1>1, <1>2 DEF Place
<1>4. d < s \/ Apart(d, n, s, n)
  BY <1>1, <1>2 DEF Apart
<1>5. CopyUp(mem, d, s, n) = copy
  BY <1>2, <1>3, <1>4, CopyUpIs
<1>6. /\ copy \in Memories
      /\ \A i \in 0 .. n - 1 : copy[d + i] = mem[s + i]
      /\ \A c \in Place : c \notin d .. d + n - 1 => copy[c] = mem[c]
  <2>1. d \in Nat /\ s \in Nat /\ n \in Nat /\ d + n <= MemSize + 1 /\ s + n <= MemSize + 1
    BY <1>2, <1>3
  <2>2. IsCopy(mem, copy, d, s, n)
    BY <2>1, CopiedIs
  <2>3. QED BY <2>2 DEF IsCopy
<1>7. strcpy(mem, d, s) = after
  BY <1>5 DEF strcpy, n
<1> HIDE DEF copy
<1>8. after \in Memories /\ after[d + n] = 0
      /\ \A c \in Place : c # d + n => after[c] = copy[c]
  BY <1>3, <1>6 DEF Memories
<1> HIDE DEF after
<1>9. ASSUME NEW i \in 0 .. n - 1 PROVE after[d + i] = mem[s + i]
  <2>1. d + i \in Place /\ d + i # d + n
    BY <1>2, <1>3 DEF Place
  <2>2. QED BY <1>6, <1>8, <2>1
<1>10. Text(after, d) = Text(mem, s)
  BY <1>1, <1>3, <1>8, <1>9, TextsEqual
<1>11. ASSUME NEW c \in Place \ (d .. d + k - 1) PROVE after[c] = mem[c]
  <2>1. c # d + n /\ c \notin d .. d + n - 1
    BY <1>1, <1>2
  <2>2. QED BY <1>6, <1>8, <2>1
<1>12. QED BY <1>7, <1>10, <1>11 DEF UnchangedBut

LEMMA StrcatIsRight ==
  ASSUME NEW mem \in Memories, Ended(mem), NEW d \in Place, NEW s \in Place,
         NEW k, k = Len(Text(mem, s)) + 1, NEW j, j = Len(Text(mem, d)),
         d + j + k - 1 \in Place, Apart(d, j + k, s, k)
  PROVE  LET after == strcat(mem, d, s)
         IN  /\ Text(after, d) = Text(mem, d) \o Text(mem, s)
             /\ UnchangedBut(mem, after, d + j, k)
<1> DEFINE n == strlen(mem, s)
           copy == Copied(mem, d + j, s, n)
           after == [copy EXCEPT ![d + j + n] = 0]
<1>1. IsLength(mem, s, n) /\ k = n + 1 /\ IsLength(mem, d, j) /\ j = strlen(mem, d)
  BY LengthIs, TextIs
<1>2. strcat(mem, d, s) = [CopyUp(mem, d + j, s, n) EXCEPT ![d + j + n] = 0]
  BY <1>1 DEF strcat
<1> HIDE DEF n
<1>3. /\ MemSize \in Nat /\ d \in 0 .. MemSize /\ s \in 0 .. MemSize
      /\ n \in 0 .. MemSize - s /\ j \in 0 .. MemSize - d
  BY <1>1, CharAssumption DEF Place, IsLength
<1>4. d + j + n \in Place /\ d + j \in Nat /\ d + j + n <= MemSize /\ s + n <= MemSize
  <2>1. d + j + k - 1 = d + j + n
    BY <1>1, <1>3
  <2>2. QED BY <1>3, <2>1 DEF Place
<1>5. d + j < s \/ Apart(d + j, n, s, n)
  BY <1>1, <1>3 DEF Apart
<1>6. CopyUp(mem, d + j, s, n) = copy
  BY <1>3, <1>4, <1>5, CopyUpIs
<1>7. /\ copy \in Memories
      /\ \A i \in 0 .. n - 1 : copy[d + j + i] = mem[s + i]
      /\ \A c \in Place : c \notin d + j .. d + j + n - 1 => copy[c] = mem[c]
  <2> DEFINE e == d + j
  <2>1. e \in Nat /\ s \in Nat /\ n \in Nat /\ e + n <= MemSize + 1 /\ s + n <= MemSize + 1
    BY <1>3, <1>4
  <2> HIDE DEF e
  <2>2. IsCopy(mem, Copied(mem, e, s, n), e, s, n)
    BY <2>1, CopiedIs
  <2>3. QED BY <2>2 DEF e, IsCopy
<1>8. strcat(mem, d, s) = after
  BY <1>2, <1>6
<1> HIDE DEF copy
<1>9. after \in Memories /\ after[d + j + n] = 0
      /\ \A c \in Place : c # d + j + n => after[c] = copy[c]
  BY <1>4, <1>7 DEF Memories
<1> HIDE DEF after
<1>10. ASSUME NEW i \in 0 .. n - 1 PROVE after[d + j + i] = mem[s + i] /\ mem[s + i] # 0
  <2>1. d + j + i \in Place /\ d + j + i # d + j + n
    BY <1>3, <1>4 DEF Place
  <2>2. QED BY <1>1, <1>7, <1>9, <2>1 DEF IsLength
<1>11. ASSUME NEW i \in 0 .. j - 1 PROVE after[d + i] = mem[d + i] /\ mem[d + i] # 0
  <2>1. d + i \in Place /\ d + i # d + j + n /\ d + i \notin d + j .. d + j + n - 1
    BY <1>3, <1>4 DEF Place
  <2>2. QED BY <1>1, <1>7, <1>9, <2>1 DEF IsLength
<1>12. IsLength(after, d, j + n)
  <2> DEFINE m == j + n
  <2>1. m \in 0 .. MemSize - d /\ d + m = d + j + n
    BY <1>3, <1>4
  <2>2. ASSUME NEW i \in 0 .. m - 1 PROVE after[d + i] # 0
    <3>1. CASE i < j
      <4>1. i \in 0 .. j - 1
        BY <1>3, <3>1
      <4>2. QED BY <1>11, <4>1
    <3>2. CASE i >= j
      <4>1. i - j \in 0 .. n - 1 /\ d + i = d + j + (i - j)
        BY <1>3, <3>2
      <4>2. QED BY <1>10, <4>1
    <3>3. QED BY <1>3, <3>1, <3>2
  <2> HIDE DEF m
  <2>3. after[d + m] = 0
    BY <1>9, <2>1
  <2>4. IsLength(after, d, m)
    BY <2>1, <2>2, <2>3 DEF IsLength
  <2>5. QED BY <2>4 DEF m
<1>13. Text(after, d) = Text(mem, d) \o Text(mem, s)
  <2> DEFINE t == Text(mem, d)
             u == Text(mem, s)
  <2>1. /\ t \in Seq(Nat) /\ Len(t) = j /\ \A i \in 1 .. j : t[i] = mem[d + i - 1]
        /\ u \in Seq(Nat) /\ Len(u) = n /\ \A i \in 1 .. n : u[i] = mem[s + i - 1]
    BY <1>1, TextIs
  <2>2. Text(after, d) = [i \in 1 .. j + n |-> after[d + i - 1]]
    BY <1>9, <1>12, TextIs
  <2> HIDE DEF t, u
  <2>3. t \o u = [i \in 1 .. j + n |-> IF i <= j THEN t[i] ELSE u[i - j]]
    <3>1. t \o u = [i \in 1 .. Len(t) + Len(u) |->
                     IF i <= Len(t) THEN t[i] ELSE u[i - Len(t)]]
      BY <2>1, Concatenation
    <3>2. QED BY <2>1, <3>1
  <2>4. ASSUME NEW i \in 1 .. j + n
        PROVE  after[d + i - 1] = IF i <= j THEN t[i] ELSE u[i - j]
    <3>1. CASE i <= j
      <4>1. i \in 1 .. j /\ i - 1 \in 0 .. j - 1 /\ d + i - 1 = d + (i - 1)
        BY <1>3, <3>1
      <4>2. QED BY <1>11, <2>1, <3>1, <4>1
    <3>2. CASE ~(i <= j)
      <4>1. /\ i - j \in 1 .. n /\ i - j - 1 \in 0 .. n - 1
            /\ d + i - 1 = d + j + (i - j - 1) /\ s + (i - j) - 1 = s + (i - j - 1)
        BY <1>3, <3>2
      <4>2. QED BY <1>10, <2>1, <3>2, <4>1
    <3>3. QED BY <3>1, <3>2
  <2>5. QED BY <2>2, <2>3, <2>4 DEF t, u
<1>14. ASSUME NEW c \in Place \ (d + j .. d + j + k - 1) PROVE after[c] = mem[c]
  <2>1. c \in Nat /\ ~(d + j <= c /\ c <= d + j + n)
    <3>1. c \in 0 .. MemSize /\ c \notin d + j .. d + j + k - 1
      BY DEF Place
    <3>2. d + j + k - 1 = d + j + n
      <4>1. k = n + 1 /\ d \in Int /\ j \in Int /\ n \in Int
        BY <1>1, <1>3
      <4>2. QED BY <4>1
    <3>3. QED BY <1>3, <3>1, <3>2
  <2>2. c # d + j + n /\ c \notin d + j .. d + j + n - 1
    BY <1>3, <2>1
  <2>3. QED BY <1>7, <1>9, <2>2
<1>15. QED BY <1>8, <1>13, <1>14 DEF UnchangedBut

LEMMA PrefixIs ==
  ASSUME NEW t \in Seq(Nat), NEW n \in Nat
  PROVE  LET k == IF n < Len(t) THEN n ELSE Len(t)
             p == Prefix(t, n)
         IN  p \in Seq(Nat) /\ Len(p) = k /\ \A i \in 1 .. k : p[i] = t[i]
<1> DEFINE k == IF n < Len(t) THEN n ELSE Len(t)
<1>1. Len(t) \in Nat
  OBVIOUS
<1>2. k \in Nat /\ k <= Len(t)
  BY <1>1
<1> HIDE DEF k
<1>3. \A i \in 1 .. k : t[i] \in Nat
  BY <1>2
<1>4. SubSeq(t, 1, k) \in Seq(Nat) /\ Len(SubSeq(t, 1, k)) = k
      /\ \A i \in 1 .. k : SubSeq(t, 1, k)[i] = t[i]
  BY <1>2, <1>3
<1>5. QED BY <1>4 DEF Prefix, k

LEMMA ZerosFrom ==
  ASSUME NEW mem \in Memories, NEW s \in Place, NEW m, IsLength(mem, s, m), NEW n \in Nat
  PROVE  Min({n} \cup Zeros(mem, s)) = IF n < m THEN n ELSE m
<1> DEFINE Z == {i \in 0 .. MemSize - s : mem[s + i] = 0}
           S == {n} \cup Z
           k == IF n < m THEN n ELSE m
<1>1. Zeros(mem, s) = Z
  BY SizeIs DEF Zeros
<1>2. MemSize \in Nat /\ s \in 0 .. MemSize /\ m \in 0 .. MemSize - s
  BY CharAssumption DEF Place, IsLength
<1>3. m \in Z
  BY DEF IsLength
<1>4. ASSUME NEW i \in Z PROVE m <= i
  <2>1. i \notin 0 .. m - 1
    BY DEF IsLength
  <2>2. QED BY <1>2, <2>1
<1>5. S \in SUBSET Nat /\ k \in S
  BY <1>2, <1>3
<1>6. ASSUME NEW i \in S PROVE k <= i
  <2>1. CASE i = n
    BY <1>2, <2>1
  <2>2. CASE i \in Z
    <3>1. m <= i /\ i \in Nat
      BY <1>2, <1>4, <2>2
    <3>2. QED BY <1>2, <3>1
  <2>3. QED BY <2>1, <2>2
<1> HIDE DEF S, k
<1>7. Min(S) = k
  BY <1>5, <1>6, MinUnique
<1>8. QED BY <1>1, <1>7 DEF S, k

LEMMA StrncpyIsRight ==
  ASSUME NEW mem \in Memories, Ended(mem), NEW d \in Place, NEW s \in Place,
         NEW k, k = Len(Text(mem, s)) + 1, NEW n \in Nat, d + n <= MemSize + 1,
         Apart(d, n, s, IF n < k THEN n ELSE k)
  PROVE  LET after == strncpy(mem, d, s, n)
             text == Prefix(Text(mem, s), n)
         IN  /\ Cell(after, d, n) = text \o [i \in 1 .. n - Len(text) |-> 0]
             /\ UnchangedBut(mem, after, d, n)
<1> DEFINE m == strlen(mem, s)
           l == IF n < m THEN n ELSE m
           copy == Copied(mem, d, s, l)
           after == strncpy(mem, d, s, n)
           text == Prefix(Text(mem, s), n)
           zeros == [i \in 1 .. n - Len(text) |-> 0]
<1>1. IsLength(mem, s, m) /\ k = m + 1
  BY LengthIs, TextIs
<1>2. after = memset(CopyUp(mem, d, s, l), d + l, 0, n - l)
  BY <1>1, ZerosFrom DEF strncpy
<1>3. text \in Seq(Nat) /\ Len(text) = l /\ \A i \in 1 .. l : text[i] = mem[s + i - 1]
  <2>1. /\ Text(mem, s) \in Seq(Nat) /\ Len(Text(mem, s)) = m
        /\ \A i \in 1 .. m : Text(mem, s)[i] = mem[s + i - 1]
    BY <1>1, TextIs
  <2>2. text \in Seq(Nat) /\ Len(text) = l /\ \A i \in 1 .. l : text[i] = Text(mem, s)[i]
    BY <2>1, PrefixIs
  <2>3. m \in Nat
    BY <2>1
  <2> HIDE DEF m, text
  <2>4. QED BY <2>1, <2>2, <2>3
<1> HIDE DEF m, text
<1>4. MemSize \in Nat /\ d \in 0 .. MemSize /\ s \in 0 .. MemSize /\ m \in 0 .. MemSize - s
  BY <1>1, CharAssumption DEF Place, IsLength
<1>5. l \in Nat /\ l <= n /\ l <= m /\ d + l <= MemSize + 1 /\ s + l <= MemSize + 1
  BY <1>4
<1>6. d < s \/ Apart(d, l, s, l)
  BY <1>1, <1>4 DEF Apart
<1> HIDE DEF l
<1>7. CopyUp(mem, d, s, l) = copy
  BY <1>4, <1>5, <1>6, CopyUpIs
<1>8. /\ copy \in Memories
      /\ \A i \in 0 .. l - 1 : copy[d + i] = mem[s + i]
      /\ \A c \in Place : c \notin d .. d + l - 1 => copy[c] = mem[c]
  <2>1. d \in Nat /\ s \in Nat /\ l \in Nat /\ d + l <= MemSize + 1 /\ s + l <= MemSize + 1
    BY <1>4, <1>5
  <2>2. IsCopy(mem, copy, d, s, l)
    BY <2>1, CopiedIs
  <2>3. QED BY <2>2 DEF IsCopy
<1> HIDE DEF copy
<1>9. \A c \in Place :
        after[c] = IF c \in d + l .. d + l + (n - l) - 1 THEN 0 ELSE copy[c]
  BY <1>2, <1>7, <1>8 DEF memset, Memories
<1> HIDE DEF after
<1>10. zeros \in Seq(Nat) /\ Len(zeros) = n - l /\ \A i \in 1 .. n - l : zeros[i] = 0
  BY <1>3, <1>5
<1> HIDE DEF zeros
<1>11. text \o zeros = [i \in 1 .. n |-> IF i <= l THEN text[i] ELSE zeros[i - l]]
  <2>1. text \o zeros
          = [i \in 1 .. l + (n - l) |-> IF i <= l THEN text[i] ELSE zeros[i - l]]
    <3>1. text \in Seq(Nat) /\ zeros \in Seq(Nat) /\ Len(text) = l /\ Len(zeros) = n - l
      BY <1>3, <1>10
    <3>2. text \o zeros
            = [i \in 1 .. Len(text) + Len(zeros) |->
                 IF i <= Len(text) THEN text[i] ELSE zeros[i - Len(text)]]
      BY <3>1, Concatenation
    <3>3. QED BY <3>1, <3>2
  <2>2. l + (n - l) = n
    BY <1>5
  <2>3. QED BY <2>1, <2>2
<1>12. ASSUME NEW i \in 1 .. n
       PROVE  after[d + i - 1] = IF i <= l THEN text[i] ELSE zeros[i - l]
  <2>1. d + i - 1 \in Place
    BY <1>4 DEF Place
  <2>2. CASE i <= l
    <3>1. /\ i \in 1 .. l /\ i - 1 \in 0 .. l - 1 /\ d + i - 1 = d + (i - 1) /\ s + i - 1 = s + (i - 1)
          /\ d + i - 1 \notin d + l .. d + l + (n - l) - 1
      BY <1>4, <1>5, <2>2
    <3>2. after[d + i - 1] = copy[d + i - 1]
      BY <1>9, <2>1, <3>1
    <3>3. QED BY <1>3, <1>8, <2>2, <3>1, <3>2
  <2>3. CASE ~(i <= l)
    <3>1. i - l \in 1 .. n - l /\ d + i - 1 \in d + l .. d + l + (n - l) - 1
      BY <1>4, <1>5, <2>3
    <3>2. QED BY <1>9, <1>10, <2>1, <2>3, <3>1
  <2>4. QED BY <2>2, <2>3
<1>13. Cell(after, d, n) = text \o zeros
  BY <1>11, <1>12 DEF Cell
<1>14. ASSUME NEW c \in Place \ (d .. d + n - 1) PROVE after[c] = mem[c]
  <2>1. c \in 0 .. MemSize
    BY DEF Place
  <2>2. c \notin d .. d + l - 1 /\ c \notin d + l .. d + l + (n - l) - 1
    BY <1>4, <1>5, <2>1
  <2>3. QED BY <1>8, <1>9, <2>2
<1>15. QED BY <1>13, <1>14 DEF UnchangedBut, after, text, zeros

LEMMA CopiesRight ==
  ASSUME NEW mem \in Memories, Ended(mem), NEW d \in Place, NEW s \in Place
  PROVE  CopiesAreRight(mem, d, s)
<1> DEFINE k == Len(Text(mem, s)) + 1
           j == Len(Text(mem, d))
<1>1. MemSize \in Nat /\ d \in 0 .. MemSize
  BY CharAssumption DEF Place
<1>2. ASSUME d + k - 1 \in Place, Apart(d, k, s, k)
      PROVE  LET after == strcpy(mem, d, s)
             IN  Text(after, d) = Text(mem, s) /\ UnchangedBut(mem, after, d, k)
  BY <1>2, StrcpyIsRight
<1>3. ASSUME d + j + k - 1 \in Place, Apart(d, j + k, s, k)
      PROVE  LET after == strcat(mem, d, s)
             IN  /\ Text(after, d) = Text(mem, d) \o Text(mem, s)
                 /\ UnchangedBut(mem, after, d + j, k)
  BY <1>3, StrcatIsRight
<1>4. ASSUME NEW n \in 0 .. MemSize, d + n - 1 \in -1 .. MemSize,
             Apart(d, n, s, IF n < k THEN n ELSE k)
      PROVE  LET after == strncpy(mem, d, s, n)
                 text == Prefix(Text(mem, s), n)
             IN  /\ Cell(after, d, n) = text \o [i \in 1 .. n - Len(text) |-> 0]
                 /\ UnchangedBut(mem, after, d, n)
  <2>1. n \in Nat /\ d + n <= MemSize + 1
    BY <1>1, <1>4
  <2>2. QED BY <1>4, <2>1, StrncpyIsRight
<1>5. QED BY <1>2, <1>3, <1>4 DEF CopiesAreRight

-----------------------------------------------------------------------------
(* Comparisons: the first place at which two texts differ, or one of them  *)
(* ends, decides which is before the other.                                *)
Decides(t, u, i) ==
  /\ i \in 1 .. Len(t) + 1 /\ i \in 1 .. Len(u) + 1
  /\ \A j \in 1 .. i - 1 : t[j] = u[j]
  /\ i = Len(t) + 1 \/ i = Len(u) + 1 \/ t[i] # u[i]

LEMMA BeforeAt ==
  ASSUME NEW t \in Seq(Nat), NEW u \in Seq(Nat), NEW i, Decides(t, u, i)
  PROVE  Before(t, u) <=> i <= Len(u) /\ (i > Len(t) \/ t[i] < u[i])
<1>1. /\ Len(t) \in Nat /\ Len(u) \in Nat /\ i \in Nat /\ i > 0 /\ i <= Len(t) + 1 /\ i <= Len(u) + 1
      /\ \A j \in 1 .. Len(t) : t[j] \in Nat
      /\ \A j \in 1 .. Len(u) : u[j] \in Nat
  BY DEF Decides
<1>2. ASSUME i <= Len(u), i > Len(t) \/ t[i] < u[i] PROVE Before(t, u)
  <2>1. i \in 1 .. Len(u) /\ \A j \in 1 .. i - 1 : j <= Len(t) /\ t[j] = u[j]
    BY <1>1, <1>2 DEF Decides
  <2>2. QED BY <1>2, <2>1 DEF Before
<1>3. ASSUME Before(t, u) PROVE i <= Len(u) /\ (i > Len(t) \/ t[i] < u[i])
  <2>1. PICK k \in 1 .. Len(u) :
          /\ \A j \in 1 .. k - 1 : j <= Len(t) /\ t[j] = u[j]
          /\ k > Len(t) \/ t[k] < u[k]
    BY <1>3 DEF Before
  <2>2. CASE k < i
    <3>1. k \in 1 .. i - 1 /\ k <= Len(t) /\ k \in 1 .. Len(t)
      BY <1>1, <2>2
    <3>2. t[k] = u[k] /\ t[k] \in Nat /\ u[k] \in Nat
      BY <1>1, <3>1 DEF Decides
    <3>3. QED BY <2>1, <3>1, <3>2
  <2>3. CASE k = i
    BY <2>1, <2>3
  <2>4. CASE k > i
    <3>1. i \in 1 .. k - 1
      BY <1>1, <2>4
    <3>2. i <= Len(t) /\ t[i] = u[i] /\ i < Len(u) + 1
      BY <1>1, <2>1, <2>4, <3>1
    <3>3. QED BY <1>1, <3>2 DEF Decides
  <2>5. QED BY <1>1, <2>2, <2>3, <2>4
<1>4. QED BY <1>2, <1>3

LEMMA OrderAt ==
  ASSUME NEW t \in Seq(Nat), NEW u \in Seq(Nat), NEW i, Decides(t, u, i), NEW x \in Int,
         x < 0 <=> i <= Len(u) /\ (i > Len(t) \/ t[i] < u[i]),
         x > 0 <=> i <= Len(t) /\ (i > Len(u) \/ u[i] < t[i])
  PROVE  Sgn(x) = Order(t, u)
<1>1. Before(t, u) <=> x < 0
  BY BeforeAt
<1>2. Before(u, t) <=> x > 0
  <2>1. Decides(u, t, i)
    BY DEF Decides
  <2>2. QED BY <2>1, BeforeAt
<1>3. QED BY <1>1, <1>2 DEF Sgn, Order

(* Where the loops stop: at i two texts differ or one ends, not before.    *)
IsEnd(mem, d, s, i) ==
  /\ i \in 0 .. MemSize /\ d + i \in Place /\ s + i \in Place
  /\ mem[d + i] = 0 \/ mem[s + i] = 0 \/ mem[d + i] # mem[s + i]
  /\ \A j \in 0 .. i - 1 : mem[d + j] # 0 /\ mem[s + j] # 0 /\ mem[d + j] = mem[s + j]

LEMMA EndsIs ==
  ASSUME NEW mem \in Memories, Ended(mem), NEW d \in Place, NEW s \in Place
  PROVE  \E e \in Nat :
           /\ IsEnd(mem, d, s, e)
           /\ Min(Ends(mem, d, s)) = e
           /\ \A n \in Nat : Min({n} \cup Ends(mem, d, s)) = IF n < e THEN n ELSE e
<1> DEFINE top == IF d > s THEN d ELSE s
           Hit(i) == mem[d + i] = 0 \/ mem[s + i] = 0 \/ mem[d + i] # mem[s + i]
           E == {i \in 0 .. MemSize - top : Hit(i)}
           e == Min(E)
<1>1. Ends(mem, d, s) = E
  BY SizeIs DEF Ends
<1>2. MemSize \in Nat /\ d \in 0 .. MemSize /\ s \in 0 .. MemSize
  BY CharAssumption DEF Place
<1>3. top \in 0 .. MemSize /\ d <= top /\ s <= top /\ (top = d \/ top = s)
  BY <1>2
<1> HIDE DEF top
<1>4. MemSize - top \in E
  <2>1. MemSize - top \in 0 .. MemSize - top
    BY <1>2, <1>3
  <2>2. d + (MemSize - top) = MemSize \/ s + (MemSize - top) = MemSize
    BY <1>2, <1>3
  <2>3. QED BY <2>1, <2>2 DEF Ended
<1>5. E \in SUBSET Nat
  BY <1>2, <1>3
<1>6. e \in E /\ e \in Nat /\ \A i \in E : e <= i
  <2> HIDE DEF E
  <2>1. e \in E /\ \A i \in E : e <= i
    BY <1>4, <1>5, MinIs
  <2>2. QED BY <1>5, <2>1
<1> HIDE DEF e
<1>7. IsEnd(mem, d, s, e)
  <2>1. e \in 0 .. MemSize /\ d + e \in Place /\ s + e \in Place
    BY <1>2, <1>3, <1>6 DEF Place
  <2>2. ASSUME NEW j \in 0 .. e - 1 PROVE ~Hit(j)
    <3>1. j \in 0 .. MemSize - top /\ ~(e <= j)
      BY <1>2, <1>3, <1>6
    <3>2. QED BY <1>6, <3>1
  <2>3. QED BY <1>6, <2>1, <2>2 DEF IsEnd
<1>8. ASSUME NEW n \in Nat PROVE Min({n} \cup E) = IF n < e THEN n ELSE e
  <2> DEFINE S == {n} \cup E
             k == IF n < e THEN n ELSE e
  <2>1. S \in SUBSET Nat /\ k \in S
    BY <1>5, <1>6
  <2>2. ASSUME NEW i \in S PROVE k <= i
    <3> HIDE DEF E
    <3>1. CASE i = n
      BY <1>6, <3>1
    <3>2. CASE i \in E
      <4>1. e <= i /\ i \in Nat
        BY <1>5, <1>6, <3>2
      <4>2. QED BY <1>6, <4>1
    <3>3. QED BY <3>1, <3>2
  <2> HIDE DEF S, k
  <2>3. Min(S) = k
    BY <2>1, <2>2, MinUnique
  <2>4. QED BY <2>3 DEF S, k
<1>9. QED BY <1>1, <1>6, <1>7, <1>8 DEF e

(* Up to there neither text ends, and a text that ends there ends with 0.  *)
LEMMA EndInTexts ==
  ASSUME NEW mem \in Memories, NEW d \in Place, NEW s \in Place, NEW e, IsEnd(mem, d, s, e),
         NEW m, IsLength(mem, d, m)
  PROVE  e \in Nat /\ m \in Nat /\ e <= m /\ (e = m <=> mem[d + e] = 0)
<1>1. MemSize \in Nat /\ d \in 0 .. MemSize /\ e \in Nat
  BY CharAssumption DEF Place, IsEnd
<1>2. m \in 0 .. MemSize - d /\ mem[d + m] = 0 /\ \A i \in 0 .. m - 1 : mem[d + i] # 0
  BY DEF IsLength
<1>3. \A j \in 0 .. e - 1 : mem[d + j] # 0
  BY DEF IsEnd
<1>4. m \notin 0 .. e - 1
  BY <1>2, <1>3
<1>5. e <= m
  BY <1>1, <1>2, <1>4
<1>6. e < m => mem[d + e] # 0
  BY <1>1, <1>2
<1>7. QED BY <1>1, <1>2, <1>5, <1>6

(* Two texts agree up to e, where v and w are their characters, or 0.      *)
EndAt(t, u, e, v, w) ==
  /\ t \in Seq(Nat) /\ u \in Seq(Nat) /\ e \in Nat /\ v \in Nat /\ w \in Nat
  /\ e <= Len(t) /\ e <= Len(u) /\ \A j \in 1 .. e : t[j] = u[j]
  /\ v = (IF e < Len(t) THEN t[e + 1] ELSE 0) /\ (e < Len(t) => t[e + 1] > 0)
  /\ w = (IF e < Len(u) THEN u[e + 1] ELSE 0) /\ (e < Len(u) => u[e + 1] > 0)
  /\ e = Len(t) \/ e = Len(u) \/ t[e + 1] # u[e + 1]

LEMMA EndDecides ==
  ASSUME NEW mem \in Memories, Ended(mem), NEW d \in Place, NEW s \in Place, NEW e,
         IsEnd(mem, d, s, e)
  PROVE  EndAt(Text(mem, d), Text(mem, s), e, mem[d + e], mem[s + e])
<1> DEFINE t == Text(mem, d)
           u == Text(mem, s)
           m == strlen(mem, d)
           n == strlen(mem, s)
<1>1. IsLength(mem, d, m) /\ IsLength(mem, s, n)
  BY LengthIs
<1>2. /\ t \in Seq(Nat) /\ Len(t) = m
      /\ \A i \in 1 .. m : t[i] = mem[d + i - 1] /\ mem[d + i - 1] \in Nat \ {0}
  BY <1>1, TextIs
<1>3. /\ u \in Seq(Nat) /\ Len(u) = n
      /\ \A i \in 1 .. n : u[i] = mem[s + i - 1] /\ mem[s + i - 1] \in Nat \ {0}
  BY <1>1, TextIs
<1> HIDE DEF t, u, m, n
<1>4. e \in Nat /\ m \in Nat /\ e <= m /\ (e = m <=> mem[d + e] = 0)
  BY <1>1, EndInTexts
<1>5. n \in Nat /\ e <= n /\ (e = n <=> mem[s + e] = 0)
  <2>1. IsEnd(mem, s, d, e)
    BY DEF IsEnd
  <2>2. QED BY <1>1, <2>1, EndInTexts
<1>6. d \in Int /\ s \in Int
  BY CharAssumption DEF Place
<1>7. ASSUME NEW j \in 1 .. e PROVE t[j] = u[j]
  <2>1. j - 1 \in 0 .. e - 1 /\ d + j - 1 = d + (j - 1) /\ s + j - 1 = s + (j - 1)
    BY <1>4, <1>6
  <2>2. j \in 1 .. m /\ j \in 1 .. n
    BY <1>4, <1>5
  <2>3. mem[d + (j - 1)] = mem[s + (j - 1)]
    BY <2>1 DEF IsEnd
  <2>4. QED BY <1>2, <1>3, <2>1, <2>2, <2>3
<1>8. mem[d + e] = (IF e < m THEN t[e + 1] ELSE 0) /\ (e < m => t[e + 1] \in Nat \ {0})
  <2>1. CASE e < m
    <3>1. e + 1 \in 1 .. m /\ d + (e + 1) - 1 = d + e
      BY <1>4, <1>6, <2>1
    <3>2. QED BY <1>2, <2>1, <3>1
  <2>2. CASE ~(e < m)
    BY <1>4, <2>2
  <2>3. QED BY <2>1, <2>2
<1>9. mem[s + e] = (IF e < n THEN u[e + 1] ELSE 0) /\ (e < n => u[e + 1] \in Nat \ {0})
  <2>1. CASE e < n
    <3>1. e + 1 \in 1 .. n /\ s + (e + 1) - 1 = s + e
      BY <1>5, <1>4, <1>6, <2>1
    <3>2. QED BY <1>3, <2>1, <3>1
  <2>2. CASE ~(e < n)
    BY <1>4, <1>5, <2>2
  <2>3. QED BY <2>1, <2>2
<1>10. e = m \/ e = n \/ t[e + 1] # u[e + 1]
  <2>1. mem[d + e] = 0 \/ mem[s + e] = 0 \/ mem[d + e] # mem[s + e]
    BY DEF IsEnd
  <2>2. QED BY <1>4, <1>5, <1>8, <1>9, <2>1
<1>11. e < m => t[e + 1] > 0
  BY <1>8
<1>12. e < n => u[e + 1] > 0
  BY <1>9
<1>13. mem[d + e] \in Nat /\ mem[s + e] \in Nat
  BY DEF IsEnd, Memories
<1>14. EndAt(t, u, e, mem[d + e], mem[s + e])
  BY <1>2, <1>3, <1>4, <1>5, <1>7, <1>8, <1>9, <1>10, <1>11, <1>12, <1>13 DEF EndAt
<1>15. QED BY <1>14 DEF t, u

(* The characters there are in the order of the texts.                     *)
LEMMA OrderOfEnds ==
  ASSUME NEW t, NEW u, NEW e, NEW v, NEW w, EndAt(t, u, e, v, w)
  PROVE  Sgn(v - w) = Order(t, u)
<1> DEFINE x == v - w
<1>1. /\ t \in Seq(Nat) /\ u \in Seq(Nat) /\ Len(t) \in Nat /\ Len(u) \in Nat
      /\ e \in Nat /\ v \in Nat /\ w \in Nat
  BY DEF EndAt
<1>2. Decides(t, u, e + 1)
  <2>1. e + 1 \in 1 .. Len(t) + 1 /\ e + 1 \in 1 .. Len(u) + 1 /\ (e + 1) - 1 = e
    BY <1>1 DEF EndAt
  <2>2. QED BY <1>1, <2>1 DEF Decides, EndAt
<1>3. x \in Int
      /\ (x < 0 <=> e + 1 <= Len(u) /\ (e + 1 > Len(t) \/ t[e + 1] < u[e + 1]))
      /\ (x > 0 <=> e + 1 <= Len(t) /\ (e + 1 > Len(u) \/ u[e + 1] < t[e + 1]))
  <2>1. x \in Int /\ (x < 0 <=> v < w) /\ (x > 0 <=> w < v)
    BY <1>1
  <2> HIDE DEF x
  <2>2. QED BY <1>1, <2>1 DEF EndAt
<1> HIDE DEF x
<1>4. Sgn(x) = Order(t, u)
  BY <1>1, <1>2, <1>3, OrderAt
<1>5. QED BY <1>4 DEF x

LEMMA EqualOrder ==
  ASSUME NEW t \in Seq(Nat), NEW u \in Seq(Nat), Len(t) = Len(u),
         \A j \in 1 .. Len(t) : t[j] = u[j]
  PROVE  Sgn(0) = Order(t, u)
<1> DEFINE n == Len(t)
<1>1. n \in Nat /\ Len(u) = n
  OBVIOUS
<1>2. (n + 1) - 1 = n /\ n + 1 \in 1 .. n + 1
  BY <1>1
<1>3. Decides(t, u, n + 1)
  BY <1>1, <1>2 DEF Decides
<1>4. QED BY <1>1, <1>3, OrderAt

LEMMA StrcmpIsRight ==
  ASSUME NEW mem \in Memories, Ended(mem), NEW d \in Place, NEW s \in Place
  PROVE  Sgn(strcmp(mem, d, s)) = Order(Text(mem, d), Text(mem, s))
<1>1. PICK e \in Nat : IsEnd(mem, d, s, e) /\ Min(Ends(mem, d, s)) = e
  BY EndsIs
<1>2. strcmp(mem, d, s) = mem[d + e] - mem[s + e]
  BY <1>1 DEF strcmp
<1>3. QED BY <1>1, <1>2, EndDecides, OrderOfEnds

LEMMA StrncmpIsRight ==
  ASSUME NEW mem \in Memories, Ended(mem), NEW d \in Place, NEW s \in Place, NEW n \in Nat
  PROVE  Sgn(strncmp(mem, d, s, n)) = Order(Prefix(Text(mem, d), n), Prefix(Text(mem, s), n))
<1>1. PICK e \in Nat :
        IsEnd(mem, d, s, e) /\ Min({n} \cup Ends(mem, d, s)) = IF n < e THEN n ELSE e
  BY EndsIs
<1> DEFINE t == Text(mem, d)
           u == Text(mem, s)
           p == Prefix(t, n)
           q == Prefix(u, n)
<1>2. EndAt(t, u, e, mem[d + e], mem[s + e])
  BY <1>1, EndDecides
<1>3. strncmp(mem, d, s, n) = IF n <= e THEN 0 ELSE mem[d + e] - mem[s + e]
  <2>1. CASE n <= e
    BY <1>1, <2>1 DEF strncmp
  <2>2. CASE ~(n <= e)
    BY <1>1, <2>2 DEF strncmp
  <2>3. QED BY <2>1, <2>2
<1> HIDE DEF t, u
<1>4. /\ t \in Seq(Nat) /\ u \in Seq(Nat) /\ Len(t) \in Nat /\ Len(u) \in Nat
      /\ mem[d + e] \in Nat /\ mem[s + e] \in Nat
      /\ e <= Len(t) /\ e <= Len(u) /\ \A j \in 1 .. e : t[j] = u[j]
  BY <1>2 DEF EndAt
<1>5. /\ p \in Seq(Nat) /\ Len(p) = (IF n < Len(t) THEN n ELSE Len(t))
      /\ \A i \in 1 .. Len(p) : p[i] = t[i]
  BY <1>4, PrefixIs
<1>6. /\ q \in Seq(Nat) /\ Len(q) = (IF n < Len(u) THEN n ELSE Len(u))
      /\ \A i \in 1 .. Len(q) : q[i] = u[i]
  BY <1>4, PrefixIs
<1> HIDE DEF p, q
<1>7. CASE n <= e
  <2>1. Len(p) = n /\ Len(q) = n
    BY <1>4, <1>5, <1>6, <1>7
  <2>2. ASSUME NEW j \in 1 .. n PROVE p[j] = q[j]
    <3>1. j \in 1 .. e
      BY <1>7
    <3>2. QED BY <1>4, <1>5, <1>6, <2>1, <3>1
  <2>3. Sgn(0) = Order(p, q)
    BY <1>5, <1>6, <2>1, <2>2, EqualOrder
  <2>4. QED BY <1>3, <1>7, <2>3 DEF p, q, t, u
<1>8. CASE ~(n <= e)
  <2>1. e <= Len(p) /\ e <= Len(q) /\ (e < Len(p) <=> e < Len(t)) /\ (e < Len(q) <=> e < Len(u))
        /\ Len(p) \in Nat /\ Len(q) \in Nat
    <3>1. e <= Len(p) /\ (e < Len(p) <=> e < Len(t)) /\ Len(p) \in Nat
      BY <1>4, <1>5, <1>8
    <3>2. e <= Len(q) /\ (e < Len(q) <=> e < Len(u)) /\ Len(q) \in Nat
      BY <1>4, <1>6, <1>8
    <3>3. QED BY <3>1, <3>2
  <2>2. ASSUME NEW j \in 1 .. e PROVE p[j] = q[j]
    <3>1. j \in 1 .. Len(p) /\ j \in 1 .. Len(q)
      BY <2>1
    <3>2. QED BY <1>4, <1>5, <1>6, <3>1
  <2>3. e < Len(p) => p[e + 1] = t[e + 1]
    <3>1. e < Len(p) => e + 1 \in 1 .. Len(p)
      BY <2>1
    <3>2. QED BY <1>5, <3>1
  <2>4. e < Len(q) => q[e + 1] = u[e + 1]
    <3>1. e < Len(q) => e + 1 \in 1 .. Len(q)
      BY <2>1
    <3>2. QED BY <1>6, <3>1
  <2> DEFINE v == mem[d + e]
             w == mem[s + e]
  <2>5. EndAt(p, q, e, v, w)
    <3>1. EndAt(t, u, e, v, w)
      BY <1>2
    <3> HIDE DEF v, w
    <3>2. /\ v = (IF e < Len(p) THEN p[e + 1] ELSE 0) /\ (e < Len(p) => p[e + 1] > 0)
          /\ w = (IF e < Len(q) THEN q[e + 1] ELSE 0) /\ (e < Len(q) => q[e + 1] > 0)
      BY <2>1, <2>3, <2>4, <3>1 DEF EndAt
    <3>3. e = Len(p) \/ e = Len(q) \/ p[e + 1] # q[e + 1]
      BY <1>4, <2>1, <2>3, <2>4, <3>1 DEF EndAt
    <3>4. v \in Nat /\ w \in Nat
      BY <3>1 DEF EndAt
    <3>5. QED BY <1>5, <1>6, <2>1, <2>2, <3>2, <3>3, <3>4 DEF EndAt
  <2>6. Sgn(v - w) = Order(p, q)
    BY <2>5, OrderOfEnds
  <2>7. QED BY <1>3, <1>8, <2>6 DEF p, q, t, u
<1>9. QED BY <1>7, <1>8

LEMMA MemcmpIsRight ==
  ASSUME NEW mem \in Memories, NEW d \in Place, NEW s \in Place, NEW n \in Nat,
         d + n <= MemSize + 1, s + n <= MemSize + 1
  PROVE  Sgn(memcmp(mem, d, s, n)) = Order(Cell(mem, d, n), Cell(mem, s, n))
<1> DEFINE D == {j \in 0 .. n - 1 : mem[d + j] # mem[s + j]}
           S == {n} \cup D
           i == Min(S)
           p == Cell(mem, d, n)
           q == Cell(mem, s, n)
<1>1. d \in Nat /\ s \in Nat
  BY CharAssumption DEF Place
<1>2. i \in S /\ i \in Nat /\ \A j \in S : i <= j
  <2>1. S \in SUBSET Nat /\ n \in S
    OBVIOUS
  <2> HIDE DEF S
  <2>2. i \in S /\ \A j \in S : i <= j
    BY <2>1, MinIs
  <2>3. QED BY <2>1, <2>2
<1>3. memcmp(mem, d, s, n) = IF i = n THEN 0 ELSE mem[d + i] - mem[s + i]
  BY DEF memcmp
<1>4. /\ p \in Seq(Nat) /\ Len(p) = n
      /\ \A j \in 1 .. n : p[j] = mem[d + j - 1] /\ mem[d + j - 1] \in Nat
  BY <1>1, CellIs
<1>5. /\ q \in Seq(Nat) /\ Len(q) = n
      /\ \A j \in 1 .. n : q[j] = mem[s + j - 1] /\ mem[s + j - 1] \in Nat
  BY <1>1, CellIs
<1> HIDE DEF i, p, q
<1>6. i <= n
  BY <1>2
<1>7. ASSUME NEW j \in 1 .. i PROVE p[j] = q[j]
  <2>1. j - 1 \in 0 .. n - 1 /\ ~(i <= j - 1) /\ j \in 1 .. n
        /\ d + j - 1 = d + (j - 1) /\ s + j - 1 = s + (j - 1)
    BY <1>1, <1>2, <1>6
  <2>2. j - 1 \notin D
    BY <1>2, <2>1
  <2>3. QED BY <1>4, <1>5, <2>1, <2>2
<1>8. CASE i = n
  <2>1. Sgn(0) = Order(p, q)
    BY <1>4, <1>5, <1>7, <1>8, EqualOrder
  <2>2. QED BY <1>3, <1>8, <2>1 DEF p, q
<1>9. CASE i # n
  <2> DEFINE x == mem[d + i] - mem[s + i]
  <2>1. i \in 0 .. n - 1 /\ mem[d + i] # mem[s + i]
    BY <1>2, <1>9
  <2>2. i + 1 \in 1 .. n /\ d + (i + 1) - 1 = d + i /\ s + (i + 1) - 1 = s + i /\ (i + 1) - 1 = i
    BY <1>1, <2>1
  <2>3. p[i + 1] = mem[d + i] /\ q[i + 1] = mem[s + i] /\ mem[d + i] \in Nat /\ mem[s + i] \in Nat
    BY <1>4, <1>5, <2>2
  <2>4. Decides(p, q, i + 1)
    <3>1. i + 1 \in 1 .. n + 1
      BY <2>2
    <3>2. QED BY <1>4, <1>5, <1>7, <2>1, <2>2, <2>3, <3>1 DEF Decides
  <2>5. x \in Int
        /\ (x < 0 <=> i + 1 <= Len(q) /\ (i + 1 > Len(p) \/ p[i + 1] < q[i + 1]))
        /\ (x > 0 <=> i + 1 <= Len(p) /\ (i + 1 > Len(q) \/ q[i + 1] < p[i + 1]))
    <3>1. x \in Int /\ (x < 0 <=> mem[d + i] < mem[s + i]) /\ (x > 0 <=> mem[s + i] < mem[d + i])
      BY <2>3
    <3> HIDE DEF x
    <3>2. i + 1 <= n /\ ~(i + 1 > n)
      BY <2>2
    <3>3. QED BY <1>4, <1>5, <2>3, <3>1, <3>2
  <2> HIDE DEF x
  <2>6. Sgn(x) = Order(p, q)
    BY <1>4, <1>5, <2>4, <2>5, OrderAt
  <2>7. QED BY <1>3, <1>9, <2>6 DEF p, q, x
<1>10. QED BY <1>8, <1>9

LEMMA ComparisonsRight ==
  ASSUME NEW mem \in Memories, Ended(mem), NEW d \in Place, NEW s \in Place
  PROVE  ComparisonsAreRight(mem, d, s)
<1>1. ASSUME NEW n \in 0 .. MemSize PROVE n \in Nat
  BY CharAssumption
<1>2. QED BY <1>1, StrcmpIsRight, StrncmpIsRight, MemcmpIsRight DEF ComparisonsAreRight

-----------------------------------------------------------------------------
(* Moves.                                                                  *)
LEMMA CopyMoves ==
  ASSUME NEW mem \in Memories, NEW d \in Place, NEW s \in Place, NEW n \in Nat,
         d + n <= MemSize + 1, s + n <= MemSize + 1, d < s \/ Apart(d, n, s, n)
  PROVE  LET after == CopyUp(mem, d, s, n)
         IN  /\ Cell(after, d, n) = Cell(mem, s, n)
             /\ UnchangedBut(mem, after, d, n)
             /\ after # Loops
<1> DEFINE after == CopyUp(mem, d, s, n)
<1>1. d \in Nat /\ s \in Nat
  BY CharAssumption DEF Place
<1>2. after = Copied(mem, d, s, n)
  BY <1>1, CopyUpIs
<1>3. IsCopy(mem, after, d, s, n)
  BY <1>1, <1>2, CopiedIs
<1> HIDE DEF after
<1>4. ASSUME NEW i \in 1 .. n PROVE after[d + i - 1] = mem[s + i - 1]
  <2>1. i - 1 \in 0 .. n - 1 /\ d + i - 1 = d + (i - 1) /\ s + i - 1 = s + (i - 1)
    BY <1>1
  <2>2. QED BY <1>3, <2>1 DEF IsCopy
<1>5. Cell(after, d, n) = Cell(mem, s, n)
  BY <1>4 DEF Cell
<1>6. UnchangedBut(mem, after, d, n)
  BY <1>3 DEF IsCopy, UnchangedBut
<1>7. after # Loops
  <2>1. DOMAIN after = Place /\ d \in Place /\ DOMAIN Loops = {}
    BY <1>3 DEF IsCopy, Memories, Loops
  <2>2. QED BY <2>1
<1>8. QED BY <1>5, <1>6, <1>7 DEF after

-----------------------------------------------------------------------------
(* The strengthening: the two memories are equal byte by byte, the heap's  *)
(* pointer is aligned and above every block, and a memory of characters    *)
(* stays one and ends with a 0.                                            *)
AccessInv ==
  subject = "access" =>
    /\ input.mem \in [Cells -> Byte]
    /\ input.bytes = input.mem
    /\ \A c \in MSIZE .. MSIZE + 2 : input.mem[c] = c % 2

Block == [ptr : Nat, size : Nat]
Placed(x) == x.ptr % 8 = 0 /\ x.ptr <= HeapEnd /\ x.ptr + x.size <= input.addr
HeapInv ==
  subject = "malloc" =>
    /\ input.addr \in 1 .. UPTR - 1 /\ input.addr % 8 = 0
    /\ input.blocks \in Seq(Block)
    /\ \A i \in DOMAIN input.blocks : input.blocks[i].ptr # NULL => Placed(input.blocks[i])
    /\ \A i, j \in DOMAIN input.blocks :
         i < j /\ input.blocks[i].ptr # NULL /\ input.blocks[j].ptr # NULL =>
           input.blocks[i].ptr + input.blocks[i].size <= input.blocks[j].ptr

StringInv == subject = "string" => input.mem \in Memories /\ Ended(input.mem)

MemoryInv == AccessInv /\ HeapInv /\ StringInv

LEMMA StringInvInit == ASSUME subject = "string", StringInit PROVE StringInv
<1>1. PICK cells \in [0 .. MemSize - 1 -> Chars] :
        input = [mem |-> [c \in Place |-> IF c = MemSize THEN 0 ELSE cells[c]]]
  BY DEF StringInit
<1> DEFINE m == [c \in Place |-> IF c = MemSize THEN 0 ELSE cells[c]]
<1>2. ASSUME NEW c \in Place PROVE m[c] \in Nat
  <2>1. CASE c = MemSize
    BY <2>1
  <2>2. CASE c # MemSize
    <3>1. c \in 0 .. MemSize - 1
      BY <2>2, CharAssumption DEF Place
    <3>2. QED BY <2>2, <3>1, CharAssumption
  <2>3. QED BY <2>1, <2>2
<1>3. MemSize \in Place
  BY CharAssumption DEF Place
<1>4. m \in Memories /\ m[MemSize] = 0
  BY <1>2, <1>3 DEF Memories
<1>5. input.mem = m
  BY <1>1
<1>6. QED BY <1>4, <1>5 DEF StringInv, Ended

LEMMA MemoryInvInit == MemoryInit => MemoryInv
<1> SUFFICES ASSUME MemoryInit PROVE MemoryInv
  OBVIOUS
<1>1. CASE subject = "access" /\ AccessInit
  <2> DEFINE zero == [c \in Cells |-> c % 2]
  <2>1. input.mem = zero /\ input.bytes = zero
    BY <1>1 DEF AccessInit
  <2>2. zero \in [Cells -> Byte]
    BY Radices DEF Cells, Byte
  <2>3. \A c \in MSIZE .. MSIZE + 2 : zero[c] = c % 2
    BY ByteAssumption DEF Cells
  <2> HIDE DEF zero
  <2>4. QED BY <1>1, <2>1, <2>2, <2>3 DEF MemoryInv, AccessInv, HeapInv, StringInv
<1>2. CASE subject = "malloc" /\ HeapInit
  <2>1. input.addr = HeapStart /\ input.blocks = <<>>
    BY <1>2 DEF HeapInit
  <2>2. HeapStart \in 1 .. UPTR - 1 /\ HeapStart % 8 = 0
    BY HeapAssumption
  <2>3. <<>> \in Seq(Block) /\ DOMAIN <<>> = {}
    OBVIOUS
  <2>4. QED BY <1>2, <2>1, <2>2, <2>3 DEF MemoryInv, AccessInv, HeapInv, StringInv
<1>3. CASE subject = "string" /\ StringInit
  BY <1>3, StringInvInit DEF MemoryInv, AccessInv, HeapInv
<1>4. QED BY <1>1, <1>2, <1>3 DEF MemoryInit

(* A store writes the lanes of its mask, which are the bytes of its width. *)
LEMMA StoreKeeps ==
  ASSUME MemoryInv, StoreStep
  PROVE  MemoryInv'
<1>1. subject = "access" /\ subject' = "access" /\ AccessInv
  BY DEF StoreStep, MemoryInv
<1>2. PICK funct3 \in 0 .. 2, addr \in 0 .. MSIZE - 1, wdata \in Data :
        /\ addr + Width(funct3) <= MSIZE
        /\ input' = [mem |-> pmem_write(input.mem, addr, wdata, wmask(funct3)),
                     bytes |-> [c \in Cells |-> IF c \in addr .. addr + Width(funct3) - 1
                                                THEN Lane(wdata, c - addr) ELSE input.bytes[c]]]
  BY DEF StoreStep
<1> DEFINE k == Width(funct3)
           after == [c \in Cells |-> IF c \in addr .. addr + k - 1
                                     THEN Lane(wdata, c - addr) ELSE input.mem[c]]
<1>3. k \in 1 .. 4 /\ wmask(funct3) = 0 .. k - 1
  <2>1. CASE funct3 = 0
    BY <2>1 DEF Width, wmask
  <2>2. CASE funct3 = 1
    BY <2>2 DEF Width, wmask
  <2>3. CASE funct3 = 2
    BY <2>3 DEF Width, wmask, Lanes
  <2>4. QED BY <2>1, <2>2, <2>3
<1>4. pmem_write(input.mem, addr, wdata, wmask(funct3)) = after
  <2>1. ~memory_out_of_bound(addr)
    BY DEF memory_out_of_bound
  <2>2. \A c \in Cells : c - addr \in 0 .. k - 1 <=> c \in addr .. addr + k - 1
    BY <1>3 DEF Cells
  <2>3. pmem_write(input.mem, addr, wdata, wmask(funct3))
          = [c \in Cells |-> IF c - addr \in wmask(funct3) THEN Lane(wdata, c - addr)
                             ELSE input.mem[c]]
    BY <2>1 DEF pmem_write
  <2> HIDE DEF k
  <2>4. QED BY <1>3, <2>2, <2>3
<1>5. input'.mem = after /\ input'.bytes = after
  BY <1>1, <1>2, <1>4 DEF AccessInv
<1>6. after \in [Cells -> Byte]
  <2>1. ASSUME NEW c \in Cells, c \in addr .. addr + k - 1 PROVE Lane(wdata, c - addr) \in Byte
    <3>1. RADIX^(c - addr) \in Nat \ {0} /\ RADIX \in Nat \ {0} /\ wdata \in Int
      <4>1. c - addr \in 0 .. 4
        BY <1>3, <2>1
      <4>2. wdata \in Int
        BY Radices, DataAssumption
      <4>3. QED BY <4>1, <4>2, Radices
    <3>2. wdata \div RADIX^(c - addr) \in Int
      BY <3>1, Division
    <3>3. QED BY <3>1, <3>2, Division DEF Lane, Byte
  <2>2. input.mem \in [Cells -> Byte]
    BY <1>1 DEF AccessInv
  <2>3. QED BY <2>1, <2>2
<1>7. ASSUME NEW c \in MSIZE .. MSIZE + 2 PROVE after[c] = c % 2
  <2>1. c \in Cells /\ c \notin addr .. addr + k - 1
    BY <1>2, <1>3, ByteAssumption DEF Cells
  <2>2. QED BY <1>1, <2>1 DEF AccessInv
<1> HIDE DEF after, k
<1>8. QED BY <1>1, <1>5, <1>6, <1>7 DEF MemoryInv, AccessInv, HeapInv, StringInv

(* An allocation that wraps no pointer takes a block at the pointer and    *)
(* moves it behind the block, up to the next multiple of 8.                *)
LEMMA RoundUp ==
  ASSUME NEW addr \in 1 .. UPTR - 1, addr % 8 = 0, NEW size \in Nat, addr + size + 7 < UPTR
  PROVE  LET next == (addr + ROUNDUP(size)) % UPTR
         IN  next \in 1 .. UPTR - 1 /\ next % 8 = 0 /\ addr + size <= next
<1> DEFINE rounded == ((size + 7) \div 8) * 8
<1>1. UPTR \in Nat
  BY HeapAssumption
<1>2. ROUNDUP(size) = rounded
  <2>1. (size + 7) % UPTR = size + 7
    BY <1>1
  <2>2. QED BY <2>1 DEF ROUNDUP
<1>3. rounded \in Nat /\ size <= rounded /\ rounded <= size + 7 /\ rounded % 8 = 0
  OBVIOUS
<1> HIDE DEF rounded
<1>4. (addr + rounded) % UPTR = addr + rounded
  BY <1>1, <1>3
<1>5. (addr + rounded) % 8 = 0
  BY <1>3
<1>6. QED BY <1>1, <1>2, <1>3, <1>4, <1>5

LEMMA AllocateKeeps ==
  ASSUME MemoryInv, Allocate
  PROVE  MemoryInv'
<1>1. subject = "malloc" /\ subject' = "malloc" /\ HeapInv
  BY DEF Allocate, MemoryInv
<1>2. PICK size \in Sizes :
        /\ input.addr + size + 7 < UPTR
        /\ input' = [addr |-> malloc(input.addr, size).addr,
                     blocks |-> Append(input.blocks, [ptr |-> malloc(input.addr, size).ptr,
                                                      size |-> size])]
  BY DEF Allocate
<1> DEFINE addr == input.addr
           blocks == input.blocks
           new == [ptr |-> malloc(addr, size).ptr, size |-> size]
<1>3. /\ addr \in 1 .. UPTR - 1 /\ addr % 8 = 0 /\ blocks \in Seq(Block) /\ size \in Nat
  BY <1>1, DataAssumption DEF HeapInv
<1>4. /\ input'.addr \in 1 .. UPTR - 1 /\ input'.addr % 8 = 0 /\ addr <= input'.addr
      /\ new.ptr # NULL => new.ptr = addr /\ addr <= HeapEnd /\ addr + size <= input'.addr
      /\ new \in Block
  <2>1. CASE size = 0 \/ addr > HeapEnd
    BY <1>2, <1>3, <2>1 DEF malloc, NULL, Block
  <2>2. CASE ~(size = 0 \/ addr > HeapEnd)
    <3>1. malloc(addr, size) = [ptr |-> addr, addr |-> (addr + ROUNDUP(size)) % UPTR]
      BY <2>2 DEF malloc
    <3>2. input'.addr = (addr + ROUNDUP(size)) % UPTR /\ new.ptr = addr
      BY <1>2, <3>1
    <3>3. input'.addr \in 1 .. UPTR - 1 /\ input'.addr % 8 = 0 /\ addr + size <= input'.addr
      BY <1>2, <1>3, <3>2, RoundUp
    <3>4. addr <= HeapEnd
      BY <1>3, <2>2, HeapAssumption
    <3>5. new \in Block
      BY <1>3, <3>2 DEF Block
    <3>6. QED BY <1>3, <3>2, <3>3, <3>4, <3>5, HeapAssumption
  <2>3. QED BY <2>1, <2>2
<1>5. /\ input'.blocks \in Seq(Block)
      /\ DOMAIN input'.blocks = 1 .. Len(blocks) + 1 /\ DOMAIN blocks = 1 .. Len(blocks)
      /\ \A i \in 1 .. Len(blocks) : input'.blocks[i] = blocks[i]
      /\ input'.blocks[Len(blocks) + 1] = new
      /\ Len(blocks) \in Nat
  BY <1>2, <1>3, <1>4
<1>6. new.size = size
  OBVIOUS
<1>7. /\ \A i \in 1 .. Len(blocks) : blocks[i].ptr # NULL =>
           blocks[i].ptr % 8 = 0 /\ blocks[i].ptr <= HeapEnd /\ blocks[i].ptr + blocks[i].size <= addr
      /\ \A i, j \in 1 .. Len(blocks) : i < j /\ blocks[i].ptr # NULL /\ blocks[j].ptr # NULL =>
           blocks[i].ptr + blocks[i].size <= blocks[j].ptr
      /\ \A i \in 1 .. Len(blocks) : blocks[i].ptr \in Nat /\ blocks[i].size \in Nat
  <2>1. DOMAIN blocks = 1 .. Len(blocks) /\ subject = "malloc" /\ HeapInv
    BY <1>1, <1>5
  <2>2. \A i \in 1 .. Len(blocks) : blocks[i].ptr # NULL => Placed(blocks[i])
    BY <2>1 DEF HeapInv
  <2>3. \A i, j \in 1 .. Len(blocks) : i < j /\ blocks[i].ptr # NULL /\ blocks[j].ptr # NULL =>
           blocks[i].ptr + blocks[i].size <= blocks[j].ptr
    BY <2>1 DEF HeapInv
  <2>4. \A i \in 1 .. Len(blocks) : blocks[i] \in Block
    BY <1>3
  <2>5. QED BY <2>2, <2>3, <2>4 DEF Placed, Block
<1> DEFINE after == input'.blocks
<1> HIDE DEF addr, blocks, new, after
<1>8. ASSUME NEW i \in 1 .. Len(blocks) + 1, after[i].ptr # NULL
      PROVE  /\ after[i].ptr % 8 = 0 /\ after[i].ptr <= HeapEnd
             /\ after[i].ptr + after[i].size <= input'.addr
  <2>1. CASE i = Len(blocks) + 1
    BY <1>3, <1>4, <1>5, <1>6, <1>8, <2>1 DEF after
  <2>2. CASE i # Len(blocks) + 1
    <3>1. i \in 1 .. Len(blocks) /\ after[i] = blocks[i]
      BY <1>5, <2>2 DEF after
    <3>2. QED BY <1>3, <1>4, <1>7, <1>8, <3>1
  <2>3. QED BY <2>1, <2>2
<1>9. ASSUME NEW i \in 1 .. Len(blocks) + 1, NEW j \in 1 .. Len(blocks) + 1, i < j,
             after[i].ptr # NULL, after[j].ptr # NULL
      PROVE  after[i].ptr + after[i].size <= after[j].ptr
  <2>1. i \in 1 .. Len(blocks) /\ after[i] = blocks[i]
    BY <1>5, <1>9 DEF after
  <2>2. CASE j = Len(blocks) + 1
    BY <1>4, <1>5, <1>7, <1>9, <2>1, <2>2 DEF after
  <2>3. CASE j # Len(blocks) + 1
    <3>1. j \in 1 .. Len(blocks) /\ after[j] = blocks[j]
      BY <1>5, <2>3 DEF after
    <3>2. QED BY <1>7, <1>9, <2>1, <3>1
  <2>4. QED BY <2>2, <2>3
<1>10. HeapInv'
  BY <1>4, <1>5, <1>8, <1>9 DEF HeapInv, Placed, after
<1>11. QED BY <1>1, <1>10 DEF MemoryInv, AccessInv, StringInv

LEMMA MemoryInvariant == MemorySpec => []MemoryInv
<1>1. MemoryInv /\ [MemoryNext]_vars => MemoryInv'
  <2> SUFFICES ASSUME MemoryInv, [MemoryNext]_vars PROVE MemoryInv'
    OBVIOUS
  <2>1. CASE UNCHANGED vars
    BY <2>1 DEF vars, MemoryInv, AccessInv, HeapInv, Placed, StringInv
  <2>2. QED BY <2>1, StoreKeeps, AllocateKeeps DEF MemoryNext
<1>2. QED BY <1>1, MemoryInvInit, PTL DEF MemorySpec

(* For every size of a byte and of memory, and whatever words were stored, *)
(* a load of any width and alignment reads the bytes last stored           *)
(* (datapath.v and memory.cpp), and the bytes behind pmem stay.            *)
THEOREM MemoryLoadsReadStores == MemorySpec => []LoadsReadWhatStoresWrote
<1>1. MemoryInv => LoadsReadWhatStoresWrote
  BY LoadIsRight DEF MemoryInv, AccessInv, LoadsReadWhatStoresWrote
<1>2. QED BY <1>1, MemoryInvariant, PTL

(* For every heap and every sequence of requests that wraps no pointer,    *)
(* malloc's blocks are aligned and never overlap, and only the last can    *)
(* reach beyond the end of the heap (stdlib.c).                            *)
THEOREM HeapBlocksApart == MemorySpec => []BlocksApart
<1>1. MemoryInv => BlocksApart
  <2> SUFFICES ASSUME HeapInv, subject = "malloc",
                      NEW i \in DOMAIN input.blocks, NEW j \in DOMAIN input.blocks, i < j,
                      input.blocks[i].ptr # NULL, input.blocks[j].ptr # NULL
               PROVE  /\ input.blocks[i].ptr + input.blocks[i].size <= input.blocks[j].ptr
                      /\ input.blocks[i].ptr % 8 = 0 /\ input.blocks[j].ptr % 8 = 0
                      /\ input.blocks[i].ptr + input.blocks[i].size <= HeapEnd
    BY DEF MemoryInv, BlocksApart
  <2>1. /\ input.blocks[i].ptr + input.blocks[i].size <= input.blocks[j].ptr
        /\ input.blocks[i].ptr % 8 = 0 /\ input.blocks[j].ptr % 8 = 0
        /\ input.blocks[j].ptr <= HeapEnd
    BY DEF HeapInv, Placed
  <2>2. input.blocks[i] \in Block /\ input.blocks[j] \in Block /\ HeapEnd \in Int
    BY HeapAssumption DEF HeapInv
  <2>3. QED BY <2>1, <2>2 DEF Block
<1>2. QED BY <1>1, MemoryInvariant, PTL

LEMMA StringsRight == StringInv => StringsAreRight /\ MovesOldContents
<1> SUFFICES ASSUME StringInv, subject = "string"
             PROVE  StringsAreRight /\ MovesOldContents
  BY DEF StringsAreRight, MovesOldContents
<1> DEFINE mem == input.mem
<1>1. mem \in Memories /\ Ended(mem)
  BY DEF StringInv
<1> HIDE DEF mem
<1>2. \A d, s \in Place : CopiesAreRight(mem, d, s) /\ ComparisonsAreRight(mem, d, s)
  BY <1>1, CopiesRight, ComparisonsRight
<1>3. ASSUME NEW d \in Place, NEW s \in Place, NEW n \in 0 .. MemSize,
             d + n <= MemSize + 1, s + n <= MemSize + 1
      PROVE  LET Moved(after) == Cell(after, d, n) = Cell(mem, s, n) /\ UnchangedBut(mem, after, d, n)
                 after == memmove(mem, d, s, n)
             IN  /\ after = Loops \/ Moved(after)
                 /\ d < s => after # Loops
                 /\ Apart(d, n, s, n) => Moved(memcpy(mem, d, s, n))
  <2>1. n \in Nat
    BY CharAssumption
  <2>2. d < s \/ Apart(d, n, s, n) =>
          LET after == CopyUp(mem, d, s, n)
          IN  /\ Cell(after, d, n) = Cell(mem, s, n)
              /\ UnchangedBut(mem, after, d, n)
              /\ after # Loops
    BY <1>1, <1>3, <2>1, CopyMoves
  <2>3. QED BY <2>2 DEF memmove, memcpy
<1>4. QED BY <1>2, <1>3 DEF StringsAreRight, MovesOldContents, mem

(* For every memory and all characters, string.c copies the source's text  *)
(* and nothing else, compares texts as sequences of unsigned characters,   *)
(* and neither overruns nor ignores a bound.                               *)
THEOREM StringFunctionsAreRight == MemorySpec => []StringsAreRight
<1>1. MemoryInv => StringsAreRight
  BY StringsRight DEF MemoryInv
<1>2. QED BY <1>1, MemoryInvariant, PTL

(* For every memory and all regions, memcpy moves the contents of one to   *)
(* another apart from it, and memmove, when it returns, the old contents.  *)
THEOREM MovesAreRight == MemorySpec => []MovesOldContents
<1>1. MemoryInv => MovesOldContents
  BY StringsRight DEF MemoryInv
<1>2. QED BY <1>1, MemoryInvariant, PTL
=============================================================================
