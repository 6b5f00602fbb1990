------------------------------- MODULE AluProofs -------------------------------
(***************************************************************************)
(* Lemmas about machine words and about the ALU (Words, Alu, Decode), for  *)
(* every word length: a word is its bits, and what the decoded operation   *)
(* computes with its adder, its flags and its shifter is what the          *)
(* instruction set defines (Arith).                                        *)
(***************************************************************************)
EXTENDS Decode, Arith, WellFoundedInduction, TLAPS

(* Every non-empty set of natural numbers has a least element: the form in *)
(* which induction is used below.                                          *)
LEMMA Least ==
  ASSUME NEW T \in SUBSET Nat, T # {}
  PROVE  \E n \in T : \A m \in T : n <= m
<1>1. IsWellFoundedOn(OpToRel(<, Nat), Nat)
  BY NatLessThanWellFounded
<1>2. PICK n \in T : \A m \in T : ~(<<m, n>> \in OpToRel(<, Nat))
  BY <1>1, WFMin
<1>3. \A m \in T : ~(m < n)
  BY <1>2 DEF OpToRel
<1>4. QED BY <1>3

-----------------------------------------------------------------------------
(* Division with remainder.                                                *)
LEMMA Division ==
  ASSUME NEW p \in Nat \ {0}, NEW x \in Int
  PROVE  /\ x \div p \in Int /\ x % p \in 0 .. p - 1
         /\ x = p * (x \div p) + (x % p)
         /\ x >= 0 => x \div p >= 0
OBVIOUS

LEMMA DivisionUnique ==
  ASSUME NEW p \in Nat \ {0}, NEW q \in Int, NEW r \in 0 .. p - 1
  PROVE  (p * q + r) \div p = q /\ (p * q + r) % p = r
OBVIOUS

LEMMA ModMultiple ==
  ASSUME NEW p \in Nat \ {0}, NEW x \in Int, NEW k \in Int
  PROVE  (x + p * k) % p = x % p
<1>1. x = p * (x \div p) + (x % p) /\ x % p \in 0 .. p - 1 /\ x \div p \in Int
  BY Division
<1> DEFINE q == x \div p
           r == x % p
<1>2. q \in Int /\ r \in 0 .. p - 1 /\ x = p * q + r
  BY <1>1
<1> HIDE DEF q, r
<1>3. x + p * k = p * (q + k) + r
  BY <1>2
<1>4. (p * (q + k) + r) % p = r
  BY <1>2, DivisionUnique
<1>5. QED BY <1>3, <1>4 DEF r

(* The range of a word.                                                    *)
LEMMA PowerPositive == \A k \in 0 .. XLEN : 2^k \in Nat \ {0}
BY PowerAssumption

LEMMA PowerSplit ==
  ASSUME NEW k \in 0 .. XLEN, NEW j \in 0 .. k
  PROVE  2^k = 2^j * 2^(k - j)
BY PowerAssumption

LEMMA PowerDouble ==
  ASSUME NEW k \in 0 .. XLEN - 1
  PROVE  2^(k + 1) = 2 * 2^k
<1>1. 2^(k + 1) = 2^k * 2^((k + 1) - k)
  <2>1. k + 1 \in 0 .. XLEN /\ k \in 0 .. (k + 1)
    BY XLENAssumption
  <2>2. QED BY <2>1, PowerSplit
<1>2. (k + 1) - k = 1 /\ 2^1 = 2
  BY XLENAssumption
<1>3. QED BY <1>1, <1>2, PowerPositive, XLENAssumption

LEMMA WordRange == 2^XLEN \in Nat \ {0} /\ Word \subseteq Nat
BY PowerPositive, XLENAssumption DEF Word

LEMMA WrapInWord == \A x \in Int : Wrap(x) \in Word
BY WordRange, Division DEF Wrap, Word

LEMMA WrapWord == \A x \in Word : Wrap(x) = x
BY WordRange DEF Wrap, Word

-----------------------------------------------------------------------------
(* The bits of a number.                                                   *)
LEMMA BitRange ==
  ASSUME NEW x \in Int, NEW k \in 0 .. XLEN
  PROVE  Bit(x, k) \in {0, 1}
<1>1. 2^k \in Nat \ {0}
  BY PowerPositive
<1>2. x \div 2^k \in Int
  BY <1>1, Division
<1>3. QED BY <1>2 DEF Bit

LEMMA BitOf ==
  ASSUME NEW k \in 0 .. XLEN, NEW q \in Int, NEW r \in 0 .. 2^k - 1
  PROVE  Bit(2^k * q + r, k) = q % 2
<1>1. 2^k \in Nat \ {0}
  BY PowerPositive
<1>2. (2^k * q + r) \div 2^k = q
  BY <1>1, DivisionUnique
<1>3. QED BY <1>2 DEF Bit

LEMMA HalfSplit ==
  ASSUME NEW p \in Nat \ {0}, NEW q \in Int, NEW r \in 0 .. p - 1
  PROVE  (p * q + r) % (2 * p) = r + p * (q % 2)
<1> DEFINE h == q \div 2
           b == q % 2
<1>1. h \in Int /\ b \in {0, 1} /\ q = 2 * h + b
  OBVIOUS
<1> HIDE DEF h, b
<1>2. p * q + r = (2 * p) * h + (r + p * b)
  <2>1. p * q = p * (2 * h) + p * b
    BY <1>1
  <2>2. p * (2 * h) = (2 * p) * h
    BY <1>1
  <2>3. p * b \in Int /\ (2 * p) * h \in Int /\ p * (2 * h) \in Int /\ p * q \in Int
    BY <1>1
  <2>4. QED BY <2>1, <2>2, <2>3
<1>3. r + p * b \in 0 .. (2 * p) - 1
  <2>1. CASE b = 0
    BY <2>1
  <2>2. CASE b = 1
    BY <2>2
  <2>3. QED BY <1>1, <2>1, <2>2
<1>4. 2 * p \in Nat \ {0}
  OBVIOUS
<1>5. ((2 * p) * h + (r + p * b)) % (2 * p) = r + p * b
  BY <1>1, <1>3, <1>4, DivisionUnique
<1>6. QED BY <1>2, <1>5 DEF b

LEMMA BitStep ==
  ASSUME NEW x \in Int, NEW k \in 0 .. XLEN - 1
  PROVE  x % 2^(k + 1) = (x % 2^k) + 2^k * Bit(x, k)
<1>1. 2^k \in Nat \ {0}
  BY PowerPositive, XLENAssumption
<1>2. x = 2^k * (x \div 2^k) + (x % 2^k) /\ x % 2^k \in 0 .. 2^k - 1 /\ x \div 2^k \in Int
  BY <1>1, Division
<1>3. x % (2 * 2^k) = (x % 2^k) + 2^k * ((x \div 2^k) % 2)
  BY <1>1, <1>2, HalfSplit
<1>4. QED BY <1>3, PowerDouble DEF Bit

(* A word is determined by its bits.                                       *)
LEMMA SameBits ==
  ASSUME NEW x \in Word, NEW y \in Word, \A k \in 0 .. XLEN - 1 : Bit(x, k) = Bit(y, k)
  PROVE  x = y
<1> DEFINE T == {k \in 0 .. XLEN : x % 2^k # y % 2^k}
<1>0. x \in Int /\ y \in Int /\ T \in SUBSET Nat
  BY WordRange, XLENAssumption
<1>1. T = {}
  <2> SUFFICES ASSUME T # {} PROVE FALSE
    OBVIOUS
  <2>1. PICK n \in T : \A m \in T : n <= m
    BY <1>0, Least
  <2>2. n # 0
    <3>1. 2^0 = 1 /\ x % 1 = 0 /\ y % 1 = 0
      BY <1>0
    <3>2. 0 \notin T
      BY <3>1
    <3>3. QED BY <2>1, <3>2
  <2>3. n - 1 \in 0 .. XLEN - 1 /\ n - 1 \notin T /\ (n - 1) + 1 = n
    BY <2>1, <2>2, XLENAssumption
  <2>4. x % 2^(n - 1) = y % 2^(n - 1)
    BY <2>3, XLENAssumption
  <2>5. x % 2^n = y % 2^n
    <3>1. x % 2^((n - 1) + 1) = (x % 2^(n - 1)) + 2^(n - 1) * Bit(x, n - 1)
      BY <1>0, <2>3, BitStep
    <3>2. y % 2^((n - 1) + 1) = (y % 2^(n - 1)) + 2^(n - 1) * Bit(y, n - 1)
      BY <1>0, <2>3, BitStep
    <3>3. Bit(x, n - 1) = Bit(y, n - 1)
      BY <2>3
    <3>4. QED BY <2>3, <2>4, <3>1, <3>2, <3>3
  <2>6. QED BY <2>1, <2>5
<1>2. x % 2^XLEN = y % 2^XLEN
  <2>1. XLEN \in 0 .. XLEN
    BY XLENAssumption
  <2>2. QED BY <1>1, <2>1
<1>3. QED BY <1>2, WrapWord DEF Wrap

(* Adding a multiple of 2^k leaves the bits below k alone.                 *)
LEMMA LowBits ==
  ASSUME NEW k \in 0 .. XLEN, NEW j \in 0 .. k, j < k, NEW x \in Int, NEW m \in Int
  PROVE  Bit(x + 2^k * m, j) = Bit(x, j)
<1> DEFINE q == x \div 2^j
           r == x % 2^j
           h == 2^(k - j - 1)
<1>1. 2^j \in Nat \ {0} /\ 2^k \in Nat \ {0} /\ h \in Nat \ {0} /\ k - j - 1 \in 0 .. XLEN - 1
  BY PowerPositive, XLENAssumption
<1>2. 2^k = 2^j * (2 * h)
  <2>1. 2^k = 2^j * 2^(k - j)
    BY PowerSplit
  <2>2. 2^((k - j - 1) + 1) = 2 * 2^(k - j - 1)
    BY <1>1, PowerDouble
  <2>3. (k - j - 1) + 1 = k - j
    BY XLENAssumption
  <2>4. QED BY <2>1, <2>2, <2>3
<1>3. q \in Int /\ r \in 0 .. 2^j - 1 /\ x = 2^j * q + r
  BY <1>1, Division
<1>4. Bit(x, j) = q % 2
  BY DEF Bit
<1> DEFINE a == 2^j
<1> HIDE DEF q, r, h
<1>5. x + 2^k * m = a * (q + 2 * (h * m)) + r
  <2>1. (a * (2 * h)) * m = a * (2 * (h * m))
    BY <1>1
  <2>2. a * (q + 2 * (h * m)) = a * q + a * (2 * (h * m))
    BY <1>1, <1>3
  <2>3. a * q \in Int /\ a * (2 * (h * m)) \in Int
    BY <1>1, <1>3
  <2>4. QED BY <1>2, <1>3, <2>1, <2>2, <2>3
<1>6. h * m \in Int /\ q + 2 * (h * m) \in Int
  BY <1>1, <1>3
<1>7. Bit(a * (q + 2 * (h * m)) + r, j) = (q + 2 * (h * m)) % 2
  <2> DEFINE c == q + 2 * (h * m)
  <2>1. c \in Int
    BY <1>6
  <2> HIDE DEF c
  <2>2. j \in 0 .. XLEN
    BY XLENAssumption
  <2>3. Bit(a * c + r, j) = c % 2
    BY <1>3, <2>1, <2>2, BitOf, Zenon
  <2>4. QED BY <2>3 DEF c
<1>8. (q + 2 * (h * m)) % 2 = q % 2
  BY <1>3, <1>6
<1>9. QED BY <1>4, <1>5, <1>7, <1>8

(* Any choice of bits is those of a word.                                  *)
LEMMA WordExists ==
  ASSUME NEW bits \in [0 .. XLEN - 1 -> {0, 1}]
  PROVE  \E x \in Word : \A k \in 0 .. XLEN - 1 : Bit(x, k) = bits[k]
<1> DEFINE Fits(x, n) == x \in 0 .. 2^n - 1 /\ \A k \in 0 .. n - 1 : Bit(x, k) = bits[k]
           T == {n \in 0 .. XLEN : ~\E x \in Nat : Fits(x, n)}
<1>1. T \in SUBSET Nat
  BY XLENAssumption
<1>2. T = {}
  <2> SUFFICES ASSUME T # {} PROVE FALSE
    OBVIOUS
  <2>1. PICK n \in T : \A m \in T : n <= m
    BY <1>1, Least
  <2>2. n # 0
    <3>1. Fits(0, 0)
      BY DEF Fits
    <3>2. QED BY <2>1, <3>1
  <2>3. n - 1 \in 0 .. XLEN - 1 /\ n - 1 \notin T /\ (n - 1) + 1 = n
    <3>1. n \in 0 .. XLEN /\ n - 1 \in 0 .. XLEN - 1 /\ (n - 1) + 1 = n /\ ~(n <= n - 1)
      BY <2>2, XLENAssumption
    <3>2. QED BY <2>1, <3>1
  <2>4. PICK x \in Nat : Fits(x, n - 1)
    BY <2>3, XLENAssumption
  <2> DEFINE b == bits[n - 1]
             y == x + 2^(n - 1) * b
             p == 2^(n - 1)
  <2>5. b \in {0, 1} /\ p \in Nat \ {0} /\ x \in 0 .. p - 1 /\ 2^n = 2 * p
    BY <2>3, <2>4, PowerPositive, PowerDouble, XLENAssumption
  <2>6. y \in 0 .. 2^n - 1 /\ y \in Nat
    <3>1. CASE b = 0
      BY <2>5, <3>1
    <3>2. CASE b = 1
      BY <2>5, <3>2
    <3>3. QED BY <2>5, <3>1, <3>2
  <2>7. ASSUME NEW k \in 0 .. n - 1 PROVE Bit(y, k) = bits[k]
    <3>1. CASE k = n - 1
      <4>1. n - 1 \in 0 .. XLEN /\ b \in Int /\ x \in 0 .. 2^(n - 1) - 1
        BY <2>3, <2>5, XLENAssumption
      <4> HIDE DEF b
      <4>3. Bit(2^(n - 1) * b + x, n - 1) = b % 2
        BY <4>1, BitOf
      <4>2. 2^(n - 1) * b + x = y
        BY <2>5
      <4>4. QED BY <2>5, <3>1, <4>2, <4>3 DEF b
    <3>2. CASE k # n - 1
      <4>1. /\ n - 1 \in 0 .. XLEN /\ k \in 0 .. (n - 1) /\ k < n - 1
            /\ x \in Int /\ b \in Int
        BY <2>3, <2>5, <3>2, XLENAssumption
      <4> HIDE DEF b
      <4>2. Bit(x + 2^(n - 1) * b, k) = Bit(x, k)
        BY <4>1, LowBits
      <4>3. k \in 0 .. (n - 1) - 1
        BY <4>1
      <4>4. QED BY <2>4, <4>2, <4>3
    <3>3. QED BY <3>1, <3>2
  <2>8. Fits(y, n)
    BY <2>6, <2>7
  <2>9. QED BY <2>1, <2>6, <2>8
<1>3. PICK x \in Nat : Fits(x, XLEN)
  <2>1. XLEN \in 0 .. XLEN
    BY XLENAssumption
  <2>2. QED BY <1>2, <2>1
<1>4. QED BY <1>3 DEF Word

LEMMA WordOfBits ==
  ASSUME NEW bits \in [0 .. XLEN - 1 -> {0, 1}]
  PROVE  /\ WordOf(bits) \in Word
         /\ \A k \in 0 .. XLEN - 1 : Bit(WordOf(bits), k) = bits[k]
BY WordExists DEF WordOf

-----------------------------------------------------------------------------
(* The bits of the logical operations.                                     *)
LEMMA NotBits ==
  ASSUME NEW a \in Word
  PROVE  /\ Not(a) \in Word
         /\ \A k \in 0 .. XLEN - 1 : Bit(Not(a), k) = 1 - Bit(a, k)
<1>1. Not(a) \in Word /\ a \in Int
  BY WordRange DEF Not, Word
<1>2. ASSUME NEW k \in 0 .. XLEN - 1 PROVE Bit(Not(a), k) = 1 - Bit(a, k)
  <2> DEFINE p == 2^k
             h == 2^(XLEN - k - 1)
             q == a \div p
             r == a % p
  <2>1. /\ k \in 0 .. XLEN /\ XLEN - k - 1 \in 0 .. XLEN - 1
        /\ p \in Nat \ {0} /\ h \in Nat \ {0}
    BY PowerPositive, XLENAssumption
  <2>2. 2^XLEN = p * (2 * h)
    <3>1. 2^XLEN = 2^k * 2^(XLEN - k)
      BY <2>1, PowerSplit, XLENAssumption
    <3>2. 2^((XLEN - k - 1) + 1) = 2 * 2^(XLEN - k - 1)
      BY <2>1, PowerDouble
    <3>3. (XLEN - k - 1) + 1 = XLEN - k
      BY XLENAssumption
    <3>4. QED BY <3>1, <3>2, <3>3
  <2>3. q \in Int /\ r \in 0 .. p - 1 /\ a = p * q + r
    BY <1>1, <2>1, Division
  <2>4. Bit(a, k) = q % 2
    BY DEF Bit
  <2> HIDE DEF q, r, h
  <2>5. Not(a) = p * (2 * h - 1 - q) + (p - 1 - r)
    <3>1. p * (2 * h - 1 - q) = p * (2 * h) - p - p * q
      BY <2>1, <2>3
    <3>2. p * (2 * h) \in Int /\ p * q \in Int
      BY <2>1, <2>3
    <3>3. QED BY <2>1, <2>2, <2>3, <3>1, <3>2 DEF Not
  <2>6. 2 * h - 1 - q \in Int /\ p - 1 - r \in 0 .. p - 1
    BY <2>1, <2>3
  <2>7. Bit(p * (2 * h - 1 - q) + (p - 1 - r), k) = (2 * h - 1 - q) % 2
    BY <2>1, <2>6, BitOf
  <2>8. (2 * h - 1 - q) % 2 = 1 - (q % 2)
    BY <2>1, <2>3
  <2>9. QED BY <2>4, <2>5, <2>7, <2>8
<1>3. QED BY <1>1, <1>2

LEMMA AndBits ==
  ASSUME NEW a \in Word, NEW b \in Word
  PROVE  /\ And(a, b) \in Word
         /\ \A k \in 0 .. XLEN - 1 : Bit(And(a, b), k) = Bit(a, k) * Bit(b, k)
<1> DEFINE bits == [k \in 0 .. XLEN - 1 |-> Bit(a, k) * Bit(b, k)]
<1>1. ASSUME NEW k \in 0 .. XLEN - 1 PROVE Bit(a, k) * Bit(b, k) \in {0, 1}
  <2>1. Bit(a, k) \in {0, 1} /\ Bit(b, k) \in {0, 1}
    BY BitRange, WordRange, XLENAssumption
  <2>2. QED BY <2>1
<1>2. bits \in [0 .. XLEN - 1 -> {0, 1}]
  BY <1>1
<1>3. And(a, b) = WordOf(bits)
  BY DEF And
<1>4. WordOf(bits) \in Word /\ \A k \in 0 .. XLEN - 1 : Bit(WordOf(bits), k) = bits[k]
  <2> HIDE DEF bits
  <2>1. QED BY <1>2, WordOfBits
<1>5. QED BY <1>3, <1>4

LEMMA XorBits ==
  ASSUME NEW a \in Word, NEW b \in Word
  PROVE  Xor(a, b) \in Word
<1> DEFINE bits == [k \in 0 .. XLEN - 1 |-> (Bit(a, k) + Bit(b, k)) % 2]
<1>1. ASSUME NEW k \in 0 .. XLEN - 1 PROVE (Bit(a, k) + Bit(b, k)) % 2 \in {0, 1}
  <2>1. Bit(a, k) \in {0, 1} /\ Bit(b, k) \in {0, 1}
    BY BitRange, WordRange, XLENAssumption
  <2>2. QED BY <2>1
<1>2. bits \in [0 .. XLEN - 1 -> {0, 1}]
  BY <1>1
<1>3. WordOf(bits) \in Word
  <2> HIDE DEF bits
  <2>1. QED BY <1>2, WordOfBits
<1>4. QED BY <1>3 DEF Xor

LEMMA OrBits ==
  ASSUME NEW a \in Word, NEW b \in Word
  PROVE  /\ Or(a, b) \in Word
         /\ \A k \in 0 .. XLEN - 1 :
              Bit(Or(a, b), k) = 1 - (1 - Bit(a, k)) * (1 - Bit(b, k))
<1>1. Not(a) \in Word /\ Not(b) \in Word
  BY NotBits
<1>2. And(Not(a), Not(b)) \in Word
  BY <1>1, AndBits
<1>3. Or(a, b) \in Word
  BY <1>2, NotBits DEF Or
<1>4. ASSUME NEW k \in 0 .. XLEN - 1
      PROVE  Bit(Or(a, b), k) = 1 - (1 - Bit(a, k)) * (1 - Bit(b, k))
  <2>1. Bit(Or(a, b), k) = 1 - Bit(And(Not(a), Not(b)), k)
    BY <1>2, NotBits DEF Or
  <2>2. Bit(And(Not(a), Not(b)), k) = Bit(Not(a), k) * Bit(Not(b), k)
    BY <1>1, AndBits
  <2>3. Bit(Not(a), k) = 1 - Bit(a, k) /\ Bit(Not(b), k) = 1 - Bit(b, k)
    BY NotBits
  <2>4. QED BY <2>1, <2>2, <2>3
<1>5. QED BY <1>3, <1>4

-----------------------------------------------------------------------------
(* The arithmetic shift, which the shifter composes of a fill of ones and  *)
(* a logical shift.                                                        *)
LEMMA PowerHalf ==
  ASSUME NEW k \in 0 .. XLEN - 1
  PROVE  \E h \in Nat \ {0} : 2^XLEN = 2^k * (2 * h)
<1> DEFINE h == 2^(XLEN - k - 1)
<1>1. /\ k \in 0 .. XLEN /\ XLEN \in 0 .. XLEN /\ k \in 0 .. XLEN
      /\ XLEN - k - 1 \in 0 .. XLEN - 1 /\ XLEN - k - 1 \in 0 .. XLEN
      /\ (XLEN - k - 1) + 1 = XLEN - k
  BY XLENAssumption
<1>2. h \in Nat \ {0}
  BY <1>1, PowerPositive
<1>3. 2^XLEN = 2^k * 2^(XLEN - k)
  BY <1>1, PowerSplit
<1>4. 2^((XLEN - k - 1) + 1) = 2 * h
  BY <1>1, PowerDouble
<1>5. QED BY <1>1, <1>2, <1>3, <1>4

LEMMA FilledBits ==
  ASSUME NEW t \in 1 .. XLEN, NEW z \in 0 .. 2^t - 1, NEW k \in 0 .. XLEN - 1
  PROVE  /\ 2^XLEN - 2^t + z \in Word
         /\ k < t => Bit(2^XLEN - 2^t + z, k) = Bit(z, k)
         /\ k >= t => Bit(2^XLEN - 2^t + z, k) = 1
<1> DEFINE P == 2^XLEN
           T == 2^t
           S == 2^(XLEN - t)
<1>0. /\ t \in 0 .. XLEN /\ XLEN - t \in 0 .. XLEN /\ k \in 0 .. XLEN /\ XLEN \in 0 .. XLEN
      /\ t \in Int /\ k \in Int
  BY XLENAssumption
<1>1. P \in Nat \ {0} /\ T \in Nat \ {0} /\ S \in Nat \ {0} /\ 2^k \in Nat \ {0}
  BY <1>0, PowerPositive
<1>2. P = T * S
  BY <1>0, PowerSplit
<1>3. T <= P /\ z \in Int /\ S - 1 \in Int
  BY <1>1, <1>2
<1>4. P - T + z \in Word
  BY <1>1, <1>3 DEF Word
<1>5. ASSUME k < t PROVE Bit(P - T + z, k) = Bit(z, k)
  <2>1. k \in 0 .. t
    BY <1>0, <1>5
  <2>2. Bit(z + 2^t * (S - 1), k) = Bit(z, k)
    <3> HIDE DEF S
    <3>1. QED BY <1>0, <1>3, <1>5, <2>1, LowBits, SMTT(30)
  <2>3. z + T * (S - 1) = P - T + z
    BY <1>1, <1>2, <1>3
  <2>4. QED BY <2>2, <2>3
<1>6. ASSUME k >= t PROVE Bit(P - T + z, k) = 1
  <2>1. PICK h \in Nat \ {0} : 2^XLEN = 2^k * (2 * h)
    BY PowerHalf
  <2> DEFINE p == 2^k
             r == p - (T - z)
  <2>2. t \in 0 .. k /\ k - t \in 0 .. XLEN
    BY <1>0, <1>6
  <2>3. p = T * 2^(k - t) /\ 2^(k - t) \in Nat \ {0}
    BY <1>0, <2>2, PowerSplit, PowerPositive
  <2>4. T <= p
    BY <1>1, <2>3
  <2>5. r \in 0 .. p - 1
    BY <1>1, <2>4
  <2>6. P - T + z = p * (2 * h - 1) + r
    BY <1>1, <1>3, <2>1
  <2>7. Bit(p * (2 * h - 1) + r, k) = (2 * h - 1) % 2
    <3>1. 2 * h - 1 \in Int
      BY <2>1
    <3> HIDE DEF r
    <3>2. QED BY <1>0, <2>5, <3>1, BitOf
  <2>8. (2 * h - 1) % 2 = 1
    BY <2>1
  <2>9. QED BY <2>6, <2>7, <2>8
<1>7. QED BY <1>4, <1>5, <1>6

LEMMA ZeroBits == \A k \in 0 .. XLEN - 1 : Bit(0, k) = 0
<1> SUFFICES ASSUME NEW k \in 0 .. XLEN - 1 PROVE Bit(0, k) = 0
  OBVIOUS
<1>1. k \in 0 .. XLEN /\ 2^k \in Nat \ {0}
  BY PowerPositive, XLENAssumption
<1> DEFINE q == 0
<1>2. q \in Int /\ q \in 0 .. 2^k - 1 /\ 2^k * q + q = 0 /\ q % 2 = 0
  BY <1>1
<1> HIDE DEF q
<1>3. Bit(2^k * q + q, k) = q % 2
  BY <1>1, <1>2, BitOf
<1>4. QED BY <1>2, <1>3

LEMMA OrZero ==
  ASSUME NEW b \in Word
  PROVE  Or(0, b) = b
<1>1. 0 \in Word
  BY WordRange DEF Word
<1>2. ASSUME NEW k \in 0 .. XLEN - 1 PROVE Bit(Or(0, b), k) = Bit(b, k)
  <2>1. Bit(Or(0, b), k) = 1 - (1 - Bit(0, k)) * (1 - Bit(b, k))
    BY <1>1, OrBits
  <2>2. Bit(b, k) \in {0, 1} /\ Bit(0, k) = 0
    BY BitRange, ZeroBits, WordRange, XLENAssumption
  <2>3. QED BY <2>1, <2>2
<1>3. QED BY <1>1, <1>2, OrBits, SameBits

LEMMA OrFill ==
  ASSUME NEW t \in 1 .. XLEN, NEW z \in 0 .. 2^t - 1
  PROVE  Or(2^XLEN - 2^t, z) = 2^XLEN - 2^t + z
<1> DEFINE A == 2^XLEN - 2^t
           Y == 2^XLEN - 2^t + z
<1>0. /\ t \in 0 .. XLEN /\ XLEN - t \in 0 .. XLEN
      /\ 2^t \in Nat \ {0} /\ 2^(XLEN - t) \in Nat \ {0} /\ 2^XLEN = 2^t * 2^(XLEN - t)
  <2>1. t \in 0 .. XLEN /\ XLEN - t \in 0 .. XLEN /\ XLEN \in 0 .. XLEN
    BY XLENAssumption
  <2>2. QED BY <2>1, PowerPositive, PowerSplit
<1>1. 2^t <= 2^XLEN /\ 0 \in 0 .. 2^t - 1 /\ 2^XLEN - 2^t + 0 = A
  BY <1>0, WordRange
<1>2. A \in Word /\ Y \in Word /\ z \in Word
  BY <1>0, <1>1, WordRange DEF Word
<1>3. ASSUME NEW k \in 0 .. XLEN - 1 PROVE Bit(Or(A, z), k) = Bit(Y, k)
  <2>1. Bit(Or(A, z), k) = 1 - (1 - Bit(A, k)) * (1 - Bit(z, k))
    <3> HIDE DEF A
    <3>1. QED BY <1>2, OrBits
  <2>2. Bit(z, k) \in {0, 1}
    BY BitRange, <1>2, WordRange, XLENAssumption
  <2>3. CASE k < t
    <3>1. Bit(Y, k) = Bit(z, k)
      BY <2>3, FilledBits
    <3>2. Bit(2^XLEN - 2^t + 0, k) = Bit(0, k)
      BY <1>1, <2>3, FilledBits
    <3>3. Bit(A, k) = 0
      BY <1>1, <3>2, ZeroBits
    <3>4. QED BY <2>1, <2>2, <3>1, <3>3
  <2>4. CASE k >= t
    <3>1. Bit(Y, k) = 1
      BY <2>4, FilledBits
    <3>2. Bit(2^XLEN - 2^t + 0, k) = 1
      BY <1>1, <2>4, FilledBits
    <3>3. Bit(A, k) = 1
      BY <1>1, <3>2
    <3>4. QED BY <2>1, <2>2, <3>1, <3>3
  <2>5. QED BY <2>3, <2>4, XLENAssumption
<1>4. Or(A, z) \in Word
  <2> HIDE DEF A
  <2>1. QED BY <1>2, OrBits
<1>5. QED
  <2> HIDE DEF A, Y
  <2>1. Or(A, z) = Y
    BY <1>2, <1>3, <1>4, SameBits
  <2>2. QED BY <2>1 DEF A, Y

LEMMA MsbIs ==
  ASSUME NEW a \in Word
  PROVE  /\ Msb(a) \in {0, 1}
         /\ 2^XLEN = 2 * 2^(XLEN - 1) /\ 2^(XLEN - 1) \in Nat \ {0}
         /\ Msb(a) = 1 <=> a >= 2^(XLEN - 1)
<1> DEFINE H == 2^(XLEN - 1)
<1>1. XLEN - 1 \in 0 .. XLEN - 1 /\ XLEN - 1 \in 0 .. XLEN /\ (XLEN - 1) + 1 = XLEN
  BY XLENAssumption
<1>2. H \in Nat \ {0} /\ 2^XLEN = 2 * H
  BY <1>1, PowerPositive, PowerDouble
<1>3. a \in 0 .. 2 * H - 1
  BY <1>2 DEF Word
<1>4. CASE a < H
  <2> DEFINE q == 0
  <2>1. q \in Int /\ q % 2 = 0 /\ H * q + a = a /\ a \in 0 .. H - 1
    BY <1>2, <1>3, <1>4
  <2> HIDE DEF q
  <2>2. Bit(H * q + a, XLEN - 1) = q % 2
    BY <1>1, <2>1, BitOf
  <2>3. QED BY <1>2, <1>3, <1>4, <2>1, <2>2 DEF Msb
<1>5. CASE a >= H
  <2>1. Bit(H * 1 + (a - H), XLEN - 1) = 1 % 2
    BY <1>1, <1>2, <1>3, <1>5, BitOf
  <2>2. H * 1 + (a - H) = a
    BY <1>2, <1>3
  <2>3. QED BY <1>2, <1>3, <1>5, <2>1, <2>2 DEF Msb
<1>6. QED BY <1>2, <1>3, <1>4, <1>5

LEMMA ArithmeticShift ==
  ASSUME NEW a \in Word, NEW sh \in 0 .. XLEN - 1
  PROVE  Shifter(SRA, a, sh) = Wrap(Signed(a) \div 2^sh)
<1> DEFINE P == 2^XLEN
           t == XLEN - sh
           S == 2^sh
           T == 2^t
           B == a \div S
           r == a % S
<1>1. /\ sh \in 0 .. XLEN /\ t \in 1 .. XLEN /\ t \in 0 .. XLEN /\ XLEN \in 0 .. XLEN
      /\ sh \in 0 .. XLEN
  BY XLENAssumption
<1>2. P \in Nat \ {0} /\ S \in Nat \ {0} /\ T \in Nat \ {0} /\ P = S * T
  BY <1>1, PowerPositive, PowerSplit
<1>3. B \in Int /\ r \in 0 .. S - 1 /\ a = S * B + r /\ B >= 0 /\ a < P
  <2>1. a \in Int /\ a >= 0 /\ a < P
    BY <1>2 DEF Word
  <2>2. QED BY <1>2, <2>1, Division
<1>4. B \in 0 .. T - 1
  <2>1. B < T
    <3> SUFFICES ASSUME B >= T PROVE FALSE
      BY <1>2, <1>3
    <3> HIDE DEF B, r, S, T, P
    <3>1. S * B >= S * T
      BY <1>2, <1>3
    <3>2. QED BY <1>2, <1>3, <3>1
  <2>2. QED BY <1>2, <1>3, <2>1
<1>5. B \in Word /\ T <= P
  <2> HIDE DEF B, S, T, P
  <2>1. T <= S * T
    BY <1>2
  <2>2. QED BY <1>2, <1>4, <2>1 DEF Word, P
<1>6. Shifter(SRA, a, sh) = Or(Wrap(Msb(a) * (P - 1) * T), B)
  BY DEF Shifter, SRA
<1>7. CASE Msb(a) = 0
  <2>1. Wrap(Msb(a) * (P - 1) * T) = 0
    BY <1>2, <1>7 DEF Wrap
  <2>2. Or(0, B) = B
    BY <1>5, OrZero
  <2>3. Signed(a) = a
    BY <1>7 DEF Signed
  <2>4. Wrap(B) = B
    BY <1>5, WrapWord
  <2>5. QED BY <1>6, <2>1, <2>2, <2>3, <2>4
<1>8. CASE Msb(a) = 1
  <2>1. Wrap(Msb(a) * (P - 1) * T) = P - T
    <3>1. Msb(a) * (P - 1) * T = P * (T - 1) + (P - T)
      BY <1>2, <1>8
    <3>2. P - T \in 0 .. P - 1 /\ T - 1 \in Int
      BY <1>2, <1>5
    <3>3. (P * (T - 1) + (P - T)) % P = P - T
      <4> HIDE DEF P, T
      <4>1. QED BY <1>2, <3>2, DivisionUnique
    <3>4. QED BY <3>1, <3>3 DEF Wrap
  <2>2. Or(P - T, B) = P - T + B
    BY <1>1, <1>4, OrFill
  <2>3. Signed(a) \div S = B - T
    <3>1. Signed(a) = S * (B - T) + r
      BY <1>2, <1>3, <1>8 DEF Signed
    <3>2. B - T \in Int
      BY <1>2, <1>3
    <3>3. (S * (B - T) + r) \div S = B - T
      <4> HIDE DEF B, r, S, T
      <4>1. QED BY <1>2, <1>3, <3>2, DivisionUnique
    <3>4. QED BY <3>1, <3>3
  <2>4. Wrap(B - T) = P - T + B
    <3> HIDE DEF B, T
    <3> DEFINE q == 0 - 1
    <3>1. q \in Int /\ P * q + (P - T + B) = B - T /\ P - T + B \in 0 .. P - 1
      BY <1>2, <1>4, <1>5
    <3>2. (P * q + (P - T + B)) % P = P - T + B
      <4> HIDE DEF P, q
      <4>1. QED BY <1>2, <3>1, DivisionUnique
    <3>3. QED BY <3>1, <3>2 DEF Wrap
  <2>5. QED BY <1>6, <2>1, <2>2, <2>3, <2>4
<1>9. QED BY <1>7, <1>8, MsbIs

-----------------------------------------------------------------------------
(* The subtraction and the comparisons read from its flags.                *)
LEMMA Subtraction ==
  ASSUME NEW a \in Word, NEW b \in Word, NEW ctl, SUBctr(ctl)
  PROVE  /\ AddSub(ctl, a, b).result = IF a >= b THEN a - b ELSE a - b + 2^XLEN
         /\ AddSub(ctl, a, b).carry = IF a >= b THEN 1 ELSE 0
         /\ AddSub(ctl, a, b).result = Wrap(a - b)
         /\ AddSub(ctl, a, b).result \in Word
<1> DEFINE P == 2^XLEN
           s == a + Not(b) + 1
<1>1. P \in Nat \ {0} /\ a \in 0 .. P - 1 /\ b \in 0 .. P - 1
  BY WordRange DEF Word
<1>2. s = a - b + P
  BY <1>1 DEF Not
<1>3. /\ AddSub(ctl, a, b).result = s % P
      /\ AddSub(ctl, a, b).carry = s \div P
  BY DEF AddSub, Adder, Wrap
<1>4. s % P = (IF a >= b THEN a - b ELSE a - b + P) /\ s \div P = (IF a >= b THEN 1 ELSE 0)
  <2> HIDE DEF P, s
  <2>1. CASE a >= b
    BY <1>1, <1>2, <2>1
  <2>2. CASE a < b
    BY <1>1, <1>2, <2>2
  <2>3. QED BY <1>1, <2>1, <2>2
<1>5. (a - b) % P = IF a >= b THEN a - b ELSE a - b + P
  <2> HIDE DEF P
  <2>1. QED BY <1>1
<1>6. (IF a >= b THEN a - b ELSE a - b + P) \in 0 .. P - 1
  BY <1>1
<1>7. QED BY <1>3, <1>4, <1>5, <1>6 DEF Wrap, Word

LEMMA UnsignedLess ==
  ASSUME NEW a \in Word, NEW b \in Word
  PROVE  Less(SLTU, a, b) <=> a < b
<1>1. Bit(SLTU, 0) = 0 /\ Bit(SLTU, 1) = 1
  BY DEF Bit, SLTU
<1>2. SUBctr(SLTU) /\ ~SIGctr(SLTU)
  BY <1>1 DEF SUBctr, SIGctr
<1>3. AddSub(SLTU, a, b).carry = IF a >= b THEN 1 ELSE 0
  BY <1>2, Subtraction
<1>4. a \in Int /\ b \in Int
  BY WordRange
<1>5. Less(SLTU, a, b) <=> ~(AddSub(SLTU, a, b).carry = 1)
  BY <1>1, <1>2 DEF Less, SUBctr
<1>6. QED BY <1>3, <1>4, <1>5

LEMMA SignedLess ==
  ASSUME NEW a \in Word, NEW b \in Word
  PROVE  Less(SLT, a, b) <=> Signed(a) < Signed(b)
<1> DEFINE H == 2^(XLEN - 1)
           d == AddSub(SLT, a, b).result
<1>1. SUBctr(SLT) /\ SIGctr(SLT)
  <2>1. Bit(SLT, 0) = 1
    BY DEF Bit, SLT
  <2>2. QED BY <2>1 DEF SUBctr, SIGctr
<1>2. d \in Word /\ d = IF a >= b THEN a - b ELSE a - b + 2^XLEN
  BY <1>1, Subtraction
<1>3. Not(b) \in Word /\ Not(b) = 2^XLEN - 1 - b
  BY NotBits DEF Not
<1>4. H \in Nat \ {0} /\ 2^XLEN = 2 * H /\ a \in 0 .. 2 * H - 1 /\ b \in 0 .. 2 * H - 1
  BY MsbIs DEF Word
<1>5. /\ Msb(a) \in {0, 1} /\ (Msb(a) = 1 <=> a >= H)
      /\ Msb(b) \in {0, 1} /\ (Msb(b) = 1 <=> b >= H)
      /\ Msb(Not(b)) \in {0, 1} /\ (Msb(Not(b)) = 1 <=> b < H)
      /\ Msb(d) \in {0, 1} /\ (Msb(d) = 1 <=> d >= H)
  BY <1>2, <1>3, <1>4, MsbIs
<1>6. AddSub(SLT, a, b).overflow <=> Msb(a) = Msb(Not(b)) /\ Msb(d) # Msb(a)
  BY <1>1 DEF AddSub, Adder
<1>7. Less(SLT, a, b) <=> (AddSub(SLT, a, b).overflow # (Msb(d) = 1))
  BY <1>1 DEF Less
<1>8. AddSub(SLT, a, b).overflow \in BOOLEAN
  BY <1>1 DEF AddSub, Adder
<1>9. /\ Signed(a) = IF a >= H THEN a - 2 * H ELSE a
      /\ Signed(b) = IF b >= H THEN b - 2 * H ELSE b
  BY <1>4, <1>5 DEF Signed
<1> HIDE DEF H, d
<1>10. QED BY <1>2, <1>4, <1>5, <1>6, <1>7, <1>8, <1>9

LEMMA ZeroMeansEqual ==
  ASSUME NEW a \in Word, NEW b \in Word, NEW ctl \in {SLT, SLTU}
  PROVE  ALU_ZERO(ctl, a, b) <=> a = b
<1>1. SUBctr(ctl)
  BY DEF SUBctr, Bit, SLT, SLTU
<1>2. AddSub(ctl, a, b).result = IF a >= b THEN a - b ELSE a - b + 2^XLEN
  BY <1>1, Subtraction
<1>3. a \in 0 .. 2^XLEN - 1 /\ b \in 0 .. 2^XLEN - 1 /\ 2^XLEN \in Nat \ {0}
  BY WordRange DEF Word
<1>4. QED BY <1>2, <1>3 DEF ALU_ZERO

-----------------------------------------------------------------------------
(* What the decoded operation computes.                                    *)
LEMMA Addition ==
  ASSUME NEW a \in Word, NEW b \in Word
  PROVE  ALU_DC(ADD, a, b) = Wrap(a + b)
<1>1. Opctr(ADD) = 0 /\ ~SUBctr(ADD)
  BY DEF Opctr, SUBctr, Bit, ADD
<1>2. a + b + 0 = a + b
  BY WordRange
<1>3. AddSub(ADD, a, b).result = Wrap(a + b)
  BY <1>1, <1>2 DEF AddSub, Adder
<1>4. QED BY <1>1, <1>3 DEF ALU_DC

LEMMA Comparison ==
  ASSUME NEW a \in Word, NEW b \in Word
  PROVE  /\ ALU_DC(SLT, a, b) = IF Signed(a) < Signed(b) THEN 1 ELSE 0
         /\ ALU_DC(SLTU, a, b) = IF a < b THEN 1 ELSE 0
<1>1. Opctr(SLT) = 2 /\ Opctr(SLTU) = 2
  BY DEF Opctr, SLT, SLTU
<1>2. QED BY <1>1, SignedLess, UnsignedLess DEF ALU_DC

LEMMA LogicAndShifts ==
  ASSUME NEW a \in Word, NEW b \in Word
  PROVE  /\ ALU_DC(SUB, a, b) = Wrap(a - b)
         /\ ALU_DC(SLL, a, b) = Wrap(a * 2^(b % XLEN))
         /\ ALU_DC(SRL, a, b) = a \div 2^(b % XLEN)
         /\ ALU_DC(SRA, a, b) = Wrap(Signed(a) \div 2^(b % XLEN))
         /\ ALU_DC(AND, a, b) = And(a, b)
         /\ ALU_DC(OR, a, b) = Or(a, b)
         /\ ALU_DC(XOR, a, b) = Xor(a, b)
<1>1. ALU_DC(SUB, a, b) = Wrap(a - b)
  <2>1. Opctr(SUB) = 0 /\ SUBctr(SUB)
    BY DEF Opctr, SUBctr, Bit, SUB
  <2>2. QED BY <2>1, Subtraction DEF ALU_DC
<1>2. /\ ALU_DC(AND, a, b) = And(a, b)
      /\ ALU_DC(OR, a, b) = Or(a, b)
      /\ ALU_DC(XOR, a, b) = Xor(a, b)
  BY DEF ALU_DC, Opctr, Logic, AND, OR, XOR
<1>3. /\ ALU_DC(SLL, a, b) = Wrap(a * 2^(b % XLEN))
      /\ ALU_DC(SRL, a, b) = a \div 2^(b % XLEN)
  BY DEF ALU_DC, Opctr, Shifter, SLL, SRL
<1>4. ALU_DC(SRA, a, b) = Wrap(Signed(a) \div 2^(b % XLEN))
  <2>1. ALU_DC(SRA, a, b) = Shifter(SRA, a, b % XLEN)
    BY DEF ALU_DC, Opctr, SRA
  <2>2. b % XLEN \in 0 .. XLEN - 1
    BY WordRange, XLENAssumption
  <2>3. QED BY <2>1, <2>2, ArithmeticShift
<1>5. QED BY <1>1, <1>2, <1>3, <1>4

(* An arithmetic instruction of either format gives the result the         *)
(* instruction set defines; bit 30 of an immediate counts in a right shift *)
(* only (calcu_op of mulcu_decoder.v with ALU.v).                          *)
LEMMA DecodedArith ==
  ASSUME NEW i, i.opcode \in {"R_type", "I_type"}, i.funct3 \in 0 .. 7,
         NEW a \in Word, NEW b \in Word
  PROVE  ALU_DC(alu_op(i), a, b)
           = Arith(i.funct3, i.funct7 = 1 /\ (i.opcode = "R_type" \/ i.funct3 = 5), a, b)
<1> DEFINE alt == i.funct7 = 1 /\ (i.opcode = "R_type" \/ i.funct3 = 5)
<1>1. alu_op(i) = calcu_op(i)
  BY DEF alu_op
<1>2. CASE i.funct3 = 0
  <2>1. calcu_op(i) = (IF alt THEN SUB ELSE ADD) /\ Arith(0, alt, a, b) = Wrap(IF alt THEN a - b ELSE a + b)
    BY <1>2 DEF calcu_op, Arith
  <2>2. QED BY <1>1, <1>2, <2>1, LogicAndShifts, Addition
<1>3. CASE i.funct3 = 5
  <2>1. calcu_op(i) = (IF alt THEN SRA ELSE SRL)
        /\ Arith(5, alt, a, b) = (IF alt THEN Wrap(Signed(a) \div 2^(b % XLEN)) ELSE a \div 2^(b % XLEN))
    BY <1>3 DEF calcu_op, Arith
  <2>2. QED BY <1>1, <1>3, <2>1, LogicAndShifts
<1>4. CASE i.funct3 = 1
  BY <1>1, <1>4, LogicAndShifts DEF calcu_op, Arith
<1>5. CASE i.funct3 \in {2, 3}
  BY <1>1, <1>5, Comparison DEF calcu_op, Arith
<1>6. CASE i.funct3 \in {4, 6, 7}
  BY <1>1, <1>6, LogicAndShifts DEF calcu_op, Arith
<1>7. QED BY <1>2, <1>3, <1>4, <1>5, <1>6

(* A branch is taken exactly when its comparison holds (branch_true of     *)
(* datapath.v).                                                            *)
LEMMA DecodedBranch ==
  ASSUME NEW i, i.opcode = "B_type", i.funct3 \in 0 .. 7,
         NEW a \in Word, NEW b \in Word
  PROVE  branch_true(i.funct3, ALU_ZERO(alu_op(i), a, b), Bit(ALU_DC(alu_op(i), a, b), 0) = 1)
           <=> Taken(i.funct3, a, b)
<1>1. a \in Int /\ b \in Int /\ Signed(a) \in Int /\ Signed(b) \in Int
  BY WordRange DEF Signed
<1>2. Bit(1, 0) = 1 /\ Bit(0, 0) = 0
  BY DEF Bit
<1>3. CASE i.funct3 \in {0, 1, 4, 5}
  <2>1. alu_op(i) = SLT
    BY <1>3 DEF alu_op, Bit
  <2>2. Bit(ALU_DC(SLT, a, b), 0) = 1 <=> Signed(a) < Signed(b)
    BY <1>2, Comparison
  <2>3. ALU_ZERO(SLT, a, b) <=> a = b
    BY ZeroMeansEqual
  <2>4. CASE i.funct3 = 0
    BY <2>1, <2>3, <2>4 DEF branch_true, Taken
  <2>5. CASE i.funct3 = 1
    BY <2>1, <2>3, <2>5 DEF branch_true, Taken
  <2>6. CASE i.funct3 \in {4, 5}
    BY <1>1, <2>1, <2>2, <2>6 DEF branch_true, Taken
  <2>7. QED BY <1>3, <2>4, <2>5, <2>6
<1>4. CASE i.funct3 \in {6, 7}
  <2>1. alu_op(i) = SLTU
    BY <1>4 DEF alu_op, Bit
  <2>2. Bit(ALU_DC(SLTU, a, b), 0) = 1 <=> a < b
    BY <1>2, Comparison
  <2>3. QED BY <1>1, <1>4, <2>1, <2>2 DEF branch_true, Taken
<1>5. CASE i.funct3 \in {2, 3}
  BY <1>5 DEF branch_true, Taken
<1>6. QED BY <1>3, <1>4, <1>5

(* Whatever the ALU computes is a word.                                    *)
LEMMA ArithInWord ==
  ASSUME NEW f \in 0 .. 7, NEW alt \in BOOLEAN, NEW a \in Word, NEW b \in Word
  PROVE  Arith(f, alt, a, b) \in Word
<1> DEFINE sh == b % XLEN
           S == 2^sh
<1>1. a \in Int /\ b \in Int /\ a \in Word /\ Signed(a) \in Int
  BY WordRange DEF Signed
<1>2. sh \in 0 .. XLEN /\ S \in Nat \ {0}
  <2>1. sh \in 0 .. XLEN
    BY <1>1, XLENAssumption
  <2>2. QED BY <2>1, PowerPositive
<1>3. {0, 1} \subseteq Word
  BY MsbIs DEF Word
<1>4. CASE f \in {0, 1}
  <2>1. a + b \in Int /\ a - b \in Int /\ a * S \in Int
    BY <1>1, <1>2
  <2>2. QED BY <1>4, <2>1, WrapInWord DEF Arith
<1>5. CASE f \in {2, 3}
  BY <1>3, <1>5 DEF Arith
<1>6. CASE f = 5
  <2>1. a \div S \in Word
    <3>1. a \div S \in Int /\ a \div S >= 0 /\ a = S * (a \div S) + (a % S) /\ a % S \in Int /\ a % S >= 0
      <4>1. a \in Int /\ a >= 0
        BY <1>1 DEF Word
      <4> HIDE DEF S
      <4>2. S \in Nat \ {0}
        BY <1>2
      <4>3. a \div S \in Int /\ a % S \in 0 .. S - 1
        BY <4>1, <4>2
      <4>4. a = S * (a \div S) + (a % S) /\ a \div S >= 0
        BY <4>1, <4>2
      <4>5. a % S \in Int /\ a % S >= 0
        BY <4>2, <4>3
      <4>6. QED BY <4>3, <4>4, <4>5
    <3>2. a \div S <= a
      <4> DEFINE q == a \div S
                 r == a % S
      <4>1. q \in Int /\ q >= 0 /\ r \in Int /\ r >= 0 /\ a = S * q + r
        BY <1>1, <1>2, <3>1
      <4> HIDE DEF q, r, S
      <4>2. S * q >= q
        BY <1>2, <4>1
      <4>3. S * q \in Int
        BY <1>2, <4>1
      <4>4. q <= a
        BY <4>1, <4>2, <4>3
      <4>5. QED BY <4>4 DEF q
    <3>3. QED BY <1>1, <3>1, <3>2, WordRange DEF Word
  <2>2. Signed(a) \div S \in Int
    BY <1>1, <1>2, Division
  <2>3. QED BY <1>6, <2>1, <2>2, WrapInWord DEF Arith
<1>7. CASE f \in {4, 6, 7}
  BY <1>7, AndBits, OrBits, XorBits DEF Arith
<1>8. QED BY <1>4, <1>5, <1>6, <1>7

LEMMA AluInWord ==
  ASSUME NEW i, i.funct3 \in 0 .. 7, NEW a \in Word, NEW b \in Word
  PROVE  ALU_DC(alu_op(i), a, b) \in Word
<1>1. CASE i.opcode \in {"R_type", "I_type"}
  <2> DEFINE alt == i.funct7 = 1 /\ (i.opcode = "R_type" \/ i.funct3 = 5)
  <2>1. ALU_DC(alu_op(i), a, b) = Arith(i.funct3, alt, a, b)
    BY <1>1, DecodedArith
  <2>2. alt \in BOOLEAN
    OBVIOUS
  <2> HIDE DEF alt
  <2>3. QED BY <2>1, <2>2, ArithInWord
<1>2. CASE i.opcode = "B_type"
  <2>1. {0, 1} \subseteq Word
    BY MsbIs DEF Word
  <2>2. alu_op(i) = SLT \/ alu_op(i) = SLTU
    BY <1>2 DEF alu_op
  <2>3. ALU_DC(SLT, a, b) \in Word /\ ALU_DC(SLTU, a, b) \in Word
    BY <2>1, Comparison
  <2>4. QED BY <2>2, <2>3
<1>3. CASE i.opcode \notin {"R_type", "I_type", "B_type"}
  <2>1. alu_op(i) = ADD /\ a + b \in Int
    BY <1>3, WordRange DEF alu_op
  <2>2. QED BY <2>1, Addition, WrapInWord
<1>4. QED BY <1>1, <1>2, <1>3
=============================================================================
