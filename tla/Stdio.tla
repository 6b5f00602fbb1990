-------------------------------- MODULE Stdio --------------------------------
(***************************************************************************)
(* vsnprintf of klib's stdio.c, from the parsed conversion specifications  *)
(* on.                                                                     *)
(***************************************************************************)
EXTENDS Integers, SequencesExt

-----------------------------------------------------------------------------
(* A conversion is a record: the flags as a set, width and precision (-1   *)
(* for none), length and specifier; its argument comes with it.  Text is a *)
(* sequence of characters, here one-letter strings.                        *)
CONSTANTS CHAR_BITS, SHORT_BITS, INT_BITS     \* 8, 16 and 32
ASSUME BitsAssumption == {CHAR_BITS, SHORT_BITS, INT_BITS} \subseteq Nat \ {0}

Repeat(c, len) == [i \in 1 .. len |-> c]
AtLeast0(x) == IF x > 0 THEN x ELSE 0

DigitsOf == <<"0", "1", "2", "3", "4", "5", "6", "7", "8", "9">>
RECURSIVE Digits(_, _)
Digits(num, base) ==
  (IF num < base THEN <<>> ELSE Digits(num \div base, base)) \o <<DigitsOf[(num % base) + 1]>>

(* x and X leave the base at 10.                                           *)
Base(specifier) == IF specifier = "o" THEN 8 ELSE 10

Sign(spec, is_negative) ==
  IF is_negative THEN <<"-">> ELSE IF "+" \in spec.flags THEN <<"+">>
  ELSE IF " " \in spec.flags THEN <<" ">> ELSE <<>>

(* Mutant: the sign is not counted.                                        *)
Padding_NoSign(spec, sign, body) == AtLeast0(spec.width - Len(body))
Padding(spec, sign, body) == AtLeast0(spec.width - Len(sign) - Len(body))

format_integer(spec, num, is_negative) ==
  LET digits == Digits(num, Base(spec.specifier))
      body == Repeat("0", AtLeast0(spec.precision - Len(digits))) \o digits
      sign == Sign(spec, is_negative)
      padding == Padding(spec, sign, body)
  IN  IF "-" \in spec.flags THEN sign \o body \o Repeat(" ", padding)
      ELSE IF "0" \in spec.flags THEN sign \o Repeat("0", padding) \o body
      ELSE Repeat(" ", padding) \o sign \o body

Bits(length) ==
  CASE length = "hh" -> CHAR_BITS [] length = "h" -> SHORT_BITS
    [] length = "ll" -> 2 * INT_BITS [] OTHER -> INT_BITS

(* The argument is the bits passed, as an unsigned number.                 *)
Unsigned(spec, arg) == arg % 2^Bits(spec.length)
SignedArg(spec, arg) ==
  LET u == Unsigned(spec, arg) IN IF u >= 2^(Bits(spec.length) - 1) THEN u - 2^Bits(spec.length) ELSE u

handle_integer(spec, arg) ==
  IF spec.specifier \in {"d", "i"}
    THEN LET v == SignedArg(spec, arg) IN format_integer(spec, IF v < 0 THEN -v ELSE v, v < 0)
    ELSE format_integer(spec, Unsigned(spec, arg), FALSE)

handle_string(spec, s) ==
  LET text == IF spec.precision >= 0 /\ spec.precision < Len(s) THEN SubSeq(s, 1, spec.precision) ELSE s
      padding == AtLeast0(spec.width - Len(text))
  IN  IF "-" \in spec.flags THEN text \o Repeat(" ", padding) ELSE Repeat(" ", padding) \o text

(* What one item of a format prints: plain text or a conversion.           *)
Printed(item) ==
  CASE item.specifier \in {"d", "i", "u", "o", "x", "X"} -> handle_integer(item, item.arg)
    [] item.specifier = "s" -> handle_string(item, item.arg)
    [] item.specifier \in {"text", "c", "%"} -> item.arg
    [] OTHER -> <<>>

(* Mutant: what does not fit is not counted.                               *)
append_char_Uncounted(out, c) ==
  IF Len(out.buf) < out.size THEN [out EXCEPT !.buf = Append(@, c), !.count = @ + 1] ELSE out
append_char(out, c) ==
  [out EXCEPT !.buf = IF Len(@) < out.size THEN Append(@, c) ELSE @, !.count = @ + 1]

(* The terminating 0 goes behind what was written, when size is not 0.     *)
vsnprintf(size, fmt) ==
  LET text == FoldLeft(LAMBDA t, item : t \o Printed(item), <<>>, fmt)
      out == FoldLeft(append_char, [buf |-> <<>>, size |-> size, count |-> 0], text)
  IN  [buf |-> IF size > 0 THEN Append(out.buf, "NUL") ELSE <<>>, count |-> out.count]
=============================================================================
