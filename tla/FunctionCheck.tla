---------------------------- MODULE FunctionCheck ----------------------------
(***************************************************************************)
(* The functions of Expr and Stdio against definitions of what they are    *)
(* for, and those of MemoryCheck, on bounded inputs.  A state is the input *)
(* of one function: an expression grows by a token, a memory changes by a  *)
(* store, a heap by an allocation; the other inputs are chosen at the      *)
(* start.                                                                  *)
(***************************************************************************)
EXTENDS Expr, Stdio, MemoryCheck

CONSTANTS
  Vocabularies     \* each a set of token types with the largest number of tokens

-----------------------------------------------------------------------------
(* Expressions.  The number at place i depends on i, so that another order *)
(* of evaluation gives another value; one of them is 0.                    *)
Token(type, i) == [type |-> type, val |-> Wrap(3 * i + 1)]

ExprInit == \E v \in Vocabularies : input = [vocabulary |-> v, tokens |-> <<>>]
AddToken ==
  /\ subject = "expr"
  /\ Len(input.tokens) < input.vocabulary.max
  /\ \E type \in input.vocabulary.types :
       input' = [input EXCEPT !.tokens = Append(@, Token(type, Len(@) + 1))]
  /\ UNCHANGED subject

(* The grammar: a term of level l is a term of level l - 1, or a term of   *)
(* level l, an operator of that level and a term of level l - 1.  Means    *)
(* is the set of results of the tokens from p to q, both inclusive, read   *)
(* at level l; "" or the fault of an evaluation of all subterms.           *)
OperatorsAt(l) ==
  CASE l = 2 -> {"*", "/"} [] l = 3 -> {"+", "-"} [] l = 4 -> Comparison [] l = 5 -> Connective

RECURSIVE Means(_, _, _, _)
Means(t, l, p, q) ==
  IF p > q THEN {}
  ELSE IF l > 1
    THEN Means(t, l - 1, p, q) \cup
         UNION {LET lefts == Means(t, l, p, i - 1)
                    rights == Means(t, l - 1, i + 1, q)
                IN  {IF "SIGFPE" \in {a.err, b.err} THEN Error("SIGFPE")
                     ELSE apply(t[i].type, a.val, b.val) : a \in lefts, b \in rights}
                : i \in {j \in p .. q : t[j].type \in OperatorsAt(l)}}
  ELSE IF p = q THEN IF t[p].type \in Operand THEN {Value(t[p].val)} ELSE {}
  ELSE IF t[p].type = "(" THEN IF t[q].type = ")" THEN Means(t, 5, p + 1, q - 1) ELSE {}
  ELSE IF t[p].type \in {"*", "-"}
    THEN {IF a.err # "" THEN a ELSE apply_unary(UnaryOf(t[p].type), a.val) : a \in Means(t, 1, p + 1, q)}
  ELSE {}

(* eval finds the operator to apply last by counting parentheses, and      *)
(* classifies '-' and '*' by the token before: for every token sequence    *)
(* the grammar allows, it computes what the grammar means, with operators  *)
(* of one level grouped to the left, and it rejects every other.  It       *)
(* rejects with an error and not with the Assert of FindMainOP, unless a   *)
(* parenthesis is closed before it is opened.                              *)
ExprMeansGrammar ==
  subject = "expr" =>
    LET t == input.tokens
        meanings == Means(t, 5, 1, Len(t))
    IN  /\ IF meanings = {} THEN expr(t).err # "" ELSE meanings = {expr(t)}
        /\ expr(t).err = "Assert" => \E j \in DOMAIN t : Depth(t, 1, j) < 0

-----------------------------------------------------------------------------
(* Formats.                                                                *)
Conversion(flags, width, precision, length, specifier, arg) ==
  [flags |-> flags, width |-> width, precision |-> precision, length |-> length,
   specifier |-> specifier, arg |-> arg]
Plain(text) == [specifier |-> "text", arg |-> text]

PrintInit ==
  \E flags \in SUBSET {"-", "+", " ", "0"}, width \in {-1, 0, 3, 5}, precision \in {-1, 0, 3},
     length \in {"", "h", "hh", "ll"}, specifier \in {"d", "u", "o", "x"} :
    \E arg \in {0, 1, 2^(CHAR_BITS - 1), 2^(INT_BITS - 1), 2^INT_BITS - 1}
               \cup (IF length = "ll" THEN {2^(2 * INT_BITS - 1)} ELSE {}) :
      input = Conversion(flags, width, precision, length, specifier, arg)

ValueOf(digits, base) ==
  FoldLeft(LAMBDA v, c : v * base + (CHOOSE d \in 0 .. 9 : DigitsOf[d + 1] = c), 0, digits)
Blanks(text) == {i \in DOMAIN text : text[i] = " "}
SignChars == {"-", "+", " "}

(* What handle_integer and format_integer print can be read back: blanks,  *)
(* at most one sign, digits, blanks, the digits being the value of the     *)
(* argument at its length, also for the most negative one; the field is as *)
(* wide as asked and no wider than it must be.  For x and X the digits are *)
(* decimal.                                                                *)
FieldReadsBack ==
  subject = "print" =>
    LET text == Printed(input)
        digits == SelectSeq(text, LAMBDA c : c \notin SignChars)
        signed == input.specifier = "d"
        value == IF signed THEN SignedArg(input, input.arg) ELSE Unsigned(input, input.arg)
        start == CHOOSE i \in DOMAIN text : text[i] \notin SignChars /\ \A j \in 1 .. i - 1 : text[j] \in SignChars
        signs == {i \in DOMAIN text : text[i] \in {"-", "+"}}
        sign == IF value < 0 THEN "-" ELSE IF "+" \in input.flags THEN "+" ELSE " "
        owed == IF value < 0 \/ input.flags \cap {"+", " "} # {} THEN 1 ELSE 0
    IN  /\ SubSeq(text, start, start + Len(digits) - 1) = digits
        /\ ValueOf(digits, Base(input.specifier)) = (IF value < 0 THEN -value ELSE value)
        /\ signs = IF sign = " " THEN {} ELSE {start - 1}
        /\ owed = 1 => text[start - 1] = sign
        /\ Len(digits) >= input.precision
        /\ Len(text) >= input.width
        /\ Len(text) > input.width => Len(text) = owed + Len(digits)
        /\ Len(text) > input.width /\ Len(digits) > input.precision => Len(digits) = 1 \/ digits[1] # "0"
        /\ "-" \in input.flags => start <= owed + 1
        /\ "-" \notin input.flags => text[Len(text)] # " "

Formats(item) ==
  {<<item>>, <<Plain(<<"a">>), item, Plain(<<"b">>)>>,
   <<Conversion({}, 3, 1, "", "s", <<"c", "d">>), item>>}

(* With any size, vsnprintf writes the beginning of the text that the      *)
(* format stands for, as much as there is room for, one terminating 0, and *)
(* returns the length of the whole text.  That 0 comes on top of size:     *)
(* a text that does not fit is written to size + 1 characters.             *)
TruncatesToPrefix ==
  subject = "print" =>
    \A fmt \in Formats(input), size \in 0 .. 8 :
      LET full == FoldLeft(LAMBDA t, item : t \o Printed(item), <<>>, fmt)
          out == vsnprintf(size, fmt)
      IN  /\ out.count = Len(full)
          /\ out.buf = IF size = 0 THEN <<>> ELSE Prefix(full, size) \o <<"NUL">>

-----------------------------------------------------------------------------
Init ==
  \/ subject = "expr" /\ ExprInit
  \/ subject = "print" /\ PrintInit
  \/ MemoryInit

Next == AddToken \/ MemoryNext
Spec == Init /\ [][Next]_vars
=============================================================================
