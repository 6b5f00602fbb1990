----------------------------- MODULE MCFunctions -----------------------------
EXTENDS FunctionCheck

MCVocabularies ==
  {[types |-> {"TK_DEC", "-", "*", "(", ")"}, max |-> 7],
   [types |-> {"TK_DEC", "-", "/", "<", "&&"}, max |-> 7],
   [types |-> {"TK_HEX", "TK_REG", "+", "==", "!=", ">=", "<=", ">", "||"}, max |-> 5]}
MCData == {0, RADIX^4 - 1, RADIX^3 + RADIX + RADIX \div 2}
MCMemory == [a \in Word |-> Wrap(a * a + 3)]
=============================================================================
