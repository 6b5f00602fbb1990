--------------------------------- MODULE Expr ---------------------------------
(***************************************************************************)
(* core/csrc/infrastructure/expr.c: the evaluator of the debugger, from    *)
(* the tokens on.  A token is its type and, for a number or a register,    *)
(* its value; p and q are the bounds of the tokens under evaluation, q     *)
(* exclusive, as in the code.                                              *)
(*                                                                         *)
(* A result is [err, val].  err is "" or the error flag; "Assert" and      *)
(* "SIGFPE" end the whole simulator.                                       *)
(***************************************************************************)
EXTENDS Words, Sequences

CONSTANT Memory   \* what paddr_read(a, 4) returns, for every a
ASSUME MemoryAssumption == Memory \in [Word -> Word]

Operand == {"TK_DEC", "TK_HEX", "TK_REG"}
Comparison == {"==", "!=", ">=", "<=", ">", "<"}
Connective == {"&&", "||"}
Unary == {"TK_DEREF", "TK_NEG"}

Value(v) == [err |-> "", val |-> v]
Error(e) == [err |-> e, val |-> 0]

-----------------------------------------------------------------------------
(* expr turns a '*' or '-' that follows no operand into the unary operator. *)
AfterOperand(t, i) == i > 1 /\ t[i - 1].type \in Operand \cup {")"}

UnaryOf(type) == IF type = "*" THEN "TK_DEREF" ELSE "TK_NEG"
Resolved(t) ==
  [i \in DOMAIN t |->
     IF t[i].type \in {"*", "-"} /\ ~AfterOperand(t, i)
       THEN [t[i] EXCEPT !.type = UnaryOf(@)] ELSE t[i]]

-----------------------------------------------------------------------------
(* Parentheses opened and not closed from p up to and with j.              *)
Depth(t, p, j) ==
  LET depth[i \in p - 1 .. j] ==
        IF i < p THEN 0
        ELSE depth[i - 1] + CASE t[i].type = "(" -> 1 [] t[i].type = ")" -> -1 [] OTHER -> 0
  IN  depth[j]

(* Mutant: only the ends are looked at.                                    *)
check_parenthesis_Ends(t, p, q) ==
  IF Depth(t, p, q - 1) # 0 THEN "PAREN_INVALID"
  ELSE IF t[p].type = "(" /\ t[q - 1].type = ")" THEN "PAREN_MATCH" ELSE "PAREN_DISMATCH"
check_parenthesis(t, p, q) ==
  IF Depth(t, p, q - 1) # 0 THEN "PAREN_INVALID"
  ELSE IF /\ t[p].type = "(" /\ t[q - 1].type = ")"
          /\ \A j \in p .. q - 2 : Depth(t, p, j) # 0
    THEN "PAREN_MATCH" ELSE "PAREN_DISMATCH"

(* How loosely an operator binds; FindMainOP takes the last of the loosest *)
(* outside parentheses, but the first of the unary ones.                   *)
Level(type) ==
  CASE type \in Unary -> 1
    [] type \in {"*", "/"} -> 2
    [] type \in {"+", "-"} -> 3
    [] type \in Comparison -> 4
    [] type \in Connective -> 5
    [] OTHER -> 0

Outside(t, p, q) ==
  {i \in p .. q - 1 : Level(t[i].type) > 0 /\ Depth(t, p, i) = 0}

Chosen(lvl, ops) ==
  CHOOSE i \in ops : \A j \in ops : IF lvl = 1 THEN i <= j ELSE i >= j

(* -1 when there is none, a position before p in the code; 0 for the       *)
(* Assert that fails at a ')' which closes nothing.                        *)
FindMainOP(t, p, q) ==
  IF \E i \in p .. q - 1 : Depth(t, p, i) < 0 THEN 0
  ELSE LET ops == Outside(t, p, q)
           lvl == CHOOSE l \in 0 .. 5 : /\ \A i \in ops : Level(t[i].type) <= l
                                        /\ l = 0 \/ \E i \in ops : Level(t[i].type) = l
       IN  IF ops = {} THEN -1
           ELSE Chosen(lvl, {i \in ops : Level(t[i].type) = lvl})

-----------------------------------------------------------------------------
Truth(b) == IF b THEN 1 ELSE 0

apply(op, l, r) ==
  CASE op = "+"  -> Value(Wrap(l + r))
    [] op = "-"  -> Value(Wrap(l - r))
    [] op = "*"  -> Value(Wrap(l * r))
    [] op = "/"  -> IF r = 0 THEN Error("SIGFPE") ELSE Value(l \div r)
    [] op = "==" -> Value(Truth(l = r))
    [] op = "!=" -> Value(Truth(l # r))
    [] op = ">=" -> Value(Truth(l >= r))
    [] op = "<=" -> Value(Truth(l <= r))
    [] op = ">"  -> Value(Truth(l > r))
    [] op = "<"  -> Value(Truth(l < r))
    [] op = "&&" -> Value(Truth(l # 0 /\ r # 0))
    [] op = "||" -> Value(Truth(l # 0 \/ r # 0))

apply_unary(op, v) == IF op = "TK_NEG" THEN Value(Wrap(-v)) ELSE Value(Memory[v])

(* The right operand is evaluated before the left one, and both always.    *)
RECURSIVE eval(_, _, _)
eval(t, p, q) ==
  IF p >= q THEN Error("BADEXPR_ERR")
  ELSE IF p + 1 = q
    THEN IF t[p].type \in Operand THEN Value(t[p].val) ELSE Error("UNKNOWN_ELEMENT_ERR")
  ELSE LET paren == check_parenthesis(t, p, q) IN
    CASE paren = "PAREN_INVALID" -> Error("PAREN_ERR")
      [] paren = "PAREN_MATCH" -> eval(t, p + 1, q - 1)
      [] OTHER ->
           LET pos == FindMainOP(t, p, q) IN
           IF pos = 0 THEN Error("Assert")
           ELSE IF pos = -1 THEN Error("MAINOP_ERR")
           ELSE LET right == eval(t, pos + 1, q) IN
             IF right.err # "" THEN right
             ELSE IF t[pos].type \in Unary THEN apply_unary(t[pos].type, right.val)
             ELSE LET left == eval(t, p, pos) IN
               IF left.err # "" THEN left ELSE apply(t[pos].type, left.val, right.val)

expr(t) == eval(Resolved(t), 1, Len(t) + 1)
=============================================================================
