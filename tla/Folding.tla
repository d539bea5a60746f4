------------------------------ MODULE Folding ------------------------------
(***************************************************************************)
(* Constants the checker computes for itself: the length of an array, the  *)
(* value of an enum case, a condition that is decided before the program   *)
(* runs.  const_u64 works on words and knows no types; the program, run by *)
(* the oracle, computes the same expression in its type and may trap.      *)
(*                                                                         *)
(* An expression is a literal, the negation of one, a name for another     *)
(* module's or this module's top-level let, a cast, or a binary operator.  *)
(***************************************************************************)
EXTENDS Arithmetic

Lit(n) == [k |-> "lit", n |-> n]
Neg(e) == [k |-> "neg", e |-> e]
Let(e) == [k |-> "let", e |-> e]
Cast(t, e) == [k |-> "cast", t |-> t, e |-> e]
Bin(op, l, r) == [k |-> "bin", op |-> op, l |-> l, r |-> r]

NoConstant == [ok |-> FALSE, v |-> 0]
Constant(v) == [ok |-> TRUE, v |-> v]

fold_word_wraps(op, a, b) ==
    CASE op = "+" -> Constant(Word(a + b))
      [] op = "-" -> Constant(Word(a - b))
      [] op = "*" -> Constant(Word(a * b))
      [] op \in Dividing -> IF b = 0 THEN NoConstant
                            ELSE Constant(IF op = "//" THEN a \div b ELSE a % b)
      [] op \in Shifts -> IF b >= WordBits THEN NoConstant
                          ELSE Constant(IF op = "<<" THEN Word(a * 2 ^ b) ELSE a \div 2 ^ b)
      [] OTHER -> NoConstant

fold_word(op, a, b) ==
    CASE op = "+" -> IF Word(a + b) >= a THEN Constant(Word(a + b)) ELSE NoConstant
      [] op = "-" -> IF a >= b THEN Constant(a - b) ELSE NoConstant
      [] op = "*" -> IF b = 0 \/ a <= int_mask(WordBits) \div b THEN Constant(a * b) ELSE NoConstant
      [] op \in Dividing -> IF b = 0 THEN NoConstant
                            ELSE Constant(IF op = "//" THEN a \div b ELSE a % b)
      [] op \in Shifts -> IF b >= WordBits THEN NoConstant
                          ELSE Constant(IF op = "<<" THEN Word(a * 2 ^ b) ELSE a \div 2 ^ b)
      [] OTHER -> NoConstant

RECURSIVE const_u64(_)
const_u64(e) ==
    CASE e.k = "lit" -> Constant(e.n)
      [] e.k = "neg" -> (LET a == const_u64(e.e)
                         IN  IF a.ok THEN Constant(Word(0 - a.v)) ELSE NoConstant)
      [] e.k = "let" -> const_u64(e.e)
      [] e.k = "cast" -> (LET a == const_u64(e.e)
                          IN  IF ~a.ok THEN NoConstant
                              ELSE Constant(Word(IF e.t.signed THEN as_s(a.v, e.t) ELSE as_u(a.v, e.t))))
      [] e.k = "bin" -> (LET a == const_u64(e.l)
                             b == const_u64(e.r)
                         IN  IF a.ok /\ b.ok THEN fold_word(e.op, a.v, b.v) ELSE NoConstant)

(* A comparison, signed when the operands' type is.                        *)
const_bool(op, l, r, t) ==
    LET a == const_u64(l)
        b == const_u64(r)
        truth == CASE op \in Equality -> Compare(op, a.v, b.v)
                   [] op \in Ordering /\ t.signed -> Compare(op, Long(a.v), Long(b.v))
                   [] OTHER -> Compare(op, a.v, b.v)
    IN  IF a.ok /\ b.ok THEN [ok |-> TRUE, v |-> truth] ELSE [ok |-> FALSE, v |-> FALSE]

-----------------------------------------------------------------------------
(* The expression run in type t: the word the oracle holds, or a trap.  A  *)
(* cast's operand has no context and computes as i64 does, unless it is a  *)
(* literal, which is read in the cast's type (convert_ok).                 *)
RECURSIVE Run(_, _)
Run(e, t) ==
    CASE e.k = "lit" -> Value(v_int(t, e.n))
      [] e.k = "neg" -> IF e.e.k = "lit" /\ e.e.n = int_max_signed(t.bits) + 1
                        THEN Value(v_int(t, Word(int_min(t))))
                        ELSE (LET x == Run(e.e, t)
                              IN  IF x.trap # "" THEN x ELSE unary_scalar(t, x.v, "-"))
      [] e.k = "let" -> Run(e.e, t)
      [] e.k = "cast" -> (LET from == IF e.e.k = "lit" THEN e.t ELSE i64
                              x == Run(e.e, from)
                          IN  IF x.trap # "" THEN x
                              ELSE Value(v_int(t, Word(Read(e.t, v_int(e.t, Word(Read(from, x.v))))))))
      [] e.k = "bin" -> (LET a == Run(e.l, t)
                             b == Run(e.r, t)
                         IN  CASE a.trap # "" -> a
                               [] a.trap = "" /\ b.trap # "" -> b
                               [] OTHER -> arith(t, a.v, b.v, t, e.op))
RunCompare(op, l, r, t) ==
    LET a == Run(l, t)
        b == Run(r, t)
    IN  CASE a.trap # "" -> [trap |-> a.trap, v |-> FALSE]
          [] a.trap = "" /\ b.trap # "" -> [trap |-> b.trap, v |-> FALSE]
          [] OTHER -> eval_binary(op, t, a.v, t, b.v, t)
=============================================================================
