-------------------------- MODULE MCDisagreements ---------------------------
(***************************************************************************)
(* Questions on which the program does not do what its own text says: the  *)
(* arithmetic of two widths, and conditions the checker decides.           *)
(***************************************************************************)
EXTENDS MCAlgorithms

AskWidened ==
    /\ Asking("widened")
    /\ \E op \in Operators \ Shifts, lt, rt \in IntTypes : lt # rt /\ unify_int(lt, rt) # NoType
         /\ \E a \in NumbersOf(lt), b \in NumbersOf(rt) :
              q' = [op |-> op, lt |-> lt, rt |-> rt, a |-> a, b |-> b]
(* Every operation that is folded, on a let of every integer type:         *)
(* overflow in it, and what FoldsApart keeps from AskCondition.            *)
AskDecided ==
    /\ Asking("decided")
    /\ \E op \in Comparisons, o1 \in Folded, t \in IntTypes : \E a, b, c \in CloseTo(t) :
         q' = [op |-> op, l |-> Bin(o1, Let(Numeral(a)), Numeral(b)), r |-> Numeral(c), t |-> t]

DisagreeNext == AskWidened \/ AskDecided \/ Answered
DisagreeSpec == AlgInit /\ [][DisagreeNext]_<< algVars, viewsVars >>

(* docs/DESIGN.md: the oracle and the compiled program must agree.  Here:  *)
(* on integers of two widths, which meet in the wider type.                *)
WideningAgrees == asked = "widened" => CompiledBinary = OracleBinary

(* check/check.cpp: "Every removal keeps the program's meaning."  A        *)
(* condition decided by the checker is the one the program would find,     *)
(* and one that would trap is not decided.                                 *)
RemovalKeepsMeaning ==
    asked = "decided" =>
      LET c == const_bool(q.op, q.l, q.r, q.t) IN c.ok => RunCompare(q.op, q.l, q.r, q.t) = Value(c.v)
=============================================================================
