-------------------------------- MODULE Flow --------------------------------
(***************************************************************************)
(* What the checker decides about a body by walking its statements once:   *)
(* whether it always returns, which statements and branches it removes,    *)
(* and whether a custom init assigns every field of its struct exactly     *)
(* once and reads none too early.  A body is a tree of statements; what it *)
(* does is the set of its executions, each a sequence of events and the    *)
(* way it ends.  Loops run up to Rounds times.                             *)
(***************************************************************************)
EXTENDS Naturals, Sequences, FiniteSets

CONSTANTS Fields,     \* the fields of the struct under init
          Rounds      \* how often a loop's body runs at most

Assign(f) == [k |-> "assign", f |-> f]        \* self.f = value
Use == [k |-> "use"]                          \* an expression that mentions self
Call == [k |-> "call"]                        \* one that does not, with an effect
LetUnused(pure) == [k |-> "let", pure |-> pure]
Return == [k |-> "return"]
Break == [k |-> "break"]
Block(body) == [k |-> "block", body |-> body]
If(c, a, b) == [k |-> "if", c |-> c, a |-> a, b |-> b]
While(c, body) == [k |-> "while", c |-> c, inner |-> body]
With(body) == [k |-> "with", inner |-> body]
Match(arms) == [k |-> "match", arms |-> arms]
(* A condition: a literal, a constant that const_bool finds true, or one   *)
(* that is known only when the program runs.                               *)
Conditions == {"true", "false", "named", "unknown"}
Holds == {"true", "named"}
Empty == Block(<< >>)

Elements(seq) == {seq[i] : i \in DOMAIN seq}

RECURSIVE contains_break(_)
contains_break(s) ==
    CASE s.k = "break" -> TRUE
      [] s.k = "block" -> \E x \in Elements(s.body) : contains_break(x)
      [] s.k = "if" -> contains_break(s.a) \/ contains_break(s.b)
      [] s.k \in {"while", "with"} -> contains_break(s.inner)
      [] s.k = "match" -> \E x \in Elements(s.arms) : contains_break(x)
      [] OTHER -> FALSE

(* Mutant: one branch that returns is enough, and no loop does.             *)
RECURSIVE always_returns_either(_)
always_returns_either(s) ==
    CASE s.k = "return" -> TRUE
      [] s.k = "block" -> \E x \in Elements(s.body) : always_returns_either(x)
      [] s.k = "if" -> always_returns_either(s.a) \/ always_returns_either(s.b)
      [] OTHER -> FALSE

RECURSIVE always_returns(_)
always_returns(s) ==
    CASE s.k = "return" -> TRUE
      [] s.k = "block" -> \E x \in Elements(s.body) : always_returns(x)
      [] s.k = "if" -> always_returns(s.a) /\ always_returns(s.b)
      [] s.k = "with" -> always_returns(s.inner)
      [] s.k = "while" -> s.c = "true" /\ ~contains_break(s.inner)
      [] s.k = "match" -> s.arms # << >> /\ \A x \in Elements(s.arms) : always_returns(x)
      [] OTHER -> FALSE

-----------------------------------------------------------------------------
(***************************************************************************)
(* Removal: a decided branch, what follows a statement that never falls    *)
(* through, and an unused binding, of which an expression that may do      *)
(* something stays.                                                        *)
(***************************************************************************)
fold_constant_branch(s) ==
    CASE s.k = "while" /\ s.c = "false" -> Empty
      [] s.k = "if" /\ s.c \in Holds -> s.a
      [] s.k = "if" /\ s.c = "false" -> s.b
      [] OTHER -> s

CutAfterReturn(body) ==
    LET leaves == {i \in DOMAIN body : always_returns(body[i])}
    IN  IF leaves = {} THEN body
        ELSE SubSeq(body, 1, CHOOSE i \in leaves : \A j \in leaves : i <= j)

prune_block(body) ==
    LET kept == SelectSeq(body, LAMBDA x : ~(x.k = "let" /\ x.pure))
    IN  [i \in DOMAIN kept |-> IF kept[i].k = "let" THEN Call ELSE kept[i]]

RECURSIVE check_stmt(_)
check_stmt(s) ==
    CASE s.k = "block" ->
           Block(prune_block(CutAfterReturn([i \in DOMAIN s.body |-> check_stmt(s.body[i])])))
      [] s.k = "if" -> fold_constant_branch(If(s.c, check_stmt(s.a), check_stmt(s.b)))
      [] s.k = "while" -> fold_constant_branch(While(s.c, check_stmt(s.inner)))
      [] s.k = "with" -> With(check_stmt(s.inner))
      [] s.k = "match" -> Match([i \in DOMAIN s.arms |-> check_stmt(s.arms[i])])
      [] OTHER -> s

-----------------------------------------------------------------------------
(***************************************************************************)
(* The walk of an init: the fields definitely assigned, and whether a      *)
(* diagnostic was given.                                                   *)
(***************************************************************************)
Walked(set, ok) == [set |-> set, ok |-> ok]
expression(assigned) == assigned = Fields

assign_field(f, w, in_loop) ==
    Walked(w.set \union {f}, w.ok /\ f \notin w.set /\ ~in_loop)

join_branches_either(s, w, a, b) ==
    LET then_leaves == always_returns(s.a)
        else_leaves == always_returns(s.b)
    IN  Walked(CASE then_leaves /\ ~else_leaves -> b.set
                 [] else_leaves /\ ~then_leaves -> a.set
                 [] ~then_leaves /\ ~else_leaves -> a.set \union b.set
                 [] OTHER -> w.set, a.ok /\ b.ok)
join_branches(s, w, a, b) ==
    LET then_leaves == always_returns(s.a)
        else_leaves == always_returns(s.b)
    IN  Walked(CASE then_leaves /\ ~else_leaves -> b.set
                 [] else_leaves /\ ~then_leaves -> a.set
                 [] ~then_leaves /\ ~else_leaves -> a.set \intersect b.set
                 [] OTHER -> w.set, a.ok /\ b.ok)

RECURSIVE statement(_, _, _)
statement(s, w, in_loop) ==
    CASE s.k = "block" ->
           (LET after[i \in 0 .. Len(s.body)] ==
                  IF i = 0 THEN w ELSE statement(s.body[i], after[i - 1], in_loop)
            IN  after[Len(s.body)])
      [] s.k = "assign" -> assign_field(s.f, w, in_loop)
      [] s.k = "use" -> Walked(w.set, w.ok /\ expression(w.set))
      [] s.k = "if" -> join_branches(s, w, statement(s.a, w, in_loop), statement(s.b, w, in_loop))
      [] s.k = "match" ->
           (LET arms == [i \in DOMAIN s.arms |-> statement(s.arms[i], w, in_loop)]
                go == {i \in DOMAIN s.arms : ~always_returns(s.arms[i])}
            IN  Walked(IF go = {} THEN w.set
                       ELSE {f \in Fields : \A i \in go : f \in arms[i].set},
                       w.ok /\ \A i \in DOMAIN arms : arms[i].ok))
      [] s.k \in {"while", "with"} -> Walked(w.set, statement(s.inner, w, TRUE).ok)
      [] OTHER -> w

check_init(body) ==
    LET w == statement(body, Walked({}, TRUE), FALSE)
    IN  w.ok /\ (w.set = Fields \/ always_returns(body))

-----------------------------------------------------------------------------
(***************************************************************************)
(* The executions of a body.                                               *)
(***************************************************************************)
Done(how, events) == [how |-> how, ev |-> events]

RECURSIVE Executions(_)
AndThen(runs, next) ==
    UNION {IF r.how # "falls" THEN {r} ELSE {Done(n.how, r.ev \o n.ev) : n \in next} : r \in runs}
Executions(s) ==
    CASE s.k = "assign" -> {Done("falls", << << "assign", s.f >> >>)}
      [] s.k = "use" -> {Done("falls", << << "use", "self" >> >>)}
      [] s.k = "call" -> {Done("falls", << << "call", "" >> >>)}
      [] s.k = "let" -> {Done("falls", IF s.pure THEN << >> ELSE << << "call", "" >> >>)}
      [] s.k = "return" -> {Done("returns", << >>)}
      [] s.k = "break" -> {Done("breaks", << >>)}
      [] s.k = "block" ->
           (LET upto[i \in 0 .. Len(s.body)] ==
                  IF i = 0 THEN {Done("falls", << >>)} ELSE AndThen(upto[i - 1], Executions(s.body[i]))
            IN  upto[Len(s.body)])
      [] s.k = "if" -> (IF s.c # "false" THEN Executions(s.a) ELSE {})
                       \union (IF s.c \notin Holds THEN Executions(s.b) ELSE {})
      [] s.k = "match" -> UNION {Executions(x) : x \in Elements(s.arms)}
      [] s.k = "with" -> Executions(s.inner)
      [] s.k = "while" ->
           (LET rounds[i \in 0 .. Rounds] ==
                  IF i = 0 \/ s.c = "false" THEN {Done("falls", << >>)}
                  ELSE AndThen(rounds[i - 1], Executions(s.inner))
                leaving == {r \in UNION {rounds[i] : i \in 0 .. Rounds} : r.how = "returns"}
                broken == {r \in UNION {rounds[i] : i \in 0 .. Rounds} : r.how = "breaks"}
                ended == IF s.c \in Holds THEN {} ELSE {r \in UNION {rounds[i] : i \in 0 .. Rounds} : r.how = "falls"}
            IN  leaving \union ended \union {Done("falls", r.ev) : r \in broken})

AssignedBefore(ev, i) == {ev[j][2] : j \in {j \in 1 .. i - 1 : ev[j][1] = "assign"}}
WholeBeforeUse(ev) ==
    \A i \in DOMAIN ev : ev[i][1] = "use" =>
        /\ AssignedBefore(ev, i) = Fields
        /\ \A j \in i + 1 .. Len(ev) : ev[j][1] # "assign"
EveryFieldAssigned(ev) == AssignedBefore(ev, Len(ev) + 1) = Fields
=============================================================================
