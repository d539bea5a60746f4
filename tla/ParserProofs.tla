---------------------------- MODULE ParserProofs ----------------------------
(***************************************************************************)
(* What the productions open they close, and the levels of nesting too,    *)
(* for any tokens and any limits.                                          *)
(*                                                                         *)
(* The steps still to do are read as a walk: each one changes how many     *)
(* brackets of a kind are open by an amount known before it is taken, its  *)
(* cost, and the walk ends where nothing is open.  The levels that         *)
(* expressions nest are one more kind of bracket.                          *)
(***************************************************************************)
EXTENDS Parser, SequenceTheorems, FiniteSetTheorems, TLAPS

-----------------------------------------------------------------------------
(***************************************************************************)
(* Lists of steps.                                                         *)
(***************************************************************************)
IsList(L) == Len(L) \in Nat /\ L = [i \in 1 .. Len(L) |-> L[i]]

(* A list is a sequence of any set that holds its elements.                 *)
LEMMA ListIn ==
  ASSUME NEW L, IsList(L), NEW S, \A i \in 1 .. Len(L) : L[i] \in S
  PROVE  L \in Seq(S)
  BY DEF IsList

(* A sequence is a list.                                                    *)
LEMMA SeqIsList ==
  ASSUME NEW S, NEW L \in Seq(S)
  PROVE  IsList(L)
  BY DEF IsList

(* One list after another.                                                  *)
LEMMA Joins ==
  ASSUME NEW L, IsList(L), NEW M, IsList(M)
  PROVE  /\ Len(L \o M) = Len(L) + Len(M)
         /\ \A i \in 1 .. Len(L) : (L \o M)[i] = L[i]
         /\ \A i \in 1 .. Len(M) : (L \o M)[Len(L) + i] = M[i]
         /\ \A i \in 1 .. Len(L) + Len(M) : (L \o M)[i] = IF i <= Len(L) THEN L[i] ELSE M[i - Len(L)]
         /\ \E S : L \o M \in Seq(S)
  <1> DEFINE S == {L[i] : i \in 1 .. Len(L)} \cup {M[i] : i \in 1 .. Len(M)}
  <1>1. L \in Seq(S)
    BY ListIn
  <1>2. M \in Seq(S)
    BY ListIn
  <1> HIDE DEF S
  <1>3. L \o M \in Seq(S) /\ Len(L \o M) = Len(L) + Len(M)
    BY <1>1, <1>2
  <1>4. Len(L) \in Nat /\ Len(M) \in Nat
    BY DEF IsList
  <1>5. \A i \in 1 .. Len(L) + Len(M) : (L \o M)[i] = IF i <= Len(L) THEN L[i] ELSE M[i - Len(L)]
    BY <1>1, <1>2, ConcatProperties
  <1>6. \A i \in 1 .. Len(L) : (L \o M)[i] = L[i]
    BY <1>4, <1>5
  <1>7. ASSUME NEW i \in 1 .. Len(M)
        PROVE  (L \o M)[Len(L) + i] = M[i]
    BY <1>4, <1>5
  <1>8. QED
    BY <1>3, <1>5, <1>6, <1>7

(* It is a list.                                                            *)
LEMMA JoinIsList ==
  ASSUME NEW L, IsList(L), NEW M, IsList(M)
  PROVE  IsList(L \o M)
  BY Joins, SeqIsList

(* Both at once.                                                            *)
LEMMA Joined ==
  ASSUME NEW L, IsList(L), NEW M, IsList(M)
  PROVE  /\ IsList(L \o M) /\ Len(L \o M) = Len(L) + Len(M)
         /\ \A i \in 1 .. Len(L) : (L \o M)[i] = L[i]
         /\ \A i \in 1 .. Len(M) : (L \o M)[Len(L) + i] = M[i]
  <1>1. IsList(L \o M)
    BY JoinIsList
  <1>2. QED
    BY <1>1, Joins

(* What a step of a joined list is: one of the first list's, or one of the  *)
(* second's.                                                                *)
LEMMA JoinedAt ==
  ASSUME NEW L, IsList(L), NEW M, IsList(M), NEW i \in 1 .. Len(L \o M)
  PROVE  \/ i \in 1 .. Len(L) /\ (L \o M)[i] = L[i]
         \/ \E j \in 1 .. Len(M) : i = Len(L) + j /\ (L \o M)[i] = M[j]
  <1>1. Len(L) \in Nat /\ Len(M) \in Nat /\ i \in 1 .. Len(L) + Len(M)
    BY Joined DEF IsList
  <1>2. CASE i <= Len(L)
    BY <1>1, <1>2, Joined
  <1>3. CASE i > Len(L)
    <2> DEFINE j == i - Len(L)
    <2>1. j \in 1 .. Len(M) /\ i = Len(L) + j
      BY <1>1, <1>3
    <2> HIDE DEF j
    <2>2. (L \o M)[i] = M[j]
      BY <2>1, Joined
    <2>3. QED
      BY <2>1, <2>2
  <1>4. QED
    BY <1>1, <1>2, <1>3

(* A list without its first step.                                           *)
LEMMA Beheaded ==
  ASSUME NEW L, IsList(L), L # << >>
  PROVE  /\ Len(L) >= 1 /\ Head(L) = L[1]
         /\ IsList(Tail(L)) /\ Len(Tail(L)) = Len(L) - 1
         /\ \A i \in 1 .. Len(L) - 1 : Tail(L)[i] = L[i + 1]
  <1> DEFINE S == {L[i] : i \in 1 .. Len(L)}
  <1>1. L \in Seq(S)
    BY ListIn
  <1> HIDE DEF S
  <1>2. Len(L) \in Nat /\ Len(L) >= 1 /\ Head(L) = L[1]
    BY <1>1
  <1>3. Tail(L) \in Seq(S) /\ Len(Tail(L)) = Len(L) - 1
    BY <1>1
  <1>4. \A i \in 1 .. Len(L) - 1 : Tail(L)[i] = L[i + 1]
    BY <1>1
  <1>5. IsList(Tail(L))
    BY <1>3, SeqIsList
  <1>6. QED
    BY <1>2, <1>3, <1>4, <1>5

-----------------------------------------------------------------------------
(***************************************************************************)
(* What a step costs: how many more brackets of a kind are open after it.  *)
(***************************************************************************)
Kinds == {"nest", "(", "[", "INDENT"}
Marks == {"(", ")", "[", "]", "INDENT", "DEDENT", "EOF"}
Closer(k) == CASE k = "(" -> ")" [] k = "[" -> "]" [] OTHER -> "DEDENT"
Weight(k, t) ==
  IF k = "nest" THEN 0 ELSE IF t = k THEN 1 ELSE IF t = Closer(k) THEN -1 ELSE 0
Up(k) == IF k = "nest" THEN 1 ELSE 0

(* Only brackets weigh, and a closing one what its opening one does.        *)
LEMMA WeightFacts ==
  ASSUME NEW k \in Kinds
  PROVE  /\ Weight(k, "(") \in {0, 1} /\ Weight(k, "[") \in {0, 1} /\ Weight(k, "INDENT") \in {0, 1}
         /\ Weight(k, ")") = -Weight(k, "(") /\ Weight(k, "]") = -Weight(k, "[")
         /\ Weight(k, "DEDENT") = -Weight(k, "INDENT")
         /\ \A t : t \notin Marks => Weight(k, t) = 0
         /\ \A t : Weight(k, t) \in {-1, 0, 1}
         /\ k = "nest" => \A t : Weight(k, t) = 0
         /\ Up(k) \in {0, 1}
  BY DEF Kinds, Weight, Closer, Marks, Up

(* What a block may hold.                                                   *)
Members == {"parse_statement", "stmt_arm", "expr_arm", "extend_member", "struct_member",
            "extern_member", "enum_member", "union_member", "interface_member"}

(* The productions that take their first token without looking at it, and   *)
(* the tokens that their callers saw there.                                 *)
Led == {"parse_if", "parse_while", "parse_for", "parse_match", "parse_with", "parse_asm",
        "parse_binding", "parse_free", "bracket", "parse_new", "parse_group_or_tuple", "parse_const",
        "parse_extern", "parse_enum", "parse_union", "parse_interface", "parse_import",
        "parse_handle", "parse_extend", "parse_type_builtin"}
Lead(p) ==
  CASE p = "parse_if" -> {"if"} [] p = "parse_while" -> {"while"} [] p = "parse_for" -> {"for"}
    [] p = "parse_match" -> {"match"} [] p = "parse_with" -> {"with"} [] p = "parse_asm" -> {"asm"}
    [] p = "parse_binding" -> {"let", "var"} [] p = "parse_free" -> {"free"} [] p = "bracket" -> {"["}
    [] p = "parse_new" -> {"new"} [] p = "parse_group_or_tuple" -> {"("} [] p = "parse_const" -> {"let"}
    [] p = "parse_extern" -> {"extern"} [] p = "parse_enum" -> {"enum"} [] p = "parse_union" -> {"union"}
    [] p = "parse_interface" -> {"interface"} [] p = "parse_import" -> {"import", "from"}
    [] p = "parse_handle" -> {"handle"} [] p = "parse_extend" -> {"extend"}
    [] OTHER -> {"size_of", "memory"}

(* The productions that close a bracket their callers opened.               *)
Closers == {"body", "body_item", "asm_line", "handle_end", "free_rest", "parse_subscript",
            "subscript_rest"}
(* The productions that may be called anywhere, and close what they open.   *)
Easy == {"argument", "asm_operand", "assign_or_finish", "bounds", "catch_rest", "defer_rest",
         "else_arm", "enum_case", "enum_member", "export_member", "expr_arm", "extend_member",
         "extern_rest", "finish_expression", "format_part", "generic_param", "generics",
         "if_rest", "interface_member", "lambda_param", "measured", "member",
         "merge_extensions", "module_rest", "named_parameter", "only_method", "parameter",
         "parse_arg_list", "parse_attributes", "parse_binary", "parse_binary_rest",
         "parse_condition", "parse_conditional", "parse_conditional_rest",
         "parse_conformance", "parse_else_expr", "parse_else_rest", "parse_expression",
         "parse_func", "parse_generic_params", "parse_global", "parse_lambda", "parse_module",
         "parse_module_path", "parse_params", "parse_pattern", "parse_postfix",
         "parse_primary", "parse_primary_type", "parse_simple_stmt", "parse_statement",
         "parse_struct", "parse_suite", "parse_top", "parse_type", "parse_type_args",
         "parse_type_member", "parse_unary", "pattern_rest", "postfix_rest", "qualifiers",
         "stmt_arm", "top_rest", "type_path", "type_suffix", "union_field", "union_member",
         "weak_member", "struct_member", "extern_member"}

CostDo(k, p) ==
  CASE p \in {"body", "body_item", "asm_line", "handle_end"} -> Weight(k, "DEDENT")
    [] p = "free_rest" -> Weight(k, ")")
    [] p \in {"parse_subscript", "subscript_rest"} -> Weight(k, "]")
    [] OTHER -> 0
DoOK(p, a) ==
  /\ p \in {"body", "body_item"} => a \in Members
  /\ p = "name_list" => a \in {Names, Names1}

(* The cost of a step with no steps inside.  Levels of nesting are counted  *)
(* whatever the tokens are, so those steps may come anywhere.               *)
Still == {"node", "newline", "skip", "landed", "declare", "fail", "binary"}
Cost0(k, s, d) ==
  \/ /\ s[1] = "do" /\ s[2] \in Easy \cup Closers \cup {"name_list"} /\ DoOK(s[2], s[3])
     /\ d = CostDo(k, s[2])
  \/ s[1] = "one" /\ "EOF" \notin s[2] /\ (\A t \in s[2] : Weight(k, t) = d) /\ (k = "nest" => d = 0)
  \/ s[1] \in Still /\ d = 0
  \/ k = "nest" /\ s[1] \in {"take", "sync"} /\ d = 0
  \/ k = "nest" /\ s[1] = "do" /\ s[2] \in Led \cup {"skip_block"} /\ DoOK(s[2], s[3]) /\ d = 0

(* The first step after one of S was seen.                                  *)
First(k, s, S, d) ==
  \/ s = Take /\ "EOF" \notin S /\ \A t \in S : Weight(k, t) = d
  \/ s = Do("parse_free") /\ S = {"free"} /\ d = 0

(* The cost of a step with lists inside, one, two and three deep.  Such a   *)
(* list costs nothing but for one of its steps.                             *)
RangeEnd == Opt({"..<"}, <<Take>>)
Mild0(k, L, f) == IsList(L) /\ \A i \in f .. Len(L) : Cost0(k, L[i], 0)
Ends0(k, L, f, d) ==
  \/ d = 0 /\ Mild0(k, L, f)
  \/ /\ IsList(L)
     /\ \E e \in f .. Len(L) : Cost0(k, L[e], d) /\ \A i \in f .. Len(L) : i # e => Cost0(k, L[i], 0)
Branch0(k, S, L, d) ==
  \/ Ends0(k, L, 1, d)
  \/ /\ Len(L) >= 1
     /\ \E c \in {-1, 0, 1} : c >= d /\ First(k, L[1], S, c) /\ Ends0(k, L, 2, d - c)
Cost1(k, s, d) ==
  \/ Cost0(k, s, d)
  \/ s[1] = "opt" /\ d = 0 /\ "EOF" \notin s[2] /\ \A t \in s[2] : Weight(k, t) >= 0 /\ Ends0(k, s[3], 1, -Weight(k, t))
  \/ s[1] = "if" /\ Branch0(k, s[2], s[3], d) /\ Ends0(k, s[4], 1, d)
  \/ s[1] = "list" /\ d = 0 /\ Mild0(k, s[3], 1)
  \/ s \in {RangeEnd, Align} /\ d = 0
Mild1(k, L, f) == IsList(L) /\ \A i \in f .. Len(L) : Cost1(k, L[i], 0)
Ends1(k, L, f, d) ==
  \/ d = 0 /\ Mild1(k, L, f)
  \/ /\ IsList(L)
     /\ \E e \in f .. Len(L) : Cost1(k, L[e], d) /\ \A i \in f .. Len(L) : i # e => Cost1(k, L[i], 0)
Branch1(k, S, L, d) ==
  \/ Ends1(k, L, 1, d)
  \/ /\ Len(L) >= 1
     /\ \E c \in {-1, 0, 1} : c >= d /\ First(k, L[1], S, c) /\ Ends1(k, L, 2, d - c)
Cost2(k, s, d) ==
  \/ Cost1(k, s, d)
  \/ s[1] = "opt" /\ d = 0 /\ "EOF" \notin s[2] /\ \A t \in s[2] : Weight(k, t) >= 0 /\ Ends1(k, s[3], 1, -Weight(k, t))
  \/ s[1] = "if" /\ Branch1(k, s[2], s[3], d) /\ Ends1(k, s[4], 1, d)
Mild2(k, L, f) == IsList(L) /\ \A i \in f .. Len(L) : Cost2(k, L[i], 0)
Ends2(k, L, f, d) ==
  \/ d = 0 /\ Mild2(k, L, f)
  \/ /\ IsList(L)
     /\ \E e \in f .. Len(L) : Cost2(k, L[e], d) /\ \A i \in f .. Len(L) : i # e => Cost2(k, L[i], 0)
Branch2(k, S, L, d) ==
  \/ Ends2(k, L, 1, d)
  \/ /\ Len(L) >= 1
     /\ \E c \in {-1, 0, 1} : c >= d /\ First(k, L[1], S, c) /\ Ends2(k, L, 2, d - c)
Cost3(k, s, d) ==
  \/ Cost2(k, s, d)
  \/ s[1] = "opt" /\ d = 0 /\ "EOF" \notin s[2] /\ \A t \in s[2] : Weight(k, t) >= 0 /\ Ends2(k, s[3], 1, -Weight(k, t))
  \/ s[1] = "if" /\ Branch2(k, s[2], s[3], d) /\ Ends2(k, s[4], 1, d)
Mild3(k, L, f) == IsList(L) /\ \A i \in f .. Len(L) : Cost3(k, L[i], 0)
Ends3(k, L, f, d) ==
  \/ d = 0 /\ Mild3(k, L, f)
  \/ /\ IsList(L)
     /\ \E e \in f .. Len(L) : Cost3(k, L[e], d) /\ \A i \in f .. Len(L) : i # e => Cost3(k, L[i], 0)
Branch3(k, S, L, d) ==
  \/ Ends3(k, L, 1, d)
  \/ /\ Len(L) >= 1
     /\ \E c \in {-1, 0, 1} : c >= d /\ First(k, L[1], S, c) /\ Ends3(k, L, 2, d - c)

(* The cost of the steps without lists inside.                              *)
LEMMA Atoms ==
  ASSUME NEW k \in Kinds
  PROVE  /\ \A p \in Easy : \A a : Cost0(k, DoWith(p, a), 0)
         /\ \A p \in Easy : Cost0(k, Do(p), 0)
         /\ \A p \in Closers \ {"body", "body_item"} : Cost0(k, Do(p), CostDo(k, p))
         /\ \A p \in {"body", "body_item"}, a \in Members : Cost0(k, DoWith(p, a), CostDo(k, p))
         /\ Cost0(k, DoWith("name_list", Names), 0) /\ Cost0(k, DoWith("name_list", Names1), 0)
         /\ \A S : S \cap Marks = {} => Cost0(k, One(S), 0)
         /\ \A t : t # "EOF" => Cost0(k, E(t), Weight(k, t))
         /\ \A t : t \notin Marks => Cost0(k, E(t), 0)
         /\ Cost0(k, Name, 0)
         /\ \A v : Cost0(k, Node(v), 0) /\ Cost0(k, Landed(v), 0) /\ Cost0(k, Declare(v), 0)
         /\ \A u, v : Cost0(k, Binary(u, v), 0)
         /\ Cost0(k, Fail, 0) /\ Cost0(k, Newline, 0) /\ Cost0(k, Skip, 0)
  <1>1. \A p \in Easy : p \notin {"body", "body_item", "name_list"} /\ CostDo(k, p) = 0
    BY DEF Easy, CostDo
  <1>2. \A p \in Easy : \A a : Cost0(k, DoWith(p, a), 0)
    BY <1>1 DEF DoWith, DoOK, Cost0
  <1>3. \A p \in Easy : Cost0(k, Do(p), 0)
    BY <1>1 DEF Do, DoOK, Cost0
  <1>4. \A p \in Closers \ {"body", "body_item"} : Cost0(k, Do(p), CostDo(k, p))
    BY DEF Do, DoOK, Cost0, Closers
  <1>5. \A p \in {"body", "body_item"}, a \in Members : Cost0(k, DoWith(p, a), CostDo(k, p))
    BY DEF DoWith, DoOK, Cost0, Closers
  <1>6. Cost0(k, DoWith("name_list", Names), 0) /\ Cost0(k, DoWith("name_list", Names1), 0)
    BY DEF DoWith, DoOK, Cost0, CostDo
  <1>7. \A S : S \cap Marks = {} => Cost0(k, One(S), 0)
    BY WeightFacts DEF One, Marks, Cost0
  <1>8. \A t : t # "EOF" => Cost0(k, E(t), Weight(k, t))
    BY WeightFacts DEF One, E, Cost0
  <1>9. \A t : t \notin Marks => Cost0(k, E(t), 0)
    BY <1>8, WeightFacts DEF Marks
  <1>10. Cost0(k, Name, 0)
    BY <1>7 DEF Name, Names, Words, Marks
  <1>11. /\ \A v : Cost0(k, Node(v), 0) /\ Cost0(k, Landed(v), 0) /\ Cost0(k, Declare(v), 0)
         /\ \A u, v : Cost0(k, Binary(u, v), 0)
         /\ Cost0(k, Fail, 0) /\ Cost0(k, Newline, 0) /\ Cost0(k, Skip, 0)
    BY DEF Node, Landed, Declare, Binary, Fail, Newline, Skip, Still, Cost0
  <1>12. QED
    BY <1>2, <1>3, <1>4, <1>5, <1>6, <1>7, <1>8, <1>9, <1>10, <1>11

(* The cost of a step with lists inside, of steps without any.              *)
LEMMA Levels1 ==
  ASSUME NEW k \in Kinds
  PROVE  /\ \A s, d : Cost0(k, s, d) => Cost1(k, s, d)
         /\ \A S, L : S \cap Marks = {} /\ Mild0(k, L, 1) => Cost1(k, Opt(S, L), 0)
         /\ \A t \in {"(", "INDENT"} : \A L : Ends0(k, L, 1, -Weight(k, t)) => Cost1(k, Opt({t}, L), 0)
         /\ \A S, L, M : Mild0(k, L, 1) /\ Mild0(k, M, 1) => Cost1(k, If(S, L, M), 0)
         /\ \A S, L, M : /\ S \cap Marks = {} /\ Len(L) >= 1 /\ L[1] = Take
                        /\ Mild0(k, L, 2) /\ Mild0(k, M, 1) => Cost1(k, If(S, L, M), 0)
         /\ \A L, M : /\ Len(L) >= 1 /\ L[1] = Take
                     /\ Ends0(k, L, 2, -Weight(k, "(")) /\ Mild0(k, M, 1) => Cost1(k, If({"("}, L, M), 0)
         /\ \A t \in {")", "]"} : \A M : Ends0(k, M, 1, Weight(k, t)) => Cost1(k, If({t}, <<Take>>, M), Weight(k, t))
  <1>1. \A s, d : Cost0(k, s, d) => Cost1(k, s, d)
    BY DEF Cost1
  <1>2. \A S, L : S \cap Marks = {} /\ Mild0(k, L, 1) => Cost1(k, Opt(S, L), 0)
    BY WeightFacts DEF Cost1, Opt, Marks, Ends0
  <1>3. \A t \in {"(", "INDENT"} : \A L : Ends0(k, L, 1, -Weight(k, t)) => Cost1(k, Opt({t}, L), 0)
    BY WeightFacts DEF Cost1, Opt
  <1>4. \A S, L, M : Mild0(k, L, 1) /\ Mild0(k, M, 1) => Cost1(k, If(S, L, M), 0)
    BY DEF Cost1, If, Branch0, Ends0
  <1>5. ASSUME NEW S, NEW L, NEW M, S \cap Marks = {}, Len(L) >= 1, L[1] = Take,
               Mild0(k, L, 2), Mild0(k, M, 1)
        PROVE  Cost1(k, If(S, L, M), 0)
    <2>1. First(k, L[1], S, 0)
      BY <1>5, WeightFacts DEF First, Marks
    <2>2. Ends0(k, L, 2, 0 - 0) /\ Ends0(k, M, 1, 0)
      BY <1>5 DEF Ends0
    <2>3. Branch0(k, S, L, 0)
      BY <1>5, <2>1, <2>2 DEF Branch0
    <2>4. QED
      BY <2>2, <2>3 DEF Cost1, If
  <1>6. ASSUME NEW L, NEW M, Len(L) >= 1, L[1] = Take, Ends0(k, L, 2, -Weight(k, "(")), Mild0(k, M, 1)
        PROVE  Cost1(k, If({"("}, L, M), 0)
    <2> DEFINE w == Weight(k, "(")
    <2>1. First(k, L[1], {"("}, w) /\ w \in {-1, 0, 1} /\ w >= 0 /\ 0 - w = -w
      BY <1>6, WeightFacts DEF First
    <2>2. Ends0(k, L, 2, 0 - w) /\ Ends0(k, M, 1, 0)
      BY <1>6, <2>1 DEF Ends0
    <2> HIDE DEF w
    <2>3. Branch0(k, {"("}, L, 0)
      BY <1>6, <2>1, <2>2 DEF Branch0
    <2>4. QED
      BY <2>2, <2>3 DEF Cost1, If
  <1>7. ASSUME NEW t \in {")", "]"}, NEW M, Ends0(k, M, 1, Weight(k, t))
        PROVE  Cost1(k, If({t}, <<Take>>, M), Weight(k, t))
    <2> DEFINE w == Weight(k, t)
    <2>1. First(k, Take, {t}, w) /\ w \in {-1, 0, 1} /\ w >= w /\ w - w = 0
      BY <1>7, WeightFacts DEF First
    <2>2. Ends0(k, <<Take>>, 2, w - w)
      BY <2>1 DEF Ends0, Mild0, IsList
    <2>3. Ends0(k, M, 1, w)
      BY <1>7
    <2> HIDE DEF w
    <2>4. Branch0(k, {t}, <<Take>>, w)
      BY <2>1, <2>2 DEF Branch0
    <2>5. Cost1(k, If({t}, <<Take>>, M), w)
      BY <2>3, <2>4 DEF Cost1, If
    <2>6. QED
      BY <2>5 DEF w
  <1>8. QED
    BY <1>1, <1>2, <1>3, <1>4, <1>5, <1>6, <1>7

(* The cost of a step with lists inside, whose steps may have some too.     *)
LEMMA Levels2 ==
  ASSUME NEW k \in Kinds
  PROVE  /\ \A s, d : Cost1(k, s, d) => Cost2(k, s, d)
         /\ \A S, L : S \cap Marks = {} /\ Mild1(k, L, 1) => Cost2(k, Opt(S, L), 0)
         /\ \A t \in {"(", "INDENT"} : \A L : Ends1(k, L, 1, -Weight(k, t)) => Cost2(k, Opt({t}, L), 0)
         /\ \A S, L, M : Mild1(k, L, 1) /\ Mild1(k, M, 1) => Cost2(k, If(S, L, M), 0)
         /\ \A S, L, M : /\ S \cap Marks = {} /\ Len(L) >= 1 /\ L[1] = Take
                        /\ Mild1(k, L, 2) /\ Mild1(k, M, 1) => Cost2(k, If(S, L, M), 0)
         /\ \A L, M : /\ Len(L) >= 1 /\ L[1] = Take
                     /\ Ends1(k, L, 2, -Weight(k, "(")) /\ Mild1(k, M, 1) => Cost2(k, If({"("}, L, M), 0)
         /\ \A t \in {")", "]"} : \A M : Ends1(k, M, 1, Weight(k, t)) => Cost2(k, If({t}, <<Take>>, M), Weight(k, t))
  <1>1. \A s, d : Cost1(k, s, d) => Cost2(k, s, d)
    BY DEF Cost2
  <1>2. \A S, L : S \cap Marks = {} /\ Mild1(k, L, 1) => Cost2(k, Opt(S, L), 0)
    BY WeightFacts DEF Cost2, Opt, Marks, Ends1
  <1>3. \A t \in {"(", "INDENT"} : \A L : Ends1(k, L, 1, -Weight(k, t)) => Cost2(k, Opt({t}, L), 0)
    BY WeightFacts DEF Cost2, Opt
  <1>4. \A S, L, M : Mild1(k, L, 1) /\ Mild1(k, M, 1) => Cost2(k, If(S, L, M), 0)
    BY DEF Cost2, If, Branch1, Ends1
  <1>5. ASSUME NEW S, NEW L, NEW M, S \cap Marks = {}, Len(L) >= 1, L[1] = Take,
               Mild1(k, L, 2), Mild1(k, M, 1)
        PROVE  Cost2(k, If(S, L, M), 0)
    <2>1. First(k, L[1], S, 0)
      BY <1>5, WeightFacts DEF First, Marks
    <2>2. Ends1(k, L, 2, 0 - 0) /\ Ends1(k, M, 1, 0)
      BY <1>5 DEF Ends1
    <2>3. Branch1(k, S, L, 0)
      BY <1>5, <2>1, <2>2 DEF Branch1
    <2>4. QED
      BY <2>2, <2>3 DEF Cost2, If
  <1>6. ASSUME NEW L, NEW M, Len(L) >= 1, L[1] = Take, Ends1(k, L, 2, -Weight(k, "(")), Mild1(k, M, 1)
        PROVE  Cost2(k, If({"("}, L, M), 0)
    <2> DEFINE w == Weight(k, "(")
    <2>1. First(k, L[1], {"("}, w) /\ w \in {-1, 0, 1} /\ w >= 0 /\ 0 - w = -w
      BY <1>6, WeightFacts DEF First
    <2>2. Ends1(k, L, 2, 0 - w) /\ Ends1(k, M, 1, 0)
      BY <1>6, <2>1 DEF Ends1
    <2> HIDE DEF w
    <2>3. Branch1(k, {"("}, L, 0)
      BY <1>6, <2>1, <2>2 DEF Branch1
    <2>4. QED
      BY <2>2, <2>3 DEF Cost2, If
  <1>7. ASSUME NEW t \in {")", "]"}, NEW M, Ends1(k, M, 1, Weight(k, t))
        PROVE  Cost2(k, If({t}, <<Take>>, M), Weight(k, t))
    <2> DEFINE w == Weight(k, t)
    <2>1. First(k, Take, {t}, w) /\ w \in {-1, 0, 1} /\ w >= w /\ w - w = 0
      BY <1>7, WeightFacts DEF First
    <2>2. Ends1(k, <<Take>>, 2, w - w)
      BY <2>1 DEF Ends1, Mild1, IsList
    <2>3. Ends1(k, M, 1, w)
      BY <1>7
    <2> HIDE DEF w
    <2>4. Branch1(k, {t}, <<Take>>, w)
      BY <2>1, <2>2 DEF Branch1
    <2>5. Cost2(k, If({t}, <<Take>>, M), w)
      BY <2>3, <2>4 DEF Cost2, If
    <2>6. QED
      BY <2>5 DEF w
  <1>8. QED
    BY <1>1, <1>2, <1>3, <1>4, <1>5, <1>6, <1>7

(* The cost of a step with lists inside, whose steps may have two levels more. *)
LEMMA Levels3 ==
  ASSUME NEW k \in Kinds
  PROVE  /\ \A s, d : Cost2(k, s, d) => Cost3(k, s, d)
         /\ \A S, L : S \cap Marks = {} /\ Mild2(k, L, 1) => Cost3(k, Opt(S, L), 0)
         /\ \A t \in {"(", "INDENT"} : \A L : Ends2(k, L, 1, -Weight(k, t)) => Cost3(k, Opt({t}, L), 0)
         /\ \A S, L, M : Mild2(k, L, 1) /\ Mild2(k, M, 1) => Cost3(k, If(S, L, M), 0)
         /\ \A S, L, M : /\ S \cap Marks = {} /\ Len(L) >= 1 /\ L[1] = Take
                        /\ Mild2(k, L, 2) /\ Mild2(k, M, 1) => Cost3(k, If(S, L, M), 0)
         /\ \A L, M : /\ Len(L) >= 1 /\ L[1] = Take
                     /\ Ends2(k, L, 2, -Weight(k, "(")) /\ Mild2(k, M, 1) => Cost3(k, If({"("}, L, M), 0)
         /\ \A t \in {")", "]"} : \A M : Ends2(k, M, 1, Weight(k, t)) => Cost3(k, If({t}, <<Take>>, M), Weight(k, t))
  <1>1. \A s, d : Cost2(k, s, d) => Cost3(k, s, d)
    BY DEF Cost3
  <1>2. \A S, L : S \cap Marks = {} /\ Mild2(k, L, 1) => Cost3(k, Opt(S, L), 0)
    BY WeightFacts DEF Cost3, Opt, Marks, Ends2
  <1>3. \A t \in {"(", "INDENT"} : \A L : Ends2(k, L, 1, -Weight(k, t)) => Cost3(k, Opt({t}, L), 0)
    BY WeightFacts DEF Cost3, Opt
  <1>4. \A S, L, M : Mild2(k, L, 1) /\ Mild2(k, M, 1) => Cost3(k, If(S, L, M), 0)
    BY DEF Cost3, If, Branch2, Ends2
  <1>5. ASSUME NEW S, NEW L, NEW M, S \cap Marks = {}, Len(L) >= 1, L[1] = Take,
               Mild2(k, L, 2), Mild2(k, M, 1)
        PROVE  Cost3(k, If(S, L, M), 0)
    <2>1. First(k, L[1], S, 0)
      BY <1>5, WeightFacts DEF First, Marks
    <2>2. Ends2(k, L, 2, 0 - 0) /\ Ends2(k, M, 1, 0)
      BY <1>5 DEF Ends2
    <2>3. Branch2(k, S, L, 0)
      BY <1>5, <2>1, <2>2 DEF Branch2
    <2>4. QED
      BY <2>2, <2>3 DEF Cost3, If
  <1>6. ASSUME NEW L, NEW M, Len(L) >= 1, L[1] = Take, Ends2(k, L, 2, -Weight(k, "(")), Mild2(k, M, 1)
        PROVE  Cost3(k, If({"("}, L, M), 0)
    <2> DEFINE w == Weight(k, "(")
    <2>1. First(k, L[1], {"("}, w) /\ w \in {-1, 0, 1} /\ w >= 0 /\ 0 - w = -w
      BY <1>6, WeightFacts DEF First
    <2>2. Ends2(k, L, 2, 0 - w) /\ Ends2(k, M, 1, 0)
      BY <1>6, <2>1 DEF Ends2
    <2> HIDE DEF w
    <2>3. Branch2(k, {"("}, L, 0)
      BY <1>6, <2>1, <2>2 DEF Branch2
    <2>4. QED
      BY <2>2, <2>3 DEF Cost3, If
  <1>7. ASSUME NEW t \in {")", "]"}, NEW M, Ends2(k, M, 1, Weight(k, t))
        PROVE  Cost3(k, If({t}, <<Take>>, M), Weight(k, t))
    <2> DEFINE w == Weight(k, t)
    <2>1. First(k, Take, {t}, w) /\ w \in {-1, 0, 1} /\ w >= w /\ w - w = 0
      BY <1>7, WeightFacts DEF First
    <2>2. Ends2(k, <<Take>>, 2, w - w)
      BY <2>1 DEF Ends2, Mild2, IsList
    <2>3. Ends2(k, M, 1, w)
      BY <1>7
    <2> HIDE DEF w
    <2>4. Branch2(k, {t}, <<Take>>, w)
      BY <2>1, <2>2 DEF Branch2
    <2>5. Cost3(k, If({t}, <<Take>>, M), w)
      BY <2>3, <2>4 DEF Cost3, If
    <2>6. QED
      BY <2>5 DEF w
  <1>8. QED
    BY <1>1, <1>2, <1>3, <1>4, <1>5, <1>6, <1>7

-----------------------------------------------------------------------------
(***************************************************************************)
(* The walk of a list of steps, from x open brackets to y.  The cursor is  *)
(* known, q, as long as nothing but tokens that were seen is taken; it is  *)
(* 0 once it is not.                                                       *)
(***************************************************************************)
TokOf(T, i) == IF i \in 1 .. Len(T) THEN T[i] ELSE "EOF"
Begins(T, p, q) ==
  /\ q \in 1 .. Len(T) /\ T[q] \in Lead(p)
  /\ p \in {"parse_handle", "parse_extend"} => TokOf(T, q + 1) \in Names
  /\ p = "parse_type_builtin" /\ T[q] = "memory" => TokOf(T, q + 1) = "." /\ TokOf(T, q + 2) = "size_of"
Taken(T, q) == q \in 1 .. Len(T) /\ T[q] # "EOF"
Move(T, k, s, q, r, x, y) ==
  \/ Cost3(k, s, y - x) /\ r = 0
  \/ s = Enter /\ y = x + Up(k) /\ r \in {q, 0}
  \/ s = Leave /\ y = x - Up(k) /\ r = 0
  \/ s[1] = "declare" /\ y = x /\ r = q
  \/ s = Take /\ Taken(T, q) /\ y = x + Weight(k, T[q]) /\ r \in {q + 1, 0}
  \/ s[1] = "do" /\ s[2] \in Led /\ DoOK(s[2], s[3]) /\ Begins(T, s[2], q) /\ y = x /\ r = 0
  \/ s[1] = "progress" /\ y = x /\ r = 0
Runs(T, k, L, q, x, y) ==
  /\ IsList(L)
  /\ \E c, h \in [1 .. Len(L) + 1 -> Nat] :
       /\ c[1] \in {q, 0} /\ h[1] = x /\ h[Len(L) + 1] = y
       /\ \A i \in 1 .. Len(L) : Move(T, k, L[i], c[i], c[i + 1], h[i], h[i + 1])

(* A step that knows the cursor may forget it.                              *)
LEMMA MoveForgets ==
  ASSUME NEW T, NEW k, NEW s, NEW q, NEW r, NEW x \in Nat, NEW y, Move(T, k, s, q, r, x, y)
  PROVE  Move(T, k, s, q, 0, x, y)
  <1>1. CASE s[1] = "declare" /\ y = x
    <2>1. Cost0(k, s, 0)
      BY <1>1 DEF Cost0, Still
    <2>2. QED
      BY <1>1, <2>1 DEF Move, Cost3, Cost2, Cost1
  <1>2. QED
    BY <1>1 DEF Move

(* A walk starts and ends at a count.                                       *)
LEMMA RunsCounts ==
  ASSUME NEW T, NEW k, NEW L, NEW q, NEW x, NEW y, Runs(T, k, L, q, x, y)
  PROVE  IsList(L) /\ Len(L) \in Nat /\ x \in Nat /\ y \in Nat
  BY DEF Runs, IsList

(* A walk that does not know the cursor is one from anywhere.               *)
LEMMA RunsAnywhere ==
  ASSUME NEW T, NEW k, NEW L, NEW q, NEW x, NEW y, Runs(T, k, L, 0, x, y)
  PROVE  Runs(T, k, L, q, x, y)
  BY DEF Runs

(* One walk after another.                                                  *)
LEMMA RunsJoin ==
  ASSUME NEW T, NEW k, NEW L, NEW M, NEW q \in Nat, NEW x, NEW y, NEW z,
         Runs(T, k, L, q, x, y), Runs(T, k, M, 0, y, z)
  PROVE  Runs(T, k, L \o M, q, x, z)
  <1>1. IsList(L) /\ IsList(M) /\ Len(L) \in Nat /\ Len(M) \in Nat
    BY DEF Runs, IsList
  <1>2. PICK c, h \in [1 .. Len(L) + 1 -> Nat] :
       /\ c[1] \in {q, 0} /\ h[1] = x /\ h[Len(L) + 1] = y
       /\ \A i \in 1 .. Len(L) : Move(T, k, L[i], c[i], c[i + 1], h[i], h[i + 1])
    BY DEF Runs
  <1>3. PICK e, g \in [1 .. Len(M) + 1 -> Nat] :
       /\ e[1] \in {0, 0} /\ g[1] = y /\ g[Len(M) + 1] = z
       /\ \A i \in 1 .. Len(M) : Move(T, k, M[i], e[i], e[i + 1], g[i], g[i + 1])
    BY DEF Runs
  <1> DEFINE n == Len(L)
             N == Len(L) + Len(M)
             cc == [i \in 1 .. N + 1 |-> IF i <= n THEN c[i] ELSE e[i - n]]
             hh == [i \in 1 .. N + 1 |-> IF i <= n THEN h[i] ELSE g[i - n]]
  <1>4. Len(L \o M) = N /\ IsList(L \o M) /\ N \in Nat /\ n \in Nat
    BY <1>1, Joined
  <1>5. cc \in [1 .. N + 1 -> Nat] /\ hh \in [1 .. N + 1 -> Nat]
    BY <1>1, <1>2, <1>3
  <1>6. cc[1] \in {q, 0}
    BY <1>1, <1>2, <1>3
  <1>7. hh[1] = x
    BY <1>1, <1>2, <1>3
  <1>8. hh[N + 1] = z
    BY <1>1, <1>2, <1>3
  <1>9. ASSUME NEW i \in 1 .. N
        PROVE  Move(T, k, (L \o M)[i], cc[i], cc[i + 1], hh[i], hh[i + 1])
    <2>1. CASE i < n
      <3>1. (L \o M)[i] = L[i] /\ cc[i] = c[i] /\ cc[i + 1] = c[i + 1] /\ hh[i] = h[i] /\ hh[i + 1] = h[i + 1]
        BY <1>1, <1>4, <2>1, Joined
      <3>2. QED
        BY <1>2, <1>4, <2>1, <3>1
    <2>2. CASE i = n
      <3>1. (L \o M)[i] = L[i] /\ cc[i] = c[i] /\ cc[i + 1] = 0 /\ hh[i] = h[i] /\ hh[i + 1] = y
        BY <1>1, <1>3, <1>4, <2>2, Joined
      <3>2. Move(T, k, L[i], c[i], c[i + 1], h[i], h[i + 1])
        BY <1>2, <1>4, <2>2
      <3>3. Move(T, k, L[i], c[i], 0, h[i], h[i + 1])
        BY <1>2, <1>4, <2>2, <3>2, MoveForgets
      <3>4. QED
        BY <1>2, <2>2, <3>1, <3>3
    <2>3. CASE i > n
      <3> DEFINE j == i - n
      <3>1. j \in 1 .. Len(M) /\ i = n + j
        BY <1>1, <1>4, <2>3
      <3>2. (L \o M)[i] = M[j]
        BY <1>1, <3>1, Joined
      <3>3. cc[i] = e[j] /\ cc[i + 1] = e[j + 1] /\ hh[i] = g[j] /\ hh[i + 1] = g[j + 1]
        BY <1>1, <1>4, <2>3, <3>1
      <3> HIDE DEF j
      <3>4. QED
        BY <1>3, <3>1, <3>2, <3>3
    <2>4. QED
      BY <1>4, <2>1, <2>2, <2>3
  <1> HIDE DEF cc, hh, N
  <1>10. QED
    BY <1>4, <1>5, <1>6, <1>7, <1>8, <1>9 DEF Runs

(* A walk of one step.                                                      *)
LEMMA RunsOne ==
  ASSUME NEW T, NEW k, NEW s, NEW q \in Nat, NEW r \in Nat, NEW x \in Nat, NEW y \in Nat,
         Move(T, k, s, q, r, x, y)
  PROVE  Runs(T, k, <<s>>, q, x, y)
  <1> DEFINE c == [i \in 1 .. 2 |-> IF i = 1 THEN q ELSE r]
             h == [i \in 1 .. 2 |-> IF i = 1 THEN x ELSE y]
             L == <<s>>
  <1>1. IsList(L) /\ Len(L) = 1 /\ L[1] = s
    BY DEF IsList
  <1>2. c \in [1 .. 1 + 1 -> Nat] /\ h \in [1 .. 1 + 1 -> Nat]
    OBVIOUS
  <1>3. c[1] = q /\ c[1 + 1] = r /\ h[1] = x /\ h[1 + 1] = y
    OBVIOUS
  <1> HIDE DEF c, h, L
  <1>4. \A i \in 1 .. 1 : Move(T, k, L[i], c[i], c[i + 1], h[i], h[i + 1])
    BY <1>1, <1>3
  <1>5. Runs(T, k, L, q, x, y)
    BY <1>1, <1>2, <1>3, <1>4 DEF Runs
  <1>6. QED
    BY <1>5 DEF L

(* A step before a walk.                                                    *)
LEMMA RunsCons ==
  ASSUME NEW T, NEW k, NEW s, NEW M, NEW q \in Nat, NEW r \in Nat, NEW x \in Nat, NEW y, NEW z,
         Move(T, k, s, q, r, x, y), Move(T, k, s, q, 0, x, y), Runs(T, k, M, r, y, z)
  PROVE  Runs(T, k, <<s>> \o M, q, x, z)
  <1>1. PICK e, g \in [1 .. Len(M) + 1 -> Nat] :
       /\ e[1] \in {r, 0} /\ g[1] = y /\ g[Len(M) + 1] = z
       /\ \A i \in 1 .. Len(M) : Move(T, k, M[i], e[i], e[i + 1], g[i], g[i + 1])
    BY DEF Runs
  <1> DEFINE L == <<s>>
             N == 1 + Len(M)
             cc == [i \in 1 .. N + 1 |-> IF i = 1 THEN q ELSE e[i - 1]]
             hh == [i \in 1 .. N + 1 |-> IF i = 1 THEN x ELSE g[i - 1]]
  <1>2. IsList(L) /\ Len(L) = 1 /\ L[1] = s /\ IsList(M) /\ Len(M) \in Nat
    BY DEF IsList, Runs
  <1>3. Len(L \o M) = N /\ IsList(L \o M) /\ N \in Nat /\ (L \o M)[1] = s
    BY <1>2, Joined
  <1>4. cc \in [1 .. N + 1 -> Nat] /\ hh \in [1 .. N + 1 -> Nat]
    BY <1>1, <1>2
  <1>5. cc[1] = q /\ hh[1] = x /\ cc[2] = e[1] /\ hh[2] = y /\ hh[N + 1] = z
    BY <1>1, <1>2
  <1>6. ASSUME NEW i \in 1 .. N
        PROVE  Move(T, k, (L \o M)[i], cc[i], cc[i + 1], hh[i], hh[i + 1])
    <2>1. CASE i = 1
      BY <1>1, <1>3, <1>5, <2>1
    <2>2. CASE i # 1
      <3> DEFINE j == i - 1
      <3>1. j \in 1 .. Len(M) /\ i = 1 + j
        BY <1>2, <2>2
      <3>2. (L \o M)[i] = M[j]
        BY <1>2, <3>1, Joined
      <3>3. cc[i] = e[j] /\ cc[i + 1] = e[j + 1] /\ hh[i] = g[j] /\ hh[i + 1] = g[j + 1]
        BY <1>2, <2>2, <3>1
      <3> HIDE DEF j
      <3>4. QED
        BY <1>1, <3>1, <3>2, <3>3
    <2>3. QED
      BY <2>1, <2>2
  <1> HIDE DEF cc, hh, N
  <1>7. Runs(T, k, L \o M, q, x, z)
    BY <1>3, <1>4, <1>5, <1>6 DEF Runs
  <1>8. QED
    BY <1>7 DEF L

(* The first step of a walk, and the walk after it.                         *)
LEMMA RunsHead ==
  ASSUME NEW T, NEW k, NEW L, NEW q, NEW x, NEW z, Runs(T, k, L, q, x, z), L # << >>
  PROVE  \E p \in {q, 0}, r \in Nat, y \in Nat :
            Move(T, k, Head(L), p, r, x, y) /\ Runs(T, k, Tail(L), r, y, z)
  <1>1. PICK c, h \in [1 .. Len(L) + 1 -> Nat] :
       /\ c[1] \in {q, 0} /\ h[1] = x /\ h[Len(L) + 1] = z
       /\ \A i \in 1 .. Len(L) : Move(T, k, L[i], c[i], c[i + 1], h[i], h[i + 1])
    BY DEF Runs
  <1> DEFINE n == Len(L) - 1
             M == Tail(L)
             cc == [i \in 1 .. n + 1 |-> c[i + 1]]
             hh == [i \in 1 .. n + 1 |-> h[i + 1]]
  <1>2. IsList(L) /\ Len(L) \in Nat /\ n \in Nat /\ Head(L) = L[1]
    BY Beheaded DEF Runs, IsList
  <1>3. IsList(M) /\ Len(M) = n /\ \A i \in 1 .. n : M[i] = L[i + 1]
    BY <1>2, Beheaded
  <1>4. cc \in [1 .. n + 1 -> Nat] /\ hh \in [1 .. n + 1 -> Nat]
    BY <1>1, <1>2
  <1>5. cc[1] = c[2] /\ hh[1] = h[2] /\ hh[n + 1] = z
    BY <1>1, <1>2
  <1>6. ASSUME NEW i \in 1 .. n
        PROVE  Move(T, k, M[i], cc[i], cc[i + 1], hh[i], hh[i + 1])
    <2> DEFINE j == i + 1
    <2>1. j \in 1 .. Len(L) /\ M[i] = L[j]
      BY <1>2, <1>3
    <2>2. cc[i] = c[j] /\ cc[i + 1] = c[j + 1] /\ hh[i] = h[j] /\ hh[i + 1] = h[j + 1]
      BY <1>2
    <2> HIDE DEF j
    <2>3. QED
      BY <1>1, <2>1, <2>2
  <1>7. Move(T, k, Head(L), c[1], c[2], x, h[2]) /\ c[2] \in Nat /\ h[2] \in Nat
    BY <1>1, <1>2
  <1> HIDE DEF cc, hh, n, M
  <1>8. Runs(T, k, M, c[2], h[2], z)
    BY <1>3, <1>4, <1>5, <1>6 DEF Runs
  <1>9. QED
    BY <1>1, <1>7, <1>8 DEF M

(* What the steps that call a production are.                               *)
LEMMA Calls ==
  /\ \A p : Do(p)[1] = "do" /\ Do(p)[2] = p /\ Do(p)[3] = ""
  /\ \A p, a : DoWith(p, a)[1] = "do" /\ DoWith(p, a)[2] = p /\ DoWith(p, a)[3] = a
  BY DEF Do, DoWith

(* The steps that only take tokens, or call at one, cost nothing unless     *)
(* levels are counted, when they may come anywhere.                         *)
LEMMA TakesCost ==
  ASSUME NEW k \in Kinds, NEW s, NEW d, Cost3(k, s, d)
  PROVE  /\ s[1] \in {"take", "sync"} => k = "nest" /\ d = 0
         /\ s[1] \notin {"enter", "leave", "progress"}
  <1>1. RangeEnd[1] = "opt" /\ Align[1] = "opt"
    BY DEF RangeEnd, Align, Opt
  <1>2. Cost0(k, s, d) \/ s[1] \in {"opt", "if", "list"}
    BY <1>1 DEF Cost3, Cost2, Cost1
  <1>3. QED
    BY <1>2 DEF Cost0, Still

-----------------------------------------------------------------------------
(***************************************************************************)
(* The lists of a production's steps.  Tokens that were seen are taken at  *)
(* their start, and what is called at a token comes after such takes.      *)
(***************************************************************************)
Ahead(T, L, i, q) == \A j \in 1 .. i - 1 : L[j] = Take /\ Taken(T, q + j - 1)
Slot(T, k, L, i, q, v) ==
  \/ Cost3(k, L[i], v)
  \/ L[i] = Enter /\ v = Up(k)
  \/ L[i] = Leave /\ v = -Up(k)
  \/ L[i] = Take /\ Ahead(T, L, i, q) /\ Taken(T, q + i - 1) /\ v = Weight(k, T[q + i - 1])
  \/ /\ L[i][1] = "do" /\ L[i][2] \in Led /\ DoOK(L[i][2], L[i][3]) /\ v = 0
     /\ Ahead(T, L, i, q) /\ Begins(T, L[i][2], q + i - 1)
  \/ L[i][1] = "progress" /\ v = 0
(* Step m costs a and step n costs b; the others cost nothing.              *)
Slots(T, k, L, q, m, n, a, b) ==
  /\ IsList(L)
  /\ \A i \in 1 .. Len(L) :
       /\ i = m => Slot(T, k, L, i, q, a)
       /\ i = n => Slot(T, k, L, i, q, b)
       /\ i # m /\ i # n => Slot(T, k, L, i, q, 0)

(* A step taken at the cursor costs what the token there weighs.            *)
LEMMA SlotTake ==
  ASSUME NEW T, NEW k \in Kinds, NEW L, NEW i, NEW q, NEW v, Slot(T, k, L, i, q, v),
         L[i] = Take, Taken(T, q + i - 1)
  PROVE  v = Weight(k, T[q + i - 1])
  <1>1. L[i][1] = "take" /\ Take # Enter /\ Take # Leave
    BY DEF Take, Enter, Leave
  <1>2. QED
    BY <1>1, TakesCost, WeightFacts DEF Slot

(* Such a list is a walk.                                                   *)
LEMMA SlotsRun ==
  ASSUME NEW T, NEW k \in Kinds, NEW L, NEW q \in Nat, NEW x \in Nat, NEW m \in Nat, NEW n \in Nat, m < n,
         NEW a \in Int, NEW b \in Int, Slots(T, k, L, q, m, n, a, b), x + a \in Nat,
         NEW z \in Nat, z = x + a + b,
         m \in 1 .. Len(L) \/ a = 0, n \in 1 .. Len(L) \/ b = 0
  PROVE  Runs(T, k, L, q, x, z)
  <1> DEFINE N == Len(L)
             v == [i \in 1 .. N |-> IF i = m THEN a ELSE IF i = n THEN b ELSE 0]
             c == [i \in 1 .. N + 1 |-> IF Ahead(T, L, i, q) THEN q + i - 1 ELSE 0]
             h == [i \in 1 .. N + 1 |-> IF i <= m THEN x ELSE IF i <= n THEN x + a ELSE x + a + b]
  <1>1. N \in Nat /\ IsList(L)
    BY DEF Slots, IsList
  <1>2. c \in [1 .. N + 1 -> Nat]
    BY <1>1
  <1>3. h \in [1 .. N + 1 -> Nat]
    BY <1>1
  <1>4. c[1] \in {q, 0}
    BY <1>1
  <1>5. h[1] = x
    BY <1>1
  <1>6. h[N + 1] = z
    BY <1>1
  <1>7. ASSUME NEW i \in 1 .. N
        PROVE  Move(T, k, L[i], c[i], c[i + 1], h[i], h[i + 1])
    <2>1. Slot(T, k, L, i, q, v[i])
      BY DEF Slots
    <2>2. h[i + 1] = h[i] + v[i] /\ h[i] \in Int /\ v[i] \in Int
      BY <1>1
    <2>3. /\ c[i] = IF Ahead(T, L, i, q) THEN q + i - 1 ELSE 0
          /\ c[i + 1] = IF Ahead(T, L, i + 1, q) THEN q + (i + 1) - 1 ELSE 0
      BY <1>1
    <2> HIDE DEF v, c, h
    <2>4. CASE L[i] = Take /\ Ahead(T, L, i, q) /\ Taken(T, q + i - 1)
      <3>1. v[i] = Weight(k, T[q + i - 1])
        BY <2>1, <2>4, SlotTake
      <3>2. c[i] = q + i - 1 /\ c[i + 1] \in {q + i, 0}
        BY <2>3, <2>4
      <3>3. c[i] + 1 = q + i
        BY <3>2
      <3>4. QED
        BY <2>2, <2>4, <3>1, <3>2, <3>3 DEF Move
    <2>5. CASE ~(L[i] = Take /\ Ahead(T, L, i, q) /\ Taken(T, q + i - 1))
      <3>1. ~Ahead(T, L, i + 1, q)
        BY <1>1, <2>5 DEF Ahead
      <3>2. c[i + 1] = 0
        BY <2>3, <3>1
      <3>3. h[i + 1] - h[i] = v[i]
        BY <2>2
      <3>4. CASE Cost3(k, L[i], v[i])
        BY <3>2, <3>3, <3>4 DEF Move
      <3>5. CASE L[i] = Enter /\ v[i] = Up(k)
        BY <2>2, <3>2, <3>5 DEF Move
      <3>6. CASE L[i] = Leave /\ v[i] = -Up(k)
        <4>1. h[i + 1] = h[i] - Up(k)
          BY <2>2, <3>6 DEF Up
        <4>2. QED
          BY <3>2, <3>6, <4>1 DEF Move
      <3>7. CASE /\ L[i][1] = "do" /\ L[i][2] \in Led /\ DoOK(L[i][2], L[i][3]) /\ v[i] = 0
                 /\ Ahead(T, L, i, q) /\ Begins(T, L[i][2], q + i - 1)
        <4>1. h[i + 1] = h[i] /\ c[i] = q + i - 1
          BY <2>2, <2>3, <3>7
        <4>2. QED
          BY <3>2, <3>7, <4>1 DEF Move
      <3>8. CASE L[i][1] = "progress" /\ v[i] = 0
        <4>1. h[i + 1] = h[i]
          BY <2>2, <3>8
        <4>2. QED
          BY <3>2, <3>8, <4>1 DEF Move
      <3>9. QED
        BY <2>1, <2>5, <3>4, <3>5, <3>6, <3>7, <3>8 DEF Slot
    <2>6. QED
      BY <2>4, <2>5
  <1> HIDE DEF c, h
  <1>8. QED
    BY <1>1, <1>2, <1>3, <1>4, <1>5, <1>6, <1>7 DEF Runs

(* Lists inside a step are of steps that may come anywhere.                 *)
LEMMA LevelsUp ==
  ASSUME NEW k \in Kinds
  PROVE  /\ \A s, d : Cost0(k, s, d) => Cost3(k, s, d)
         /\ \A s, d : Cost1(k, s, d) => Cost3(k, s, d)
         /\ \A s, d : Cost2(k, s, d) => Cost3(k, s, d)
         /\ \A L, f, d : Ends0(k, L, f, d) \/ Ends1(k, L, f, d) \/ Ends2(k, L, f, d) => Ends3(k, L, f, d)
         /\ \A S, L, d : Branch0(k, S, L, d) \/ Branch1(k, S, L, d) \/ Branch2(k, S, L, d) => Branch3(k, S, L, d)
  <1>1. /\ \A s, d : Cost0(k, s, d) => Cost3(k, s, d)
        /\ \A s, d : Cost1(k, s, d) => Cost3(k, s, d)
        /\ \A s, d : Cost2(k, s, d) => Cost3(k, s, d)
    BY Levels1, Levels2, Levels3
  <1>2. \A L, f, d : Ends0(k, L, f, d) => Ends3(k, L, f, d)
    BY <1>1 DEF Ends0, Ends3, Mild0, Mild3
  <1>3. \A L, f, d : Ends1(k, L, f, d) => Ends3(k, L, f, d)
    BY <1>1 DEF Ends1, Ends3, Mild1, Mild3
  <1>4. \A L, f, d : Ends2(k, L, f, d) => Ends3(k, L, f, d)
    BY <1>1 DEF Ends2, Ends3, Mild2, Mild3
  <1>5. \A S, L, d : Branch0(k, S, L, d) => Branch3(k, S, L, d)
    BY <1>2 DEF Branch0, Branch3
  <1>6. \A S, L, d : Branch1(k, S, L, d) => Branch3(k, S, L, d)
    BY <1>3 DEF Branch1, Branch3
  <1>7. \A S, L, d : Branch2(k, S, L, d) => Branch3(k, S, L, d)
    BY <1>4 DEF Branch2, Branch3
  <1>8. QED
    BY <1>1, <1>2, <1>3, <1>4, <1>5, <1>6, <1>7

(* What is inside a step whose cost is known.                               *)
LEMMA Inside_ ==
  ASSUME NEW k \in Kinds, NEW s, NEW d, Cost3(k, s, d)
  PROVE  /\ s[1] = "opt" => /\ d = 0
                            /\ \/ s \in {RangeEnd, Align}
                               \/ "EOF" \notin s[2] /\ \A t \in s[2] : Weight(k, t) >= 0 /\ Ends3(k, s[3], 1, -Weight(k, t))
         /\ s[1] = "if" => Branch3(k, s[2], s[3], d) /\ Ends3(k, s[4], 1, d)
         /\ s[1] = "list" => d = 0 /\ Mild0(k, s[3], 1)
  <1>1. RangeEnd[1] = "opt" /\ Align[1] = "opt"
    BY DEF RangeEnd, Align, Opt
  <1>2. ~(s[1] \in {"opt", "if", "list"} /\ Cost0(k, s, d))
    BY DEF Cost0, Still
  <1>3. ASSUME s[1] = "opt"
        PROVE  /\ d = 0
               /\ \/ s \in {RangeEnd, Align}
                  \/ "EOF" \notin s[2] /\ \A t \in s[2] : Weight(k, t) >= 0 /\ Ends3(k, s[3], 1, -Weight(k, t))
    BY <1>1, <1>2, <1>3, LevelsUp DEF Cost3, Cost2, Cost1
  <1>4. ASSUME s[1] = "if"
        PROVE  Branch3(k, s[2], s[3], d) /\ Ends3(k, s[4], 1, d)
    BY <1>1, <1>2, <1>4, LevelsUp DEF Cost3, Cost2, Cost1
  <1>5. ASSUME s[1] = "list"
        PROVE  d = 0 /\ Mild0(k, s[3], 1)
    BY <1>1, <1>2, <1>5, LevelsUp DEF Cost3, Cost2, Cost1
  <1>6. QED
    BY <1>3, <1>4, <1>5

(* A list inside a step is a walk from anywhere.                            *)
LEMMA EndsRun ==
  ASSUME NEW T, NEW k \in Kinds, NEW L, NEW q \in Nat, NEW x \in Nat, NEW d \in Int, x + d \in Nat,
         Ends3(k, L, 1, d)
  PROVE  Runs(T, k, L, q, x, x + d)
  <1>1. CASE d = 0 /\ Mild3(k, L, 1)
    <2>1. Slots(T, k, L, q, 0, 1, 0, 0)
      BY <1>1 DEF Mild3, Slots, Slot
    <2>2. x + d = x + 0 + 0 /\ x + 0 \in Nat /\ 0 \in Nat /\ 1 \in Nat /\ 0 < 1 /\ 0 \in Int
      BY <1>1
    <2>3. QED
      BY <2>1, <2>2, SlotsRun
  <1>2. ASSUME NEW e \in 1 .. Len(L), IsList(L), Cost3(k, L[e], d),
               \A i \in 1 .. Len(L) : i # e => Cost3(k, L[i], 0)
        PROVE  Runs(T, k, L, q, x, x + d)
    <2>1. Slots(T, k, L, q, 0, e, 0, d) /\ e \in Nat /\ 0 < e
      BY <1>2 DEF Slots, Slot, IsList
    <2>2. x + d = x + 0 + d /\ x + 0 \in Nat /\ 0 \in Int /\ 0 \in Nat
      OBVIOUS
    <2>3. QED
      BY <1>2, <2>1, <2>2, SlotsRun
  <1>3. QED
    BY <1>1, <1>2 DEF Ends3

(* A list that one of S decides is a walk from it.                          *)
LEMMA BranchRun ==
  ASSUME NEW T, NEW k \in Kinds, NEW S, NEW L, NEW q \in Nat, NEW x \in Nat, NEW d \in Int, x + d \in Nat,
         Branch3(k, S, L, d), q \in 1 .. Len(T), T[q] \in S
  PROVE  Runs(T, k, L, q, x, x + d)
  <1>1. CASE Ends3(k, L, 1, d)
    BY <1>1, EndsRun
  <1>2. ASSUME NEW c \in {-1, 0, 1}, c >= d, Len(L) >= 1, First(k, L[1], S, c), Ends3(k, L, 2, d - c)
        PROVE  Runs(T, k, L, q, x, x + d)
    <2>1. IsList(L)
      BY <1>2 DEF Ends3, Mild3
    <2>2. Slot(T, k, L, 1, q, c)
      <3>1. Ahead(T, L, 1, q) /\ q + 1 - 1 = q
        BY DEF Ahead
      <3>2. CASE L[1] = Take /\ "EOF" \notin S /\ \A t \in S : Weight(k, t) = c
        BY <3>1, <3>2 DEF Slot, Taken
      <3>3. CASE L[1] = Do("parse_free") /\ S = {"free"} /\ c = 0
        <4>1. L[1][1] = "do" /\ L[1][2] = "parse_free" /\ L[1][3] = ""
          BY <3>3, Calls
        <4>2. "parse_free" \in Led /\ DoOK("parse_free", "") /\ Begins(T, "parse_free", q)
          BY <3>3 DEF Led, DoOK, Begins, Lead
        <4>3. QED
          BY <3>1, <3>3, <4>1, <4>2 DEF Slot
      <3>4. QED
        BY <1>2, <3>2, <3>3 DEF First
    <2>3. x + c \in Nat /\ 1 \in 1 .. Len(L) /\ Len(L) \in Nat
      BY <1>2, <2>1 DEF IsList
    <2>4. CASE d - c = 0 /\ Mild3(k, L, 2)
      <3>1. Slots(T, k, L, q, 1, 2, c, 0)
        BY <2>1, <2>2, <2>3, <2>4 DEF Mild3, Slots, Slot
      <3>2. x + d = x + c + 0 /\ c \in Int
        BY <2>4
      <3>3. QED
        BY <2>3, <3>1, <3>2, SlotsRun
    <2>5. ASSUME NEW e \in 2 .. Len(L), Cost3(k, L[e], d - c),
                 \A i \in 2 .. Len(L) : i # e => Cost3(k, L[i], 0)
          PROVE  Runs(T, k, L, q, x, x + d)
      <3>1. \A i \in 1 .. Len(L) : i # 1 => i \in 2 .. Len(L)
        BY <2>3
      <3>2. Slots(T, k, L, q, 1, e, c, d - c) /\ e \in Nat /\ 1 < e /\ e \in 1 .. Len(L)
        BY <2>1, <2>2, <2>3, <2>5, <3>1 DEF Slots, Slot
      <3> DEFINE b == d - c
      <3>3. b \in Int /\ x + d = x + c + b /\ c \in Int
        OBVIOUS
      <3>4. Slots(T, k, L, q, 1, e, c, b)
        BY <3>2
      <3> HIDE DEF b
      <3>5. QED
        BY <2>3, <3>2, <3>3, <3>4, SlotsRun
    <2>6. QED
      BY <1>2, <2>4, <2>5 DEF Ends3
  <1>3. QED
    BY <1>1, <1>2 DEF Branch3

-----------------------------------------------------------------------------
(***************************************************************************)
(* The steps of a production.  Most lists open nothing that they do not    *)
(* close in a step; a few open a bracket with one step and close it with   *)
(* another.                                                                *)
(***************************************************************************)
Opening(T, s, q) ==
  \/ s = Take /\ q \in 1 .. Len(T) /\ T[q] \notin Marks
  \/ s[1] = "do" /\ s[2] \in Led /\ DoOK(s[2], s[3]) /\ Begins(T, s[2], q)
Free(T, k, L, i, q) ==
  \/ Cost3(k, L[i], 0)
  \/ i = 1 /\ Opening(T, L[1], q)
  \/ i = 2 /\ L[1] = Take /\ Opening(T, L[1], q) /\ Opening(T, L[2], q + 1)
  \/ /\ i = 3 /\ L[1] = Take /\ L[2] = Take
     /\ Opening(T, L[1], q) /\ Opening(T, L[2], q + 1) /\ Opening(T, L[3], q + 2)
Neutral(T, k, L, q) == IsList(L) /\ \A i \in 1 .. Len(L) : Free(T, k, L, i, q)
Wrapped(T, k, L, q, m, n, w) ==
  /\ IsList(L) /\ m \in 1 .. Len(L) /\ n \in 1 .. Len(L) /\ m < n
  /\ Cost3(k, L[m], w) \/ (m = 1 /\ L[1] = Take /\ Taken(T, q) /\ Weight(k, T[q]) = w)
  /\ Cost3(k, L[n], -w)
  /\ \A i \in 1 .. Len(L) : i \notin {m, n} => Free(T, k, L, i, q)

(* A step taken or called at a token that is no bracket costs nothing.      *)
LEMMA OpeningSlot ==
  ASSUME NEW T, NEW k \in Kinds, NEW L, NEW i \in Nat, NEW q \in Nat,
         Opening(T, L[i], q + i - 1), Ahead(T, L, i, q)
  PROVE  Slot(T, k, L, i, q, 0)
  <1>1. CASE L[i] = Take /\ q + i - 1 \in 1 .. Len(T) /\ T[q + i - 1] \notin Marks
    <2>1. Taken(T, q + i - 1) /\ Weight(k, T[q + i - 1]) = 0
      BY <1>1, WeightFacts DEF Taken, Marks
    <2>2. QED
      BY <1>1, <2>1 DEF Slot
  <1>2. QED
    BY <1>1 DEF Slot, Opening

(* A free step costs nothing.                                               *)
LEMMA FreeSlot ==
  ASSUME NEW T, NEW k \in Kinds, NEW L, NEW i \in Nat, NEW q \in Nat, Free(T, k, L, i, q)
  PROVE  Slot(T, k, L, i, q, 0)
  <1>1. CASE Cost3(k, L[i], 0)
    BY <1>1 DEF Slot
  <1>2. ASSUME NEW p, L[p] = Take, Opening(T, L[p], q + p - 1)
        PROVE  Taken(T, q + p - 1)
    <2>1. Take[1] # "do"
      BY DEF Take
    <2>2. QED
      BY <1>2, <2>1 DEF Opening, Taken, Marks
  <1>3. CASE i = 1 /\ Opening(T, L[1], q)
    <2>1. Ahead(T, L, i, q) /\ q + i - 1 = q
      BY <1>3 DEF Ahead
    <2>2. QED
      BY <1>3, <2>1, OpeningSlot
  <1>4. CASE i = 2 /\ L[1] = Take /\ Opening(T, L[1], q) /\ Opening(T, L[2], q + 1)
    <2>1. q + 1 - 1 = q /\ q + 2 - 1 = q + 1
      OBVIOUS
    <2>2. Taken(T, q + 1 - 1)
      BY <1>2, <1>4, <2>1
    <2>3. Ahead(T, L, i, q)
      BY <1>4, <2>2 DEF Ahead
    <2>4. QED
      BY <1>4, <2>1, <2>3, OpeningSlot
  <1>5. CASE /\ i = 3 /\ L[1] = Take /\ L[2] = Take
             /\ Opening(T, L[1], q) /\ Opening(T, L[2], q + 1) /\ Opening(T, L[3], q + 2)
    <2>1. q + 1 - 1 = q /\ q + 2 - 1 = q + 1 /\ q + 3 - 1 = q + 2
      OBVIOUS
    <2>2. Taken(T, q + 1 - 1) /\ Taken(T, q + 2 - 1)
      BY <1>2, <1>5, <2>1
    <2>3. Ahead(T, L, i, q)
      BY <1>5, <2>2 DEF Ahead
    <2>4. QED
      BY <1>5, <2>1, <2>3, OpeningSlot
  <1>6. QED
    BY <1>1, <1>3, <1>4, <1>5 DEF Free

(* A neutral list walks back to where it started.                           *)
LEMMA NeutralRuns ==
  ASSUME NEW T, NEW k \in Kinds, NEW L, NEW q \in Nat, NEW x \in Nat, Neutral(T, k, L, q)
  PROVE  Runs(T, k, L, q, x, x)
  <1>1. Slots(T, k, L, q, 0, 1, 0, 0)
    BY FreeSlot DEF Slots, Neutral
  <1>2. x = x + 0 + 0 /\ x + 0 \in Nat /\ 0 \in Nat /\ 1 \in Nat /\ 0 < 1 /\ 0 \in Int
    OBVIOUS
  <1>3. QED
    BY <1>1, <1>2, SlotsRun

(* So does a list that closes what it opens.                                *)
LEMMA WrappedRuns ==
  ASSUME NEW T, NEW k \in Kinds, NEW L, NEW q \in Nat, NEW x \in Nat, NEW m, NEW n, NEW w \in {0, 1},
         Wrapped(T, k, L, q, m, n, w)
  PROVE  Runs(T, k, L, q, x, x)
  <1>1. m \in Nat /\ n \in Nat /\ m < n /\ IsList(L) /\ Len(L) \in Nat
    BY DEF Wrapped, IsList
  <1>2. Slot(T, k, L, m, q, w)
    <2>1. CASE Cost3(k, L[m], w)
      BY <2>1 DEF Slot
    <2>2. CASE m = 1 /\ L[1] = Take /\ Taken(T, q) /\ Weight(k, T[q]) = w
      <3>1. Ahead(T, L, m, q) /\ q + m - 1 = q
        BY <2>2 DEF Ahead
      <3>2. QED
        BY <2>2, <3>1 DEF Slot
    <2>3. QED
      BY <2>1, <2>2 DEF Wrapped
  <1>3. Slot(T, k, L, n, q, -w)
    BY DEF Slot, Wrapped
  <1>4. \A i \in 1 .. Len(L) : i # m /\ i # n => Slot(T, k, L, i, q, 0)
    BY <1>1, FreeSlot DEF Wrapped
  <1>5. Slots(T, k, L, q, m, n, w, -w)
    BY <1>1, <1>2, <1>3, <1>4 DEF Slots
  <1> DEFINE b == -w
  <1>6. x = x + w + b /\ x + w \in Nat /\ w \in Int /\ b \in Int
    OBVIOUS
  <1>7. Slots(T, k, L, q, m, n, w, b)
    BY <1>5
  <1>8. m \in 1 .. Len(L) /\ n \in 1 .. Len(L)
    BY DEF Wrapped
  <1> HIDE DEF b
  <1>9. QED
    BY <1>1, <1>6, <1>7, <1>8, SlotsRun

(* A list that ends with what closes a bracket.                             *)
LEMMA ClosingRuns ==
  ASSUME NEW T, NEW k \in Kinds, NEW L, NEW q \in Nat, NEW x \in Nat, NEW d \in {-1, 0}, x + d \in Nat,
         IsList(L), Len(L) >= 1, Cost3(k, L[Len(L)], d),
         \A i \in 1 .. Len(L) : i # Len(L) => Free(T, k, L, i, q)
  PROVE  Runs(T, k, L, q, x, x + d)
  <1> DEFINE n == Len(L)
  <1>1. n \in Nat /\ 0 < n /\ n \in 1 .. Len(L)
    BY DEF IsList
  <1>2. Slot(T, k, L, n, q, d)
    BY DEF Slot
  <1>3. \A i \in 1 .. Len(L) : i # n => Slot(T, k, L, i, q, 0)
    BY <1>1, FreeSlot
  <1>4. Slots(T, k, L, q, 0, n, 0, d)
    BY <1>1, <1>2, <1>3 DEF Slots
  <1>5. x + d = x + 0 + d /\ x + 0 \in Nat /\ 0 \in Int /\ d \in Int /\ 0 \in Nat
    OBVIOUS
  <1> HIDE DEF n
  <1>6. QED
    BY <1>1, <1>4, <1>5, SlotsRun

(* A neutral list before one whose steps may come anywhere.                 *)
LEMMA NeutralJoin ==
  ASSUME NEW T, NEW k, NEW L, NEW M, NEW q, Neutral(T, k, L, q), Mild3(k, M, 1)
  PROVE  Neutral(T, k, L \o M, q)
  <1>1. IsList(L) /\ IsList(M)
    BY DEF Neutral, Mild3
  <1>2. Len(L) \in Nat /\ Len(M) \in Nat /\ Len(L \o M) = Len(L) + Len(M) /\ IsList(L \o M)
    BY <1>1, Joined DEF IsList
  <1> DEFINE J == L \o M
  <1>3. \A i \in 1 .. Len(L) : J[i] = L[i]
    BY <1>1, Joined
  <1>4. ASSUME NEW i \in 1 .. Len(L)
        PROVE  Free(T, k, J, i, q)
    <2>1. Free(T, k, L, i, q) /\ J[i] = L[i] /\ i \in Nat
      BY <1>2, <1>3 DEF Neutral
    <2>2. (i = 1 => J[1] = L[1]) /\ (i \in {2, 3} => J[1] = L[1] /\ J[2] = L[2]) /\ (i = 3 => J[3] = L[3])
      BY <1>2, <1>3
    <2> HIDE DEF J
    <2>3. QED
      BY <2>1, <2>2 DEF Free
  <1>5. ASSUME NEW j \in 1 .. Len(M)
        PROVE  Cost3(k, J[Len(L) + j], 0)
    BY <1>1, Joined DEF Mild3
  <1>6. ASSUME NEW i \in 1 .. Len(J)
        PROVE  Free(T, k, J, i, q)
    <2>1. CASE i \in 1 .. Len(L)
      BY <1>4, <2>1
    <2>2. CASE i \notin 1 .. Len(L)
      <3> DEFINE j == i - Len(L)
      <3>1. j \in 1 .. Len(M) /\ i = Len(L) + j
        BY <1>2, <2>2
      <3> HIDE DEF j, J
      <3>2. Cost3(k, J[i], 0)
        BY <1>5, <3>1
      <3>3. QED
        BY <3>2 DEF Free
    <2>3. QED
      BY <2>1, <2>2
  <1>7. QED
    BY <1>2, <1>6 DEF Neutral

-----------------------------------------------------------------------------
(***************************************************************************)
(* What a production's steps are to do: come back to the brackets open     *)
(* before them, or close the one that is open, or report something.        *)
(***************************************************************************)

(* The steps that take a token, or report something, or call what does.     *)
Eaters == {"parse_statement", "parse_simple_stmt", "parse_if", "parse_while", "parse_for",
           "parse_match", "parse_with", "parse_asm", "parse_binding", "parse_free", "parse_unary",
           "parse_postfix", "parse_primary", "parse_type_builtin", "parse_lambda",
           "parse_group_or_tuple", "parse_new", "parse_top", "top_rest", "parse_global",
           "parse_const", "parse_extern", "parse_func", "parse_struct", "parse_enum", "parse_union",
           "parse_interface", "parse_handle", "parse_extend", "extend_member", "struct_member",
           "extern_member", "parse_type_member", "member", "stmt_arm", "expr_arm",
           "interface_member"}
Eats(s) ==
  \/ s = Take
  \/ s[1] = "one" /\ "EOF" \notin s[2]
  \/ s[1] = "do" /\ s[2] \in Eaters
(* A level is opened only below the limit, with nothing but tokens taken    *)
(* before; and progress is forced only where something was to be taken.     *)
Calm(L) == \A i \in 1 .. Len(L) : L[i] # Enter /\ L[i][1] # "progress"
Placed(P) ==
  \A i \in 1 .. Len(P) :
    /\ P[i] = Enter => ~(nest >= MaxNest) /\ \A j \in 1 .. i - 1 : P[j] = Take
    /\ P[i][1] = "progress" => P[i][2] = pos /\ \E j \in 1 .. i - 1 : Eats(P[j])
Turns(T, k, L, q) == Calm(L) /\ \A x \in Nat : Runs(T, k, L, q, x, x)
Reports(k, P) == k # "nest" /\ \E i \in 1 .. Len(P) : P[i] = Fail
Fits(k, P) ==
  /\ IsList(P)
  /\ \/ Reports(k, P)
     \/ Placed(P) /\ \A x \in Nat : Runs(tok, k, P, pos, x, x)
Shuts(k, P, d) ==
  /\ IsList(P)
  /\ \/ Reports(k, P)
     \/ Placed(P) /\ \A x \in Nat : x + d \in Nat => Runs(tok, k, P, pos, x, x + d)
InText == pos \in 1 .. Len(tok)

(* Most steps open no level and force no progress.                          *)
LEMMA CalmSteps ==
  ASSUME NEW k \in Kinds
  PROVE  /\ \A s, d : Cost3(k, s, d) => s # Enter /\ s[1] # "progress"
         /\ \A T, s, q : Opening(T, s, q) => s # Enter /\ s[1] # "progress"
         /\ Take # Enter /\ Take[1] # "progress"
  <1>1. Enter[1] = "enter" /\ Take[1] = "take"
    BY DEF Enter, Take
  <1>2. QED
    BY <1>1, TakesCost DEF Opening

(* Nor do the lists made of them.                                           *)
LEMMA CalmLists ==
  ASSUME NEW T, NEW k \in Kinds
  PROVE  /\ \A L : (\A i \in 1 .. Len(L) : Cost3(k, L[i], 0)) => Calm(L)
         /\ \A L, q : Neutral(T, k, L, q) => Calm(L)
         /\ \A L, q, m, n, w : Wrapped(T, k, L, q, m, n, w) => Calm(L)
         /\ \A L, M : IsList(L) /\ IsList(M) /\ Calm(L) /\ Calm(M) => Calm(L \o M)
         /\ \A P : Calm(P) => Placed(P)
  <1>1. ASSUME NEW L, NEW q, NEW i, Free(T, k, L, i, q)
        PROVE  L[i] # Enter /\ L[i][1] # "progress"
    BY <1>1, CalmSteps DEF Free
  <1>2. \A L : (\A i \in 1 .. Len(L) : Cost3(k, L[i], 0)) => Calm(L)
    BY CalmSteps DEF Calm
  <1>3. \A L, q : Neutral(T, k, L, q) => Calm(L)
    BY <1>1 DEF Calm, Neutral
  <1>4. ASSUME NEW L, NEW q, NEW m, NEW n, NEW w, Wrapped(T, k, L, q, m, n, w), NEW i \in 1 .. Len(L)
        PROVE  L[i] # Enter /\ L[i][1] # "progress"
    <2>1. CASE i \notin {m, n}
      BY <1>1, <1>4, <2>1 DEF Wrapped
    <2>2. CASE i = n
      BY <1>4, <2>2, CalmSteps DEF Wrapped
    <2>3. CASE i = m
      BY <1>4, <2>3, CalmSteps DEF Wrapped
    <2>4. QED
      BY <2>1, <2>2, <2>3
  <1>5. \A L, M : IsList(L) /\ IsList(M) /\ Calm(L) /\ Calm(M) => Calm(L \o M)
    BY JoinedAt DEF Calm
  <1>6. \A P : Calm(P) => Placed(P)
    BY DEF Calm, Placed
  <1>7. \A L, q, m, n, w : Wrapped(T, k, L, q, m, n, w) => Calm(L)
    BY <1>4 DEF Calm
  <1>8. QED
    BY <1>2, <1>3, <1>5, <1>6, <1>7

(* Lists that come back to where they started.                              *)
LEMMA TurnsFacts ==
  ASSUME NEW T, NEW k \in Kinds
  PROVE  /\ \A L : \A q \in Nat : Neutral(T, k, L, q) => Turns(T, k, L, q)
         /\ \A L, m, n : \A q \in Nat : \A w \in {0, 1} : Wrapped(T, k, L, q, m, n, w) => Turns(T, k, L, q)
         /\ \A L : Mild3(k, L, 1) => Turns(T, k, L, 0)
         /\ \A L, M : \A q \in Nat : Turns(T, k, L, q) /\ Turns(T, k, M, 0) => Turns(T, k, L \o M, q)
         /\ \A L, q : Turns(T, k, L, q) => IsList(L)
         /\ \A L, q : Turns(T, k, L, 0) => Turns(T, k, L, q)
  <1>1. \A L : \A q \in Nat : Neutral(T, k, L, q) => Turns(T, k, L, q)
    BY NeutralRuns, CalmLists DEF Turns
  <1>2. \A L, m, n : \A q \in Nat : \A w \in {0, 1} : Wrapped(T, k, L, q, m, n, w) => Turns(T, k, L, q)
    BY WrappedRuns, CalmLists DEF Turns
  <1>3. ASSUME NEW L, Mild3(k, L, 1)
        PROVE  Turns(T, k, L, 0)
    <2>1. Neutral(T, k, L, 0)
      BY <1>3 DEF Mild3, Neutral, Free
    <2>2. 0 \in Nat
      OBVIOUS
    <2>3. QED
      BY <1>1, <2>1, <2>2
  <1>4. \A L, q : Turns(T, k, L, q) => IsList(L)
    <2>1. 0 \in Nat
      OBVIOUS
    <2>2. QED
      BY <2>1, RunsCounts DEF Turns
  <1>5. \A L, M : \A q \in Nat : Turns(T, k, L, q) /\ Turns(T, k, M, 0) => Turns(T, k, L \o M, q)
    BY <1>4, RunsJoin, CalmLists DEF Turns
  <1>6. \A L, q : Turns(T, k, L, 0) => Turns(T, k, L, q)
    BY RunsAnywhere DEF Turns
  <1>7. QED
    BY <1>1, <1>2, <1>3, <1>4, <1>5, <1>6

(* The same at the cursor.                                                  *)
LEMMA Fitting ==
  ASSUME NEW k \in Kinds, InText
  PROVE  /\ \A P : Turns(tok, k, P, pos) => Fits(k, P)
         /\ \A P : Neutral(tok, k, P, pos) => Fits(k, P)
         /\ \A P, m, n : \A w \in {0, 1} : Wrapped(tok, k, P, pos, m, n, w) => Fits(k, P)
         /\ \A P : k # "nest" /\ IsList(P) /\ (\E i \in 1 .. Len(P) : P[i] = Fail) => Fits(k, P)
         /\ \A P : Shuts(k, P, 0) <=> Fits(k, P)
  <1>1. pos \in Nat
    BY DEF InText
  <1>2. \A P : Shuts(k, P, 0) <=> Fits(k, P)
    <2>1. \A x \in Nat : x + 0 = x
      OBVIOUS
    <2>2. QED
      BY <2>1 DEF Shuts, Fits
  <1>3. \A P : Turns(tok, k, P, pos) => Fits(k, P)
    BY TurnsFacts, CalmLists DEF Fits, Turns
  <1>4. QED
    BY <1>1, <1>2, <1>3, TurnsFacts DEF Fits, Reports

(* The steps that cost nothing, wherever they come.                         *)
LEMMA Plain ==
  ASSUME NEW k \in Kinds
  PROVE  /\ \A p \in Easy : \A a : Cost3(k, DoWith(p, a), 0)
         /\ \A p \in Easy : Cost3(k, Do(p), 0)
         /\ Cost3(k, DoWith("name_list", Names), 0) /\ Cost3(k, DoWith("name_list", Names1), 0)
         /\ \A S : S \cap Marks = {} => Cost3(k, One(S), 0)
         /\ \A t : t \notin Marks => Cost3(k, E(t), 0)
         /\ Cost3(k, Name, 0)
         /\ \A v : Cost3(k, Node(v), 0) /\ Cost3(k, Landed(v), 0) /\ Cost3(k, Declare(v), 0)
         /\ \A u, v : Cost3(k, Binary(u, v), 0)
         /\ Cost3(k, Fail, 0) /\ Cost3(k, Newline, 0) /\ Cost3(k, Skip, 0)
         /\ \A S : S \cap Marks = {} => Cost3(k, Opt(S, << >>), 0)
         /\ Cost3(k, RangeEnd, 0) /\ Cost3(k, Align, 0)
         /\ k = "nest" => Cost3(k, Take, 0) /\ Cost3(k, Sync, 0)
  <1>1. \A s, d : Cost0(k, s, d) => Cost3(k, s, d)
    BY LevelsUp
  <1>2. Mild0(k, << >>, 1)
    BY DEF Mild0, IsList
  <1>3. \A S : S \cap Marks = {} => Cost3(k, Opt(S, << >>), 0)
    BY <1>2, Levels1, LevelsUp
  <1>4. Cost3(k, RangeEnd, 0) /\ Cost3(k, Align, 0)
    BY LevelsUp DEF Cost1
  <1>5. k = "nest" => Cost3(k, Take, 0) /\ Cost3(k, Sync, 0)
    BY <1>1 DEF Cost0, Take, Sync
  <1>6. QED
    BY <1>1, <1>3, <1>4, <1>5, Atoms

(* The steps that cost what a bracket weighs.                               *)
LEMMA Weighty ==
  ASSUME NEW k \in Kinds
  PROVE  /\ \A t : t # "EOF" => Cost3(k, E(t), Weight(k, t))
         /\ \A p \in Closers \ {"body", "body_item"} : Cost3(k, Do(p), CostDo(k, p))
         /\ \A p \in {"body", "body_item"}, a \in Members : Cost3(k, DoWith(p, a), CostDo(k, p))
         /\ \A p \in {"body", "body_item", "asm_line", "handle_end"} : CostDo(k, p) = -Weight(k, "INDENT")
         /\ CostDo(k, "free_rest") = -Weight(k, "(")
         /\ \A p \in {"parse_subscript", "subscript_rest"} : CostDo(k, p) = -Weight(k, "[")
         /\ Cost3(k, E("DEDENT"), -Weight(k, "INDENT"))
         /\ Cost3(k, E(")"), -Weight(k, "(")) /\ Cost3(k, E("]"), -Weight(k, "["))
         /\ Weight(k, "INDENT") \in {0, 1} /\ Weight(k, "(") \in {0, 1} /\ Weight(k, "[") \in {0, 1}
  <1>1. \A s, d : Cost0(k, s, d) => Cost3(k, s, d)
    BY LevelsUp
  <1>2. /\ \A t : t # "EOF" => Cost3(k, E(t), Weight(k, t))
        /\ \A p \in Closers \ {"body", "body_item"} : Cost3(k, Do(p), CostDo(k, p))
        /\ \A p \in {"body", "body_item"}, a \in Members : Cost3(k, DoWith(p, a), CostDo(k, p))
    BY <1>1, Atoms
  <1>3. /\ \A p \in {"body", "body_item", "asm_line", "handle_end"} : CostDo(k, p) = -Weight(k, "INDENT")
        /\ CostDo(k, "free_rest") = -Weight(k, "(")
        /\ \A p \in {"parse_subscript", "subscript_rest"} : CostDo(k, p) = -Weight(k, "[")
    BY WeightFacts DEF CostDo
  <1>4. /\ Cost3(k, E("DEDENT"), -Weight(k, "INDENT"))
        /\ Cost3(k, E(")"), -Weight(k, "(")) /\ Cost3(k, E("]"), -Weight(k, "["))
    BY <1>2, WeightFacts
  <1>5. QED
    BY <1>2, <1>3, <1>4, WeightFacts

(* The productions that may be called anywhere.                             *)
LEMMA EasyOnes ==
  /\ "argument" \in Easy /\ "asm_operand" \in Easy
  /\ "assign_or_finish" \in Easy /\ "bounds" \in Easy
  /\ "catch_rest" \in Easy /\ "defer_rest" \in Easy /\ "else_arm" \in Easy
  /\ "enum_case" \in Easy /\ "enum_member" \in Easy
  /\ "export_member" \in Easy /\ "expr_arm" \in Easy
  /\ "extend_member" \in Easy /\ "extern_rest" \in Easy
  /\ "finish_expression" \in Easy /\ "format_part" \in Easy
  /\ "generic_param" \in Easy /\ "generics" \in Easy /\ "if_rest" \in Easy
  /\ "interface_member" \in Easy /\ "lambda_param" \in Easy
  /\ "measured" \in Easy /\ "member" \in Easy
  /\ "merge_extensions" \in Easy /\ "module_rest" \in Easy
  /\ "named_parameter" \in Easy /\ "only_method" \in Easy
  /\ "parameter" \in Easy /\ "parse_arg_list" \in Easy
  /\ "parse_attributes" \in Easy /\ "parse_binary" \in Easy
  /\ "parse_binary_rest" \in Easy /\ "parse_condition" \in Easy
  /\ "parse_conditional" \in Easy /\ "parse_conditional_rest" \in Easy
  /\ "parse_conformance" \in Easy /\ "parse_else_expr" \in Easy
  /\ "parse_else_rest" \in Easy /\ "parse_expression" \in Easy
  /\ "parse_func" \in Easy /\ "parse_generic_params" \in Easy
  /\ "parse_global" \in Easy /\ "parse_lambda" \in Easy
  /\ "parse_module" \in Easy /\ "parse_module_path" \in Easy
  /\ "parse_params" \in Easy /\ "parse_pattern" \in Easy
  /\ "parse_postfix" \in Easy /\ "parse_primary" \in Easy
  /\ "parse_primary_type" \in Easy /\ "parse_simple_stmt" \in Easy
  /\ "parse_statement" \in Easy /\ "parse_struct" \in Easy
  /\ "parse_suite" \in Easy /\ "parse_top" \in Easy
  /\ "parse_type" \in Easy /\ "parse_type_args" \in Easy
  /\ "parse_type_member" \in Easy /\ "parse_unary" \in Easy
  /\ "pattern_rest" \in Easy /\ "postfix_rest" \in Easy
  /\ "qualifiers" \in Easy /\ "stmt_arm" \in Easy /\ "top_rest" \in Easy
  /\ "type_path" \in Easy /\ "type_suffix" \in Easy
  /\ "union_field" \in Easy /\ "union_member" \in Easy
  /\ "weak_member" \in Easy /\ "struct_member" \in Easy
  /\ "extern_member" \in Easy
  BY DEF Easy

(* The productions that are called at their first token.                    *)
LEMMA LedOnes ==
  /\ "parse_if" \in Led /\ Lead("parse_if") = {"if"}
  /\ "parse_while" \in Led /\ Lead("parse_while") = {"while"}
  /\ "parse_for" \in Led /\ Lead("parse_for") = {"for"}
  /\ "parse_match" \in Led /\ Lead("parse_match") = {"match"}
  /\ "parse_with" \in Led /\ Lead("parse_with") = {"with"}
  /\ "parse_asm" \in Led /\ Lead("parse_asm") = {"asm"}
  /\ "parse_binding" \in Led /\ Lead("parse_binding") = {"let", "var"}
  /\ "parse_free" \in Led /\ Lead("parse_free") = {"free"}
  /\ "bracket" \in Led /\ Lead("bracket") = {"["}
  /\ "parse_new" \in Led /\ Lead("parse_new") = {"new"}
  /\ "parse_group_or_tuple" \in Led /\ Lead("parse_group_or_tuple") = {"("}
  /\ "parse_const" \in Led /\ Lead("parse_const") = {"let"}
  /\ "parse_extern" \in Led /\ Lead("parse_extern") = {"extern"}
  /\ "parse_enum" \in Led /\ Lead("parse_enum") = {"enum"}
  /\ "parse_union" \in Led /\ Lead("parse_union") = {"union"}
  /\ "parse_interface" \in Led /\ Lead("parse_interface") = {"interface"}
  /\ "parse_import" \in Led /\ Lead("parse_import") = {"import", "from"}
  /\ "parse_handle" \in Led /\ Lead("parse_handle") = {"handle"}
  /\ "parse_extend" \in Led /\ Lead("parse_extend") = {"extend"}
  /\ "parse_type_builtin" \in Led /\ Lead("parse_type_builtin") = {"size_of", "memory"}
  BY DEF Led, Lead

(* No token that a production looks for by name is a bracket.               *)
LEMMA NoMarks ==
  /\ \A t \in Names1 \cup Keywords \cup Literals \cup Compound \cup PrefixOps \cup AssignOps \cup Compare :
        t \notin Marks
  /\ \A t \in Names : t \notin Marks
  /\ Names \cap Marks = {} /\ Names1 \cap Marks = {} /\ (Names \cup {"str"}) \cap Marks = {}
  /\ (Names \cup Keywords) \cap Marks = {} /\ (Names \cup Keywords \cup {"int"}) \cap Marks = {}
  /\ \A t : PrecOf(t) # 0 => t \notin Marks
  <1>1. \A t \in Names : t \notin Marks
    BY DEF Names, Words, Marks
  <1>2. /\ Keywords \cap Marks = {} /\ Literals \cap Marks = {} /\ Compound \cap Marks = {}
        /\ PrefixOps \cap Marks = {} /\ AssignOps \cap Marks = {} /\ Compare \cap Marks = {}
        /\ {"_", "str", "int"} \cap Marks = {}
    <2>1. Keywords \cap Marks = {}
      BY DEF Keywords, Marks
    <2>2. Literals \cap Marks = {} /\ Compound \cap Marks = {} /\ {"_", "str", "int"} \cap Marks = {}
      BY DEF Literals, Compound, Marks
    <2>3. PrefixOps \cap Marks = {} /\ AssignOps \cap Marks = {} /\ Compare \cap Marks = {}
      BY DEF PrefixOps, AssignOps, Compare, Marks
    <2>4. QED
      BY <2>1, <2>2, <2>3
  <1>3. \A t : PrecOf(t) # 0 => t \notin Marks
    BY DEF PrecOf, Compare, Marks
  <1>4. QED
    BY <1>1, <1>2, <1>3 DEF Names1

(* The steps that cost nothing where the cursor is.                         *)
LEMMA Opens ==
  ASSUME InText
  PROVE  /\ Cur \notin Marks => Opening(tok, Take, pos)
         /\ Peek(1) \notin Marks => Opening(tok, Take, pos + 1)
         /\ \A p \in Led : \A a : Begins(tok, p, pos) => Opening(tok, DoWith(p, a), pos)
         /\ \A p \in Led : Begins(tok, p, pos) => Opening(tok, Do(p), pos)
         /\ \A p \in Led \ {"parse_handle", "parse_extend", "parse_type_builtin"} :
              Cur \in Lead(p) => Begins(tok, p, pos)
         /\ \A p \in {"parse_handle", "parse_extend"} :
              Cur \in Lead(p) /\ Peek(1) \in Names => Begins(tok, p, pos)
         /\ \A p \in {"parse_while", "parse_for"} :
              Peek(2) \in Lead(p) => Opening(tok, Do(p), pos + 2)
         /\ \A p \in Led : Begins(tok, p, pos) => Cur \in Lead(p)
         /\ \A p \in Led \ {"bracket", "parse_group_or_tuple"} :
              Begins(tok, p, pos) => Opening(tok, Take, pos)
         /\ Cur = tok[pos] /\ pos \in Nat
  <1>1. Cur = tok[pos] /\ pos \in Nat /\ \A i : Tok(i) = TokOf(tok, i)
    BY DEF InText, Cur, Peek, Tok, TokOf
  <1>2. Cur \notin Marks => Opening(tok, Take, pos)
    BY <1>1 DEF Opening, InText
  <1>3. Peek(1) \notin Marks => Opening(tok, Take, pos + 1)
    BY <1>1 DEF Opening, Peek, Tok, Marks
  <1>4. \A p \in Led : \A a : DoOK(p, a)
    BY DEF DoOK, Led
  <1>5. ASSUME NEW p \in Led, NEW a, NEW q, Begins(tok, p, q)
        PROVE  Opening(tok, DoWith(p, a), q)
    <2> DEFINE s == DoWith(p, a)
    <2>1. s[1] = "do" /\ s[2] = p /\ s[3] = a
      BY Calls
    <2> HIDE DEF s
    <2>2. s[2] \in Led /\ DoOK(s[2], s[3]) /\ Begins(tok, s[2], q)
      BY <1>4, <1>5, <2>1
    <2>3. Opening(tok, s, q)
      BY <2>1, <2>2 DEF Opening
    <2>4. QED
      BY <2>3 DEF s
  <1>6. \A p \in Led : \A q : Begins(tok, p, q) => Opening(tok, Do(p), q)
    BY <1>4, Calls DEF Opening
  <1>7. \A p \in Led \ {"parse_handle", "parse_extend", "parse_type_builtin"} :
              Cur \in Lead(p) => Begins(tok, p, pos)
    BY <1>1 DEF Begins, InText
  <1>8. \A p \in {"parse_handle", "parse_extend"} :
              Cur \in Lead(p) /\ Peek(1) \in Names => Begins(tok, p, pos)
    BY <1>1 DEF Begins, InText, Peek
  <1>9. ASSUME NEW p \in {"parse_while", "parse_for"}, Peek(2) \in Lead(p)
        PROVE  Opening(tok, Do(p), pos + 2)
    <2>1. pos + 2 \in 1 .. Len(tok) /\ tok[pos + 2] = Peek(2)
      BY <1>1, <1>9 DEF Peek, Tok, Lead
    <2>2. Begins(tok, p, pos + 2) /\ p \in Led
      BY <1>9, <2>1 DEF Begins, Led
    <2>3. QED
      BY <1>6, <2>2
  <1>10. \A p \in Led : Begins(tok, p, pos) => Cur \in Lead(p)
    BY <1>1 DEF Begins
  <1>11. \A p \in Led \ {"bracket", "parse_group_or_tuple"} : Lead(p) \cap Marks = {}
    BY LedOnes DEF Led, Marks
  <1>12. QED
    BY <1>1, <1>2, <1>3, <1>5, <1>6, <1>7, <1>8, <1>9, <1>10, <1>11

(* The lists of one to four steps that cost nothing.                        *)
LEMMA Milds ==
  ASSUME NEW k \in Kinds
  PROVE  /\ Mild0(k, << >>, 1) /\ Mild1(k, << >>, 1) /\ Mild2(k, << >>, 1) /\ Mild3(k, << >>, 1)
         /\ \A a : Cost0(k, a, 0) => Mild0(k, <<a>>, 1)
         /\ \A a : Cost1(k, a, 0) => Mild1(k, <<a>>, 1)
         /\ \A a : Cost2(k, a, 0) => Mild2(k, <<a>>, 1)
         /\ \A a : Cost3(k, a, 0) => Mild3(k, <<a>>, 1)
         /\ \A a, b : Cost0(k, a, 0) /\ Cost0(k, b, 0) => Mild0(k, <<a, b>>, 1)
         /\ \A a, b : Cost1(k, a, 0) /\ Cost1(k, b, 0) => Mild1(k, <<a, b>>, 1)
         /\ \A a, b : Cost3(k, a, 0) /\ Cost3(k, b, 0) => Mild3(k, <<a, b>>, 1)
         /\ \A a, b, c : Cost0(k, a, 0) /\ Cost0(k, b, 0) /\ Cost0(k, c, 0) => Mild0(k, <<a, b, c>>, 1)
         /\ \A a, b, c : Cost1(k, a, 0) /\ Cost1(k, b, 0) /\ Cost1(k, c, 0) => Mild1(k, <<a, b, c>>, 1)
         /\ \A a, b, c : Cost3(k, a, 0) /\ Cost3(k, b, 0) /\ Cost3(k, c, 0) => Mild3(k, <<a, b, c>>, 1)
  <1>1. /\ \A a : Cost0(k, a, 0) => Mild0(k, <<a>>, 1)
        /\ \A a, b : Cost0(k, a, 0) /\ Cost0(k, b, 0) => Mild0(k, <<a, b>>, 1)
        /\ \A a, b, c : Cost0(k, a, 0) /\ Cost0(k, b, 0) /\ Cost0(k, c, 0) => Mild0(k, <<a, b, c>>, 1)
    BY DEF Mild0, IsList
  <1>2. /\ \A a : Cost1(k, a, 0) => Mild1(k, <<a>>, 1)
        /\ \A a, b : Cost1(k, a, 0) /\ Cost1(k, b, 0) => Mild1(k, <<a, b>>, 1)
        /\ \A a, b, c : Cost1(k, a, 0) /\ Cost1(k, b, 0) /\ Cost1(k, c, 0) => Mild1(k, <<a, b, c>>, 1)
    BY DEF Mild1, IsList
  <1>3. /\ \A a : Cost3(k, a, 0) => Mild3(k, <<a>>, 1)
        /\ \A a, b : Cost3(k, a, 0) /\ Cost3(k, b, 0) => Mild3(k, <<a, b>>, 1)
        /\ \A a, b, c : Cost3(k, a, 0) /\ Cost3(k, b, 0) /\ Cost3(k, c, 0) => Mild3(k, <<a, b, c>>, 1)
    BY DEF Mild3, IsList
  <1>4. /\ Mild0(k, << >>, 1) /\ Mild1(k, << >>, 1) /\ Mild2(k, << >>, 1) /\ Mild3(k, << >>, 1)
        /\ \A a : Cost2(k, a, 0) => Mild2(k, <<a>>, 1)
    BY DEF Mild0, Mild1, Mild2, Mild3, IsList
  <1>5. QED
    BY <1>1, <1>2, <1>3, <1>4

(* A step that costs nothing, inside another.                               *)
LEMMA Nested ==
  ASSUME NEW k \in Kinds, NEW s, Cost0(k, s, 0)
  PROVE  /\ \A S : S \cap Marks = {} => Cost1(k, Opt(S, <<s>>), 0) /\ Cost3(k, Opt(S, <<s>>), 0)
         /\ \A S : Cost1(k, If(S, <<s>>, << >>), 0) /\ Cost3(k, If(S, <<s>>, << >>), 0)
         /\ \A S : Cost1(k, If(S, << >>, <<s>>), 0) /\ Cost3(k, If(S, << >>, <<s>>), 0)
         /\ \A t : Cost1(k, List(t, <<s>>), 0) /\ Cost3(k, List(t, <<s>>), 0)
         /\ \A t : Cost2(k, Another(t, s), 0) /\ Cost3(k, Another(t, s), 0)
         /\ \A t : Cost2(k, If({t}, << >>, <<List(t, <<s>>)>>), 0) /\ Cost3(k, If({t}, << >>, <<List(t, <<s>>)>>), 0)
  <1>1. Mild0(k, <<s>>, 1) /\ Mild0(k, << >>, 1)
    BY Milds
  <1>2. \A S : S \cap Marks = {} => Cost1(k, Opt(S, <<s>>), 0)
    BY <1>1, Levels1
  <1>3. \A S : Cost1(k, If(S, <<s>>, << >>), 0) /\ Cost1(k, If(S, << >>, <<s>>), 0)
    BY <1>1, Levels1
  <1>4. \A t : Cost1(k, List(t, <<s>>), 0)
    BY <1>1 DEF Cost1, List
  <1>5. {","} \cap Marks = {}
    BY DEF Marks
  <1>6. \A t : Cost2(k, Another(t, s), 0)
    BY <1>3, <1>5, Milds, Levels2 DEF Another
  <1>7. \A t : Cost2(k, If({t}, << >>, <<List(t, <<s>>)>>), 0)
    BY <1>4, Milds, Levels2
  <1>8. QED
    BY <1>2, <1>3, <1>4, <1>6, <1>7, LevelsUp

(* The tokens that steps look for by name are no brackets.                  *)
LEMMA Unmarked ==
  /\ {","} \cap Marks = {} /\ {":"} \cap Marks = {} /\ {"="} \cap Marks = {} /\ {"in"} \cap Marks = {}
  /\ {"&"} \cap Marks = {} /\ {"if"} \cap Marks = {} /\ {"-"} \cap Marks = {} /\ {".."} \cap Marks = {}
  /\ {"---"} \cap Marks = {} /\ {"as"} \cap Marks = {} /\ {"."} \cap Marks = {} /\ {"->"} \cap Marks = {}
  /\ {"!"} \cap Marks = {} /\ {"?"} \cap Marks = {} /\ {"@"} \cap Marks = {} /\ {"pub"} \cap Marks = {}
  /\ {"static"} \cap Marks = {} /\ {"noalias"} \cap Marks = {} /\ {"blocking"} \cap Marks = {}
  /\ {"catch"} \cap Marks = {} /\ {"destroy"} \cap Marks = {} /\ {"..<"} \cap Marks = {}
  /\ Names \cap Marks = {} /\ Names1 \cap Marks = {} /\ (Names \cup {"str"}) \cap Marks = {}
  BY NoMarks DEF Marks

(* Lists of the same steps are the same list.                               *)
LEMMA SameList ==
  ASSUME NEW L, IsList(L), NEW M, IsList(M), Len(L) = Len(M), \A i \in 1 .. Len(L) : L[i] = M[i]
  PROVE  L = M
  BY DEF IsList

(* A list after one step.                                                   *)
LEMMA Prepended ==
  ASSUME NEW a, NEW M, IsList(M)
  PROVE  /\ IsList(<<a>> \o M) /\ Len(<<a>> \o M) = 1 + Len(M) /\ (<<a>> \o M)[1] = a
         /\ \A i \in 2 .. 1 + Len(M) : (<<a>> \o M)[i] = M[i - 1]
  <1> DEFINE one == <<a>>
  <1>1. IsList(one) /\ Len(one) = 1 /\ one[1] = a /\ Len(M) \in Nat
    BY DEF IsList
  <1> HIDE DEF one
  <1>2. /\ Len(one \o M) = Len(one) + Len(M)
        /\ \A i \in 1 .. Len(one) + Len(M) : (one \o M)[i] = IF i <= Len(one) THEN one[i] ELSE M[i - Len(one)]
    BY <1>1, Joins
  <1>3. (one \o M)[1] = a /\ Len(one \o M) = 1 + Len(M)
    BY <1>1, <1>2
  <1>4. ASSUME NEW i \in 2 .. 1 + Len(M)
        PROVE  (one \o M)[i] = M[i - 1]
    BY <1>1, <1>2
  <1>5. IsList(one \o M)
    BY <1>1, JoinIsList
  <1>6. QED
    BY <1>3, <1>4, <1>5 DEF one

(* The handler of an error, written out.                                    *)
LEMMA Handler ==
  /\ Catch = <<Opt(Names, << >>), E(":"), Do("parse_suite")>>
  /\ <<Take>> \o Catch = <<Take, Opt(Names, << >>), E(":"), Do("parse_suite")>>
  <1>1. ASSUME NEW a, NEW b, NEW c
        PROVE  <<a>> \o <<b, c>> = <<a, b, c>>
    <2> DEFINE rest == <<b, c>>
               whole == <<a, b, c>>
    <2>1. /\ IsList(rest) /\ Len(rest) = 2 /\ rest[1] = b /\ rest[2] = c
          /\ IsList(whole) /\ Len(whole) = 3 /\ whole[1] = a /\ whole[2] = b /\ whole[3] = c
      BY DEF IsList
    <2> HIDE DEF rest, whole
    <2> DEFINE join == <<a>> \o rest
    <2>2. IsList(join) /\ Len(join) = 1 + Len(rest) /\ join[1] = a /\ \A i \in 2 .. 1 + Len(rest) : join[i] = rest[i - 1]
      <3>1. IsList(rest)
        BY <2>1
      <3>2. QED
        BY <3>1, Prepended
    <2> HIDE DEF join
    <2>3. Len(join) = 3 /\ join[2] = b /\ join[3] = c
      BY <2>1, <2>2
    <2>4. join = whole
      BY <2>1, <2>2, <2>3, SameList
    <2>5. QED
      BY <2>4 DEF join, rest, whole
  <1>2. ASSUME NEW a, NEW b, NEW c, NEW d
        PROVE  <<a>> \o <<b, c, d>> = <<a, b, c, d>>
    <2> DEFINE rest == <<b, c, d>>
               whole == <<a, b, c, d>>
    <2>1. /\ IsList(rest) /\ Len(rest) = 3 /\ rest[1] = b /\ rest[2] = c /\ rest[3] = d
          /\ IsList(whole) /\ Len(whole) = 4 /\ whole[1] = a /\ whole[2] = b /\ whole[3] = c /\ whole[4] = d
      BY DEF IsList
    <2> HIDE DEF rest, whole
    <2> DEFINE join == <<a>> \o rest
    <2>2. IsList(join) /\ Len(join) = 1 + Len(rest) /\ join[1] = a /\ \A i \in 2 .. 1 + Len(rest) : join[i] = rest[i - 1]
      <3>1. IsList(rest)
        BY <2>1
      <3>2. QED
        BY <3>1, Prepended
    <2> HIDE DEF join
    <2>3. Len(join) = 4 /\ join[2] = b /\ join[3] = c /\ join[4] = d
      BY <2>1, <2>2
    <2>4. join = whole
      BY <2>1, <2>2, <2>3, SameList
    <2>5. QED
      BY <2>4 DEF join, rest, whole
  <1>3. Catch = <<Opt(Names, << >>), E(":"), Do("parse_suite")>>
    BY <1>1 DEF Catch, Suite
  <1>4. QED
    BY <1>2, <1>3

(* The steps with lists inside that statements are made of.                 *)
LEMMA StatementSteps ==
  ASSUME NEW k \in Kinds
  PROVE  /\ \A S \in {Names, Names1} : Cost3(k, Opt({","}, <<DoWith("name_list", S)>>), 0)
         /\ Cost3(k, If({":"}, Suite,
              <<If({"free"}, <<Do("parse_free"), Node("other"), Do("defer_rest")>>,
                             <<Do("parse_unary"), DoWith("assign_or_finish", <<TRUE, pos + 1>>)>>)>>), 0)
         /\ Cost3(k, If({"catch"}, <<Take>> \o Catch, <<E("NL")>>), 0)
         /\ Cost3(k, If({"("}, <<Take, DoWith("name_list", Names1), E(")")>>, <<Name>>), 0)
         /\ \A s, M : Cost1(k, s, 0) /\ Mild1(k, M, 1) => Cost3(k, If({"="}, <<Take, s>>, M), 0)
         /\ Cost1(k, If({"---"}, <<Take>>, <<Do("parse_expression")>>), 0)
         /\ Cost3(k, If({"("}, <<Take, Opt(Names, << >>), E(","), DoWith("name_list", Names), E(")")>>,
                              <<One(Names1), Opt({":"}, <<Do("parse_type")>>)>>), 0)
         /\ Cost3(k, Opt({"("}, <<If({")"}, << >>, <<DoWith("name_list", Names1)>>), E(")")>>), 0)
  <1>1. \A S \in {Names, Names1} : Cost3(k, Opt({","}, <<DoWith("name_list", S)>>), 0)
    BY Atoms, Nested, Unmarked
  <1>2. Mild1(k, Suite, 1)
    <2>1. Cost0(k, E(":"), 0) /\ Cost0(k, Do("parse_suite"), 0)
      BY Atoms, EasyOnes DEF Marks
    <2>2. QED
      BY <2>1, Milds, Levels1 DEF Suite
  <1>3. Cost3(k, If({":"}, Suite,
              <<If({"free"}, <<Do("parse_free"), Node("other"), Do("defer_rest")>>,
                             <<Do("parse_unary"), DoWith("assign_or_finish", <<TRUE, pos + 1>>)>>)>>), 0)
    <2> DEFINE L == <<Do("parse_free"), Node("other"), Do("defer_rest")>>
               M == <<Do("parse_unary"), DoWith("assign_or_finish", <<TRUE, pos + 1>>)>>
               s == If({"free"}, L, M)
    <2>1. Mild0(k, M, 1)
      BY Atoms, Milds, EasyOnes
    <2>2. Cost0(k, Node("other"), 0) /\ Cost0(k, Do("defer_rest"), 0)
      BY Atoms, EasyOnes
    <2>3. Mild0(k, L, 2) /\ Len(L) >= 1 /\ L[1] = Do("parse_free")
      BY <2>2 DEF Mild0, IsList
    <2> HIDE DEF L, M
    <2>4. First(k, L[1], {"free"}, 0)
      BY <2>3 DEF First
    <2>5. Ends0(k, L, 2, 0 - 0) /\ Ends0(k, M, 1, 0)
      BY <2>1, <2>3 DEF Ends0
    <2>6. Branch0(k, {"free"}, L, 0)
      BY <2>3, <2>4, <2>5 DEF Branch0
    <2>7. Cost1(k, s, 0)
      BY <2>5, <2>6 DEF Cost1, If
    <2> HIDE DEF s
    <2>8. Mild1(k, <<s>>, 1)
      BY <2>7, Milds
    <2>9. Cost2(k, If({":"}, Suite, <<s>>), 0)
      BY <1>2, <2>8, Levels2
    <2>10. QED
      BY <2>9, LevelsUp DEF s, L, M
  <1>4. Cost3(k, If({"catch"}, <<Take>> \o Catch, <<E("NL")>>), 0)
    <2> DEFINE L == <<Take, Opt(Names, << >>), E(":"), Do("parse_suite")>>
    <2>1. Cost1(k, Opt(Names, << >>), 0) /\ Cost1(k, E(":"), 0) /\ Cost1(k, Do("parse_suite"), 0)
      BY Atoms, Milds, Levels1, EasyOnes, Unmarked DEF Marks
    <2>2. Mild1(k, L, 2) /\ Len(L) >= 1 /\ L[1] = Take
      BY <2>1 DEF Mild1, IsList
    <2>3. Cost0(k, E("NL"), 0)
      BY Atoms DEF Marks
    <2>4. Mild1(k, <<E("NL")>>, 1)
      BY <2>3, Milds, Levels1
    <2> HIDE DEF L
    <2>5. Cost2(k, If({"catch"}, L, <<E("NL")>>), 0)
      BY <2>2, <2>4, Levels2, Unmarked
    <2>6. QED
      BY <2>5, LevelsUp, Handler DEF L
  <1>5. Cost3(k, If({"("}, <<Take, DoWith("name_list", Names1), E(")")>>, <<Name>>), 0)
    <2> DEFINE L == <<Take, DoWith("name_list", Names1), E(")")>>
               w == -Weight(k, "(")
    <2>1. Cost0(k, DoWith("name_list", Names1), 0) /\ Cost0(k, E(")"), w)
      BY Atoms, WeightFacts
    <2>2. Len(L) = 3 /\ L[1] = Take /\ IsList(L) /\ Cost0(k, L[2], 0) /\ Cost0(k, L[3], w)
      BY <2>1 DEF IsList
    <2> HIDE DEF L, w
    <2>3. Ends0(k, L, 2, w)
      <3>1. 3 \in 2 .. Len(L) /\ \A i \in 2 .. Len(L) : i # 3 => i = 2
        BY <2>2
      <3>2. QED
        BY <2>2, <3>1 DEF Ends0
    <2>4. Mild0(k, <<Name>>, 1)
      BY Atoms, Milds
    <2>5. Cost1(k, If({"("}, L, <<Name>>), 0)
      BY <2>2, <2>3, <2>4, Levels1 DEF w
    <2>6. QED
      BY <2>5, LevelsUp DEF L
  <1>6. \A s, M : Cost1(k, s, 0) /\ Mild1(k, M, 1) => Cost3(k, If({"="}, <<Take, s>>, M), 0)
    <2>1. ASSUME NEW s, NEW M, Cost1(k, s, 0), Mild1(k, M, 1)
          PROVE  Cost3(k, If({"="}, <<Take, s>>, M), 0)
      <3> DEFINE L == <<Take, s>>
      <3>1. Len(L) >= 1 /\ L[1] = Take /\ Mild1(k, L, 2)
        BY <2>1 DEF Mild1, IsList
      <3> HIDE DEF L
      <3>2. Cost2(k, If({"="}, L, M), 0)
        BY <2>1, <3>1, Levels2, Unmarked
      <3>3. QED
        BY <3>2, LevelsUp DEF L
    <2>2. QED
      BY <2>1
  <1>7. Cost1(k, If({"---"}, <<Take>>, <<Do("parse_expression")>>), 0)
    <2>1. Mild0(k, <<Do("parse_expression")>>, 1)
      BY Atoms, Milds, EasyOnes
    <2>2. Mild0(k, <<Take>>, 2) /\ Len(<<Take>>) >= 1 /\ <<Take>>[1] = Take
      BY DEF Mild0, IsList
    <2>3. QED
      BY <2>1, <2>2, Levels1, Unmarked
  <1>8. Cost3(k, If({"("}, <<Take, Opt(Names, << >>), E(","), DoWith("name_list", Names), E(")")>>,
                              <<One(Names1), Opt({":"}, <<Do("parse_type")>>)>>), 0)
    <2> DEFINE L == <<Take, Opt(Names, << >>), E(","), DoWith("name_list", Names), E(")")>>
               M == <<One(Names1), Opt({":"}, <<Do("parse_type")>>)>>
               w == -Weight(k, "(")
    <2>1. /\ Cost1(k, Opt(Names, << >>), 0) /\ Cost0(k, E(","), 0)
          /\ Cost0(k, DoWith("name_list", Names), 0) /\ Cost0(k, E(")"), w)
      BY Atoms, Milds, Levels1, Unmarked, WeightFacts DEF Marks
    <2>2. /\ Len(L) = 5 /\ L[1] = Take /\ IsList(L) /\ Cost1(k, L[2], 0) /\ Cost1(k, L[3], 0)
          /\ Cost1(k, L[4], 0) /\ Cost1(k, L[5], w)
      <3>1. /\ Cost1(k, E(","), 0) /\ Cost1(k, DoWith("name_list", Names), 0) /\ Cost1(k, E(")"), w)
            /\ Cost1(k, Opt(Names, << >>), 0)
        BY <2>1, Levels1
      <3>2. /\ L[1] = Take /\ L[2] = Opt(Names, << >>) /\ L[3] = E(",")
            /\ L[4] = DoWith("name_list", Names) /\ L[5] = E(")") /\ Len(L) = 5
        OBVIOUS
      <3>3. IsList(L)
        <4>1. ASSUME NEW a, NEW b, NEW c, NEW d, NEW e
              PROVE  IsList(<<a, b, c, d, e>>)
          BY DEF IsList
        <4>2. QED
          BY <4>1
      <3> HIDE DEF L, w
      <3>4. QED
        BY <3>1, <3>2, <3>3
    <2>3. Cost0(k, One(Names1), 0) /\ Cost1(k, Opt({":"}, <<Do("parse_type")>>), 0)
      BY Atoms, Nested, Unmarked, EasyOnes
    <2>4. Mild1(k, M, 1)
      BY <2>3, Milds, Levels1
    <2> HIDE DEF L, M, w
    <2>5. Ends1(k, L, 2, w)
      <3>1. 5 \in 2 .. Len(L) /\ \A i \in 2 .. Len(L) : i # 5 => i \in {2, 3, 4}
        BY <2>2
      <3>2. QED
        BY <2>2, <3>1 DEF Ends1
    <2>6. Cost2(k, If({"("}, L, M), 0)
      BY <2>2, <2>4, <2>5, Levels2 DEF w
    <2>7. QED
      BY <2>6, LevelsUp DEF L, M
  <1>9. Cost3(k, Opt({"("}, <<If({")"}, << >>, <<DoWith("name_list", Names1)>>), E(")")>>), 0)
    <2> DEFINE s == If({")"}, << >>, <<DoWith("name_list", Names1)>>)
               L == <<s, E(")")>>
               w == -Weight(k, "(")
    <2>1. Cost1(k, s, 0) /\ Cost1(k, E(")"), w)
      BY Atoms, Nested, Levels1, WeightFacts
    <2> HIDE DEF s, w
    <2>2. Ends1(k, L, 1, w)
      BY <2>1 DEF Ends1, IsList
    <2> HIDE DEF L
    <2>3. Cost2(k, Opt({"("}, L), 0)
      BY <2>2, Levels2 DEF w
    <2>4. QED
      BY <2>3, LevelsUp DEF L, s
  <1>10. QED
    BY <1>1, <1>3, <1>4, <1>5, <1>6, <1>7, <1>8, <1>9

(* The steps with lists inside that expressions are made of.                *)
LEMMA ExpressionSteps ==
  ASSUME NEW k \in Kinds
  PROVE  /\ Cost3(k, If({"..<"}, <<Take, Do("parse_expression")>>, <<Opt({".."}, << >>)>>), 0)
         /\ Cost3(k, If({")"}, << >>, <<Do("measured"), Opt({","}, <<One(Names \cup Keywords)>>)>>), 0)
         /\ Cost3(k, If({")"}, <<Take>>,
              <<Do("parse_expression"),
                Opt({","}, <<If({")"}, <<Fail>>, << >>), List(")", <<Do("parse_expression")>>)>>), E(")")>>),
              -Weight(k, "("))
         /\ Cost3(k, If({"("}, <<Do("parse_arg_list")>>,
              <<If({"."}, <<Take, Opt(Names, << >>), If({"("}, <<Do("parse_arg_list")>>, << >>)>>,
                          <<Opt({"---"}, << >>)>>)>>), 0)
         /\ Cost3(k, If({"]"}, <<Take>>, <<Do("parse_expression"), E("]")>>), -Weight(k, "["))
         /\ Cost3(k, Opt({","}, <<List(")", <<Do("parse_type")>>)>>), 0)
  <1>1. Cost3(k, If({"..<"}, <<Take, Do("parse_expression")>>, <<Opt({".."}, << >>)>>), 0)
    <2> DEFINE L == <<Take, Do("parse_expression")>>
               M == <<Opt({".."}, << >>)>>
    <2>1. Cost1(k, Do("parse_expression"), 0) /\ Cost1(k, Opt({".."}, << >>), 0)
      BY Atoms, Milds, Levels1, EasyOnes, Unmarked
    <2>2. Mild1(k, L, 2) /\ Len(L) >= 1 /\ L[1] = Take /\ Mild1(k, M, 1)
      BY <2>1 DEF Mild1, IsList
    <2> HIDE DEF L, M
    <2>3. Cost2(k, If({"..<"}, L, M), 0)
      BY <2>2, Levels2, Unmarked
    <2>4. QED
      BY <2>3, LevelsUp DEF L, M
  <1>2. Cost3(k, If({")"}, << >>, <<Do("measured"), Opt({","}, <<One(Names \cup Keywords)>>)>>), 0)
    <2>1. Cost0(k, One(Names \cup Keywords), 0) /\ Cost1(k, Do("measured"), 0)
      BY Atoms, NoMarks, EasyOnes, Levels1
    <2>2. Cost1(k, Opt({","}, <<One(Names \cup Keywords)>>), 0)
      BY <2>1, Nested, Unmarked
    <2>3. Mild1(k, <<Do("measured"), Opt({","}, <<One(Names \cup Keywords)>>)>>, 1) /\ Mild1(k, << >>, 1)
      BY <2>1, <2>2, Milds
    <2>4. QED
      BY <2>3, Levels2, LevelsUp
  <1>3. Cost3(k, If({")"}, <<Take>>,
              <<Do("parse_expression"),
                Opt({","}, <<If({")"}, <<Fail>>, << >>), List(")", <<Do("parse_expression")>>)>>), E(")")>>),
              -Weight(k, "("))
    <2> DEFINE s == If({")"}, <<Fail>>, << >>)
               u == List(")", <<Do("parse_expression")>>)
               v == Opt({","}, <<s, u>>)
               L == <<Do("parse_expression"), v, E(")")>>
               w == Weight(k, ")")
    <2>1. Cost1(k, s, 0) /\ Cost1(k, u, 0)
      BY Atoms, Nested, EasyOnes
    <2> HIDE DEF s, u
    <2>2. Cost2(k, v, 0)
      BY <2>1, Milds, Levels2, Unmarked
    <2>3. Cost2(k, Do("parse_expression"), 0) /\ Cost2(k, E(")"), w)
      BY Atoms, Levels1, Levels2, EasyOnes
    <2> HIDE DEF v, w
    <2>4. Len(L) = 3 /\ IsList(L) /\ Cost2(k, L[1], 0) /\ Cost2(k, L[2], 0) /\ Cost2(k, L[3], w)
      BY <2>2, <2>3 DEF IsList
    <2> HIDE DEF L
    <2>5. Ends2(k, L, 1, w)
      <3>1. 3 \in 1 .. Len(L) /\ \A i \in 1 .. Len(L) : i # 3 => i \in {1, 2}
        BY <2>4
      <3>2. QED
        BY <2>4, <3>1 DEF Ends2
    <2>6. Cost3(k, If({")"}, <<Take>>, L), w)
      BY <2>5, Levels3 DEF w
    <2>7. w = -Weight(k, "(")
      BY WeightFacts DEF w
    <2>8. QED
      BY <2>6, <2>7 DEF L, v, u, s
  <1>4. Cost3(k, If({"("}, <<Do("parse_arg_list")>>,
              <<If({"."}, <<Take, Opt(Names, << >>), If({"("}, <<Do("parse_arg_list")>>, << >>)>>,
                          <<Opt({"---"}, << >>)>>)>>), 0)
    <2> DEFINE s == If({"("}, <<Do("parse_arg_list")>>, << >>)
               L == <<Take, Opt(Names, << >>), s>>
               M == <<Opt({"---"}, << >>)>>
               u == If({"."}, L, M)
    <2>1. Cost1(k, s, 0) /\ Cost1(k, Opt(Names, << >>), 0) /\ Cost1(k, Opt({"---"}, << >>), 0)
      BY Atoms, Milds, Nested, Levels1, EasyOnes, Unmarked
    <2> HIDE DEF s
    <2>2. Mild1(k, L, 2) /\ Len(L) >= 1 /\ L[1] = Take /\ Mild1(k, M, 1)
      BY <2>1 DEF Mild1, IsList
    <2> HIDE DEF L, M
    <2>3. Cost2(k, u, 0)
      BY <2>2, Levels2, Unmarked
    <2>4. Cost2(k, Do("parse_arg_list"), 0)
      BY Atoms, EasyOnes, Levels1, Levels2
    <2> HIDE DEF u
    <2>5. Cost3(k, If({"("}, <<Do("parse_arg_list")>>, <<u>>), 0)
      BY <2>3, <2>4, Milds, Levels3
    <2>6. QED
      BY <2>5 DEF u, L, M, s
  <1>5. Cost3(k, If({"]"}, <<Take>>, <<Do("parse_expression"), E("]")>>), -Weight(k, "["))
    <2> DEFINE L == <<Do("parse_expression"), E("]")>>
               w == Weight(k, "]")
    <2>1. Cost0(k, Do("parse_expression"), 0) /\ Cost0(k, E("]"), w)
      BY Atoms, EasyOnes
    <2> HIDE DEF w
    <2>2. Ends0(k, L, 1, w)
      BY <2>1 DEF Ends0, IsList
    <2> HIDE DEF L
    <2>3. Cost1(k, If({"]"}, <<Take>>, L), w)
      BY <2>2, Levels1 DEF w
    <2>4. w = -Weight(k, "[")
      BY WeightFacts DEF w
    <2>5. QED
      BY <2>3, <2>4, LevelsUp DEF L
  <1>6. Cost3(k, Opt({","}, <<List(")", <<Do("parse_type")>>)>>), 0)
    <2>1. Cost1(k, List(")", <<Do("parse_type")>>), 0)
      BY Atoms, Nested, EasyOnes
    <2>2. Cost2(k, Opt({","}, <<List(")", <<Do("parse_type")>>)>>), 0)
      BY <2>1, Milds, Levels2, Unmarked
    <2>3. QED
      BY <2>2, LevelsUp
  <1>7. QED
    BY <1>1, <1>2, <1>3, <1>4, <1>5, <1>6

(* The steps with lists inside that declarations are made of.               *)
LEMMA DeclarationSteps ==
  ASSUME NEW k \in Kinds
  PROVE  /\ Cost3(k, If({"destroy"}, <<Take, Name>>, <<Fail>>), 0)
         /\ Cost3(k, If({"="}, <<Take, If({"---"}, <<Take, E("NL")>>, <<Do("parse_expression"), Newline>>)>>,
                              <<E("NL")>>), 0)
         /\ Cost3(k, Result, 0)
         /\ Cost3(k, If({"NL"}, << >>, <<List("", <<Do("parse_type")>>), E(":")>>), 0)
         /\ Cost3(k, If({"("}, <<DoWith("parse_params", FALSE)>>, <<Opt({"="}, <<Do("parse_expression")>>)>>), 0)
         /\ Cost3(k, Opt({"("}, <<If({")"}, << >>, <<Do("asm_operand")>>), E(")")>>), 0)
         /\ Cost3(k, Opt({"("}, <<Opt(Names \cup {"str"}, << >>), E(")"),
                                 If({")", ","}, << >>, <<Do("parse_expression")>>)>>), 0)
         /\ k = "nest" => Cost3(k, Opt({"INDENT"}, <<DoWith("skip_block", 1)>>), 0)
  <1>1. Cost3(k, If({"destroy"}, <<Take, Name>>, <<Fail>>), 0)
    <2> DEFINE L == <<Take, Name>>
    <2>1. Mild0(k, L, 2) /\ Len(L) >= 1 /\ L[1] = Take
      BY Atoms DEF Mild0, IsList
    <2>2. Mild0(k, <<Fail>>, 1)
      BY Atoms, Milds
    <2> HIDE DEF L
    <2>3. Cost1(k, If({"destroy"}, L, <<Fail>>), 0)
      BY <2>1, <2>2, Levels1, Unmarked
    <2>4. QED
      BY <2>3, LevelsUp DEF L
  <1>2. Cost3(k, If({"="}, <<Take, If({"---"}, <<Take, E("NL")>>, <<Do("parse_expression"), Newline>>)>>,
                              <<E("NL")>>), 0)
    <2> DEFINE L == <<Take, E("NL")>>
               s == If({"---"}, L, <<Do("parse_expression"), Newline>>)
    <2>1. Cost0(k, E("NL"), 0)
      BY Atoms DEF Marks
    <2>2. Mild0(k, L, 2) /\ Len(L) >= 1 /\ L[1] = Take
      BY <2>1 DEF Mild0, IsList
    <2>3. Mild0(k, <<Do("parse_expression"), Newline>>, 1)
      BY Atoms, Milds, EasyOnes
    <2> HIDE DEF L
    <2>4. Cost1(k, s, 0)
      BY <2>2, <2>3, Levels1, Unmarked
    <2> HIDE DEF s
    <2>5. Mild1(k, <<E("NL")>>, 1)
      BY <2>1, Milds, Levels1
    <2>6. QED
      BY <2>4, <2>5, StatementSteps DEF s, L
  <1>3. Cost3(k, Result, 0)
    <2> DEFINE s == If({"!"}, <<Take>>, <<Do("parse_type")>>)
    <2>1. Mild0(k, <<Take>>, 2) /\ Len(<<Take>>) >= 1 /\ <<Take>>[1] = Take
      BY DEF Mild0, IsList
    <2>2. Mild0(k, <<Do("parse_type")>>, 1)
      BY Atoms, Milds, EasyOnes
    <2>3. Cost1(k, s, 0)
      BY <2>1, <2>2, Levels1, Unmarked
    <2> HIDE DEF s
    <2>4. Cost2(k, Opt({"->"}, <<s>>), 0)
      BY <2>3, Milds, Levels2, Unmarked
    <2>5. QED
      BY <2>4, LevelsUp DEF s, Result
  <1>4. Cost3(k, If({"NL"}, << >>, <<List("", <<Do("parse_type")>>), E(":")>>), 0)
    <2>1. Cost1(k, List("", <<Do("parse_type")>>), 0) /\ Cost1(k, E(":"), 0)
      BY Atoms, Nested, Levels1, EasyOnes DEF Marks
    <2>2. Mild1(k, <<List("", <<Do("parse_type")>>), E(":")>>, 1) /\ Mild1(k, << >>, 1)
      BY <2>1, Milds
    <2>3. QED
      BY <2>2, Levels2, LevelsUp
  <1>5. Cost3(k, If({"("}, <<DoWith("parse_params", FALSE)>>, <<Opt({"="}, <<Do("parse_expression")>>)>>), 0)
    <2>1. Cost1(k, DoWith("parse_params", FALSE), 0) /\ Cost1(k, Opt({"="}, <<Do("parse_expression")>>), 0)
      BY Atoms, Nested, Levels1, EasyOnes, Unmarked
    <2>2. QED
      BY <2>1, Milds, Levels2, LevelsUp
  <1>6. Cost3(k, Opt({"("}, <<If({")"}, << >>, <<Do("asm_operand")>>), E(")")>>), 0)
    <2> DEFINE s == If({")"}, << >>, <<Do("asm_operand")>>)
               L == <<s, E(")")>>
               w == -Weight(k, "(")
    <2>1. Cost1(k, s, 0) /\ Cost1(k, E(")"), w)
      BY Atoms, Nested, Levels1, WeightFacts, EasyOnes
    <2> HIDE DEF s, w
    <2>2. Ends1(k, L, 1, w)
      BY <2>1 DEF Ends1, IsList
    <2> HIDE DEF L
    <2>3. Cost2(k, Opt({"("}, L), 0)
      BY <2>2, Levels2 DEF w
    <2>4. QED
      BY <2>3, LevelsUp DEF L, s
  <1>7. Cost3(k, Opt({"("}, <<Opt(Names \cup {"str"}, << >>), E(")"),
                                 If({")", ","}, << >>, <<Do("parse_expression")>>)>>), 0)
    <2> DEFINE s == If({")", ","}, << >>, <<Do("parse_expression")>>)
               u == Opt(Names \cup {"str"}, << >>)
               L == <<u, E(")"), s>>
               w == -Weight(k, "(")
    <2>1. Cost1(k, s, 0) /\ Cost1(k, E(")"), w) /\ Cost1(k, u, 0)
      <3>1. Cost1(k, s, 0)
        BY Atoms, Nested, EasyOnes
      <3>2. Cost1(k, E(")"), w)
        BY Atoms, Levels1, WeightFacts
      <3>3. Cost1(k, u, 0)
        BY Milds, Levels1, Unmarked
      <3>4. QED
        BY <3>1, <3>2, <3>3
    <2> HIDE DEF s, u, w
    <2>2. Len(L) = 3 /\ IsList(L) /\ Cost1(k, L[1], 0) /\ Cost1(k, L[2], w) /\ Cost1(k, L[3], 0)
      BY <2>1 DEF IsList
    <2> HIDE DEF L
    <2>3. Ends1(k, L, 1, w)
      <3>1. 2 \in 1 .. Len(L) /\ \A i \in 1 .. Len(L) : i # 2 => i \in {1, 3}
        BY <2>2
      <3>2. QED
        BY <2>2, <3>1 DEF Ends1
    <2>4. Cost2(k, Opt({"("}, L), 0)
      BY <2>3, Levels2 DEF w
    <2>5. QED
      BY <2>4, LevelsUp DEF L, s, u
  <1>8. ASSUME k = "nest"
        PROVE  Cost3(k, Opt({"INDENT"}, <<DoWith("skip_block", 1)>>), 0)
    <2> DEFINE L == <<DoWith("skip_block", 1)>>
    <2>1. Cost0(k, DoWith("skip_block", 1), 0)
      BY <1>8 DEF Cost0, DoWith, DoOK
    <2>2. Mild0(k, L, 1)
      BY <2>1, Milds
    <2>3. -Weight(k, "INDENT") = 0
      BY <1>8, WeightFacts
    <2> HIDE DEF L
    <2>4. Ends0(k, L, 1, -Weight(k, "INDENT"))
      BY <2>2, <2>3 DEF Ends0
    <2>5. Cost1(k, Opt({"INDENT"}, L), 0)
      BY <2>4, Levels1
    <2>6. QED
      BY <2>5, LevelsUp DEF L
  <1>9. QED
    BY <1>1, <1>2, <1>3, <1>4, <1>5, <1>6, <1>7, <1>8

(* The lists that productions end with: a suite, a handler, a block.        *)
LEMMA Endings ==
  ASSUME NEW k \in Kinds
  PROVE  /\ Mild3(k, Suite, 1) /\ Mild3(k, Catch, 1)
         /\ \A item \in Members : \A T : Turns(T, k, Block(item), 0)
         /\ \A s : Cost0(k, s, 0) => \A q \in Nat : \A T :
              /\ Turns(T, k, Within("(", ")", <<s>>), q) /\ Turns(T, k, Within("[", "]", <<s>>), q)
              /\ Turns(T, k, Params("(", ")", s), q) /\ Turns(T, k, Params("[", "]", s), q)
  <1>1. Mild3(k, Suite, 1)
    BY Plain, EasyOnes, Milds DEF Suite, Marks
  <1>2. Mild3(k, Catch, 1)
    BY Plain, EasyOnes, Milds, Handler, Unmarked DEF Marks
  <1>3. ASSUME NEW item \in Members, NEW T
        PROVE  Turns(T, k, Block(item), 0)
    <2> DEFINE w == Weight(k, "INDENT")
    <2>1. /\ Cost3(k, E("NL"), 0) /\ Cost3(k, E("INDENT"), w) /\ w \in {0, 1}
          /\ Cost3(k, DoWith("body", item), -w)
      BY Plain, Weighty DEF Marks
    <2> HIDE DEF w
    <2>2. Wrapped(T, k, Block(item), 0, 2, 3, w)
      BY <2>1 DEF Block, Wrapped, Free, IsList
    <2>3. QED
      BY <2>1, <2>2, TurnsFacts
  <1>4. ASSUME NEW s, NEW q \in Nat, NEW T, NEW open, NEW close, NEW w \in {0, 1}, Cost3(k, s, 0),
               Cost3(k, E(open), w), Cost3(k, E(close), -w)
        PROVE  Turns(T, k, <<E(open), s, E(close)>>, q)
    <2>1. Wrapped(T, k, <<E(open), s, E(close)>>, q, 1, 3, w)
      BY <1>4 DEF Wrapped, Free, IsList
    <2>2. QED
      BY <2>1, TurnsFacts
  <1>5. /\ Cost3(k, E("("), Weight(k, "(")) /\ Cost3(k, E(")"), -Weight(k, "(")) /\ Weight(k, "(") \in {0, 1}
        /\ Cost3(k, E("["), Weight(k, "[")) /\ Cost3(k, E("]"), -Weight(k, "[")) /\ Weight(k, "[") \in {0, 1}
    BY Weighty
  <1>6. ASSUME NEW s, Cost0(k, s, 0), NEW q \in Nat, NEW T
        PROVE  /\ Turns(T, k, Within("(", ")", <<s>>), q) /\ Turns(T, k, Within("[", "]", <<s>>), q)
               /\ Turns(T, k, Params("(", ")", s), q) /\ Turns(T, k, Params("[", "]", s), q)
    <2>1. /\ \A t : Cost3(k, If({t}, << >>, <<List(t, <<s>>)>>), 0)
          /\ \A t : Cost3(k, If({t}, << >>, <<s>>), 0)
      BY <1>6, Nested
    <2>2. QED
      BY <1>4, <1>5, <2>1 DEF Within, Params
  <1>7. QED
    BY <1>1, <1>2, <1>3, <1>6

-----------------------------------------------------------------------------
(***************************************************************************)
(* The productions, one by one.                                            *)
(***************************************************************************)
Starts(k, s) == Cost3(k, s, 0) \/ Opening(tok, s, pos)

(* Lists whose first step may depend on the token at the cursor.            *)
LEMMA Shapes ==
  ASSUME NEW k \in Kinds, InText
  PROVE  /\ Fits(k, << >>)
         /\ \A a : Starts(k, a) => Fits(k, <<a>>)
         /\ \A a, b : Starts(k, a) /\ Cost3(k, b, 0) => Fits(k, <<a, b>>)
         /\ \A a, b, c : Starts(k, a) /\ Cost3(k, b, 0) /\ Cost3(k, c, 0) => Fits(k, <<a, b, c>>)
         /\ \A a, b, c, d : /\ Starts(k, a) /\ Cost3(k, b, 0) /\ Cost3(k, c, 0) /\ Cost3(k, d, 0)
                            => Fits(k, <<a, b, c, d>>)
         /\ \A a, b, c, d, e : /\ Starts(k, a) /\ Cost3(k, b, 0) /\ Cost3(k, c, 0) /\ Cost3(k, d, 0)
                               /\ Cost3(k, e, 0)
                               => Fits(k, <<a, b, c, d, e>>)
         /\ \A a, b, c, d, e, f : /\ Starts(k, a) /\ Cost3(k, b, 0) /\ Cost3(k, c, 0) /\ Cost3(k, d, 0)
                                  /\ Cost3(k, e, 0) /\ Cost3(k, f, 0)
                                  => Fits(k, <<a, b, c, d, e, f>>)
         /\ \A a, b, c, d, e, f, g : /\ Starts(k, a) /\ Cost3(k, b, 0) /\ Cost3(k, c, 0)
                                     /\ Cost3(k, d, 0) /\ Cost3(k, e, 0) /\ Cost3(k, f, 0)
                                     /\ Cost3(k, g, 0)
                                     => Fits(k, <<a, b, c, d, e, f, g>>)
         /\ \A L, M : Neutral(tok, k, L, pos) /\ Mild3(k, M, 1) => Fits(k, L \o M)
         /\ \A L, M : Neutral(tok, k, L, pos) /\ Turns(tok, k, M, 0) => Fits(k, L \o M)
  <1>1. /\ Neutral(tok, k, << >>, pos)
        /\ \A a : Starts(k, a) => Neutral(tok, k, <<a>>, pos)
        /\ \A a, b : Starts(k, a) /\ Cost3(k, b, 0) => Neutral(tok, k, <<a, b>>, pos)
        /\ \A a, b, c : Starts(k, a) /\ Cost3(k, b, 0) /\ Cost3(k, c, 0) => Neutral(tok, k, <<a, b, c>>, pos)
    BY DEF Starts, Neutral, Free, IsList
  <1>2. ASSUME NEW a, NEW b, NEW c, NEW d, Starts(k, a), Cost3(k, b, 0), Cost3(k, c, 0), Cost3(k, d, 0)
        PROVE  Neutral(tok, k, <<a, b, c, d>>, pos)
    BY <1>2 DEF Starts, Neutral, Free, IsList
  <1>3. ASSUME NEW a, NEW b, NEW c, NEW d, NEW e, Starts(k, a), Cost3(k, b, 0), Cost3(k, c, 0), Cost3(k, d, 0),
               Cost3(k, e, 0)
        PROVE  Neutral(tok, k, <<a, b, c, d, e>>, pos)
    BY <1>3 DEF Starts, Neutral, Free, IsList
  <1>4. ASSUME NEW a, NEW b, NEW c, NEW d, NEW e, NEW f, Starts(k, a), Cost3(k, b, 0), Cost3(k, c, 0),
               Cost3(k, d, 0), Cost3(k, e, 0), Cost3(k, f, 0)
        PROVE  Neutral(tok, k, <<a, b, c, d, e, f>>, pos)
    BY <1>4 DEF Starts, Neutral, Free, IsList
  <1>5. ASSUME NEW a, NEW b, NEW c, NEW d, NEW e, NEW f, NEW g, Starts(k, a), Cost3(k, b, 0), Cost3(k, c, 0),
               Cost3(k, d, 0), Cost3(k, e, 0), Cost3(k, f, 0), Cost3(k, g, 0)
        PROVE  Neutral(tok, k, <<a, b, c, d, e, f, g>>, pos)
    BY <1>5 DEF Starts, Neutral, Free, IsList
  <1>6. \A L, M : Neutral(tok, k, L, pos) /\ Mild3(k, M, 1) => Fits(k, L \o M)
    BY NeutralJoin, Fitting
  <1>7. \A L, M : Neutral(tok, k, L, pos) /\ Turns(tok, k, M, 0) => Fits(k, L \o M)
    BY TurnsFacts, Fitting, Opens
  <1>8. \A P : Neutral(tok, k, P, pos) => Fits(k, P)
    BY Fitting
  <1>9. QED
    BY <1>1, <1>2, <1>3, <1>4, <1>5, <1>6, <1>7, <1>8

(* The same lists, before another.                                          *)
LEMMA Neutrals ==
  ASSUME NEW k \in Kinds
  PROVE  /\ Neutral(tok, k, << >>, pos)
         /\ \A a : Starts(k, a) => Neutral(tok, k, <<a>>, pos)
         /\ \A a, b : Starts(k, a) /\ Cost3(k, b, 0) => Neutral(tok, k, <<a, b>>, pos)
         /\ \A a, b, c : Starts(k, a) /\ Cost3(k, b, 0) /\ Cost3(k, c, 0) => Neutral(tok, k, <<a, b, c>>, pos)
         /\ \A L : Mild3(k, L, 1) => Neutral(tok, k, L, pos)
  <1>1. /\ Neutral(tok, k, << >>, pos)
        /\ \A a : Starts(k, a) => Neutral(tok, k, <<a>>, pos)
        /\ \A a, b : Starts(k, a) /\ Cost3(k, b, 0) => Neutral(tok, k, <<a, b>>, pos)
        /\ \A a, b, c : Starts(k, a) /\ Cost3(k, b, 0) /\ Cost3(k, c, 0) => Neutral(tok, k, <<a, b, c>>, pos)
    BY DEF Starts, Neutral, Free, IsList
  <1>2. \A L : Mild3(k, L, 1) => Neutral(tok, k, L, pos)
    BY DEF Mild3, Neutral, Free
  <1>3. QED
    BY <1>1, <1>2

(* Which steps may come first.                                              *)
LEMMA Starting ==
  ASSUME NEW k \in Kinds, InText
  PROVE  /\ \A s : Cost3(k, s, 0) => Starts(k, s)
         /\ Cur \notin Marks => Starts(k, Take)
         /\ AtName => Starts(k, Take)
         /\ \A t : At(t) /\ t \notin Marks => Starts(k, Take)
         /\ \A S : Cur \in S /\ S \cap Marks = {} => Starts(k, Take)
         /\ \A p \in Led : \A a : Begins(tok, p, pos) => Starts(k, DoWith(p, a)) /\ Starts(k, Do(p))
         /\ \A p \in Led \ {"bracket", "parse_group_or_tuple"} :
              k = "nest" \/ Begins(tok, p, pos) => Starts(k, Take)
  <1>1. \A s : Cost3(k, s, 0) => Starts(k, s)
    BY DEF Starts
  <1>2. Cur \notin Marks => Starts(k, Take)
    BY Opens DEF Starts
  <1>3. k = "nest" => Starts(k, Take)
    BY Plain DEF Starts
  <1>4. \A p \in Led : \A a : Begins(tok, p, pos) => Starts(k, DoWith(p, a)) /\ Starts(k, Do(p))
    BY Opens DEF Starts
  <1>5. \A p \in Led \ {"bracket", "parse_group_or_tuple"} :
              k = "nest" \/ Begins(tok, p, pos) => Starts(k, Take)
    BY <1>3, Opens DEF Starts
  <1>6. AtName => Starts(k, Take)
    BY <1>2, NoMarks DEF AtName
  <1>7. /\ \A t : At(t) /\ t \notin Marks => Starts(k, Take)
        /\ \A S : Cur \in S /\ S \cap Marks = {} => Starts(k, Take)
    BY <1>2 DEF At
  <1>8. QED
    BY <1>1, <1>2, <1>4, <1>5, <1>6, <1>7

(* A production that reports something costs nothing, where levels are      *)
(* counted, and is left where brackets are.                                 *)
LEMMA Reported ==
  ASSUME NEW k \in Kinds, InText
  PROVE  /\ Fits(k, <<Fail>>)
         /\ \A a : (k = "nest" => Cost3(k, a, 0)) => Fits(k, <<Fail, a>>)
         /\ \A a, b : (k = "nest" => Cost3(k, a, 0) /\ Cost3(k, b, 0)) => Fits(k, <<Fail, a, b>>)
         /\ \A a, b, c : (k = "nest" => Cost3(k, a, 0) /\ Cost3(k, b, 0) /\ Cost3(k, c, 0))
                         => Fits(k, <<Fail, a, b, c>>)
  <1>1. Cost3(k, Fail, 0)
    BY Plain
  <1>2. CASE k = "nest"
    BY <1>1, <1>2, Shapes, Starting
  <1>3. CASE k # "nest"
    BY <1>3 DEF Fits, Reports, IsList
  <1>4. QED
    BY <1>2, <1>3

(* Short lists put together.                                                *)
LEMMA Written ==
  /\ \A L : IsList(L) => << >> \o L = L /\ L \o << >> = L
  /\ \A a, b : <<a>> \o <<b>> = <<a, b>>
  /\ \A a, b, c : <<a, b>> \o <<c>> = <<a, b, c>>
  /\ \A a, b, c : <<a>> \o <<b, c>> = <<a, b, c>>
  /\ \A a, b, c, d : <<a>> \o <<b, c, d>> = <<a, b, c, d>>
  <1>1. ASSUME NEW L, IsList(L), NEW M, IsList(M), NEW P, IsList(P), Len(P) = Len(L) + Len(M),
               \A i \in 1 .. Len(P) : P[i] = IF i <= Len(L) THEN L[i] ELSE M[i - Len(L)]
        PROVE  L \o M = P
    <2> DEFINE join == L \o M
    <2>1. /\ IsList(join) /\ Len(join) = Len(L) + Len(M)
          /\ \A i \in 1 .. Len(L) + Len(M) : join[i] = IF i <= Len(L) THEN L[i] ELSE M[i - Len(L)]
      BY <1>1, Joins, JoinIsList
    <2> HIDE DEF join
    <2>2. join = P
      BY <1>1, <2>1, SameList
    <2>3. QED
      BY <2>2 DEF join
  <1>2. IsList(<< >>) /\ Len(<< >>) = 0
    BY DEF IsList
  <1>3. ASSUME NEW L, IsList(L)
        PROVE  << >> \o L = L /\ L \o << >> = L
    <2> DEFINE none == << >>
    <2>1. IsList(none) /\ Len(none) = 0 /\ Len(L) \in Nat
      BY <1>2, <1>3 DEF IsList
    <2> HIDE DEF none
    <2>2. none \o L = L
      <3>1. Len(L) = Len(none) + Len(L) /\ \A i \in 1 .. Len(L) : L[i] = IF i <= Len(none) THEN none[i] ELSE L[i - Len(none)]
        BY <2>1
      <3>2. QED
        BY <1>1, <1>3, <2>1, <3>1
    <2>3. L \o none = L
      <3>1. Len(L) = Len(L) + Len(none) /\ \A i \in 1 .. Len(L) : L[i] = IF i <= Len(L) THEN L[i] ELSE none[i - Len(L)]
        BY <2>1
      <3>2. QED
        BY <1>1, <1>3, <2>1, <3>1
    <2>4. QED
      BY <2>2, <2>3 DEF none
  <1>4. ASSUME NEW a, NEW b
        PROVE  <<a>> \o <<b>> = <<a, b>>
    <2> DEFINE L == <<a>>
               M == <<b>>
               P == <<a, b>>
    <2>1. /\ IsList(L) /\ Len(L) = 1 /\ L[1] = a /\ IsList(M) /\ Len(M) = 1 /\ M[1] = b
          /\ IsList(P) /\ Len(P) = 2 /\ P[1] = a /\ P[2] = b
      BY DEF IsList
    <2> HIDE DEF L, M, P
    <2>2. Len(P) = Len(L) + Len(M) /\ \A i \in 1 .. Len(P) : P[i] = IF i <= Len(L) THEN L[i] ELSE M[i - Len(L)]
      BY <2>1
    <2>3. L \o M = P
      BY <1>1, <2>1, <2>2
    <2>4. QED
      BY <2>3 DEF L, M, P
  <1>5. ASSUME NEW a, NEW b, NEW c
        PROVE  <<a, b>> \o <<c>> = <<a, b, c>>
    <2> DEFINE L == <<a, b>>
               M == <<c>>
               P == <<a, b, c>>
    <2>1. /\ IsList(L) /\ Len(L) = 2 /\ L[1] = a /\ L[2] = b /\ IsList(M) /\ Len(M) = 1 /\ M[1] = c
          /\ IsList(P) /\ Len(P) = 3 /\ P[1] = a /\ P[2] = b /\ P[3] = c
      BY DEF IsList
    <2> HIDE DEF L, M, P
    <2>2. Len(P) = Len(L) + Len(M) /\ \A i \in 1 .. Len(P) : P[i] = IF i <= Len(L) THEN L[i] ELSE M[i - Len(L)]
      BY <2>1
    <2>3. L \o M = P
      BY <1>1, <2>1, <2>2
    <2>4. QED
      BY <2>3 DEF L, M, P
  <1>6. ASSUME NEW a, NEW b, NEW c
        PROVE  <<a>> \o <<b, c>> = <<a, b, c>>
    <2> DEFINE L == <<a>>
               M == <<b, c>>
               P == <<a, b, c>>
    <2>1. /\ IsList(L) /\ Len(L) = 1 /\ L[1] = a /\ IsList(M) /\ Len(M) = 2 /\ M[1] = b /\ M[2] = c
          /\ IsList(P) /\ Len(P) = 3 /\ P[1] = a /\ P[2] = b /\ P[3] = c
      BY DEF IsList
    <2> HIDE DEF L, M, P
    <2>2. Len(P) = Len(L) + Len(M) /\ \A i \in 1 .. Len(P) : P[i] = IF i <= Len(L) THEN L[i] ELSE M[i - Len(L)]
      BY <2>1
    <2>3. L \o M = P
      BY <1>1, <2>1, <2>2
    <2>4. QED
      BY <2>3 DEF L, M, P
  <1>7. ASSUME NEW a, NEW b, NEW c, NEW d
        PROVE  <<a>> \o <<b, c, d>> = <<a, b, c, d>>
    <2> DEFINE L == <<a>>
               M == <<b, c, d>>
               P == <<a, b, c, d>>
    <2>1. /\ IsList(L) /\ Len(L) = 1 /\ L[1] = a /\ IsList(M) /\ Len(M) = 3 /\ M[1] = b /\ M[2] = c /\ M[3] = d
          /\ IsList(P) /\ Len(P) = 4 /\ P[1] = a /\ P[2] = b /\ P[3] = c /\ P[4] = d
      BY DEF IsList
    <2> HIDE DEF L, M, P
    <2>2. Len(P) = Len(L) + Len(M) /\ \A i \in 1 .. Len(P) : P[i] = IF i <= Len(L) THEN L[i] ELSE M[i - Len(L)]
      BY <2>1
    <2>3. L \o M = P
      BY <1>1, <2>1, <2>2
    <2>4. QED
      BY <2>3 DEF L, M, P
  <1>8. QED
    BY <1>3, <1>4, <1>5, <1>6, <1>7

(* Lists that close a bracket with their last step.                         *)
LEMMA Closing ==
  ASSUME NEW k \in Kinds, InText, NEW d \in {-1, 0}
  PROVE  /\ \A a : Cost3(k, a, d) => Shuts(k, <<a>>, d)
         /\ \A a, b : Starts(k, a) /\ Cost3(k, b, d) => Shuts(k, <<a, b>>, d)
         /\ \A a, b, c : Starts(k, a) /\ Cost3(k, b, 0) /\ Cost3(k, c, d) => Shuts(k, <<a, b, c>>, d)
         /\ \A a, c : Cost3(k, a, 0) /\ Eats(a) /\ Cost3(k, c, d) => Shuts(k, <<a, Progress, c>>, d)
  <1>1. ASSUME NEW L, IsList(L), Len(L) >= 1, Cost3(k, L[Len(L)], d),
               \A i \in 1 .. Len(L) : i # Len(L) => Free(tok, k, L, i, pos)
        PROVE  Shuts(k, L, d)
    <2>1. \A x \in Nat : x + d \in Nat => Runs(tok, k, L, pos, x, x + d)
      BY <1>1, ClosingRuns, Opens
    <2>2. Calm(L)
      <3>1. ASSUME NEW i \in 1 .. Len(L)
            PROVE  L[i] # Enter /\ L[i][1] # "progress"
        BY <1>1, <3>1, CalmSteps DEF Free
      <3>2. QED
        BY <3>1 DEF Calm
    <2>3. Placed(L)
      BY <2>2, CalmLists
    <2>4. QED
      BY <1>1, <2>1, <2>3 DEF Shuts
  <1>2. \A a : Cost3(k, a, d) => Shuts(k, <<a>>, d)
    BY <1>1 DEF IsList
  <1>3. ASSUME NEW a, NEW b, Starts(k, a), Cost3(k, b, d)
        PROVE  Shuts(k, <<a, b>>, d)
    <2> DEFINE L == <<a, b>>
    <2>1. IsList(L) /\ Len(L) = 2 /\ L[1] = a /\ L[2] = b
      BY DEF IsList
    <2> HIDE DEF L
    <2>2. Free(tok, k, L, 1, pos)
      BY <1>3, <2>1 DEF Starts, Free
    <2>3. \A i \in 1 .. Len(L) : i # Len(L) => Free(tok, k, L, i, pos)
      BY <2>1, <2>2
    <2>4. QED
      BY <1>1, <1>3, <2>1, <2>3 DEF L
  <1>4. ASSUME NEW a, NEW c, Cost3(k, a, 0), Eats(a), Cost3(k, c, d)
        PROVE  Shuts(k, <<a, Progress, c>>, d)
    <2> DEFINE L == <<a, Progress, c>>
    <2>1. /\ IsList(L) /\ Len(L) = 3 /\ L[1] = a /\ L[2] = Progress /\ L[3] = c
          /\ Progress[1] = "progress" /\ Progress[2] = pos /\ Progress # Enter
      BY DEF IsList, Progress, Enter
    <2> HIDE DEF L
    <2>2. ASSUME NEW x \in Nat, x + d \in Nat
          PROVE  Runs(tok, k, L, pos, x, x + d)
      <3>1. \A i \in 1 .. Len(L) : (i # 3 => Slot(tok, k, L, i, pos, 0)) /\ (i = 3 => Slot(tok, k, L, i, pos, d))
        BY <1>4, <2>1 DEF Slot
      <3>2. Slots(tok, k, L, pos, 0, 3, 0, d)
        BY <2>1, <3>1 DEF Slots
      <3>3. x + d = x + 0 + d /\ x + 0 \in Nat /\ 0 \in Int /\ d \in Int /\ 0 \in Nat /\ 3 \in Nat /\ 0 < 3
        OBVIOUS
      <3>4. pos \in Nat /\ 3 \in 1 .. Len(L)
        BY <2>1, Opens
      <3>5. QED
        BY <2>2, <3>2, <3>3, <3>4, SlotsRun
    <2>3. Placed(L)
      <3>1. /\ a # Enter /\ a[1] # "progress" /\ c # Enter /\ c[1] # "progress"
        BY <1>4, CalmSteps
      <3>2. \A i \in 1 .. Len(L) : i = 1 \/ i = 2 \/ i = 3
        BY <2>1
      <3>3. 1 \in 1 .. 2 - 1
        OBVIOUS
      <3>4. QED
        BY <1>4, <2>1, <3>1, <3>2, <3>3 DEF Placed
    <2>4. QED
      BY <2>1, <2>2, <2>3 DEF Shuts, L
  <1>5. ASSUME NEW a, NEW b, NEW c, Starts(k, a), Cost3(k, b, 0), Cost3(k, c, d)
        PROVE  Shuts(k, <<a, b, c>>, d)
    <2> DEFINE L == <<a, b, c>>
    <2>1. IsList(L) /\ Len(L) = 3 /\ L[1] = a /\ L[2] = b /\ L[3] = c
      BY DEF IsList
    <2> HIDE DEF L
    <2>2. Free(tok, k, L, 1, pos) /\ Free(tok, k, L, 2, pos)
      BY <1>5, <2>1 DEF Starts, Free
    <2>3. \A i \in 1 .. Len(L) : i # Len(L) => Free(tok, k, L, i, pos)
      BY <2>1, <2>2
    <2>4. Len(L) >= 1 /\ Cost3(k, L[Len(L)], d)
      BY <1>5, <2>1
    <2>5. QED
      BY <1>1, <2>1, <2>3, <2>4 DEF L
  <1>6. QED
    BY <1>2, <1>3, <1>4, <1>5

(* What a block holds, and what closes it.                                  *)
LEMMA BodiesShut ==
  ASSUME NEW k \in Kinds, InText
  PROVE  /\ \A item \in Members : Shuts(k, body(item), CostDo(k, "body"))
         /\ \A item \in Members : Shuts(k, body_item(item), CostDo(k, "body_item"))
         /\ Shuts(k, asm_line, CostDo(k, "asm_line")) /\ Shuts(k, handle_end, CostDo(k, "handle_end"))
  <1> DEFINE d == Weight(k, "DEDENT")
  <1>1. d \in {-1, 0} /\ Cost3(k, E("DEDENT"), d)
        /\ \A p \in {"body", "body_item", "asm_line", "handle_end"} : CostDo(k, p) = d
    BY WeightFacts, Weighty DEF CostDo
  <1>2. /\ \A p \in {"body", "body_item"}, a \in Members : Cost3(k, DoWith(p, a), d)
        /\ Cost3(k, Do("asm_line"), d) /\ Cost3(k, Do("handle_end"), d)
    BY <1>1, Weighty DEF Closers
  <1> HIDE DEF d
  <1>4. \A a : Cost3(k, a, d) => Shuts(k, <<a>>, d)
    BY <1>1, Closing
  <1>5. \A a, b : Starts(k, a) /\ Cost3(k, b, d) => Shuts(k, <<a, b>>, d)
    BY <1>1, Closing
  <1>6. \A a, c : Cost3(k, a, 0) /\ Eats(a) /\ Cost3(k, c, d) => Shuts(k, <<a, Progress, c>>, d)
    BY <1>1, Closing
  <1>7. ASSUME NEW item \in Members
        PROVE  Shuts(k, body(item), d)
    <2>1. Starts(k, Skip)
      BY Plain, Starting
    <2>2. QED
      BY <1>1, <1>2, <1>4, <1>5, <2>1 DEF body
  <1>8. ASSUME NEW item \in Members
        PROVE  Shuts(k, body_item(item), d)
    <2>1. Members \subseteq Easy
      BY EasyOnes DEF Members
    <2>2. Starts(k, Do(item))
      BY <2>1, Plain, Starting
    <2>3. \A a, b, c : <<a>> \o << >> \o <<c>> = <<a, c>> /\ <<a>> \o <<b>> \o <<c>> = <<a, b, c>>
      <3>1. \A a : IsList(<<a>>)
        BY DEF IsList
      <3>2. \A a : <<a>> \o << >> = <<a>>
        BY <3>1, Written
      <3>3. ASSUME NEW a, NEW b, NEW c
            PROVE  <<a>> \o << >> \o <<c>> = <<a, c>> /\ <<a>> \o <<b>> \o <<c>> = <<a, b, c>>
        <4>1. <<a>> \o << >> = <<a>> /\ <<a>> \o <<b>> = <<a, b>>
          BY <3>2, Written
        <4>2. <<a>> \o <<c>> = <<a, c>> /\ <<a, b>> \o <<c>> = <<a, b, c>>
          BY Written
        <4>3. QED
          BY <4>1, <4>2
      <3>4. QED
        BY <3>3
    <2>4. item \notin {"enum_member", "union_member"} => Eats(Do(item))
      BY Calls DEF Members, Eaters, Eats
    <2>5. \/ body_item(item) = <<E("DEDENT")>>
          \/ body_item(item) = <<Do(item), DoWith("body", item)>>
          \/ item \notin {"enum_member", "union_member"}
             /\ body_item(item) = <<Do(item), Progress, DoWith("body", item)>>
      BY <2>3 DEF body_item
    <2>6. Cost3(k, Do(item), 0)
      BY <2>1, Plain
    <2>7. QED
      BY <1>1, <1>2, <1>4, <1>5, <1>6, <2>2, <2>4, <2>5, <2>6
  <1>9. Shuts(k, asm_line, d)
    <2>1. Cur \in {"raw", "NL"} => Starts(k, Take)
      BY Starting DEF Marks
    <2>2. QED
      BY <1>1, <1>2, <1>4, <1>5, <2>1 DEF asm_line
  <1>10. Shuts(k, handle_end, d)
    <2>1. At("NL") => Starts(k, Take)
      BY Starting DEF Marks
    <2>2. QED
      BY <1>1, <1>2, <1>4, <1>5, <2>1 DEF handle_end
  <1>11. QED
    BY <1>1, <1>7, <1>8, <1>9, <1>10

(* Suites and statements.                                                   *)
LEMMA StatementsFit ==
  ASSUME NEW k \in Kinds, InText
  PROVE  /\ Fits(k, parse_suite) /\ Fits(k, parse_statement) /\ Fits(k, parse_simple_stmt)
         /\ \A a : Fits(k, assign_or_finish(a))
         /\ Fits(k, defer_rest) /\ Fits(k, parse_condition) /\ Fits(k, if_rest)
         /\ Fits(k, stmt_arm) /\ Fits(k, expr_arm) /\ Fits(k, parse_pattern) /\ Fits(k, pattern_rest)
         /\ \A a \in {Names, Names1} : Fits(k, name_list(a))
         /\ k = "nest" => \A a : Fits(k, skip_block(a))
  <1>1. Fits(k, parse_suite)
    <2>1. CASE At("NL")
      <3> DEFINE w == Weight(k, "INDENT")
      <3>1. /\ Cost3(k, E("INDENT"), w) /\ w \in {0, 1}
            /\ Cost3(k, DoWith("body", "parse_statement"), -w)
        BY Weighty DEF Members
      <3> HIDE DEF w
      <3>2. Opening(tok, Take, pos)
        BY <2>1, Opens DEF At, Marks
      <3>3. Wrapped(tok, k, <<Take, E("INDENT"), DoWith("body", "parse_statement")>>, pos, 2, 3, w)
        BY <3>1, <3>2 DEF Wrapped, Free, IsList
      <3>4. QED
        BY <2>1, <3>1, <3>3, Fitting DEF parse_suite
    <2>2. CASE ~At("NL") /\ Cur \in Compound
      BY <2>2, Reported, Plain, EasyOnes DEF parse_suite
    <2>3. CASE ~At("NL") /\ Cur \notin Compound
      BY <2>3, Shapes, Starting, Plain, EasyOnes DEF parse_suite
    <2>4. QED
      BY <2>1, <2>2, <2>3
  <1>2. Fits(k, parse_statement)
    <2>1. CASE Cur \in {"if", "while", "for", "match", "with", "asm"}
      <3>1. \A p \in {"parse_if", "parse_while", "parse_for", "parse_with", "parse_asm"} :
               Cur \in Lead(p) => Fits(k, <<Do(p)>>)
        BY Opens, Starting, LedOnes, Shapes
      <3>2. Cur \in Lead("parse_match") => Fits(k, <<DoWith("parse_match", FALSE)>>)
        BY Opens, Starting, LedOnes, Shapes
      <3>3. \/ Cur = "if" /\ parse_statement = <<Do("parse_if")>>
            \/ Cur = "while" /\ parse_statement = <<Do("parse_while")>>
            \/ Cur = "for" /\ parse_statement = <<Do("parse_for")>>
            \/ Cur = "match" /\ parse_statement = <<DoWith("parse_match", FALSE)>>
            \/ Cur = "with" /\ parse_statement = <<Do("parse_with")>>
            \/ Cur = "asm" /\ parse_statement = <<Do("parse_asm")>>
        BY <2>1 DEF At, AtName, Names, Words, parse_statement
      <3>4. QED
        BY <3>1, <3>2, <3>3, LedOnes
    <2>2. CASE AtName /\ Peek(1) = ":" /\ (Peek(2) = "while" \/ Peek(2) = "for")
      <3>1. Cur \in Names /\ Cur \notin {"if", "while", "for", "match", "with", "asm"}
        BY <2>2 DEF AtName, Names, Words
      <3>2. Opening(tok, Take, pos) /\ Opening(tok, Take, pos + 1)
        BY <2>2, <3>1, Opens, NoMarks DEF Marks
      <3>3. /\ Peek(2) = "while" => Opening(tok, Do("parse_while"), pos + 2)
            /\ Peek(2) = "for" => Opening(tok, Do("parse_for"), pos + 2)
        BY Opens, LedOnes
      <3>4. /\ Peek(2) = "while" => Neutral(tok, k, <<Take, Take, Do("parse_while")>>, pos)
            /\ Peek(2) = "for" => Neutral(tok, k, <<Take, Take, Do("parse_for")>>, pos)
        BY <3>2, <3>3 DEF Neutral, Free, IsList
      <3>5. QED
        BY <2>2, <3>1, <3>4, Fitting DEF At, parse_statement
    <2>3. CASE /\ Cur \notin {"if", "while", "for", "match", "with", "asm"}
               /\ ~(AtName /\ Peek(1) = ":" /\ (Peek(2) = "while" \/ Peek(2) = "for"))
      <3>1. parse_statement = <<Do("parse_simple_stmt")>>
        BY <2>3 DEF At, parse_statement
      <3>2. QED
        BY <3>1, Shapes, Starting, Plain, EasyOnes
    <2>4. QED
      BY <2>1, <2>2, <2>3
  <1>3. Fits(k, parse_simple_stmt)
    <2>1. CASE At("spawn") /\ Peek(1) \in Names
      <3>1. parse_simple_stmt = <<Fail, Sync>>
        BY <2>1 DEF At, parse_simple_stmt
      <3>2. QED
        BY <3>1, Reported, Plain
    <2>2. CASE Cur \in {"let", "var"}
      <3>1. Fits(k, <<Do("parse_binding")>>)
        BY <2>2, Opens, Starting, LedOnes, Shapes
      <3>2. QED
        BY <2>2, <3>1 DEF At, parse_simple_stmt
    <2>3. CASE At("return")
      <3>1. Starts(k, Take) /\ Cost3(k, Node("other"), 0) /\ Cost3(k, Newline, 0)
            /\ Cost3(k, If(LineEnd, << >>, <<Do("parse_expression")>>), 0)
        BY <2>3, Starting, Plain, Nested, Atoms, EasyOnes DEF Marks
      <3>2. QED
        BY <2>3, <3>1, Shapes DEF At, parse_simple_stmt
    <2>4. CASE Cur \in {"break", "continue"}
      <3>1. Starts(k, Take) /\ Cost3(k, Opt(Names, << >>), 0) /\ Cost3(k, E("NL"), 0)
        BY <2>4, Starting, Plain, Unmarked DEF Marks
      <3>2. QED
        BY <2>4, <3>1, Shapes DEF At, parse_simple_stmt
    <2>5. CASE At("defer")
      <3>1. Starts(k, Take)
        BY <2>5, Starting DEF Marks
      <3>2. QED
        BY <2>5, <3>1, Shapes, StatementSteps DEF At, parse_simple_stmt
    <2>6. CASE At("recover")
      <3>1. Starts(k, Take) /\ Cost3(k, Do("parse_expression"), 0) /\ Cost3(k, Newline, 0)
        BY <2>6, Starting, Plain, EasyOnes DEF Marks
      <3>2. QED
        BY <2>6, <3>1, Shapes DEF At, parse_simple_stmt
    <2>7. CASE At("free")
      <3>1. Starts(k, Do("parse_free")) /\ Cost3(k, Newline, 0)
        BY <2>7, Opens, Starting, LedOnes, Plain DEF At
      <3>2. QED
        BY <2>7, <3>1, Shapes DEF At, parse_simple_stmt
    <2>8. CASE /\ ~(At("spawn") /\ Peek(1) \in Names)
               /\ Cur \notin {"let", "var", "return", "break", "continue", "defer", "recover", "free"}
      <3>1. parse_simple_stmt = <<Do("parse_unary"), DoWith("assign_or_finish", <<FALSE, pos>>)>>
        BY <2>8 DEF At, parse_simple_stmt
      <3>2. QED
        BY <3>1, Shapes, Starting, Plain, EasyOnes
    <2>9. QED
      BY <2>1, <2>2, <2>3, <2>4, <2>5, <2>6, <2>7, <2>8 DEF At
  <1>4. ASSUME NEW a
        PROVE  Fits(k, assign_or_finish(a))
    <2>1. CASE Cur \in AssignOps
      <3>1. Starts(k, Take) /\ Cost3(k, Do("parse_expression"), 0) /\ Cost3(k, Newline, 0)
        BY <2>1, Starting, NoMarks, Plain, EasyOnes
      <3>2. QED
        BY <2>1, <3>1, Shapes DEF assign_or_finish
    <2>2. CASE Cur \notin AssignOps
      <3>1. \/ assign_or_finish(a) = <<DoWith("finish_expression", a[2]), Do("defer_rest")>>
            \/ assign_or_finish(a) = <<DoWith("finish_expression", a[2]), Newline>>
        BY <2>2, Written DEF assign_or_finish
      <3>2. QED
        BY <3>1, Shapes, Starting, Plain, EasyOnes
    <2>3. QED
      BY <2>1, <2>2
  <1>5. Fits(k, defer_rest)
    BY Shapes, Starting, StatementSteps DEF defer_rest
  <1>6. Fits(k, parse_condition)
    <2>1. At("let") => Starts(k, Take)
      BY Starting DEF Marks
    <2>2. Cost3(k, Name, 0) /\ Cost3(k, E("="), 0) /\ Cost3(k, Do("parse_expression"), 0)
      BY Plain, EasyOnes DEF Marks
    <2>3. QED
      BY <2>1, <2>2, Shapes, Starting DEF parse_condition
  <1>7. Mild3(k, Suite, 1) /\ IsList(Suite)
    BY Endings DEF Mild3
  <1>8. Fits(k, if_rest)
    <2>1. CASE At("elif")
      <3>1. Neutral(tok, k, <<Take, Do("parse_condition")>>, pos)
        BY <2>1, Starting, Neutrals, Plain, EasyOnes DEF Marks
      <3>2. Neutral(tok, k, <<Take, Do("parse_condition")>> \o Suite, pos)
        BY <1>7, <3>1, NeutralJoin
      <3>3. Mild3(k, <<Do("if_rest")>>, 1)
        BY Plain, Milds, EasyOnes
      <3>4. QED
        BY <2>1, <3>2, <3>3, Shapes DEF At, if_rest
    <2>2. CASE At("else")
      <3>1. Neutral(tok, k, <<Take>>, pos)
        BY <2>2, Starting, Neutrals DEF Marks
      <3>2. QED
        BY <1>7, <2>2, <3>1, Shapes DEF At, if_rest
    <2>3. CASE ~At("elif") /\ ~At("else")
      BY <2>3, Shapes DEF if_rest
    <2>4. QED
      BY <2>1, <2>2, <2>3
  <1>9. Neutral(tok, k, Patterns, pos)
    <2>1. Cost3(k, List("", <<Do("parse_pattern")>>), 0) /\ Cost3(k, Opt({"if"}, <<Do("parse_expression")>>), 0)
      BY Nested, Atoms, EasyOnes, Unmarked
    <2>2. QED
      BY <2>1, Milds, Neutrals DEF Patterns
  <1>10. Fits(k, stmt_arm)
    BY <1>7, <1>9, Shapes DEF stmt_arm
  <1>11. Fits(k, expr_arm)
    <2>1. Mild3(k, <<E("=>"), Do("parse_expression"), E("NL")>>, 1)
      BY Plain, Milds, EasyOnes DEF Marks
    <2>2. QED
      BY <1>9, <2>1, Shapes DEF expr_arm
  <1>12. Fits(k, parse_pattern)
    <2>1. CASE At("_")
      BY <2>1, Starting, Shapes DEF At, Marks, parse_pattern
    <2>2. CASE At(".")
      <3>1. Starts(k, Take) /\ Cost3(k, One(Names \cup Keywords), 0)
        BY <2>2, Starting, Plain, NoMarks DEF Marks
      <3>2. QED
        BY <2>2, <3>1, StatementSteps, Shapes DEF At, parse_pattern
    <2>3. CASE ~At("_") /\ ~At(".")
      <3>1. Starts(k, Opt({"-"}, << >>)) /\ Cost3(k, Do("pattern_rest"), 0)
        BY Starting, Plain, EasyOnes, Unmarked
      <3>2. QED
        BY <2>3, <3>1, Shapes DEF parse_pattern
    <2>4. QED
      BY <2>1, <2>2, <2>3
  <1>13. Fits(k, pattern_rest)
    <2>1. CASE Cur \in Literals
      <3>1. Starts(k, Take) /\ Cost3(k, Opt({"..<"}, <<Take>>), 0)
        BY <2>1, Starting, NoMarks, Plain DEF RangeEnd
      <3>2. QED
        BY <2>1, <3>1, Shapes DEF pattern_rest
    <2>2. CASE Cur \notin Literals
      BY <2>2, Starting, Shapes, Reported DEF pattern_rest
    <2>3. QED
      BY <2>1, <2>2
  <1>14. ASSUME NEW a \in {Names, Names1}
        PROVE  Fits(k, name_list(a))
    <2>1. CASE Cur \in a
      <3>1. Starts(k, Take)
        BY <2>1, Starting, Unmarked
      <3>2. QED
        BY <2>1, <3>1, StatementSteps, Shapes DEF name_list
    <2>2. CASE Cur \notin a
      BY <2>2, Reported DEF name_list
    <2>3. QED
      BY <2>1, <2>2
  <1>15. ASSUME k = "nest", NEW a
        PROVE  Fits(k, skip_block(a))
    <2>1. Starts(k, Take) /\ \A b : Cost3(k, DoWith("skip_block", b), 0)
      <3>1. \A b : Cost0(k, DoWith("skip_block", b), 0)
        BY <1>15 DEF Cost0, DoWith, DoOK
      <3>2. QED
        BY <1>15, <3>1, Starting, Plain, LevelsUp
    <2>2. \/ skip_block(a) = << >> \/ \E b : skip_block(a) = <<Take, DoWith("skip_block", b)>>
      BY DEF skip_block
    <2>3. QED
      BY <2>1, <2>2, Shapes
  <1>16. QED
    BY <1>1, <1>2, <1>3, <1>4, <1>5, <1>6, <1>8, <1>10, <1>11, <1>12, <1>13, <1>14, <1>15

(* The statements that are called at their first word.                      *)
LEMMA LedStatementsFit ==
  ASSUME NEW k \in Kinds, InText
  PROVE  /\ k = "nest" \/ Begins(tok, "parse_if", pos) => Fits(k, parse_if)
         /\ k = "nest" \/ Begins(tok, "parse_while", pos) => Fits(k, parse_while)
         /\ k = "nest" \/ Begins(tok, "parse_for", pos) => Fits(k, parse_for)
         /\ k = "nest" \/ Begins(tok, "parse_with", pos) => Fits(k, parse_with)
         /\ k = "nest" \/ Begins(tok, "parse_match", pos) => \A a : Fits(k, parse_match(a))
         /\ k = "nest" \/ Begins(tok, "parse_asm", pos) => Fits(k, parse_asm)
         /\ k = "nest" \/ Begins(tok, "parse_binding", pos) => Fits(k, parse_binding)
         /\ k = "nest" \/ Begins(tok, "parse_free", pos) => Fits(k, parse_free)
         /\ Shuts(k, free_rest, CostDo(k, "free_rest"))
         /\ Fits(k, asm_operand)
  <1>1. Mild3(k, Suite, 1) /\ IsList(Suite)
    BY Endings DEF Mild3
  <1>2. ASSUME k = "nest" \/ Begins(tok, "parse_if", pos)
        PROVE  Fits(k, parse_if)
    <2>1. Starts(k, Take) /\ Cost3(k, Do("parse_condition"), 0)
      BY <1>2, Starting, LedOnes, Plain, EasyOnes
    <2>2. Neutral(tok, k, <<Take, Do("parse_condition")>> \o Suite, pos)
      BY <1>1, <2>1, Neutrals, NeutralJoin
    <2>3. Mild3(k, <<Do("if_rest")>>, 1)
      BY Plain, Milds, EasyOnes
    <2>4. QED
      BY <2>2, <2>3, Shapes DEF parse_if
  <1>3. ASSUME k = "nest" \/ Begins(tok, "parse_while", pos)
        PROVE  Fits(k, parse_while)
    <2>1. Starts(k, Take) /\ Cost3(k, Do("parse_condition"), 0)
      BY <1>3, Starting, LedOnes, Plain, EasyOnes
    <2>2. QED
      BY <1>1, <2>1, Neutrals, Shapes DEF parse_while
  <1>4. ASSUME k = "nest" \/ Begins(tok, "parse_for", pos)
        PROVE  Fits(k, parse_for)
    <2> DEFINE s == If({"("}, <<Take, Opt(Names, << >>), E(","), DoWith("name_list", Names), E(")")>>,
                             <<One(Names1), Opt({":"}, <<Do("parse_type")>>)>>)
               L == <<Take, s, E("in"), Opt({"&"}, << >>), Do("parse_expression")>>
    <2>1. /\ Starts(k, Take) /\ Cost3(k, E("in"), 0) /\ Cost3(k, Opt({"&"}, << >>), 0)
          /\ Cost3(k, Do("parse_expression"), 0)
      BY <1>4, Starting, LedOnes, Plain, EasyOnes, Unmarked DEF Marks
    <2>2. Cost3(k, s, 0)
      BY StatementSteps
    <2> HIDE DEF s
    <2>3. Neutral(tok, k, L, pos)
      BY <2>1, <2>2 DEF Starts, Neutral, Free, IsList
    <2> HIDE DEF L
    <2>4. QED
      BY <1>1, <2>3, Shapes DEF parse_for, L, s
  <1>5. ASSUME k = "nest" \/ Begins(tok, "parse_with", pos)
        PROVE  Fits(k, parse_with)
    <2>1. Starts(k, Take) /\ Cost3(k, Do("parse_expression"), 0)
      BY <1>5, Starting, LedOnes, Plain, EasyOnes
    <2>2. QED
      BY <1>1, <2>1, Neutrals, Shapes DEF parse_with
  <1>6. ASSUME k = "nest" \/ Begins(tok, "parse_match", pos), NEW a
        PROVE  Fits(k, parse_match(a))
    <2> DEFINE L == <<Take, Do("parse_expression"), E(":")>>
               M == Block(IF a THEN "expr_arm" ELSE "stmt_arm")
               P == <<Node("suite")>>
    <2>1. Starts(k, Take) /\ Cost3(k, Do("parse_expression"), 0) /\ Cost3(k, E(":"), 0)
      BY <1>6, Starting, LedOnes, Plain, EasyOnes DEF Marks
    <2>2. Neutral(tok, k, L, pos)
      BY <2>1, Neutrals
    <2>3. Turns(tok, k, M, 0)
      <3>1. (IF a THEN "expr_arm" ELSE "stmt_arm") \in Members
        BY DEF Members
      <3>2. QED
        BY <3>1, Endings
    <2>4. Turns(tok, k, P, 0)
      BY Plain, Milds, TurnsFacts
    <2> HIDE DEF L, M, P
    <2>5. Turns(tok, k, L \o M, pos)
      BY <2>2, <2>3, TurnsFacts, Opens
    <2>6. Turns(tok, k, (L \o M) \o P, pos)
      BY <2>4, <2>5, TurnsFacts, Opens
    <2>7. Fits(k, (L \o M) \o P)
      BY <2>6, Fitting
    <2>8. QED
      BY <2>7 DEF parse_match, L, M, P
  <1>7. ASSUME k = "nest" \/ Begins(tok, "parse_asm", pos)
        PROVE  Fits(k, parse_asm)
    <2> DEFINE s == Opt({"("}, <<If({")"}, << >>, <<Do("asm_operand")>>), E(")")>>)
               w == Weight(k, "INDENT")
    <2>1. Free(tok, k, parse_asm, 1, pos)
      <3>1. Starts(k, Take) /\ parse_asm[1] = Take
        BY <1>7, Starting, LedOnes DEF parse_asm
      <3>2. QED
        BY <3>1 DEF Starts, Free
    <2>2. Cost3(k, Name, 0) /\ Cost3(k, s, 0) /\ Cost3(k, E(":"), 0) /\ Cost3(k, E("NL"), 0)
      BY DeclarationSteps, Plain DEF Marks
    <2>3. Cost3(k, E("INDENT"), w) /\ w \in {0, 1} /\ Cost3(k, Do("asm_line"), -w)
      BY Weighty DEF Closers
    <2>4. /\ Len(parse_asm) = 7 /\ parse_asm[2] = Name /\ parse_asm[3] = s /\ parse_asm[4] = E(":")
          /\ parse_asm[5] = E("NL") /\ parse_asm[6] = E("INDENT") /\ parse_asm[7] = Do("asm_line")
      BY DEF parse_asm
    <2>5. IsList(parse_asm)
      <3>1. ASSUME NEW a, NEW b, NEW c, NEW d, NEW e, NEW f, NEW g
            PROVE  IsList(<<a, b, c, d, e, f, g>>)
        BY DEF IsList
      <3>2. QED
        BY <3>1 DEF parse_asm
    <2> HIDE DEF s, w
    <2>6. \A i \in {2, 3, 4, 5} : Free(tok, k, parse_asm, i, pos)
      BY <2>2, <2>4 DEF Free
    <2>7. \A i \in 1 .. Len(parse_asm) : i \notin {6, 7} => Free(tok, k, parse_asm, i, pos)
      BY <2>1, <2>4, <2>6
    <2>8. Wrapped(tok, k, parse_asm, pos, 6, 7, w)
      BY <2>3, <2>4, <2>5, <2>7 DEF Wrapped
    <2>9. QED
      BY <2>3, <2>8, Fitting
  <1>8. ASSUME k = "nest" \/ Begins(tok, "parse_binding", pos)
        PROVE  Fits(k, parse_binding)
    <2>1. /\ Starts(k, Take) /\ Cost3(k, Opt({":"}, <<Do("parse_type")>>), 0)
          /\ Cost3(k, Node("other"), 0) /\ Cost3(k, Newline, 0)
      BY <1>8, Starting, LedOnes, Plain, Nested, Atoms, EasyOnes, Unmarked
    <2>2. Cost3(k, If({"("}, <<Take, DoWith("name_list", Names1), E(")")>>, <<Name>>), 0)
      BY StatementSteps
    <2> DEFINE s == IF At("var") THEN If({"---"}, <<Take>>, <<Do("parse_expression")>>)
                                 ELSE Do("parse_expression")
               M == IF At("let") THEN <<Fail>> ELSE << >>
    <2>3. Cost1(k, s, 0)
      BY StatementSteps, Atoms, Levels1, EasyOnes
    <2>4. Mild1(k, M, 1)
      BY Atoms, Levels1, Milds
    <2> HIDE DEF s, M
    <2>5. Cost3(k, If({"="}, <<Take, s>>, M), 0)
      BY <2>3, <2>4, StatementSteps
    <2>6. QED
      BY <2>1, <2>2, <2>5, Shapes DEF parse_binding, s, M
  <1>9. ASSUME k = "nest" \/ Begins(tok, "parse_free", pos)
        PROVE  Fits(k, parse_free)
    <2> DEFINE w == Weight(k, "(")
    <2>1. /\ Cost3(k, E("("), w) /\ Cost3(k, Do("free_rest"), -w) /\ w \in {0, 1}
          /\ Cost3(k, Do("parse_expression"), 0) /\ Starts(k, Take)
      BY <1>9, Starting, LedOnes, Plain, EasyOnes, Weighty DEF Closers
    <2> HIDE DEF w
    <2>2. Wrapped(tok, k, parse_free, pos, 2, 4, w)
      BY <2>1 DEF parse_free, Wrapped, Free, Starts, IsList
    <2>3. QED
      BY <2>1, <2>2, Fitting
  <1>10. Shuts(k, free_rest, CostDo(k, "free_rest"))
    <2> DEFINE d == Weight(k, ")")
               L == free_rest
    <2>1. d \in {-1, 0} /\ CostDo(k, "free_rest") = d /\ Cost3(k, E(")"), d)
      BY WeightFacts, Weighty DEF CostDo
    <2>2. Cost3(k, Opt({"in"}, <<Do("parse_else_expr")>>), 0) /\ Cost3(k, Node(last), 0)
      BY Plain, Nested, Atoms, EasyOnes, Unmarked
    <2>3. /\ IsList(L) /\ Len(L) = 3 /\ L[1] = E(")") /\ L[2] = Opt({"in"}, <<Do("parse_else_expr")>>)
          /\ L[3] = Node(last)
      BY DEF free_rest, IsList
    <2> HIDE DEF d, L
    <2>4. Slots(tok, k, L, pos, 1, 3, d, 0)
      BY <2>1, <2>2, <2>3 DEF Slots, Slot
    <2>5. ASSUME NEW x \in Nat, x + d \in Nat
          PROVE  Runs(tok, k, L, pos, x, x + d)
      <3> DEFINE z == x + d
      <3>1. /\ z \in Nat /\ z = x + d + 0 /\ d \in Int /\ 0 \in Int /\ pos \in Nat
            /\ 1 \in Nat /\ 3 \in Nat /\ 1 < 3 /\ 1 \in 1 .. Len(L) /\ 3 \in 1 .. Len(L)
        BY <2>1, <2>3, <2>5, Opens
      <3> HIDE DEF z
      <3>2. Runs(tok, k, L, pos, x, z)
        BY <2>4, <2>5, <3>1, SlotsRun
      <3>3. QED
        BY <3>2 DEF z
    <2>6. Placed(L)
      <3>1. \A i \in 1 .. Len(L) : L[i] # Enter /\ L[i][1] # "progress"
        BY <2>1, <2>2, <2>3, CalmSteps
      <3>2. QED
        BY <3>1, CalmLists DEF Calm
    <2>7. QED
      BY <2>1, <2>3, <2>5, <2>6 DEF Shuts, L
  <1>11. Fits(k, asm_operand)
    <2>1. CASE AtName \/ At("in")
      <3>1. /\ Starts(k, Take) /\ Cost3(k, Opt({","}, <<Do("asm_operand")>>), 0)
        BY <2>1, Starting, Nested, Atoms, EasyOnes, Unmarked DEF Marks
      <3>2. QED
        BY <2>1, <3>1, DeclarationSteps, Shapes DEF asm_operand
    <2>2. CASE ~(AtName \/ At("in"))
      BY <2>2, Reported DEF asm_operand
    <2>3. QED
      BY <2>1, <2>2
  <1>12. QED
    BY <1>2, <1>3, <1>4, <1>5, <1>6, <1>7, <1>8, <1>9, <1>10, <1>11

(* Expressions, down to their operands.                                     *)
LEMMA OperatorsFit ==
  ASSUME NEW k \in Kinds, InText
  PROVE  /\ Fits(k, catch_rest) /\ Fits(k, parse_expression) /\ \A a : Fits(k, finish_expression(a))
         /\ Fits(k, parse_else_expr) /\ Fits(k, parse_else_rest) /\ Fits(k, else_arm)
         /\ Fits(k, parse_conditional) /\ Fits(k, parse_conditional_rest)
         /\ \A a : Fits(k, parse_binary(a))
         /\ \A a : Fits(k, parse_binary_rest(a))
         /\ Fits(k, parse_unary)
  <1> DEFINE u == Up(k)
  <1>1. u \in {0, 1} /\ u \in Int /\ -u \in Int /\ pos \in Nat
    BY Opens DEF Up
  <1>2. Fits(k, catch_rest)
    <2>1. CASE ~EndedSuite /\ At("catch")
      <3>1. Neutral(tok, k, <<Take>>, pos)
        BY <2>1, Starting, Neutrals DEF Marks
      <3>2. Neutral(tok, k, <<Take>> \o Catch, pos)
        BY <3>1, Endings, NeutralJoin
      <3>3. Mild3(k, <<Node("catch")>>, 1)
        BY Plain, Milds
      <3>4. QED
        BY <2>1, <3>2, <3>3, Shapes DEF catch_rest
    <2>2. CASE ~(~EndedSuite /\ At("catch"))
      BY <2>2, Shapes DEF catch_rest
    <2>3. QED
      BY <2>1, <2>2
  <1>3. Fits(k, parse_expression)
    <2>1. CASE nest >= MaxNest
      BY <2>1, Plain, Starting, Shapes DEF parse_expression
    <2>2. CASE ~(nest >= MaxNest)
      <3> DEFINE L == <<Enter, Do("parse_else_expr"), Do("catch_rest"), Leave>>
      <3>1. /\ IsList(L) /\ Len(L) = 4 /\ L[1] = Enter /\ L[2] = Do("parse_else_expr")
            /\ L[3] = Do("catch_rest") /\ L[4] = Leave
        BY DEF IsList
      <3>2. Cost3(k, Do("parse_else_expr"), 0) /\ Cost3(k, Do("catch_rest"), 0)
        BY Plain, EasyOnes
      <3> HIDE DEF L
      <3>3. Slots(tok, k, L, pos, 1, 4, u, -u)
        BY <3>1, <3>2 DEF Slots, Slot
      <3> HIDE DEF u
      <3>4. Fits(k, L)
        <4>1. ASSUME NEW x \in Nat
              PROVE  Runs(tok, k, L, pos, x, x)
          <5>1. /\ x = x + u + (-u) /\ x + u \in Nat /\ 1 \in 1 .. Len(L) /\ 4 \in 1 .. Len(L)
                /\ 1 \in Nat /\ 4 \in Nat /\ 1 < 4
            BY <1>1, <3>1
          <5> DEFINE v == -u
          <5>2. v \in Int /\ x = x + u + v /\ Slots(tok, k, L, pos, 1, 4, u, v)
            BY <1>1, <3>3, <5>1
          <5> HIDE DEF v
          <5>3. QED
            BY <1>1, <5>1, <5>2, SlotsRun
        <4>2. Placed(L)
          <5>1. \A i \in 2 .. 4 : L[i] # Enter /\ L[i][1] # "progress"
            <6>1. Leave # Enter /\ Leave[1] # "progress"
              BY DEF Leave, Enter
            <6>2. QED
              BY <3>1, <3>2, <6>1, CalmSteps
          <5>2. Enter[1] # "progress" /\ ~(nest >= MaxNest)
            BY <2>2 DEF Enter
          <5>3. QED
            BY <3>1, <5>1, <5>2 DEF Placed
        <4>3. QED
          BY <3>1, <4>1, <4>2 DEF Fits
      <3>5. QED
        BY <2>2, <3>4 DEF parse_expression, L
    <2>3. QED
      BY <2>1, <2>2
  <1>4. ASSUME NEW a
        PROVE  Fits(k, finish_expression(a))
    BY Plain, EasyOnes, Starting, Shapes DEF finish_expression
  <1>5. Fits(k, parse_else_expr)
    <2>1. CASE At("try")
      <3>1. Starts(k, Take) /\ Cost3(k, Do("parse_else_expr"), 0) /\ Cost3(k, Node("other"), 0) /\ Cost3(k, Fail, 0)
        BY <2>1, Starting, Plain, EasyOnes DEF Marks
      <3>2. CASE nest >= MaxNest
        <4>1. parse_else_expr = <<Take, Fail, Node("other")>>
          <5>1. parse_else_expr = <<Take>> \o <<Fail>> \o <<Node("other")>>
            BY <2>1, <3>2 DEF parse_else_expr
          <5>2. <<Take>> \o <<Fail>> = <<Take, Fail>>
            BY Written
          <5>3. <<Take, Fail>> \o <<Node("other")>> = <<Take, Fail, Node("other")>>
            BY Written
          <5>4. QED
            BY <5>1, <5>2, <5>3
        <4>2. QED
          BY <3>1, <4>1, Shapes
      <3>3. CASE ~(nest >= MaxNest)
        <4> DEFINE L == <<Take, Enter, Do("parse_else_expr"), Leave>>
                   P == <<Node("other")>>
        <4>1. parse_else_expr = L \o P
          BY <2>1, <3>3, Written DEF parse_else_expr
        <4>2. /\ IsList(L) /\ Len(L) = 4 /\ L[1] = Take /\ L[2] = Enter /\ L[3] = Do("parse_else_expr")
              /\ L[4] = Leave
          BY DEF IsList
        <4>3. Turns(tok, k, P, 0)
          BY <3>1, Milds, TurnsFacts
        <4> HIDE DEF L, P
        <4>4. Slot(tok, k, L, 1, pos, 0)
          <5>1. Free(tok, k, L, 1, pos)
            BY <3>1, <4>2 DEF Starts, Free
          <5>2. QED
            BY <1>1, <5>1, FreeSlot
        <4>5. Slots(tok, k, L, pos, 2, 4, u, -u)
          <5>1. Slot(tok, k, L, 2, pos, u) /\ Slot(tok, k, L, 3, pos, 0) /\ Slot(tok, k, L, 4, pos, -u)
            BY <3>1, <4>2 DEF Slot
          <5>2. QED
            BY <4>2, <4>4, <5>1 DEF Slots
        <4> HIDE DEF u
        <4>6. \A x \in Nat : Runs(tok, k, L, pos, x, x)
          <5>1. ASSUME NEW x \in Nat
                PROVE  Runs(tok, k, L, pos, x, x)
            <6>1. /\ x = x + u + (-u) /\ x + u \in Nat /\ 2 \in 1 .. Len(L) /\ 4 \in 1 .. Len(L)
                  /\ 2 \in Nat /\ 4 \in Nat /\ 2 < 4
              BY <1>1, <4>2
            <6> DEFINE v == -u
            <6>2. v \in Int /\ x = x + u + v /\ Slots(tok, k, L, pos, 2, 4, u, v)
              BY <1>1, <4>5, <6>1
            <6> HIDE DEF v
            <6>3. QED
              BY <1>1, <6>1, <6>2, SlotsRun
          <5>2. QED
            BY <5>1
        <4>7. \A x \in Nat : Runs(tok, k, L \o P, pos, x, x)
          BY <1>1, <4>3, <4>6, RunsJoin DEF Turns
        <4>8. IsList(P) /\ Len(P) = 1 /\ P[1] = Node("other")
          BY DEF P, IsList
        <4> DEFINE J == L \o P
        <4>9. /\ IsList(J) /\ Len(J) = 5 /\ J[1] = Take /\ J[2] = Enter /\ J[3] = Do("parse_else_expr")
              /\ J[4] = Leave /\ J[5] = Node("other")
          <5> HIDE DEF J
          <5>1. /\ IsList(J) /\ Len(J) = Len(L) + Len(P) /\ \A i \in 1 .. Len(L) : J[i] = L[i]
                /\ \A i \in 1 .. Len(P) : J[Len(L) + i] = P[i]
            <6>1. IsList(L) /\ IsList(P)
              BY <4>2, <4>8
            <6>2. QED
              BY <6>1, Joined DEF J
          <5>2. Len(J) = 5 /\ J[1] = L[1] /\ J[2] = L[2] /\ J[3] = L[3] /\ J[4] = L[4]
            BY <4>2, <4>8, <5>1
          <5>3. J[5] = P[1]
            <6>1. 1 \in 1 .. Len(P) /\ Len(L) + 1 = 5
              BY <4>2, <4>8
            <6>2. QED
              BY <5>1, <6>1
          <5>4. QED
            BY <4>2, <4>8, <5>1, <5>2, <5>3
        <4> HIDE DEF J
        <4>10. Placed(J)
          <5>1. \A i \in {1, 3, 4, 5} : J[i] # Enter /\ J[i][1] # "progress"
            <6>1. Leave # Enter /\ Leave[1] # "progress"
              BY DEF Leave, Enter
            <6>2. QED
              BY <3>1, <4>9, <6>1, CalmSteps
          <5>2. Enter[1] # "progress" /\ ~(nest >= MaxNest)
            BY <3>3 DEF Enter
          <5>3. \A i \in 1 .. Len(J) : i \in {1, 3, 4, 5} \/ i = 2
            BY <4>9
          <5>4. \A j \in 1 .. 2 - 1 : J[j] = Take
            BY <4>9
          <5>5. QED
            BY <4>9, <5>1, <5>2, <5>3, <5>4 DEF Placed
        <4>11. QED
          BY <4>1, <4>7, <4>9, <4>10 DEF Fits, J
      <3>4. QED
        BY <3>2, <3>3
    <2>2. CASE ~At("try")
      BY <2>2, Plain, EasyOnes, Starting, Shapes DEF parse_else_expr
    <2>3. QED
      BY <2>1, <2>2
  <1>6. Fits(k, parse_else_rest)
    <2>1. At("else") => Starts(k, Take)
      BY Starting DEF Marks
    <2>2. QED
      BY <2>1, Plain, EasyOnes, Shapes DEF parse_else_rest
  <1>7. Fits(k, else_arm)
    <2>1. CASE At("return")
      <3>1. Starts(k, Take) /\ \A S : Cost3(k, If(S, << >>, <<Do("parse_else_expr")>>), 0)
        BY <2>1, Starting, Nested, Atoms, EasyOnes DEF Marks
      <3>2. QED
        BY <2>1, <3>1, Shapes DEF At, else_arm
    <2>2. CASE Cur \in {"break", "continue"}
      <3>1. Starts(k, Take) /\ Cost3(k, Opt(Names, << >>), 0)
        BY <2>2, Starting, Plain, Unmarked DEF Marks
      <3>2. QED
        BY <2>2, <3>1, Shapes DEF At, else_arm
    <2>3. CASE ~At("return") /\ Cur \notin {"break", "continue"}
      BY <2>3, Plain, EasyOnes, Starting, Shapes DEF else_arm
    <2>4. QED
      BY <2>1, <2>2, <2>3
  <1>8. Fits(k, parse_conditional)
    BY Plain, EasyOnes, Starting, Shapes DEF parse_conditional
  <1>9. Fits(k, parse_conditional_rest)
    <2>1. At("if") => Starts(k, Take)
      BY Starting DEF Marks
    <2>2. Cost3(k, E("else"), 0)
      BY Plain DEF Marks
    <2>3. QED
      BY <2>1, <2>2, Plain, EasyOnes, Shapes DEF parse_conditional_rest
  <1>10. ASSUME NEW a
         PROVE  Fits(k, parse_binary(a))
    BY Plain, EasyOnes, Starting, Shapes DEF parse_binary
  <1>11. ASSUME NEW a
         PROVE  Fits(k, parse_binary_rest(a))
    <2>1. CASE \/ EndedSuite \/ PrecOf(Cur) < a.min \/ PrecOf(Cur) = 0 \/ nest + a.chain + 1 > MaxChain
      <3>1. parse_binary_rest(a) = << >> \/ parse_binary_rest(a) = <<Fail>>
        BY <2>1 DEF parse_binary_rest
      <3>2. QED
        BY <3>1, Shapes, Reported
    <2>2. CASE ~(\/ EndedSuite \/ PrecOf(Cur) < a.min \/ PrecOf(Cur) = 0 \/ nest + a.chain + 1 > MaxChain)
      <3> DEFINE d == [a EXCEPT !.chain = @ + 1, !.cmp = @ \/ Cur \in Compare, !.range = @ \/ At("..<")]
                 M == <<Take, DoWith("parse_binary", PrecOf(Cur) + 1), Binary(a.lo, pos),
                        DoWith("parse_binary_rest", d)>>
      <3>1. parse_binary_rest(a) = << >> \o M \/ parse_binary_rest(a) = <<Fail>> \o M
        BY <2>2 DEF parse_binary_rest
      <3>2. Starts(k, Take) /\ (k = "nest" => Cost3(k, Take, 0))
        <4>1. Cur \notin Marks
          BY <2>2, NoMarks
        <4>2. QED
          BY <4>1, Starting, Plain
      <3>3. /\ Cost3(k, DoWith("parse_binary", PrecOf(Cur) + 1), 0) /\ Cost3(k, Binary(a.lo, pos), 0)
            /\ Cost3(k, DoWith("parse_binary_rest", d), 0)
        BY Plain, EasyOnes
      <3>4. Fits(k, M) /\ IsList(M) /\ << >> \o M = M
        <4> HIDE DEF d
        <4>1. IsList(M)
          BY DEF IsList
        <4>2. QED
          BY <3>2, <3>3, <4>1, Shapes, Written
      <3>5. k = "nest" => Mild3(k, M, 1)
        <4> HIDE DEF d
        <4>1. QED
          BY <3>2, <3>3 DEF Mild3, IsList
      <3> HIDE DEF M
      <3>6. Fits(k, <<Fail>> \o M)
        <4>1. CASE k = "nest"
          BY <3>5, <4>1, Plain, Starting, Neutrals, Shapes
        <4>2. CASE k # "nest"
          <5>1. IsList(<<Fail>> \o M) /\ Len(<<Fail>> \o M) = 1 + Len(M) /\ (<<Fail>> \o M)[1] = Fail
            BY <3>4, Prepended
          <5>2. Len(M) \in Nat
            BY <3>4 DEF IsList
          <5>3. 1 \in 1 .. Len(<<Fail>> \o M)
            BY <5>1, <5>2
          <5>4. QED
            BY <4>2, <5>1, <5>3, Fitting
        <4>3. QED
          BY <4>1, <4>2
      <3>7. QED
        BY <3>1, <3>4, <3>6
    <2>3. QED
      BY <2>1, <2>2
  <1>12. Fits(k, parse_unary)
    <2>1. CASE nest >= MaxNest
      BY <2>1, Plain, Starting, Shapes DEF parse_unary
    <2>2. CASE ~(nest >= MaxNest)
      <3> DEFINE mid == IF Cur \in PrefixOps
                        THEN <<Take, Do("parse_unary"), Node(IF At("not") THEN "not" ELSE "other")>>
                        ELSE IF is_scalar_cast_ahead
                        THEN <<Take, Do("parse_type"), E(")"), Landed(CastEnd + 1), Do("parse_unary"), Node("other")>>
                        ELSE <<Do("parse_postfix")>>
      <3>1. parse_unary = <<Enter>> \o mid \o <<Leave>>
        BY <2>2 DEF parse_unary
      <3>2. Turns(tok, k, mid, pos)
        <4>1. CASE Cur \in PrefixOps
          <5>1. Starts(k, Take)
            BY <4>1, Starting, NoMarks
          <5>2. Neutral(tok, k, <<Take, Do("parse_unary"), Node(IF At("not") THEN "not" ELSE "other")>>, pos)
            BY <5>1, Plain, EasyOnes, Neutrals
          <5>3. QED
            BY <1>1, <4>1, <5>2, TurnsFacts
        <4>2. CASE Cur \notin PrefixOps /\ is_scalar_cast_ahead
          <5> DEFINE w == Weight(k, "(")
                     v == Landed(CastEnd + 1)
                     L == <<Take, Do("parse_type"), E(")"), v, Do("parse_unary"), Node("other")>>
          <5>1. Cur = "(" /\ Taken(tok, pos) /\ Weight(k, tok[pos]) = w
            BY <4>2, Opens DEF is_scalar_cast_ahead, At, Taken, InText
          <5>2. /\ Cost3(k, E(")"), -w) /\ w \in {0, 1} /\ Cost3(k, Do("parse_type"), 0) /\ Cost3(k, v, 0)
                /\ Cost3(k, Do("parse_unary"), 0) /\ Cost3(k, Node("other"), 0)
            BY Plain, EasyOnes, Weighty
          <5> HIDE DEF w, v
          <5>3. Wrapped(tok, k, L, pos, 1, 3, w)
            BY <5>1, <5>2 DEF Wrapped, Free, IsList
          <5> HIDE DEF L
          <5>4. Turns(tok, k, L, pos)
            BY <1>1, <5>2, <5>3, TurnsFacts
          <5>5. QED
            BY <4>2, <5>4 DEF L, v
        <4>3. CASE Cur \notin PrefixOps /\ ~is_scalar_cast_ahead
          <5>1. Neutral(tok, k, <<Do("parse_postfix")>>, pos)
            BY Plain, EasyOnes, Starting, Neutrals
          <5>2. QED
            BY <1>1, <4>3, <5>1, TurnsFacts
        <4>4. QED
          BY <4>1, <4>2, <4>3
      <3> HIDE DEF mid
      <3>3. ASSUME NEW x \in Nat
            PROVE  Runs(tok, k, <<Enter>> \o mid \o <<Leave>>, pos, x, x)
        <4> DEFINE y == x + u
        <4>1. y \in Nat /\ y = x + Up(k) /\ x = y - Up(k)
          BY <1>1
        <4> HIDE DEF y
        <4>2. /\ Move(tok, k, Enter, pos, pos, x, y) /\ Move(tok, k, Enter, pos, 0, x, y)
              /\ Move(tok, k, Leave, 0, 0, y, x)
          BY <4>1 DEF Move
        <4>3. Runs(tok, k, mid, pos, y, y)
          BY <3>2, <4>1 DEF Turns
        <4>4. Runs(tok, k, <<Enter>> \o mid, pos, x, y)
          BY <1>1, <4>2, <4>3, RunsCons
        <4>5. Runs(tok, k, <<Leave>>, 0, y, x)
          BY <4>1, <4>2, RunsOne
        <4>6. QED
          BY <1>1, <4>4, <4>5, RunsJoin
      <3> DEFINE L == <<Enter>> \o mid
                 J == L \o <<Leave>>
      <3>4. IsList(mid) /\ Calm(mid)
        BY <3>2, TurnsFacts DEF Turns
      <3>5. /\ IsList(L) /\ L[1] = Enter /\ Len(L) = 1 + Len(mid) /\ Len(mid) \in Nat
            /\ \A i \in 2 .. Len(L) : L[i] = mid[i - 1]
        <4>1. Len(mid) \in Nat
          BY <3>4 DEF IsList
        <4>2. /\ IsList(<<Enter>> \o mid) /\ Len(<<Enter>> \o mid) = 1 + Len(mid)
              /\ (<<Enter>> \o mid)[1] = Enter
              /\ \A i \in 2 .. 1 + Len(mid) : (<<Enter>> \o mid)[i] = mid[i - 1]
          BY <3>4, Prepended
        <4>3. QED
          BY <4>1, <4>2
      <3> HIDE DEF L
      <3>6. IsList(<<Leave>>) /\ Len(<<Leave>>) = 1 /\ <<Leave>>[1] = Leave
        BY DEF IsList
      <3>7. /\ IsList(J) /\ Len(J) = 2 + Len(mid)
            /\ \A i \in 1 .. Len(L) : J[i] = L[i]
            /\ J[Len(L) + 1] = Leave
        BY <3>5, <3>6, Joined
      <3> HIDE DEF J
      <3>8. Placed(J)
        <4>1. ASSUME NEW i \in 1 .. Len(J), i # 1
              PROVE  J[i] # Enter /\ J[i][1] # "progress"
          <5>1. CASE i \in 2 .. Len(L)
            <6>1. J[i] = mid[i - 1] /\ i - 1 \in 1 .. Len(mid)
              BY <3>5, <3>7, <5>1
            <6>2. QED
              BY <3>4, <6>1 DEF Calm
          <5>2. CASE i \notin 2 .. Len(L)
            <6>1. i = Len(L) + 1
              BY <3>5, <3>7, <4>1, <5>2
            <6>2. QED
              BY <3>7, <6>1 DEF Leave, Enter
          <5>3. QED
            BY <5>1, <5>2
        <4>2. J[1] = Enter /\ Enter[1] # "progress" /\ ~(nest >= MaxNest)
          BY <2>2, <3>5, <3>7 DEF Enter
        <4>3. QED
          BY <4>1, <4>2 DEF Placed
      <3>9. QED
        BY <3>1, <3>3, <3>7, <3>8 DEF Fits, J, L
    <2>3. QED
      BY <2>1, <2>2
  <1>13. QED
    BY <1>2, <1>3, <1>4, <1>5, <1>6, <1>7, <1>8, <1>9, <1>10, <1>11, <1>12

(* Operands, and what follows them.                                         *)
LEMMA OperandsFit ==
  ASSUME NEW k \in Kinds, InText
  PROVE  /\ Fits(k, parse_postfix) /\ \A a : Fits(k, postfix_rest(a))
         /\ k = "nest" \/ Begins(tok, "bracket", pos) => Fits(k, bracket)
         /\ Shuts(k, parse_subscript, CostDo(k, "parse_subscript"))
         /\ Shuts(k, subscript_rest, CostDo(k, "subscript_rest"))
         /\ Fits(k, parse_arg_list) /\ Fits(k, argument) /\ Fits(k, parse_type_args)
         /\ Fits(k, measured) /\ Fits(k, parse_primary) /\ Fits(k, format_part)
         /\ Fits(k, parse_lambda) /\ Fits(k, lambda_param)
         /\ k = "nest" \/ Begins(tok, "parse_group_or_tuple", pos) => Fits(k, parse_group_or_tuple)
         /\ k = "nest" \/ Begins(tok, "parse_new", pos) => Fits(k, parse_new)
         /\ k = "nest" \/ Begins(tok, "parse_type_builtin", pos) => Fits(k, parse_type_builtin)
  <1>1. Fits(k, parse_postfix)
    BY Plain, EasyOnes, Starting, Shapes DEF parse_postfix
  <1>2. ASSUME NEW a
        PROVE  Fits(k, postfix_rest(a))
    <2> DEFINE again == DoWith("postfix_rest", a + 1)
    <2>1. Cost3(k, again, 0) /\ Cost3(k, Do("parse_arg_list"), 0) /\ \A v : Cost3(k, Node(v), 0)
      BY Plain, EasyOnes
    <2>2. \/ postfix_rest(a) = << >> \/ postfix_rest(a) = <<Fail>>
          \/ /\ At(".") /\ Peek(1) \in Names
             /\ postfix_rest(a) = <<Take, Take, Do("parse_arg_list"), Node("other"), again>>
          \/ /\ At(".") /\ \E v : postfix_rest(a) = <<Take, One(Names \cup Keywords \cup {"int"}), Node(v), again>>
          \/ At("(") /\ postfix_rest(a) = <<Do("parse_arg_list"), Node("other"), again>>
          \/ At("[") /\ postfix_rest(a) = <<Do("bracket"), Node("other"), again>>
      BY DEF postfix_rest, At
    <2> HIDE DEF again
    <2>3. CASE postfix_rest(a) = << >> \/ postfix_rest(a) = <<Fail>>
      BY <2>3, Shapes, Reported
    <2>4. CASE /\ At(".") /\ Peek(1) \in Names
               /\ postfix_rest(a) = <<Take, Take, Do("parse_arg_list"), Node("other"), again>>
      <3>1. Opening(tok, Take, pos) /\ Opening(tok, Take, pos + 1)
        BY <2>4, Opens, NoMarks DEF At, Marks
      <3>2. Neutral(tok, k, <<Take, Take, Do("parse_arg_list"), Node("other"), again>>, pos)
        BY <2>1, <3>1 DEF Neutral, Free, IsList
      <3>3. QED
        BY <2>4, <3>2, Fitting
    <2>5. CASE At(".") /\ \E v : postfix_rest(a) = <<Take, One(Names \cup Keywords \cup {"int"}), Node(v), again>>
      <3>1. Starts(k, Take) /\ Cost3(k, One(Names \cup Keywords \cup {"int"}), 0)
        BY <2>5, Starting, Plain, NoMarks DEF Marks
      <3>2. QED
        BY <2>1, <2>5, <3>1, Shapes
    <2>6. CASE At("(") /\ postfix_rest(a) = <<Do("parse_arg_list"), Node("other"), again>>
      BY <2>1, <2>6, Starting, Shapes
    <2>7. CASE At("[") /\ postfix_rest(a) = <<Do("bracket"), Node("other"), again>>
      <3>1. Starts(k, Do("bracket"))
        BY <2>7, Opens, Starting, LedOnes DEF At
      <3>2. QED
        BY <2>1, <2>7, <3>1, Shapes
    <2>8. QED
      BY <2>2, <2>3, <2>4, <2>5, <2>6, <2>7
  <1>3. ASSUME k = "nest" \/ Begins(tok, "bracket", pos)
        PROVE  Fits(k, bracket)
    <2> DEFINE w == Weight(k, "[")
    <2>1. /\ k = "nest" => Starts(k, Take) /\ Cost3(k, Take, 0) /\ w = 0
          /\ k # "nest" => Cur = "[" /\ Taken(tok, pos) /\ Weight(k, tok[pos]) = w
      <3>1. k # "nest" => Cur = "[" /\ Cur = tok[pos]
        BY <1>3, LedOnes, Opens
      <3>2. QED
        BY <3>1, Starting, Plain, WeightFacts DEF Taken, InText
    <2>2. w \in {0, 1} /\ pos \in Nat
      BY Weighty, Opens
    <2>3. CASE is_generic_call_ahead
      <3>1. /\ Cost3(k, Do("parse_type_args"), 0) /\ \A v : Cost3(k, Landed(v), 0)
            /\ Cost3(k, If({"("}, <<Do("parse_arg_list")>>, << >>), 0)
        BY Plain, Nested, Atoms, EasyOnes
      <3>2. QED
        BY <2>3, <3>1, Starting, Shapes DEF bracket
    <2>4. CASE ~is_generic_call_ahead /\ Peek(1) = "]" /\ Peek(2) = "("
      <3> DEFINE M == <<Take, Take, Do("parse_arg_list")>>
      <3>1. bracket = << >> \o M \/ bracket = <<Fail>> \o M
        BY <2>4 DEF bracket
      <3>2. IsList(M) /\ Len(M) = 3 /\ M[1] = Take /\ M[2] = Take /\ M[3] = Do("parse_arg_list")
        BY DEF IsList
      <3>3. Cost3(k, Do("parse_arg_list"), 0)
        BY Plain, EasyOnes
      <3> HIDE DEF M
      <3>4. << >> \o M = M
        BY <3>2, Written
      <3>5. CASE k = "nest"
        <4>1. Mild3(k, M, 1)
          <5>1. \A i \in 1 .. Len(M) : Cost3(k, M[i], 0)
            BY <2>1, <3>2, <3>3, <3>5
          <5>2. QED
            BY <3>2, <5>1 DEF Mild3
        <4>2. Neutral(tok, k, << >>, pos) /\ Neutral(tok, k, <<Fail>>, pos)
          BY Plain, Starting, Neutrals
        <4>3. QED
          BY <3>1, <4>1, <4>2, Shapes
      <3>6. CASE k # "nest"
        <4>1. Fits(k, <<Fail>> \o M)
          <5>1. IsList(M) /\ Len(M) \in Nat
            BY <3>2 DEF IsList
          <5>2. IsList(<<Fail>> \o M) /\ Len(<<Fail>> \o M) = 1 + Len(M) /\ (<<Fail>> \o M)[1] = Fail
            BY <5>1, Prepended
          <5>3. 1 \in 1 .. Len(<<Fail>> \o M)
            BY <5>1, <5>2
          <5>4. QED
            BY <3>6, <5>2, <5>3, Fitting
        <4>2. Fits(k, M)
          <5> DEFINE v == -w
          <5>1. Taken(tok, pos + 1) /\ Weight(k, tok[pos + 1]) = v
            <6>1. Tok(pos + 1) = "]"
              BY <2>4 DEF Peek
            <6>2. pos + 1 \in 1 .. Len(tok) /\ tok[pos + 1] = "]"
              BY <6>1, <2>2 DEF Tok
            <6>3. QED
              BY <6>2, WeightFacts DEF Taken
          <5>2. Slot(tok, k, M, 1, pos, w) /\ Slot(tok, k, M, 2, pos, v) /\ Slot(tok, k, M, 3, pos, 0)
            <6>1. pos + 1 - 1 = pos /\ pos + 2 - 1 = pos + 1
              BY <2>2
            <6>2. Slot(tok, k, M, 1, pos, w)
              BY <2>1, <3>2, <3>6, <6>1 DEF Slot, Ahead
            <6>3. Slot(tok, k, M, 2, pos, v)
              <7>1. Ahead(tok, M, 2, pos)
                BY <2>1, <3>2, <3>6, <6>1 DEF Ahead
              <7>2. QED
                BY <3>2, <5>1, <6>1, <7>1 DEF Slot
            <6>4. QED
              BY <3>2, <3>3, <6>2, <6>3 DEF Slot
          <5> HIDE DEF v
          <5>3. Slots(tok, k, M, pos, 1, 2, w, v)
            BY <3>2, <5>2 DEF Slots
          <5>4. v \in Int /\ w \in Int /\ w + v = 0
            BY <2>2 DEF v
          <5> HIDE DEF w
          <5>5. ASSUME NEW x \in Nat
                PROVE  Runs(tok, k, M, pos, x, x)
            <6>1. x + w \in Nat /\ x = x + w + v /\ 1 \in 1 .. Len(M) /\ 2 \in 1 .. Len(M) /\ 1 < 2 /\ 1 \in Nat /\ 2 \in Nat
              BY <2>2, <3>2, <5>4
            <6>2. QED
              BY <2>2, <5>3, <5>4, <6>1, SlotsRun
          <5>6. Calm(M)
            BY <3>2, <3>3, CalmSteps DEF Calm
          <5>7. QED
            BY <5>5, <5>6, Fitting DEF Turns
        <4>3. QED
          BY <3>1, <3>4, <4>1, <4>2
      <3>7. QED
        BY <3>5, <3>6
    <2>5. CASE ~is_generic_call_ahead /\ ~(Peek(1) = "]" /\ Peek(2) = "(")
      <3>1. Cost3(k, Do("parse_subscript"), -w)
        BY Weighty DEF Closers
      <3>2. bracket = <<Take, Do("parse_subscript")>>
        BY <2>5 DEF bracket
      <3> HIDE DEF w
      <3>3. Wrapped(tok, k, bracket, pos, 1, 2, w)
        BY <2>1, <3>1, <3>2 DEF Wrapped, IsList
      <3>4. QED
        BY <2>2, <3>3, Fitting
    <2>6. QED
      BY <2>3, <2>4, <2>5
  <1> DEFINE d == Weight(k, "]")
  <1>4. /\ d \in {-1, 0} /\ Cost3(k, E("]"), d)
        /\ CostDo(k, "parse_subscript") = d /\ CostDo(k, "subscript_rest") = d
        /\ Cost3(k, Do("subscript_rest"), d)
    BY WeightFacts, Weighty DEF Closers
  <1> HIDE DEF d
  <1>5. Shuts(k, parse_subscript, d)
    <2>1. CASE At("..<")
      <3>1. Starts(k, Take) /\ Cost3(k, Do("parse_expression"), 0)
        BY <2>1, Starting, Plain, EasyOnes DEF Marks
      <3>2. QED
        BY <1>4, <2>1, <3>1, Closing DEF At, parse_subscript
    <2>2. CASE At("..")
      <3>1. Starts(k, Take)
        BY <2>2, Starting DEF Marks
      <3>2. QED
        BY <1>4, <2>2, <3>1, Closing DEF At, parse_subscript
    <2>3. CASE ~At("..<") /\ ~At("..")
      <3>1. Starts(k, Do("parse_expression"))
        BY Starting, Plain, EasyOnes
      <3>2. QED
        BY <1>4, <2>3, <3>1, Closing DEF parse_subscript
    <2>4. QED
      BY <2>1, <2>2, <2>3
  <1>6. Shuts(k, subscript_rest, d)
    <2> DEFINE s == If({"..<"}, <<Take, Do("parse_expression")>>, <<Opt({".."}, << >>)>>)
    <2>1. Starts(k, s)
      BY ExpressionSteps, Starting
    <2> HIDE DEF s
    <2>2. IsList(<<E("]")>>)
      BY DEF IsList
    <2>3. subscript_rest = <<E("]")>> \/ subscript_rest = <<s, E("]")>>
      BY <2>2, Written DEF subscript_rest, s
    <2>4. QED
      BY <1>4, <2>1, <2>3, Closing
  <1>7. Fits(k, parse_arg_list)
    BY Endings, Atoms, EasyOnes, Opens, Fitting DEF parse_arg_list
  <1>8. Fits(k, parse_type_args)
    BY Endings, Atoms, EasyOnes, Opens, Fitting DEF parse_type_args
  <1>9. Fits(k, argument)
    <2>1. Mild3(k, <<Do("parse_expression")>>, 1)
      BY Plain, Milds, EasyOnes
    <2>2. CASE AtName /\ Peek(1) = "="
      <3>1. Opening(tok, Take, pos) /\ Opening(tok, Take, pos + 1)
        BY <2>2, Opens, NoMarks DEF AtName, Marks
      <3>2. Neutral(tok, k, <<Take, Take>>, pos)
        BY <3>1 DEF Neutral, Free, IsList
      <3>3. QED
        BY <2>1, <2>2, <3>2, Shapes DEF argument
    <2>3. CASE ~(AtName /\ Peek(1) = "=")
      BY <2>1, <2>3, Neutrals, Shapes DEF argument
    <2>4. QED
      BY <2>2, <2>3
  <1>10. Fits(k, measured)
    BY Plain, EasyOnes, Starting, Shapes DEF measured
  <1>11. Fits(k, parse_primary)
    <2>1. CASE TypeBuiltinAt(pos)
      <3>1. Begins(tok, "parse_type_builtin", pos)
        <4>1. /\ Tok(pos) \in {"size_of", "memory"}
              /\ Tok(pos) = "memory" => Tok(pos + 1) = "." /\ Tok(pos + 2) = "size_of"
          BY <2>1 DEF TypeBuiltinAt, at_type_builtin
        <4>2. \A i : Tok(i) = TokOf(tok, i)
          BY DEF Tok, TokOf
        <4>3. Tok(pos) = tok[pos]
          BY DEF Tok, InText
        <4>4. QED
          BY <4>1, <4>2, <4>3, LedOnes DEF Begins, InText
      <3>2. Fits(k, <<Do("parse_type_builtin")>>)
        BY <3>1, Starting, LedOnes, Shapes
      <3>3. Cur \in {"size_of", "memory"}
        BY <3>1, LedOnes, Opens
      <3>4. parse_primary = <<Do("parse_type_builtin")>>
        BY <2>1, <3>3 DEF At, Literals, parse_primary
      <3>5. QED
        BY <3>2, <3>4
    <2>2. CASE ~TypeBuiltinAt(pos) /\ Cur \in {"f-start", "self"} \cup Literals \cup Names1
      <3>1. Starts(k, Take)
        BY <2>2, Starting, NoMarks DEF Marks
      <3>2. Cost3(k, Do("format_part"), 0) /\ \A v : Cost3(k, Node(v), 0)
        BY Plain, EasyOnes
      <3>3. \/ parse_primary = <<Take, Do("format_part"), Node("other")>>
            \/ parse_primary = <<Take, Node("other")>>
            \/ parse_primary = <<Take, Node("name")>>
        BY <2>2 DEF At, Literals, Names1, Names, Words, parse_primary
      <3>4. QED
        BY <3>1, <3>2, <3>3, Shapes
    <2>3. CASE ~TypeBuiltinAt(pos) /\ At(".")
      <3>1. /\ Starts(k, Take) /\ Cost3(k, One(Names \cup Keywords), 0) /\ Cost3(k, Node("other"), 0)
            /\ Cost3(k, If({"("}, <<Do("parse_arg_list")>>, << >>), 0)
        BY <2>3, Starting, Plain, Nested, Atoms, EasyOnes, NoMarks DEF Marks
      <3>2. parse_primary = <<Take, One(Names \cup Keywords), If({"("}, <<Do("parse_arg_list")>>, << >>), Node("other")>>
        BY <2>3 DEF At, Literals, Names1, Names, Words, parse_primary
      <3>3. QED
        BY <3>1, <3>2, Shapes
    <2>4. CASE ~TypeBuiltinAt(pos) /\ At("(")
      <3>1. Fits(k, <<Do("parse_lambda")>>)
        BY Plain, EasyOnes, Starting, Shapes
      <3>2. Fits(k, <<Do("parse_group_or_tuple")>>)
        BY <2>4, Opens, Starting, LedOnes, Shapes DEF At
      <3>3. parse_primary = <<Do("parse_lambda")>> \/ parse_primary = <<Do("parse_group_or_tuple")>>
        BY <2>4 DEF At, Literals, Names1, Names, Words, parse_primary
      <3>4. QED
        BY <3>1, <3>2, <3>3
    <2>5. CASE ~TypeBuiltinAt(pos) /\ At("[")
      <3>1. parse_primary = Within("[", "]", <<Do("parse_expression")>>) \o <<Node("other")>>
        BY <2>5 DEF At, Literals, Names1, Names, Words, parse_primary
      <3>2. Turns(tok, k, Within("[", "]", <<Do("parse_expression")>>), pos)
        BY Endings, Atoms, EasyOnes, Opens
      <3>3. Turns(tok, k, <<Node("other")>>, 0)
        BY Plain, Milds, TurnsFacts
      <3>4. QED
        BY <3>1, <3>2, <3>3, TurnsFacts, Opens, Fitting
    <2>6. CASE ~TypeBuiltinAt(pos) /\ Cur \in {"match", "new"}
      <3>1. Cur = "match" => Fits(k, <<DoWith("parse_match", TRUE)>>)
        BY Opens, Starting, LedOnes, Shapes
      <3>2. Cur = "new" => Fits(k, <<Do("parse_new")>>)
        BY Opens, Starting, LedOnes, Shapes
      <3>3. \/ Cur = "match" /\ parse_primary = <<DoWith("parse_match", TRUE)>>
            \/ Cur = "new" /\ parse_primary = <<Do("parse_new")>>
        BY <2>6 DEF At, Literals, Names1, Names, Words, parse_primary
      <3>4. QED
        BY <3>1, <3>2, <3>3
    <2>7. CASE /\ ~TypeBuiltinAt(pos)
               /\ Cur \notin {"f-start", "self"} \cup Literals \cup Names1
               /\ Cur \notin {".", "(", "[", "match", "new"}
      <3>1. parse_primary = <<Fail, Node("name")>>
        BY <2>7 DEF At, parse_primary
      <3>2. QED
        BY <3>1, Plain, Starting, Shapes
    <2>8. QED
      BY <2>1, <2>2, <2>3, <2>4, <2>5, <2>6, <2>7 DEF At
  <1>12. Fits(k, format_part)
    <2>1. Cost3(k, E("}"), 0) /\ Cost3(k, E("f-end"), 0)
      BY Plain DEF Marks
    <2>2. At("f-text") \/ At("{") => Starts(k, Take)
      BY Starting DEF Marks
    <2>3. \/ At("f-text") /\ format_part = <<Take, Do("format_part")>>
          \/ At("{") /\ format_part = <<Take, Do("parse_expression"), E("}"), Do("format_part")>>
          \/ format_part = <<E("f-end")>>
          \/ format_part = <<Fail, E("f-end")>>
      BY DEF format_part, At
    <2>4. Starts(k, E("f-end")) /\ Starts(k, Fail)
      BY <2>1, Plain, Starting
    <2>5. Cost3(k, Do("format_part"), 0) /\ Cost3(k, Do("parse_expression"), 0)
      BY Plain, EasyOnes
    <2>6. QED
      BY <2>1, <2>2, <2>3, <2>4, <2>5, Shapes
  <1>13. Fits(k, parse_lambda)
    <2> DEFINE w == Weight(k, "(")
               s == If({")"}, << >>, <<Do("lambda_param")>>)
               v == Landed(find_match(pos, "(", ")") + 1)
    <2>1. Cost3(k, E("("), w) /\ Cost3(k, E(")"), -w) /\ w \in {0, 1}
      BY Weighty
    <2>2. /\ Cost3(k, s, 0) /\ Cost3(k, v, 0) /\ Cost3(k, E("=>"), 0) /\ Cost3(k, Do("parse_expression"), 0)
          /\ Cost3(k, Node("other"), 0)
      BY Plain, Nested, Atoms, EasyOnes DEF Marks
    <2> DEFINE L == <<E("("), s, E(")"), v, E("=>"), Do("parse_expression"), Node("other")>>
    <2>3. parse_lambda = L
      BY DEF parse_lambda
    <2> HIDE DEF w, s, v
    <2>4. Wrapped(tok, k, L, pos, 1, 3, w)
      BY <2>1, <2>2 DEF Wrapped, Free, IsList
    <2> HIDE DEF L
    <2>5. QED
      BY <2>1, <2>3, <2>4, Fitting
  <1>14. Fits(k, lambda_param)
    <2>1. CASE AtName
      <3>1. /\ Starts(k, Take) /\ Cost3(k, Opt({":"}, <<Do("parse_type")>>), 0)
            /\ Cost3(k, Another(")", Do("lambda_param")), 0)
        BY <2>1, Starting, Nested, Atoms, EasyOnes, Unmarked
      <3>2. QED
        BY <2>1, <3>1, Shapes DEF lambda_param, Another
    <2>2. CASE ~AtName
      BY <2>2, Reported DEF lambda_param
    <2>3. QED
      BY <2>1, <2>2
  <1>15. ASSUME k = "nest" \/ Begins(tok, "parse_group_or_tuple", pos)
         PROVE  Fits(k, parse_group_or_tuple)
    <2> DEFINE w == Weight(k, "(")
               s == If({")"}, <<Take>>,
                      <<Do("parse_expression"),
                        Opt({","}, <<If({")"}, <<Fail>>, << >>), List(")", <<Do("parse_expression")>>)>>), E(")")>>)
    <2>1. Cost3(k, s, -w) /\ w \in {0, 1} /\ Cost3(k, Node("other"), 0)
      BY ExpressionSteps, Weighty, Plain
    <2>2. Cost3(k, Take, w) \/ (Taken(tok, pos) /\ Weight(k, tok[pos]) = w)
      <3>1. k = "nest" => w = 0 /\ Cost3(k, Take, 0)
        BY Plain, WeightFacts
      <3>2. k # "nest" => Cur = "(" /\ Cur = tok[pos]
        BY <1>15, LedOnes, Opens
      <3>3. QED
        BY <3>1, <3>2 DEF Taken, InText
    <2> DEFINE L == <<Take, s, Node("other")>>
    <2>3. parse_group_or_tuple = L
      BY DEF parse_group_or_tuple
    <2> HIDE DEF w, s
    <2>4. Wrapped(tok, k, L, pos, 1, 2, w)
      BY <2>1, <2>2 DEF Wrapped, Free, IsList
    <2> HIDE DEF L
    <2>5. QED
      BY <2>1, <2>3, <2>4, Fitting
  <1>16. ASSUME k = "nest" \/ Begins(tok, "parse_new", pos)
         PROVE  Fits(k, parse_new)
    <2>1. /\ Starts(k, Take) /\ Cost3(k, Do("parse_type"), 0) /\ Cost3(k, Node("other"), 0)
          /\ Cost3(k, Opt({"in"}, <<Do("parse_else_expr")>>), 0)
      BY <1>16, Starting, LedOnes, Plain, Nested, Atoms, EasyOnes, Unmarked
    <2>2. QED
      BY <2>1, ExpressionSteps, Shapes DEF parse_new
  <1>17. ASSUME k = "nest" \/ Begins(tok, "parse_type_builtin", pos)
         PROVE  Fits(k, parse_type_builtin)
    <2> DEFINE w == Weight(k, "(")
               s == If({")"}, << >>, <<Do("measured"), Opt({","}, <<One(Names \cup Keywords)>>)>>)
               L == <<Take, E("("), s, E(")"), Node("other")>>
    <2>1. /\ Cost3(k, E("("), w) /\ Cost3(k, E(")"), -w) /\ w \in {0, 1} /\ Cost3(k, s, 0)
          /\ Cost3(k, Node("other"), 0)
      BY ExpressionSteps, Weighty, Plain
    <2>2. IsList(L) /\ Len(L) = 5 /\ L[1] = Take /\ L[2] = E("(") /\ L[3] = s /\ L[4] = E(")") /\ L[5] = Node("other")
      BY DEF IsList
    <2>3. CASE ~At("memory")
      <3>1. parse_type_builtin = << >> \o L
        BY <2>3 DEF parse_type_builtin
      <3> HIDE DEF w, s, L
      <3>2. parse_type_builtin = L
        BY <2>2, <3>1, Written
      <3>3. Starts(k, Take)
        BY <1>17, Starting, LedOnes
      <3>4. Wrapped(tok, k, L, pos, 2, 4, w)
        BY <2>1, <2>2, <3>3 DEF Wrapped, Free, Starts
      <3>5. QED
        BY <2>1, <3>2, <3>4, Fitting
    <2>4. CASE At("memory")
      <3> DEFINE M == <<Take, Take>>
                 P == M \o L
      <3>1. parse_type_builtin = P
        BY <2>4 DEF parse_type_builtin
      <3>2. IsList(M) /\ Len(M) = 2 /\ M[1] = Take /\ M[2] = Take
        BY DEF IsList
      <3> HIDE DEF w, s, L, M
      <3>3. /\ IsList(P) /\ Len(P) = Len(M) + Len(L)
            /\ \A i \in 1 .. Len(M) + Len(L) : P[i] = IF i <= Len(M) THEN M[i] ELSE L[i - Len(M)]
        <4>1. IsList(M) /\ IsList(L)
          BY <2>2, <3>2
        <4>2. QED
          BY <4>1, Joins, JoinIsList
      <3> HIDE DEF P
      <3>4. /\ Len(P) = 7 /\ P[1] = Take /\ P[2] = Take /\ P[3] = Take /\ P[4] = E("(") /\ P[5] = s
            /\ P[6] = E(")") /\ P[7] = Node("other")
        <4>1. Len(P) = 7 /\ \A i \in 1 .. 7 : P[i] = IF i <= 2 THEN M[i] ELSE L[i - 2]
          BY <2>2, <3>2, <3>3
        <4>2. QED
          BY <2>2, <3>2, <4>1
      <3>5. Free(tok, k, P, 1, pos) /\ Free(tok, k, P, 2, pos) /\ Free(tok, k, P, 3, pos)
        <4>1. CASE k = "nest"
          BY <3>4, <4>1, Plain DEF Free
        <4>2. CASE k # "nest"
          <5>1. Tok(pos + 1) = "." /\ Tok(pos + 2) = "size_of" /\ Cur = "memory"
            <6>1. \A i : Tok(i) = TokOf(tok, i)
              BY DEF Tok, TokOf
            <6>2. Cur = tok[pos] /\ Cur = "memory"
              BY <2>4, Opens DEF At
            <6>3. QED
              BY <1>17, <4>2, <6>1, <6>2 DEF Begins
          <5>2. /\ Opening(tok, Take, pos) /\ Opening(tok, Take, pos + 1)
            BY <5>1, Opens DEF Peek, Marks
          <5>3. Opening(tok, Take, pos + 2)
            BY <5>1 DEF Opening, Tok, Marks
          <5>4. QED
            BY <3>4, <5>2, <5>3 DEF Free
        <4>3. QED
          BY <4>1, <4>2
      <3>6. Free(tok, k, P, 5, pos) /\ Free(tok, k, P, 7, pos)
        BY <2>1, <3>4 DEF Free
      <3>7. \A i \in 1 .. Len(P) : i \notin {4, 6} => Free(tok, k, P, i, pos)
        BY <3>4, <3>5, <3>6
      <3>8. Wrapped(tok, k, P, pos, 4, 6, w)
        <4>1. IsList(P)
          BY <3>3
        <4>2. 4 \in 1 .. Len(P) /\ 6 \in 1 .. Len(P)
          BY <3>4
        <4>3. Cost3(k, P[4], w) /\ Cost3(k, P[6], -w)
          BY <2>1, <3>4, Zenon
        <4>4. QED
          BY <3>7, <4>1, <4>2, <4>3 DEF Wrapped
      <3>9. QED
        BY <2>1, <3>1, <3>8, Fitting
    <2>5. QED
      BY <2>3, <2>4
  <1>18. QED
    BY <1>1, <1>2, <1>3, <1>4, <1>5, <1>6, <1>7, <1>8, <1>9, <1>10, <1>11, <1>12, <1>13, <1>14, <1>15, <1>16, <1>17

(* Types, and the lists of parameters.                                      *)
LEMMA TypesFit ==
  ASSUME NEW k \in Kinds, InText
  PROVE  /\ Fits(k, parse_type) /\ \A a : Fits(k, qualifiers(a))
         /\ \A a : Fits(k, type_suffix(a))
         /\ Fits(k, parse_primary_type)
         /\ \A a : Fits(k, type_path(a))
         /\ Fits(k, generics) /\ Fits(k, parse_generic_params) /\ Fits(k, generic_param) /\ Fits(k, bounds)
         /\ \A a : Fits(k, parse_params(a))
         /\ \A a : Fits(k, parameter(a))
         /\ \A a : Fits(k, named_parameter(a))
  <1>1. Fits(k, parse_type)
    <2>1. /\ Starts(k, Opt({"@"}, << >>)) /\ Cost3(k, Opt({"?"}, << >>), 0) /\ Cost3(k, Opt({"!"}, << >>), 0)
          /\ Cost3(k, DoWith("qualifiers", FALSE), 0)
      BY Plain, EasyOnes, Starting, Unmarked
    <2>2. QED
      BY <2>1, Shapes DEF parse_type
  <1>2. ASSUME NEW a
        PROVE  Fits(k, qualifiers(a))
    <2>1. At("const") => Starts(k, Take)
      BY Starting DEF Marks
    <2>2. QED
      BY <2>1, Plain, EasyOnes, Starting, Shapes DEF qualifiers
  <1>3. ASSUME NEW a
        PROVE  Fits(k, type_suffix(a))
    <2> DEFINE again == DoWith("type_suffix", [a EXCEPT !.any = TRUE])
               s == If({"]"}, <<Take>>, <<Do("parse_expression"), E("]")>>)
               w == Weight(k, "[")
    <2>1. Cost3(k, again, 0) /\ Cost3(k, s, -w) /\ w \in {0, 1}
      BY Plain, EasyOnes, ExpressionSteps, Weighty
    <2>2. \/ At("*") /\ type_suffix(a) = <<Take, again>>
          \/ At("[") /\ type_suffix(a) = <<Take, s, again>>
          \/ type_suffix(a) = <<Fail>> \/ type_suffix(a) = << >>
      BY DEF type_suffix, is_array_suffix_ahead
    <2> HIDE DEF again, s
    <2>3. CASE At("*") /\ type_suffix(a) = <<Take, again>>
      <3>1. Starts(k, Take)
        BY <2>3, Starting DEF Marks
      <3>2. QED
        BY <2>1, <2>3, <3>1, Shapes
    <2>4. CASE At("[") /\ type_suffix(a) = <<Take, s, again>>
      <3>1. Taken(tok, pos) /\ Weight(k, tok[pos]) = w
        BY <2>4, Opens DEF At, Taken, InText
      <3> HIDE DEF w
      <3>2. Wrapped(tok, k, <<Take, s, again>>, pos, 1, 2, w)
        BY <2>1, <3>1 DEF Wrapped, Free, IsList
      <3>3. QED
        BY <2>1, <2>4, <3>2, Fitting
    <2>5. CASE type_suffix(a) = <<Fail>> \/ type_suffix(a) = << >>
      BY <2>5, Reported, Shapes
    <2>6. QED
      BY <2>2, <2>3, <2>4, <2>5
  <1>4. Fits(k, parse_primary_type)
    <2>1. CASE At("func")
      <3> DEFINE L == <<Take>>
                 M == Within("(", ")", <<Do("parse_type")>>)
                 P == <<E("->"), Do("parse_type")>>
      <3>1. Turns(tok, k, L, pos)
        <4>1. Neutral(tok, k, L, pos)
          BY <2>1, Starting, Neutrals DEF Marks
        <4>2. QED
          BY <4>1, TurnsFacts, Opens
      <3>2. Turns(tok, k, M, 0)
        BY Endings, Atoms, EasyOnes
      <3>3. Turns(tok, k, P, 0)
        BY Plain, Milds, EasyOnes, TurnsFacts DEF Marks
      <3>4. parse_primary_type = L \o M \o P
        BY <2>1 DEF At, parse_primary_type, Names, Words, AtName
      <3> HIDE DEF L, M, P
      <3>5. Turns(tok, k, L \o M, pos)
        BY <3>1, <3>2, TurnsFacts, Opens
      <3>6. Turns(tok, k, (L \o M) \o P, pos)
        BY <3>3, <3>5, TurnsFacts, Opens
      <3>7. QED
        BY <3>4, <3>6, Fitting
    <2>2. CASE AtName
      <3>1. Starts(k, Take) /\ \A h : Cost3(k, DoWith("type_path", h), 0)
        BY <2>2, Starting, Plain, EasyOnes
      <3>2. parse_primary_type = <<Take>> \/ parse_primary_type = <<Take, DoWith("type_path", <<Cur, 1>>)>>
        BY <2>2 DEF At, AtName, Names, Words, parse_primary_type
      <3>3. QED
        BY <3>1, <3>2, Shapes
    <2>3. CASE At("(")
      <3> DEFINE w == Weight(k, "(")
                 s == Opt({","}, <<List(")", <<Do("parse_type")>>)>>)
                 L == <<Take, Do("parse_type"), s, E(")")>>
      <3>1. Taken(tok, pos) /\ Weight(k, tok[pos]) = w
        BY <2>3, Opens DEF At, Taken, InText
      <3>2. /\ w \in {0, 1} /\ Cost3(k, s, 0) /\ Cost3(k, Do("parse_type"), 0) /\ Cost3(k, E(")"), -w)
        BY ExpressionSteps, Plain, EasyOnes, Weighty
      <3>3. parse_primary_type = L
        BY <2>3 DEF At, AtName, Names, Words, parse_primary_type
      <3> HIDE DEF w, s
      <3>4. Wrapped(tok, k, L, pos, 1, 4, w)
        BY <3>1, <3>2 DEF Wrapped, Free, IsList
      <3> HIDE DEF L
      <3>5. QED
        BY <3>2, <3>3, <3>4, Fitting
    <2>4. CASE ~At("func") /\ ~AtName /\ ~At("(")
      <3>1. ~At("void")
        BY <2>4 DEF At, AtName, Names
      <3>2. parse_primary_type = <<Fail>>
        BY <2>4, <3>1 DEF parse_primary_type
      <3>3. QED
        BY <3>2, Reported
    <2>5. QED
      BY <2>1, <2>2, <2>3, <2>4
  <1>5. ASSUME NEW a
        PROVE  Fits(k, type_path(a))
    <2> DEFINE v == Landed(find_match(pos, "[", "]") + 1)
    <2>1. \/ /\ At(".") /\ Peek(1) \in Names
             /\ type_path(a) = <<Take, Take, DoWith("type_path", <<a[1], a[2] + 1>>)>>
          \/ type_path(a) = <<Do("parse_type_args"), v>>
          \/ type_path(a) = << >>
      BY DEF type_path
    <2>2. Cost3(k, v, 0) /\ Starts(k, Do("parse_type_args")) /\ \A h : Cost3(k, DoWith("type_path", h), 0)
      BY Plain, EasyOnes, Starting
    <2> HIDE DEF v
    <2>3. CASE /\ At(".") /\ Peek(1) \in Names
               /\ type_path(a) = <<Take, Take, DoWith("type_path", <<a[1], a[2] + 1>>)>>
      <3> DEFINE s == DoWith("type_path", <<a[1], a[2] + 1>>)
      <3>1. Opening(tok, Take, pos) /\ Opening(tok, Take, pos + 1) /\ Cost3(k, s, 0)
        BY <2>2, <2>3, Opens, NoMarks DEF At, Marks
      <3> HIDE DEF s
      <3>2. Neutral(tok, k, <<Take, Take, s>>, pos)
        BY <3>1 DEF Neutral, Free, IsList
      <3>3. QED
        BY <2>3, <3>2, Fitting DEF s
    <2>4. CASE type_path(a) = <<Do("parse_type_args"), v>> \/ type_path(a) = << >>
      BY <2>2, <2>4, Shapes
    <2>5. QED
      BY <2>1, <2>3, <2>4
  <1>6. Fits(k, generics)
    BY Plain, EasyOnes, Starting, Shapes DEF generics
  <1>7. Fits(k, parse_generic_params)
    BY Endings, Atoms, EasyOnes, Opens, Fitting DEF parse_generic_params
  <1>8. Fits(k, generic_param)
    <2>1. CASE AtName
      <3>1. /\ Starts(k, Take) /\ Cost3(k, Opt({":"}, <<Do("bounds")>>), 0)
            /\ Cost3(k, Another("]", Do("generic_param")), 0)
        BY <2>1, Starting, Nested, Atoms, EasyOnes, Unmarked
      <3>2. QED
        BY <2>1, <3>1, Shapes DEF generic_param
    <2>2. CASE ~AtName
      BY <2>2, Reported DEF generic_param
    <2>3. QED
      BY <2>1, <2>2
  <1>9. Fits(k, bounds)
    <2>1. Starts(k, Do("parse_type")) /\ Cost3(k, Opt({"&"}, <<Do("bounds")>>), 0)
      BY Plain, Starting, Nested, Atoms, EasyOnes, Unmarked
    <2>2. QED
      BY <2>1, Shapes DEF bounds
  <1>10. ASSUME NEW a
         PROVE  Fits(k, parse_params(a))
    BY Endings, Atoms, EasyOnes, Opens, Fitting DEF parse_params
  <1>11. ASSUME NEW a
         PROVE  Fits(k, parameter(a))
    <2>1. CASE At("...")
      <3>1. Starts(k, Take) /\ Cost3(k, Fail, 0)
        BY <2>1, Starting, Plain DEF Marks
      <3>2. IsList(<<Take>>)
        BY DEF IsList
      <3>3. parameter(a) = <<Take>> \/ parameter(a) = <<Take, Fail>>
        BY <2>1, <3>2, Written DEF At, parameter
      <3>4. QED
        BY <3>1, <3>3, Shapes
    <2>2. CASE ~At("...") /\ At("out")
      <3>1. Starts(k, Take) /\ Cost3(k, DoWith("named_parameter", TRUE), 0) /\ Cost3(k, DoWith("named_parameter", a), 0)
            /\ Starts(k, DoWith("named_parameter", a))
        BY <2>2, Starting, Plain, EasyOnes DEF Marks
      <3>2. parameter(a) = <<Take, DoWith("named_parameter", TRUE)>> \/ parameter(a) = <<DoWith("named_parameter", a)>>
        BY <2>2 DEF parameter
      <3>3. QED
        BY <3>1, <3>2, Shapes
    <2>3. CASE ~At("...") /\ ~At("out")
      <3>1. parameter(a) = <<DoWith("named_parameter", a)>>
        BY <2>3 DEF parameter
      <3>2. QED
        BY <3>1, Plain, EasyOnes, Starting, Shapes
    <2>4. QED
      BY <2>1, <2>2, <2>3
  <1>12. ASSUME NEW a
         PROVE  Fits(k, named_parameter(a))
    <2>1. CASE AtName \/ At("self")
      <3>1. /\ Starts(k, Take) /\ Cost3(k, E(":"), 0) /\ Cost3(k, Opt({"noalias"}, << >>), 0)
            /\ Cost3(k, Do("parse_type"), 0)
        BY <2>1, Starting, Plain, EasyOnes, Unmarked DEF Marks
      <3>2. Cost3(k, Opt({"="}, <<Do("parse_expression")>>), 0) /\ Cost3(k, Another(")", DoWith("parameter", a)), 0)
        BY Nested, Atoms, EasyOnes, Unmarked
      <3>3. QED
        BY <2>1, <3>1, <3>2, Shapes DEF named_parameter
    <2>2. CASE ~(AtName \/ At("self"))
      BY <2>2, Reported DEF named_parameter
    <2>3. QED
      BY <2>1, <2>2
  <1>13. QED
    BY <1>1, <1>2, <1>3, <1>4, <1>5, <1>6, <1>7, <1>8, <1>9, <1>10, <1>11, <1>12

(* Declarations, and what they hold.                                        *)
LEMMA DeclarationsFit ==
  ASSUME NEW k \in Kinds, InText
  PROVE  /\ \A a : Fits(k, parse_struct(a))
         /\ Fits(k, parse_conformance)
         /\ \A a : Fits(k, parse_type_member(a))
         /\ Fits(k, export_member) /\ Fits(k, weak_member)
         /\ \A a : Fits(k, member(a))
         /\ k = "nest" \/ Begins(tok, "parse_enum", pos) => Fits(k, parse_enum)
         /\ Fits(k, enum_member) /\ Fits(k, enum_case)
         /\ k = "nest" \/ Begins(tok, "parse_union", pos) => \A a : Fits(k, parse_union(a))
         /\ Fits(k, union_member) /\ Fits(k, union_field)
         /\ k = "nest" \/ Begins(tok, "parse_interface", pos) => Fits(k, parse_interface)
         /\ Fits(k, interface_member)
         /\ k = "nest" \/ Begins(tok, "parse_extern", pos) => Fits(k, parse_extern)
         /\ Fits(k, extern_rest) /\ Fits(k, parse_attributes)
         /\ k = "nest" \/ Begins(tok, "parse_const", pos) => Fits(k, parse_const)
         /\ Fits(k, parse_global) /\ Fits(k, parse_func)
  <1>1. pos \in Nat
    BY Opens
  <1>2. \A L, M, P : Neutral(tok, k, L, pos) /\ Mild3(k, M, 1) /\ Turns(tok, k, P, 0) => Fits(k, L \o M \o P)
    BY NeutralJoin, Shapes
  <1>3. ASSUME NEW a
        PROVE  Fits(k, parse_struct(a))
    <2> DEFINE s == IF At("packed") THEN Take ELSE Align
               v == Declare(IF a THEN "extern" ELSE "type")
               L == <<s, E("struct"), v, Name>>
               M == IF a THEN <<E(":")>> ELSE <<Do("generics"), Do("parse_conformance")>>
               P == Block(IF a THEN "extern_member" ELSE "struct_member")
    <2>1. Starts(k, s)
      <3>1. At("packed") => Starts(k, Take)
        BY Starting DEF Marks
      <3>2. Starts(k, Align)
        BY Plain, Starting
      <3>3. QED
        BY <3>1, <3>2
    <2>2. Cost3(k, E("struct"), 0) /\ Cost3(k, v, 0) /\ Cost3(k, Name, 0)
      BY Plain DEF Marks
    <2>3. Mild3(k, M, 1)
      <3>1. Mild3(k, <<E(":")>>, 1) /\ Mild3(k, <<Do("generics"), Do("parse_conformance")>>, 1)
        BY Plain, EasyOnes, Milds DEF Marks
      <3>2. QED
        BY <3>1
    <2>4. Turns(tok, k, P, 0)
      <3>1. (IF a THEN "extern_member" ELSE "struct_member") \in Members
        BY DEF Members
      <3>2. QED
        BY <3>1, Endings
    <2>5. parse_struct(a) = L \o M \o P
      BY DEF parse_struct
    <2> HIDE DEF s, v, M, P
    <2>6. Neutral(tok, k, L, pos)
      BY <2>1, <2>2 DEF Starts, Neutral, Free, IsList
    <2> HIDE DEF L
    <2>7. QED
      BY <1>2, <2>3, <2>4, <2>5, <2>6
  <1>4. Fits(k, parse_conformance)
    <2>1. Starts(k, E(":"))
      BY Plain, Starting DEF Marks
    <2>2. QED
      BY <2>1, DeclarationSteps, Shapes DEF parse_conformance
  <1>5. ASSUME NEW a
        PROVE  Fits(k, parse_type_member(a))
    BY Plain, EasyOnes, Starting, Shapes, Unmarked DEF parse_type_member
  <1>6. Fits(k, export_member)
    <2>1. At("export") => Starts(k, Take)
      BY Starting DEF Marks
    <2>2. QED
      BY <2>1, Shapes DEF export_member
  <1>7. Fits(k, weak_member)
    BY Plain, Reported, Shapes DEF weak_member
  <1>8. ASSUME NEW a
        PROVE  Fits(k, member(a))
    <2> DEFINE s == Opt({"="}, <<Do("parse_expression")>>)
               M == <<Name, E(":"), Do("parse_type"), s, E("NL"), Node("field")>>
    <2>1. /\ Cost3(k, Name, 0) /\ Cost3(k, E(":"), 0) /\ Cost3(k, Do("parse_type"), 0) /\ Cost3(k, E("NL"), 0)
          /\ Cost3(k, Node("field"), 0)
      BY Plain, EasyOnes DEF Marks
    <2>2. Cost3(k, s, 0)
      BY Nested, Atoms, EasyOnes, Unmarked
    <2>3. \/ AtName /\ member(a) = << >> \o M
          \/ Cur \in {"let", "var"} /\ member(a) = <<Take>> \o M
          \/ member(a) = <<Do("parse_func")>>
          \/ member(a) = <<Fail, Sync, Node("field")>>
      BY DEF At, AtName, Names, Words, member
    <2> HIDE DEF s
    <2>4. Mild3(k, M, 1)
      BY <2>1, <2>2 DEF Mild3, IsList
    <2> HIDE DEF M
    <2>5. Neutral(tok, k, << >>, pos) /\ (Cur \in {"let", "var"} => Neutral(tok, k, <<Take>>, pos))
      BY Starting, Neutrals DEF Marks
    <2>6. Fits(k, <<Do("parse_func")>>)
      BY Plain, EasyOnes, Starting, Shapes
    <2>7. Fits(k, <<Fail, Sync, Node("field")>>)
      BY Plain, Reported
    <2>8. QED
      BY <2>3, <2>4, <2>5, <2>6, <2>7, Shapes
  <1>9. ASSUME k = "nest" \/ Begins(tok, "parse_enum", pos)
        PROVE  Fits(k, parse_enum)
    <2> DEFINE s == Opt({"as"}, <<Do("parse_type")>>)
               L == <<Take, Declare("type"), Name, Do("generics"), s, Do("parse_conformance")>>
    <2>1. /\ Starts(k, Take) /\ Cost3(k, Declare("type"), 0) /\ Cost3(k, Name, 0) /\ Cost3(k, Do("generics"), 0)
          /\ Cost3(k, s, 0) /\ Cost3(k, Do("parse_conformance"), 0)
      BY <1>9, Starting, LedOnes, Plain, Nested, Atoms, EasyOnes, Unmarked
    <2>2. Turns(tok, k, Block("enum_member"), 0)
      BY Endings DEF Members
    <2>3. parse_enum = L \o Block("enum_member")
      BY DEF parse_enum
    <2> HIDE DEF s
    <2>4. Neutral(tok, k, L, pos)
      BY <2>1 DEF Starts, Neutral, Free, IsList
    <2> HIDE DEF L
    <2>5. QED
      BY <2>2, <2>3, <2>4, Shapes
  <1>10. Fits(k, enum_member)
    BY Plain, EasyOnes, Starting, Shapes, Unmarked DEF enum_member
  <1>11. Fits(k, enum_case)
    <2> DEFINE s == If({"("}, <<DoWith("parse_params", FALSE)>>, <<Opt({"="}, <<Do("parse_expression")>>)>>)
    <2>1. \/ enum_case = <<Do("parse_func")>>
          \/ AtName /\ enum_case = <<Take, s, E("NL")>>
          \/ enum_case = <<Fail, Sync>>
      BY DEF At, AtName, Names, Words, enum_case
    <2>2. Cost3(k, s, 0) /\ Cost3(k, E("NL"), 0) /\ (AtName => Starts(k, Take)) /\ Starts(k, Do("parse_func"))
      BY DeclarationSteps, Plain, EasyOnes, Starting DEF Marks
    <2> HIDE DEF s
    <2>3. Fits(k, <<Fail, Sync>>)
      BY Plain, Reported
    <2>4. QED
      BY <2>1, <2>2, <2>3, Shapes
  <1>12. ASSUME k = "nest" \/ Begins(tok, "parse_union", pos), NEW a
         PROVE  Fits(k, parse_union(a))
    <2> DEFINE L == <<Take, Declare(a), Name, E(":")>>
    <2>1. Starts(k, Take) /\ Cost3(k, Declare(a), 0) /\ Cost3(k, Name, 0) /\ Cost3(k, E(":"), 0)
      BY <1>12, Starting, LedOnes, Plain DEF Marks
    <2>2. Turns(tok, k, Block("union_member"), 0)
      BY Endings DEF Members
    <2>3. Neutral(tok, k, L, pos)
      BY <2>1 DEF Starts, Neutral, Free, IsList
    <2> HIDE DEF L
    <2>4. QED
      BY <2>2, <2>3, Shapes DEF parse_union, L
  <1>13. Fits(k, union_member)
    <2>1. Starts(k, Opt({"pub"}, << >>)) /\ Cost3(k, Do("parse_func"), 0) /\ Cost3(k, Do("union_field"), 0)
      BY Plain, EasyOnes, Starting, Unmarked
    <2>2. \/ union_member = <<Opt({"pub"}, << >>), Do("parse_func")>>
          \/ union_member = <<Opt({"pub"}, << >>), Do("union_field")>>
      BY Written DEF union_member
    <2>3. QED
      BY <2>1, <2>2, Shapes
  <1>14. Fits(k, union_field)
    <2>1. CASE AtName
      <3>1. Starts(k, Take) /\ Cost3(k, E(":"), 0) /\ Cost3(k, Do("parse_type"), 0) /\ Cost3(k, E("NL"), 0)
        BY <2>1, Starting, Plain, EasyOnes DEF Marks
      <3>2. QED
        BY <2>1, <3>1, Shapes DEF union_field
    <2>2. CASE ~AtName
      BY <2>2, Plain, Reported DEF union_field
    <2>3. QED
      BY <2>1, <2>2
  <1>15. ASSUME k = "nest" \/ Begins(tok, "parse_interface", pos)
         PROVE  Fits(k, parse_interface)
    <2> DEFINE L == <<Take, Name, Do("generics"), E(":")>>
    <2>1. Starts(k, Take) /\ Cost3(k, Name, 0) /\ Cost3(k, Do("generics"), 0) /\ Cost3(k, E(":"), 0)
      BY <1>15, Starting, LedOnes, Plain, EasyOnes DEF Marks
    <2>2. Turns(tok, k, Block("interface_member"), 0)
      BY Endings DEF Members
    <2>3. Neutral(tok, k, L, pos)
      BY <2>1 DEF Starts, Neutral, Free, IsList
    <2> HIDE DEF L
    <2>4. QED
      BY <2>2, <2>3, Shapes DEF parse_interface, L
  <1>16. Fits(k, interface_member)
    <2>1. /\ Starts(k, E("func")) /\ Cost3(k, Name, 0) /\ Cost3(k, Do("generics"), 0)
          /\ Cost3(k, DoWith("parse_params", FALSE), 0) /\ Cost3(k, Result, 0) /\ Cost3(k, E("NL"), 0)
      BY Plain, EasyOnes, Starting, DeclarationSteps DEF Marks
    <2>2. QED
      BY <2>1, Shapes DEF interface_member
  <1>17. ASSUME k = "nest" \/ Begins(tok, "parse_extern", pos)
         PROVE  Fits(k, parse_extern)
    <2>1. Starts(k, Take) /\ Cost3(k, Opt({"blocking"}, << >>), 0) /\ Cost3(k, Do("extern_rest"), 0)
      BY <1>17, Starting, LedOnes, Plain, EasyOnes, Unmarked
    <2>2. QED
      BY <2>1, Shapes DEF parse_extern
  <1>18. Fits(k, extern_rest)
    <2>1. Cost3(k, Name, 0) /\ Cost3(k, E(":"), 0) /\ Cost3(k, Do("parse_type"), 0) /\ Cost3(k, E("NL"), 0)
      BY Plain, EasyOnes DEF Marks
    <2>2. CASE At("type")
      <3>1. Starts(k, Take) /\ Cost3(k, Opt({"="}, <<Do("parse_type")>>), 0)
        BY <2>2, Starting, Nested, Atoms, EasyOnes, Unmarked DEF Marks
      <3>2. QED
        BY <2>1, <2>2, <3>1, Shapes DEF At, extern_rest
    <2>3. CASE At("var")
      <3>1. Starts(k, Take)
        BY <2>3, Starting DEF Marks
      <3>2. QED
        BY <2>1, <2>3, <3>1, Shapes DEF At, extern_rest
    <2>4. CASE Cur \in {"struct", "packed", "align"}
      <3>1. extern_rest = <<DoWith("parse_struct", TRUE)>>
        BY <2>4 DEF At, extern_rest
      <3>2. QED
        BY <3>1, Plain, EasyOnes, Starting, Shapes
    <2>5. CASE At("union")
      <3>1. Starts(k, DoWith("parse_union", "extern"))
        BY <2>5, Opens, Starting, LedOnes DEF At
      <3>2. QED
        BY <2>5, <3>1, Shapes DEF At, extern_rest
    <2>6. CASE Cur \notin {"type", "var", "struct", "packed", "align", "union"}
      <3> DEFINE s == Opt({"as"}, <<E("str")>>)
      <3>1. extern_rest = <<Opt({"blocking"}, << >>), E("func"), Name, s, DoWith("parse_params", TRUE), Result, E("NL")>>
        BY <2>6 DEF At, extern_rest
      <3>2. Starts(k, Opt({"blocking"}, << >>)) /\ Cost3(k, E("func"), 0) /\ Cost3(k, DoWith("parse_params", TRUE), 0)
        BY Plain, EasyOnes, Starting, Unmarked DEF Marks
      <3>3. Cost3(k, s, 0) /\ Cost3(k, Result, 0)
        <4>1. Cost0(k, E("str"), 0)
          BY Atoms DEF Marks
        <4>2. QED
          BY <4>1, Nested, DeclarationSteps, Unmarked
      <3> HIDE DEF s
      <3>4. QED
        BY <2>1, <3>1, <3>2, <3>3, Shapes
    <2>7. QED
      BY <2>2, <2>3, <2>4, <2>5, <2>6 DEF At
  <1>19. Fits(k, parse_attributes)
    <2>1. CASE Cur \in {"weak", "inline"}
      <3>1. Starts(k, Take) /\ Cost3(k, Do("parse_attributes"), 0)
        BY <2>1, Starting, Plain, EasyOnes DEF Marks
      <3>2. QED
        BY <2>1, <3>1, Shapes DEF At, parse_attributes
    <2>2. CASE At("section")
      <3> DEFINE w == Weight(k, "(")
      <3>1. /\ Opening(tok, Take, pos) /\ Cost3(k, E("("), w) /\ Cost3(k, E(")"), -w) /\ w \in {0, 1}
            /\ Cost3(k, E("str"), 0) /\ Cost3(k, Do("parse_attributes"), 0)
        BY <2>2, Opens, Plain, Weighty, EasyOnes DEF At, Marks
      <3> HIDE DEF w
      <3>2. Wrapped(tok, k, <<Take, E("("), E("str"), E(")"), Do("parse_attributes")>>, pos, 2, 4, w)
        BY <3>1 DEF Wrapped, Free, IsList
      <3>3. QED
        BY <2>2, <3>1, <3>2, Fitting DEF At, parse_attributes
    <2>3. CASE Cur \notin {"weak", "inline"} /\ ~At("section")
      BY <2>3, Shapes DEF parse_attributes
    <2>4. QED
      BY <2>1, <2>2, <2>3
  <1>20. ASSUME k = "nest" \/ Begins(tok, "parse_const", pos)
         PROVE  Fits(k, parse_const)
    <2>1. /\ Starts(k, Take) /\ Cost3(k, Name, 0) /\ Cost3(k, Opt({":"}, <<Do("parse_type")>>), 0)
          /\ Cost3(k, E("="), 0) /\ Cost3(k, Do("parse_expression"), 0) /\ Cost3(k, Newline, 0)
      BY <1>20, Starting, LedOnes, Plain, Nested, Atoms, EasyOnes, Unmarked DEF Marks
    <2>2. QED
      BY <2>1, Shapes DEF parse_const
  <1>21. Fits(k, parse_global)
    <2> DEFINE s == If({"="}, <<Take, If({"---"}, <<Take, E("NL")>>, <<Do("parse_expression"), Newline>>)>>, <<E("NL")>>)
               M == <<Do("parse_attributes"), E("var"), Name, E(":"), Do("parse_type"), s>>
    <2>1. /\ Cost3(k, Do("parse_attributes"), 0) /\ Cost3(k, E("var"), 0) /\ Cost3(k, Name, 0)
          /\ Cost3(k, E(":"), 0) /\ Cost3(k, Do("parse_type"), 0)
      BY Plain, EasyOnes DEF Marks
    <2>2. Cost3(k, s, 0)
      BY DeclarationSteps
    <2>3. parse_global = (IF at_local THEN <<Take>> ELSE << >>) \o M
      BY DEF parse_global
    <2> HIDE DEF s
    <2>4. Mild3(k, M, 1)
      BY <2>1, <2>2 DEF Mild3, IsList
    <2> HIDE DEF M
    <2>5. Neutral(tok, k, << >>, pos) /\ (at_local => Neutral(tok, k, <<Take>>, pos))
      BY Starting, Neutrals DEF Marks, at_local
    <2>6. QED
      BY <2>3, <2>4, <2>5, Shapes
  <1>22. Fits(k, parse_func)
    <2> DEFINE L == <<Do("parse_attributes"), Opt({"static"}, << >>), E("func"), Name, Do("generics"),
                      DoWith("parse_params", FALSE), Result>>
    <2>1. /\ Cost3(k, Do("parse_attributes"), 0) /\ Cost3(k, Opt({"static"}, << >>), 0) /\ Cost3(k, E("func"), 0)
          /\ Cost3(k, Name, 0) /\ Cost3(k, Do("generics"), 0) /\ Cost3(k, DoWith("parse_params", FALSE), 0)
          /\ Cost3(k, Result, 0)
      BY Plain, EasyOnes, DeclarationSteps, Unmarked DEF Marks
    <2>2. Neutral(tok, k, L, pos)
      <3>1. ASSUME NEW a, NEW b, NEW c, NEW d, NEW e, NEW f, NEW g, Cost3(k, a, 0), Cost3(k, b, 0), Cost3(k, c, 0),
                   Cost3(k, d, 0), Cost3(k, e, 0), Cost3(k, f, 0), Cost3(k, g, 0)
            PROVE  Neutral(tok, k, <<a, b, c, d, e, f, g>>, pos)
        BY <3>1 DEF Neutral, Free, IsList
      <3>2. QED
        BY <2>1, <3>1
    <2>3. Mild3(k, <<Node("func")>>, 1)
      BY Plain, Milds
    <2>4. parse_func = L \o Suite \o <<Node("func")>>
      BY DEF parse_func
    <2> HIDE DEF L
    <2>5. Neutral(tok, k, L \o Suite, pos)
      BY <2>2, Endings, NeutralJoin
    <2>6. QED
      BY <2>3, <2>4, <2>5, Shapes
  <1>23. QED
    BY <1>3, <1>4, <1>5, <1>6, <1>7, <1>8, <1>9, <1>10, <1>11, <1>12, <1>13, <1>14, <1>15, <1>16, <1>17, <1>18,
       <1>19, <1>20, <1>21, <1>22

(* A module, and what may stand at its top.                                 *)
LEMMA ModulesFit ==
  ASSUME NEW k \in Kinds, InText
  PROVE  /\ Fits(k, parse_module) /\ Fits(k, module_rest)
         /\ Fits(k, extend_member) /\ Fits(k, only_method) /\ Fits(k, merge_extensions)
         /\ k = "nest" \/ Begins(tok, "parse_import", pos) => Fits(k, parse_import)
         /\ Fits(k, parse_module_path) /\ Fits(k, parse_top) /\ Fits(k, top_rest)
         /\ k = "nest" \/ Begins(tok, "parse_handle", pos) => Fits(k, parse_handle)
         /\ k = "nest" \/ Begins(tok, "parse_extend", pos) => Fits(k, parse_extend)
  <1>1. Fits(k, parse_module)
    BY Plain, EasyOnes, Starting, Shapes DEF parse_module
  <1>2. Fits(k, module_rest)
    <2>1. CASE At("EOF")
      BY <2>1, Plain, EasyOnes, Starting, Shapes DEF At, module_rest
    <2>2. CASE Cur \in {"import", "from"}
      <3>1. Starts(k, Do("parse_import"))
        BY <2>2, Opens, Starting, LedOnes
      <3>2. QED
        BY <2>2, <3>1, Plain, EasyOnes, Shapes DEF At, module_rest
    <2>3. CASE ~At("EOF") /\ Cur \notin {"import", "from"}
      <3>1. Cost3(k, Do("parse_top"), 0) /\ Cost3(k, Do("parse_module"), 0) /\ Eats(Do("parse_top"))
        BY Plain, EasyOnes, Calls DEF Eats, Eaters
      <3>2. Shuts(k, <<Do("parse_top"), Progress, Do("parse_module")>>, 0)
        BY <3>1, Closing
      <3>3. QED
        BY <2>3, <3>2, Fitting DEF module_rest
    <2>4. QED
      BY <2>1, <2>2, <2>3
  <1>3. Fits(k, extend_member)
    BY Plain, EasyOnes, Starting, Shapes DEF extend_member
  <1>4. Fits(k, only_method) /\ Fits(k, merge_extensions)
    BY Reported, Shapes DEF only_method, merge_extensions
  <1>5. ASSUME k = "nest" \/ Begins(tok, "parse_import", pos)
        PROVE  Fits(k, parse_import)
    <2>1. /\ Starts(k, Take) /\ Cost3(k, Do("parse_module_path"), 0) /\ Cost3(k, E("NL"), 0)
          /\ Cost3(k, E("import"), 0) /\ Cost3(k, DoWith("name_list", Names), 0)
      BY <1>5, Starting, LedOnes, Plain, EasyOnes DEF Marks
    <2>2. Cost3(k, Opt({"as"}, <<Name>>), 0)
      BY Nested, Atoms, Unmarked
    <2>3. QED
      BY <2>1, <2>2, Shapes DEF parse_import
  <1>6. Fits(k, parse_module_path)
    <2>1. CASE AtName
      <3>1. Starts(k, Take) /\ Cost3(k, Opt({"."}, <<Do("parse_module_path")>>), 0)
        BY <2>1, Starting, Nested, Atoms, EasyOnes, Unmarked
      <3>2. QED
        BY <2>1, <3>1, Shapes DEF parse_module_path
    <2>2. CASE ~AtName
      BY <2>2, Reported DEF parse_module_path
    <2>3. QED
      BY <2>1, <2>2
  <1>7. Fits(k, parse_top)
    <2> DEFINE wrong == <<Fail, Take, Sync, Opt({"INDENT"}, <<DoWith("skip_block", 1)>>)>>
    <2>1. Fits(k, wrong)
      BY Plain, DeclarationSteps, Reported
    <2>2. CASE Cur \in {"class", "spawn"} \/ (At("weak") /\ ~weak_is_attribute)
      <3>1. parse_top = wrong
        BY <2>2 DEF At, parse_top
      <3>2. QED
        BY <2>1, <3>1
    <2> HIDE DEF wrong
    <2>3. CASE At("test")
      <3>1. Neutral(tok, k, <<Take, E("str")>>, pos)
        BY <2>3, Starting, Neutrals, Plain DEF Marks
      <3>2. parse_top = <<Take, E("str")>> \o Suite
        BY <2>3 DEF At, parse_top
      <3>3. QED
        BY <3>1, <3>2, Endings, Shapes
    <2>4. CASE At("asm")
      <3>1. Fits(k, <<Do("parse_asm")>>)
        BY <2>4, Opens, Starting, LedOnes, Shapes DEF At
      <3>2. QED
        BY <2>4, <3>1 DEF At, parse_top
    <2>5. CASE At("extend") /\ Peek(1) \in Names /\ Peek(2) = ":"
      <3>1. Begins(tok, "parse_extend", pos)
        BY <2>5, Opens, LedOnes DEF At
      <3>2. Fits(k, <<Do("parse_extend")>>)
        BY <3>1, Starting, LedOnes, Shapes
      <3>3. QED
        BY <2>5, <3>2 DEF At, parse_top
    <2>6. CASE At("assert") /\ Peek(1) = "("
      <3>1. Starts(k, Take) /\ Cost3(k, Do("parse_arg_list"), 0) /\ Cost3(k, E("NL"), 0)
        BY <2>6, Starting, Plain, EasyOnes DEF Marks
      <3>2. QED
        BY <2>6, <3>1, Shapes DEF At, parse_top
    <2>7. CASE At("export") /\ Peek(1) \in Names \cup {"func"}
      <3>1. Starts(k, Take) /\ Cost3(k, Do("parse_func"), 0)
        BY <2>7, Starting, Plain, EasyOnes DEF Marks
      <3>2. QED
        BY <2>7, <3>1, Shapes DEF At, parse_top
    <2>8. CASE /\ ~(Cur \in {"class", "spawn"} \/ (At("weak") /\ ~weak_is_attribute))
               /\ ~At("test") /\ ~At("asm") /\ ~(At("extend") /\ Peek(1) \in Names /\ Peek(2) = ":")
               /\ ~(At("assert") /\ Peek(1) = "(") /\ ~(At("export") /\ Peek(1) \in Names \cup {"func"})
      <3>1. parse_top = <<Opt({"pub"}, << >>), Do("parse_attributes"), Do("top_rest")>>
        BY <2>8 DEF parse_top
      <3>2. QED
        BY <3>1, Plain, EasyOnes, Starting, Shapes, Unmarked
    <2>9. QED
      BY <2>2, <2>3, <2>4, <2>5, <2>6, <2>7, <2>8
  <1>8. Fits(k, top_rest)
    <2>1. CASE at_local \/ At("var")
      <3>1. top_rest = <<Do("parse_global")>>
        BY <2>1 DEF At, at_local, top_rest
      <3>2. QED
        BY <3>1, Plain, EasyOnes, Starting, Shapes
    <2>2. CASE At("type")
      <3>1. /\ Starts(k, Take) /\ Cost3(k, Name, 0) /\ Cost3(k, E("="), 0) /\ Cost3(k, Do("parse_type"), 0)
            /\ Cost3(k, E("NL"), 0)
        BY <2>2, Starting, Plain, EasyOnes DEF Marks
      <3>2. top_rest = <<Take, Name, E("="), Do("parse_type"), E("NL")>>
        BY <2>2 DEF At, at_local, top_rest
      <3>3. QED
        BY <3>1, <3>2, Shapes
    <2>3. CASE Cur \in {"let", "extern", "enum", "interface"}
      <3>1. \A p \in {"parse_const", "parse_extern", "parse_enum", "parse_interface"} :
               Cur \in Lead(p) => Fits(k, <<Do(p)>>)
        BY Opens, Starting, LedOnes, Shapes
      <3>2. \/ Cur = "let" /\ top_rest = <<Do("parse_const")>>
            \/ Cur = "extern" /\ top_rest = <<Do("parse_extern")>>
            \/ Cur = "enum" /\ top_rest = <<Do("parse_enum")>>
            \/ Cur = "interface" /\ top_rest = <<Do("parse_interface")>>
        BY <2>3 DEF At, at_local, top_rest
      <3>3. QED
        BY <3>1, <3>2, LedOnes
    <2>4. CASE At("union")
      <3>1. Fits(k, <<DoWith("parse_union", "type")>>)
        BY <2>4, Opens, Starting, LedOnes, Shapes DEF At
      <3>2. top_rest = <<DoWith("parse_union", "type")>>
        BY <2>4 DEF At, at_local, top_rest
      <3>3. QED
        BY <3>1, <3>2
    <2>5. CASE Cur \in {"func", "static", "struct", "packed", "align"}
      <3>1. top_rest = <<Do("parse_func")>> \/ top_rest = <<DoWith("parse_struct", FALSE)>>
        BY <2>5 DEF At, at_local, top_rest
      <3>2. QED
        BY <3>1, Plain, EasyOnes, Starting, Shapes
    <2>6. CASE At("handle") /\ Peek(1) \in Names /\ Peek(2) = ":"
      <3>1. Begins(tok, "parse_handle", pos)
        BY <2>6, Opens, LedOnes DEF At
      <3>2. Fits(k, <<Do("parse_handle")>>)
        BY <3>1, Starting, LedOnes, Shapes
      <3>3. top_rest = <<Do("parse_handle")>>
        BY <2>6 DEF At, at_local, top_rest
      <3>4. QED
        BY <3>2, <3>3
    <2>7. CASE /\ ~(at_local \/ At("var")) /\ ~At("type") /\ Cur \notin {"let", "extern", "enum", "interface"}
               /\ ~At("union") /\ Cur \notin {"func", "static", "struct", "packed", "align"}
               /\ ~(At("handle") /\ Peek(1) \in Names /\ Peek(2) = ":")
      <3>1. top_rest = <<Fail, Sync>>
        BY <2>7 DEF At, top_rest
      <3>2. QED
        BY <3>1, Plain, Reported
    <2>8. QED
      BY <2>1, <2>2, <2>3, <2>4, <2>5, <2>6, <2>7
  <1>9. ASSUME k = "nest" \/ Begins(tok, "parse_handle", pos)
        PROVE  Fits(k, parse_handle)
    <2> DEFINE w == Weight(k, "INDENT")
               s == If({"destroy"}, <<Take, Name>>, <<Fail>>)
               P == parse_handle
    <2>1. /\ Cost3(k, E(":"), 0) /\ Cost3(k, E("NL"), 0) /\ Cost3(k, E("INDENT"), w) /\ w \in {0, 1}
          /\ Cost3(k, s, 0) /\ Cost3(k, Do("handle_end"), -w)
      BY DeclarationSteps, Plain, Weighty DEF Marks, Closers
    <2>2. /\ Len(P) = 8 /\ P[1] = Take /\ P[2] = Take /\ P[3] = E(":") /\ P[4] = E("NL") /\ P[5] = E("INDENT")
          /\ P[6] = s /\ P[7] = E("NL") /\ P[8] = Do("handle_end")
      BY DEF parse_handle
    <2>3. IsList(P)
      <3>1. ASSUME NEW a, NEW b, NEW c, NEW d, NEW e, NEW f, NEW g, NEW h
            PROVE  IsList(<<a, b, c, d, e, f, g, h>>)
        BY DEF IsList
      <3>2. QED
        BY <3>1 DEF parse_handle
    <2> HIDE DEF w, s, P
    <2>4. Free(tok, k, P, 1, pos) /\ Free(tok, k, P, 2, pos)
      <3>1. CASE k = "nest"
        BY <2>2, <3>1, Plain DEF Free
      <3>2. CASE k # "nest"
        <4>1. Opening(tok, Take, pos) /\ Peek(1) \in Names
          <5>1. \A i : Tok(i) = TokOf(tok, i)
            BY DEF Tok, TokOf
          <5>2. Begins(tok, "parse_handle", pos)
            BY <1>9, <3>2
          <5>3. QED
            BY <5>1, <5>2, Opens, LedOnes DEF Begins, Peek
        <4>2. Opening(tok, Take, pos + 1)
          BY <4>1, Opens, NoMarks
        <4>3. QED
          BY <2>2, <4>1, <4>2 DEF Free
      <3>3. QED
        BY <3>1, <3>2
    <2>5. \A i \in {3, 4, 6, 7} : Free(tok, k, P, i, pos)
      BY <2>1, <2>2 DEF Free
    <2>6. \A i \in 1 .. Len(P) : i \notin {5, 8} => Free(tok, k, P, i, pos)
      BY <2>2, <2>4, <2>5
    <2>7. 5 \in 1 .. Len(P) /\ 8 \in 1 .. Len(P)
      BY <2>2
    <2>8. Cost3(k, P[5], w) /\ Cost3(k, P[8], -w)
      BY <2>1, <2>2, Zenon
    <2>9. Wrapped(tok, k, P, pos, 5, 8, w)
      BY <2>3, <2>6, <2>7, <2>8 DEF Wrapped
    <2>10. QED
      BY <2>1, <2>9, Fitting DEF P
  <1>10. ASSUME k = "nest" \/ Begins(tok, "parse_extend", pos)
         PROVE  Fits(k, parse_extend)
    <2> DEFINE L == <<Take, Declare("extend"), Take, E(":")>>
    <2>1. Cost3(k, Declare("extend"), 0) /\ Cost3(k, E(":"), 0) /\ pos \in Nat
      BY Plain, Opens DEF Marks
    <2>2. Turns(tok, k, L, pos)
      <3>1. CASE k = "nest"
        <4>1. Cost3(k, Take, 0)
          BY <3>1, Plain
        <4>2. Neutral(tok, k, L, pos)
          BY <2>1, <4>1 DEF Neutral, Free, IsList
        <4>3. QED
          BY <2>1, <4>2, TurnsFacts
      <3>2. CASE k # "nest"
        <4>1. Begins(tok, "parse_extend", pos)
          BY <1>10, <3>2
        <4>2. Opening(tok, Take, pos) /\ Opening(tok, Take, pos + 1)
          <5>1. \A i : Tok(i) = TokOf(tok, i)
            BY DEF Tok, TokOf
          <5>2. Peek(1) \in Names
            BY <4>1, <5>1 DEF Begins, Peek
          <5>3. QED
            BY <4>1, <5>2, Opens, LedOnes, NoMarks
        <4>3. /\ Taken(tok, pos) /\ Weight(k, tok[pos]) = 0
              /\ Taken(tok, pos + 1) /\ Weight(k, tok[pos + 1]) = 0
          <5>1. Take[1] # "do"
            BY DEF Take
          <5>2. /\ pos \in 1 .. Len(tok) /\ tok[pos] \notin Marks
                /\ pos + 1 \in 1 .. Len(tok) /\ tok[pos + 1] \notin Marks
            BY <4>2, <5>1 DEF Opening
          <5>3. QED
            BY <5>2, WeightFacts DEF Taken, Marks
        <4>4. pos + 1 \in Nat
          BY <2>1
        <4>5. Declare("extend")[1] = "declare"
          BY DEF Declare
        <4> DEFINE t == Take
                   u == Declare("extend")
                   s == E(":")
        <4>6. L = <<t, u, t, s>>
          OBVIOUS
        <4>7. \A x \in Nat : /\ Move(tok, k, t, pos, pos + 1, x, x) /\ Move(tok, k, t, pos, 0, x, x)
                             /\ Move(tok, k, t, pos + 1, 0, x, x)
          BY <4>3 DEF Move
        <4>8. \A x \in Nat : /\ Move(tok, k, u, pos + 1, pos + 1, x, x) /\ Move(tok, k, u, pos + 1, 0, x, x)
                             /\ Move(tok, k, s, 0, 0, x, x)
          <5>1. \A x \in Nat : x - x = 0
            OBVIOUS
          <5>2. QED
            BY <2>1, <4>5, <5>1 DEF Move
        <4> HIDE DEF t, u, s, L
        <4>9. ASSUME NEW x \in Nat
              PROVE  Runs(tok, k, L, pos, x, x)
          <5>1. Runs(tok, k, <<s>>, 0, x, x)
            BY <4>8, RunsOne
          <5>2. Runs(tok, k, <<t>> \o <<s>>, pos + 1, x, x)
            BY <4>4, <4>7, <5>1, RunsCons
          <5>3. Runs(tok, k, <<t, s>>, pos + 1, x, x)
            BY <5>2, Written
          <5>4. Runs(tok, k, <<u>> \o <<t, s>>, pos + 1, x, x)
            BY <4>4, <4>8, <5>3, RunsCons
          <5>5. Runs(tok, k, <<u, t, s>>, pos + 1, x, x)
            BY <5>4, Written
          <5>6. Runs(tok, k, <<t>> \o <<u, t, s>>, pos, x, x)
            BY <2>1, <4>4, <4>7, <5>5, RunsCons
          <5>7. <<t>> \o <<u, t, s>> = <<t, u, t, s>>
            BY Written
          <5>8. L = <<t>> \o <<u, t, s>>
            BY <4>6, <5>7
          <5>9. QED
            BY <5>6, <5>8
        <4>10. Calm(L)
          <5>1. t # Enter /\ t[1] # "progress" /\ s # Enter /\ s[1] # "progress"
            BY <2>1, CalmSteps DEF t, s
          <5>2. u # Enter /\ u[1] # "progress"
            BY DEF u, Declare, Enter
          <5>3. QED
            BY <4>6, <5>1, <5>2 DEF Calm
        <4>11. QED
          BY <4>9, <4>10 DEF Turns
      <3>3. QED
        BY <3>1, <3>2
    <2>3. Turns(tok, k, Block("extend_member"), 0)
      BY Endings DEF Members
    <2>4. parse_extend = L \o Block("extend_member")
      BY DEF parse_extend
    <2> HIDE DEF L
    <2>5. Turns(tok, k, L \o Block("extend_member"), pos)
      BY <2>1, <2>2, <2>3, TurnsFacts
    <2>6. QED
      BY <2>4, <2>5, Fitting
  <1>11. QED
    BY <1>1, <1>2, <1>3, <1>4, <1>5, <1>6, <1>7, <1>8, <1>9, <1>10
-----------------------------------------------------------------------------
(***************************************************************************)
(* The productions by name.                                                *)
(***************************************************************************)

(* What the call of a production stands for.                                *)
LEMMA ProductionIs ==
  /\ \A a : Production("argument", a) = argument
  /\ \A a : Production("asm_line", a) = asm_line
  /\ \A a : Production("asm_operand", a) = asm_operand
  /\ \A a : Production("assign_or_finish", a) = assign_or_finish(a)
  /\ \A a : Production("body", a) = body(a)
  /\ \A a : Production("body_item", a) = body_item(a)
  /\ \A a : Production("bounds", a) = bounds
  /\ \A a : Production("bracket", a) = bracket
  /\ \A a : Production("catch_rest", a) = catch_rest
  /\ \A a : Production("defer_rest", a) = defer_rest
  /\ \A a : Production("else_arm", a) = else_arm
  /\ \A a : Production("enum_case", a) = enum_case
  /\ \A a : Production("enum_member", a) = enum_member
  /\ \A a : Production("export_member", a) = export_member
  /\ \A a : Production("expr_arm", a) = expr_arm
  /\ \A a : Production("extend_member", a) = extend_member
  /\ \A a : Production("extern_rest", a) = extern_rest
  /\ \A a : Production("finish_expression", a) = finish_expression(a)
  /\ \A a : Production("format_part", a) = format_part
  /\ \A a : Production("free_rest", a) = free_rest
  /\ \A a : Production("generic_param", a) = generic_param
  /\ \A a : Production("generics", a) = generics
  /\ \A a : Production("handle_end", a) = handle_end
  /\ \A a : Production("if_rest", a) = if_rest
  /\ \A a : Production("interface_member", a) = interface_member
  /\ \A a : Production("lambda_param", a) = lambda_param
  /\ \A a : Production("measured", a) = measured
  /\ \A a : Production("member", a) = member(a)
  /\ \A a : Production("merge_extensions", a) = merge_extensions
  /\ \A a : Production("module_rest", a) = module_rest
  /\ \A a : Production("name_list", a) = name_list(a)
  /\ \A a : Production("named_parameter", a) = named_parameter(a)
  /\ \A a : Production("only_method", a) = only_method
  /\ \A a : Production("parameter", a) = parameter(a)
  /\ \A a : Production("parse_arg_list", a) = parse_arg_list
  /\ \A a : Production("parse_asm", a) = parse_asm
  /\ \A a : Production("parse_attributes", a) = parse_attributes
  /\ \A a : Production("parse_binary", a) = parse_binary(a)
  /\ \A a : Production("parse_binary_rest", a) = parse_binary_rest(a)
  /\ \A a : Production("parse_binding", a) = parse_binding
  /\ \A a : Production("parse_condition", a) = parse_condition
  /\ \A a : Production("parse_conditional", a) = parse_conditional
  /\ \A a : Production("parse_conditional_rest", a) = parse_conditional_rest
  /\ \A a : Production("parse_conformance", a) = parse_conformance
  /\ \A a : Production("parse_const", a) = parse_const
  /\ \A a : Production("parse_else_expr", a) = parse_else_expr
  /\ \A a : Production("parse_else_rest", a) = parse_else_rest
  /\ \A a : Production("parse_enum", a) = parse_enum
  /\ \A a : Production("parse_expression", a) = parse_expression
  /\ \A a : Production("parse_extend", a) = parse_extend
  /\ \A a : Production("parse_extern", a) = parse_extern
  /\ \A a : Production("parse_for", a) = parse_for
  /\ \A a : Production("parse_free", a) = parse_free
  /\ \A a : Production("parse_func", a) = parse_func
  /\ \A a : Production("parse_generic_params", a) = parse_generic_params
  /\ \A a : Production("parse_global", a) = parse_global
  /\ \A a : Production("parse_group_or_tuple", a) = parse_group_or_tuple
  /\ \A a : Production("parse_handle", a) = parse_handle
  /\ \A a : Production("parse_if", a) = parse_if
  /\ \A a : Production("parse_import", a) = parse_import
  /\ \A a : Production("parse_interface", a) = parse_interface
  /\ \A a : Production("parse_lambda", a) = parse_lambda
  /\ \A a : Production("parse_match", a) = parse_match(a)
  /\ \A a : Production("parse_module", a) = parse_module
  /\ \A a : Production("parse_module_path", a) = parse_module_path
  /\ \A a : Production("parse_new", a) = parse_new
  /\ \A a : Production("parse_params", a) = parse_params(a)
  /\ \A a : Production("parse_pattern", a) = parse_pattern
  /\ \A a : Production("parse_postfix", a) = parse_postfix
  /\ \A a : Production("parse_primary", a) = parse_primary
  /\ \A a : Production("parse_primary_type", a) = parse_primary_type
  /\ \A a : Production("parse_simple_stmt", a) = parse_simple_stmt
  /\ \A a : Production("parse_statement", a) = parse_statement
  /\ \A a : Production("parse_struct", a) = parse_struct(a)
  /\ \A a : Production("parse_subscript", a) = parse_subscript
  /\ \A a : Production("parse_suite", a) = parse_suite
  /\ \A a : Production("parse_top", a) = parse_top
  /\ \A a : Production("parse_type", a) = parse_type
  /\ \A a : Production("parse_type_args", a) = parse_type_args
  /\ \A a : Production("parse_type_builtin", a) = parse_type_builtin
  /\ \A a : Production("parse_type_member", a) = parse_type_member(a)
  /\ \A a : Production("parse_unary", a) = parse_unary
  /\ \A a : Production("parse_union", a) = parse_union(a)
  /\ \A a : Production("parse_while", a) = parse_while
  /\ \A a : Production("parse_with", a) = parse_with
  /\ \A a : Production("pattern_rest", a) = pattern_rest
  /\ \A a : Production("postfix_rest", a) = postfix_rest(a)
  /\ \A a : Production("qualifiers", a) = qualifiers(a)
  /\ \A a : Production("skip_block", a) = skip_block(a)
  /\ \A a : Production("stmt_arm", a) = stmt_arm
  /\ \A a : Production("subscript_rest", a) = subscript_rest
  /\ \A a : Production("top_rest", a) = top_rest
  /\ \A a : Production("type_path", a) = type_path(a)
  /\ \A a : Production("type_suffix", a) = type_suffix(a)
  /\ \A a : Production("union_field", a) = union_field
  /\ \A a : Production("union_member", a) = union_member
  /\ \A a : Production("weak_member", a) = weak_member
  /\ \A a : Production("struct_member", a) = parse_type_member(FALSE)
  /\ \A a : Production("extern_member", a) = parse_type_member(TRUE)
  <1>1. /\ \A a : Production("argument", a) = argument
        /\ \A a : Production("asm_line", a) = asm_line
        /\ \A a : Production("asm_operand", a) = asm_operand
        /\ \A a : Production("assign_or_finish", a) = assign_or_finish(a)
        /\ \A a : Production("body", a) = body(a)
        /\ \A a : Production("body_item", a) = body_item(a)
        /\ \A a : Production("bounds", a) = bounds
        /\ \A a : Production("bracket", a) = bracket
        /\ \A a : Production("catch_rest", a) = catch_rest
        /\ \A a : Production("defer_rest", a) = defer_rest
        /\ \A a : Production("else_arm", a) = else_arm
        /\ \A a : Production("enum_case", a) = enum_case
    BY DEF Production
  <1>2. /\ \A a : Production("enum_member", a) = enum_member
        /\ \A a : Production("export_member", a) = export_member
        /\ \A a : Production("expr_arm", a) = expr_arm
        /\ \A a : Production("extend_member", a) = extend_member
        /\ \A a : Production("extern_rest", a) = extern_rest
        /\ \A a : Production("finish_expression", a) = finish_expression(a)
        /\ \A a : Production("format_part", a) = format_part
        /\ \A a : Production("free_rest", a) = free_rest
        /\ \A a : Production("generic_param", a) = generic_param
        /\ \A a : Production("generics", a) = generics
        /\ \A a : Production("handle_end", a) = handle_end
        /\ \A a : Production("if_rest", a) = if_rest
    BY DEF Production
  <1>3. /\ \A a : Production("interface_member", a) = interface_member
        /\ \A a : Production("lambda_param", a) = lambda_param
        /\ \A a : Production("measured", a) = measured
        /\ \A a : Production("member", a) = member(a)
        /\ \A a : Production("merge_extensions", a) = merge_extensions
        /\ \A a : Production("module_rest", a) = module_rest
        /\ \A a : Production("name_list", a) = name_list(a)
        /\ \A a : Production("named_parameter", a) = named_parameter(a)
        /\ \A a : Production("only_method", a) = only_method
        /\ \A a : Production("parameter", a) = parameter(a)
        /\ \A a : Production("parse_arg_list", a) = parse_arg_list
        /\ \A a : Production("parse_asm", a) = parse_asm
    BY DEF Production
  <1>4. /\ \A a : Production("parse_attributes", a) = parse_attributes
        /\ \A a : Production("parse_binary", a) = parse_binary(a)
        /\ \A a : Production("parse_binary_rest", a) = parse_binary_rest(a)
        /\ \A a : Production("parse_binding", a) = parse_binding
        /\ \A a : Production("parse_condition", a) = parse_condition
        /\ \A a : Production("parse_conditional", a) = parse_conditional
        /\ \A a : Production("parse_conditional_rest", a) = parse_conditional_rest
        /\ \A a : Production("parse_conformance", a) = parse_conformance
        /\ \A a : Production("parse_const", a) = parse_const
        /\ \A a : Production("parse_else_expr", a) = parse_else_expr
        /\ \A a : Production("parse_else_rest", a) = parse_else_rest
        /\ \A a : Production("parse_enum", a) = parse_enum
    BY DEF Production
  <1>5. /\ \A a : Production("parse_expression", a) = parse_expression
        /\ \A a : Production("parse_extend", a) = parse_extend
        /\ \A a : Production("parse_extern", a) = parse_extern
        /\ \A a : Production("parse_for", a) = parse_for
        /\ \A a : Production("parse_free", a) = parse_free
        /\ \A a : Production("parse_func", a) = parse_func
        /\ \A a : Production("parse_generic_params", a) = parse_generic_params
        /\ \A a : Production("parse_global", a) = parse_global
        /\ \A a : Production("parse_group_or_tuple", a) = parse_group_or_tuple
        /\ \A a : Production("parse_handle", a) = parse_handle
        /\ \A a : Production("parse_if", a) = parse_if
        /\ \A a : Production("parse_import", a) = parse_import
    BY DEF Production
  <1>6. /\ \A a : Production("parse_interface", a) = parse_interface
        /\ \A a : Production("parse_lambda", a) = parse_lambda
        /\ \A a : Production("parse_match", a) = parse_match(a)
        /\ \A a : Production("parse_module", a) = parse_module
        /\ \A a : Production("parse_module_path", a) = parse_module_path
        /\ \A a : Production("parse_new", a) = parse_new
        /\ \A a : Production("parse_params", a) = parse_params(a)
        /\ \A a : Production("parse_pattern", a) = parse_pattern
        /\ \A a : Production("parse_postfix", a) = parse_postfix
        /\ \A a : Production("parse_primary", a) = parse_primary
        /\ \A a : Production("parse_primary_type", a) = parse_primary_type
        /\ \A a : Production("parse_simple_stmt", a) = parse_simple_stmt
    BY DEF Production
  <1>7. /\ \A a : Production("parse_statement", a) = parse_statement
        /\ \A a : Production("parse_struct", a) = parse_struct(a)
        /\ \A a : Production("parse_subscript", a) = parse_subscript
        /\ \A a : Production("parse_suite", a) = parse_suite
        /\ \A a : Production("parse_top", a) = parse_top
        /\ \A a : Production("parse_type", a) = parse_type
        /\ \A a : Production("parse_type_args", a) = parse_type_args
        /\ \A a : Production("parse_type_builtin", a) = parse_type_builtin
        /\ \A a : Production("parse_type_member", a) = parse_type_member(a)
        /\ \A a : Production("parse_unary", a) = parse_unary
        /\ \A a : Production("parse_union", a) = parse_union(a)
        /\ \A a : Production("parse_while", a) = parse_while
    BY DEF Production
  <1>8. /\ \A a : Production("parse_with", a) = parse_with
        /\ \A a : Production("pattern_rest", a) = pattern_rest
        /\ \A a : Production("postfix_rest", a) = postfix_rest(a)
        /\ \A a : Production("qualifiers", a) = qualifiers(a)
        /\ \A a : Production("skip_block", a) = skip_block(a)
        /\ \A a : Production("stmt_arm", a) = stmt_arm
        /\ \A a : Production("subscript_rest", a) = subscript_rest
        /\ \A a : Production("top_rest", a) = top_rest
        /\ \A a : Production("type_path", a) = type_path(a)
        /\ \A a : Production("type_suffix", a) = type_suffix(a)
        /\ \A a : Production("union_field", a) = union_field
        /\ \A a : Production("union_member", a) = union_member
    BY DEF Production
  <1>9. /\ \A a : Production("weak_member", a) = weak_member
        /\ \A a : Production("struct_member", a) = parse_type_member(FALSE)
        /\ \A a : Production("extern_member", a) = parse_type_member(TRUE)
    BY DEF Production
  <1>10. QED
    BY <1>1, <1>2, <1>3, <1>4, <1>5, <1>6, <1>7, <1>8, <1>9

(* A production's steps do what is expected of its call.                    *)
LEMMA ProductionFits ==
  ASSUME NEW k \in Kinds, InText
  PROVE  /\ \A p \in Easy : \A a : Shuts(k, Production(p, a), 0)
         /\ \A p \in Closers : \A a : DoOK(p, a) => Shuts(k, Production(p, a), CostDo(k, p))
         /\ \A a \in {Names, Names1} : Shuts(k, Production("name_list", a), 0)
         /\ \A p \in Led : k = "nest" \/ Begins(tok, p, pos) => \A a : Shuts(k, Production(p, a), 0)
         /\ k = "nest" => \A a : Shuts(k, Production("skip_block", a), 0)
  <1>1. /\ \A a : Fits(k, Production("argument", a))
        /\ \A a : Fits(k, Production("format_part", a))
        /\ \A a : Fits(k, Production("lambda_param", a))
        /\ \A a : Fits(k, Production("measured", a))
        /\ \A a : Fits(k, Production("parse_arg_list", a))
        /\ \A a : Fits(k, Production("parse_lambda", a))
        /\ \A a : Fits(k, Production("parse_postfix", a))
        /\ \A a : Fits(k, Production("parse_primary", a))
        /\ \A a : Fits(k, Production("parse_type_args", a))
    BY ProductionIs, OperandsFit
  <1>2. /\ \A a : Fits(k, Production("postfix_rest", a))
    BY ProductionIs, OperandsFit
  <1>3. /\ \A a : Fits(k, Production("asm_operand", a))
    BY ProductionIs, LedStatementsFit
  <1>4. /\ \A a : Fits(k, Production("assign_or_finish", a))
        /\ \A a : Fits(k, Production("defer_rest", a))
        /\ \A a : Fits(k, Production("expr_arm", a))
        /\ \A a : Fits(k, Production("if_rest", a))
        /\ \A a : Fits(k, Production("parse_condition", a))
        /\ \A a : Fits(k, Production("parse_pattern", a))
        /\ \A a : Fits(k, Production("parse_simple_stmt", a))
        /\ \A a : Fits(k, Production("parse_statement", a))
        /\ \A a : Fits(k, Production("parse_suite", a))
    BY ProductionIs, StatementsFit
  <1>5. /\ \A a : Fits(k, Production("pattern_rest", a))
        /\ \A a : Fits(k, Production("stmt_arm", a))
    BY ProductionIs, StatementsFit
  <1>6. /\ \A a : Fits(k, Production("bounds", a))
        /\ \A a : Fits(k, Production("generic_param", a))
        /\ \A a : Fits(k, Production("generics", a))
        /\ \A a : Fits(k, Production("named_parameter", a))
        /\ \A a : Fits(k, Production("parameter", a))
        /\ \A a : Fits(k, Production("parse_generic_params", a))
        /\ \A a : Fits(k, Production("parse_params", a))
        /\ \A a : Fits(k, Production("parse_primary_type", a))
        /\ \A a : Fits(k, Production("parse_type", a))
    BY ProductionIs, TypesFit
  <1>7. /\ \A a : Fits(k, Production("qualifiers", a))
        /\ \A a : Fits(k, Production("type_path", a))
        /\ \A a : Fits(k, Production("type_suffix", a))
    BY ProductionIs, TypesFit
  <1>8. /\ \A a : Fits(k, Production("catch_rest", a))
        /\ \A a : Fits(k, Production("else_arm", a))
        /\ \A a : Fits(k, Production("finish_expression", a))
        /\ \A a : Fits(k, Production("parse_binary", a))
        /\ \A a : Fits(k, Production("parse_binary_rest", a))
        /\ \A a : Fits(k, Production("parse_conditional", a))
        /\ \A a : Fits(k, Production("parse_conditional_rest", a))
        /\ \A a : Fits(k, Production("parse_else_expr", a))
        /\ \A a : Fits(k, Production("parse_else_rest", a))
    BY ProductionIs, OperatorsFit
  <1>9. /\ \A a : Fits(k, Production("parse_expression", a))
        /\ \A a : Fits(k, Production("parse_unary", a))
    BY ProductionIs, OperatorsFit
  <1>10. /\ \A a : Fits(k, Production("enum_case", a))
         /\ \A a : Fits(k, Production("enum_member", a))
         /\ \A a : Fits(k, Production("export_member", a))
         /\ \A a : Fits(k, Production("extern_rest", a))
         /\ \A a : Fits(k, Production("interface_member", a))
    BY ProductionIs, DeclarationsFit
  <1>11. /\ \A a : Fits(k, Production("member", a))
         /\ \A a : Fits(k, Production("parse_attributes", a))
         /\ \A a : Fits(k, Production("parse_conformance", a))
         /\ \A a : Fits(k, Production("parse_func", a))
         /\ \A a : Fits(k, Production("parse_global", a))
    BY ProductionIs, DeclarationsFit
  <1>12. /\ \A a : Fits(k, Production("parse_struct", a))
         /\ \A a : Fits(k, Production("parse_type_member", a))
         /\ \A a : Fits(k, Production("union_field", a))
         /\ \A a : Fits(k, Production("union_member", a))
         /\ \A a : Fits(k, Production("weak_member", a))
    BY ProductionIs, DeclarationsFit
  <1>13. /\ \A a : Fits(k, Production("struct_member", a))
         /\ \A a : Fits(k, Production("extern_member", a))
    <2>1. \A a : Fits(k, parse_type_member(a))
      BY DeclarationsFit
    <2>2. Fits(k, parse_type_member(FALSE)) /\ Fits(k, parse_type_member(TRUE))
      BY <2>1, Zenon
    <2>3. /\ \A a : Production("struct_member", a) = parse_type_member(FALSE)
          /\ \A a : Production("extern_member", a) = parse_type_member(TRUE)
      BY ProductionIs, Zenon
    <2>4. QED
      BY <2>2, <2>3, Zenon
  <1>14. /\ \A a : Fits(k, Production("extend_member", a))
         /\ \A a : Fits(k, Production("merge_extensions", a))
         /\ \A a : Fits(k, Production("module_rest", a))
         /\ \A a : Fits(k, Production("only_method", a))
         /\ \A a : Fits(k, Production("parse_module", a))
         /\ \A a : Fits(k, Production("parse_module_path", a))
         /\ \A a : Fits(k, Production("parse_top", a))
         /\ \A a : Fits(k, Production("top_rest", a))
    BY ProductionIs, ModulesFit
  <1>15. \A p \in Easy : \A a : Fits(k, Production(p, a))
    BY <1>1, <1>2, <1>3, <1>4, <1>5, <1>6, <1>7, <1>8, <1>9, <1>10, <1>11, <1>12, <1>13, <1>14 DEF Easy
  <1>16. \A p \in Closers : \A a : DoOK(p, a) => Shuts(k, Production(p, a), CostDo(k, p))
    <2>1. \A p \in {"body", "body_item"} : \A a : DoOK(p, a) => a \in Members
      BY DEF DoOK
    <2>2. \A a : a \in Members => Shuts(k, Production("body", a), CostDo(k, "body"))
      BY ProductionIs, BodiesShut
    <2>3. \A a : a \in Members => Shuts(k, Production("body_item", a), CostDo(k, "body_item"))
      BY ProductionIs, BodiesShut
    <2>4. /\ \A a : Shuts(k, Production("asm_line", a), CostDo(k, "asm_line"))
          /\ \A a : Shuts(k, Production("handle_end", a), CostDo(k, "handle_end"))
      BY ProductionIs, BodiesShut
    <2>5. \A a : Shuts(k, Production("free_rest", a), CostDo(k, "free_rest"))
      BY ProductionIs, LedStatementsFit
    <2>6. /\ \A a : Shuts(k, Production("parse_subscript", a), CostDo(k, "parse_subscript"))
          /\ \A a : Shuts(k, Production("subscript_rest", a), CostDo(k, "subscript_rest"))
      BY ProductionIs, OperandsFit
    <2>7. QED
      BY <2>1, <2>2, <2>3, <2>4, <2>5, <2>6 DEF Closers
  <1>17. /\ k = "nest" \/ Begins(tok, "parse_if", pos) => \A a : Fits(k, Production("parse_if", a))
         /\ k = "nest" \/ Begins(tok, "parse_while", pos) => \A a : Fits(k, Production("parse_while", a))
         /\ k = "nest" \/ Begins(tok, "parse_for", pos) => \A a : Fits(k, Production("parse_for", a))
         /\ k = "nest" \/ Begins(tok, "parse_match", pos) => \A a : Fits(k, Production("parse_match", a))
         /\ k = "nest" \/ Begins(tok, "parse_with", pos) => \A a : Fits(k, Production("parse_with", a))
         /\ k = "nest" \/ Begins(tok, "parse_asm", pos) => \A a : Fits(k, Production("parse_asm", a))
         /\ k = "nest" \/ Begins(tok, "parse_binding", pos) => \A a : Fits(k, Production("parse_binding", a))
         /\ k = "nest" \/ Begins(tok, "parse_free", pos) => \A a : Fits(k, Production("parse_free", a))
    BY ProductionIs, LedStatementsFit
  <1>18. /\ k = "nest" \/ Begins(tok, "bracket", pos) => \A a : Fits(k, Production("bracket", a))
         /\ k = "nest" \/ Begins(tok, "parse_new", pos) => \A a : Fits(k, Production("parse_new", a))
         /\ k = "nest" \/ Begins(tok, "parse_group_or_tuple", pos) => \A a : Fits(k, Production("parse_group_or_tuple", a))
         /\ k = "nest" \/ Begins(tok, "parse_type_builtin", pos) => \A a : Fits(k, Production("parse_type_builtin", a))
    BY ProductionIs, OperandsFit
  <1>19. /\ k = "nest" \/ Begins(tok, "parse_const", pos) => \A a : Fits(k, Production("parse_const", a))
         /\ k = "nest" \/ Begins(tok, "parse_extern", pos) => \A a : Fits(k, Production("parse_extern", a))
         /\ k = "nest" \/ Begins(tok, "parse_enum", pos) => \A a : Fits(k, Production("parse_enum", a))
         /\ k = "nest" \/ Begins(tok, "parse_union", pos) => \A a : Fits(k, Production("parse_union", a))
         /\ k = "nest" \/ Begins(tok, "parse_interface", pos) => \A a : Fits(k, Production("parse_interface", a))
    BY ProductionIs, DeclarationsFit
  <1>20. /\ k = "nest" \/ Begins(tok, "parse_import", pos) => \A a : Fits(k, Production("parse_import", a))
         /\ k = "nest" \/ Begins(tok, "parse_handle", pos) => \A a : Fits(k, Production("parse_handle", a))
         /\ k = "nest" \/ Begins(tok, "parse_extend", pos) => \A a : Fits(k, Production("parse_extend", a))
    BY ProductionIs, ModulesFit
  <1>21. \A p \in Led : k = "nest" \/ Begins(tok, p, pos) => \A a : Fits(k, Production(p, a))
    BY <1>17, <1>18, <1>19, <1>20 DEF Led
  <1>22. /\ \A a \in {Names, Names1} : Fits(k, Production("name_list", a))
         /\ k = "nest" => \A a : Fits(k, Production("skip_block", a))
    BY ProductionIs, StatementsFit
  <1>23. QED
    BY <1>15, <1>16, <1>21, <1>22, Fitting

-----------------------------------------------------------------------------
(***************************************************************************)
(* What makes the cursor move on: a step that takes a token or reports     *)
(* that there is another one.                                              *)
(***************************************************************************)
Feeds(s) == Eats(s) \/ s = Fail
Fed(P) == IsList(P) /\ \E i \in 1 .. Len(P) : Feeds(P[i])

(* The lists where one does.                                                *)
LEMMA FedLists ==
  /\ IsList(<< >>)
  /\ \A a : /\ IsList(<<a>>)
            /\ Feeds(a) => Fed(<<a>>)
  /\ \A a, b : /\ IsList(<<a, b>>)
               /\ Feeds(a) \/ Feeds(b) => Fed(<<a, b>>)
  /\ \A a, b, c : /\ IsList(<<a, b, c>>)
                  /\ Feeds(a) \/ Feeds(b) \/ Feeds(c) => Fed(<<a, b, c>>)
  /\ \A a, b, c, d : /\ IsList(<<a, b, c, d>>)
                     /\ Feeds(a) \/ Feeds(b) \/ Feeds(c) \/ Feeds(d) => Fed(<<a, b, c, d>>)
  /\ \A a, b, c, d, e : /\ IsList(<<a, b, c, d, e>>)
                        /\ Feeds(a) \/ Feeds(b) \/ Feeds(c) \/ Feeds(d) \/ Feeds(e) => Fed(<<a, b, c, d, e>>)
  /\ \A a, b, c, d, e, f : /\ IsList(<<a, b, c, d, e, f>>)
                           /\ Feeds(a) \/ Feeds(b) \/ Feeds(c) \/ Feeds(d) => Fed(<<a, b, c, d, e, f>>)
  /\ \A a, b, c, d, e, f, g : /\ IsList(<<a, b, c, d, e, f, g>>)
                              /\ Feeds(a) \/ Feeds(b) \/ Feeds(c) \/ Feeds(d) => Fed(<<a, b, c, d, e, f, g>>)
  /\ \A a, b, c, d, e, f, g, h : /\ IsList(<<a, b, c, d, e, f, g, h>>)
                                 /\ Feeds(a) \/ Feeds(b) \/ Feeds(c) \/ Feeds(d) => Fed(<<a, b, c, d, e, f, g, h>>)
  /\ \A L, M : IsList(L) /\ Fed(M) => Fed(L \o M)
  /\ \A L, M : Fed(L) /\ IsList(M) => Fed(L \o M)
  <1>1. IsList(<< >>)
    BY DEF IsList
  <1>2. ASSUME NEW a
        PROVE  IsList(<<a>>) /\ (Feeds(a) => Fed(<<a>>))
    <2> DEFINE L == <<a>>
    <2>1. IsList(L) /\ Len(L) = 1
      BY DEF IsList
    <2>2. L[1] = a
      OBVIOUS
    <2> HIDE DEF L
    <2>3. Feeds(a) => Fed(L)
      BY <2>1, <2>2 DEF Fed
    <2>4. QED
      BY <2>1, <2>3 DEF L
  <1>3. ASSUME NEW a, NEW b
        PROVE  IsList(<<a, b>>) /\ (Feeds(a) \/ Feeds(b) => Fed(<<a, b>>))
    <2> DEFINE L == <<a, b>>
    <2>1. IsList(L) /\ Len(L) = 2
      BY DEF IsList
    <2>2. L[1] = a /\ L[2] = b
      OBVIOUS
    <2> HIDE DEF L
    <2>3. Feeds(a) \/ Feeds(b) => Fed(L)
      BY <2>1, <2>2 DEF Fed
    <2>4. QED
      BY <2>1, <2>3 DEF L
  <1>4. ASSUME NEW a, NEW b, NEW c
        PROVE  IsList(<<a, b, c>>) /\ (Feeds(a) \/ Feeds(b) \/ Feeds(c) => Fed(<<a, b, c>>))
    <2> DEFINE L == <<a, b, c>>
    <2>1. IsList(L) /\ Len(L) = 3
      BY DEF IsList
    <2>2. L[1] = a /\ L[2] = b /\ L[3] = c
      OBVIOUS
    <2> HIDE DEF L
    <2>3. Feeds(a) \/ Feeds(b) \/ Feeds(c) => Fed(L)
      BY <2>1, <2>2 DEF Fed
    <2>4. QED
      BY <2>1, <2>3 DEF L
  <1>5. ASSUME NEW a, NEW b, NEW c, NEW d
        PROVE  IsList(<<a, b, c, d>>) /\ (Feeds(a) \/ Feeds(b) \/ Feeds(c) \/ Feeds(d) => Fed(<<a, b, c, d>>))
    <2> DEFINE L == <<a, b, c, d>>
    <2>1. IsList(L) /\ Len(L) = 4
      BY DEF IsList
    <2>2. L[1] = a /\ L[2] = b /\ L[3] = c /\ L[4] = d
      OBVIOUS
    <2> HIDE DEF L
    <2>3. Feeds(a) \/ Feeds(b) \/ Feeds(c) \/ Feeds(d) => Fed(L)
      BY <2>1, <2>2 DEF Fed
    <2>4. QED
      BY <2>1, <2>3 DEF L
  <1>6. ASSUME NEW a, NEW b, NEW c, NEW d, NEW e
        PROVE  IsList(<<a, b, c, d, e>>) /\ (Feeds(a) \/ Feeds(b) \/ Feeds(c) \/ Feeds(d) \/ Feeds(e) => Fed(<<a, b, c, d, e>>))
    <2> DEFINE L == <<a, b, c, d, e>>
    <2>1. IsList(L) /\ Len(L) = 5
      BY DEF IsList
    <2>2. L[1] = a /\ L[2] = b /\ L[3] = c /\ L[4] = d /\ L[5] = e
      OBVIOUS
    <2> HIDE DEF L
    <2>3. Feeds(a) \/ Feeds(b) \/ Feeds(c) \/ Feeds(d) \/ Feeds(e) => Fed(L)
      BY <2>1, <2>2 DEF Fed
    <2>4. QED
      BY <2>1, <2>3 DEF L
  <1>7. ASSUME NEW a, NEW b, NEW c, NEW d, NEW e, NEW f
        PROVE  IsList(<<a, b, c, d, e, f>>) /\ (Feeds(a) \/ Feeds(b) \/ Feeds(c) \/ Feeds(d) => Fed(<<a, b, c, d, e, f>>))
    <2> DEFINE L == <<a, b, c, d, e, f>>
    <2>1. IsList(L) /\ Len(L) = 6
      BY DEF IsList
    <2>2. L[1] = a /\ L[2] = b /\ L[3] = c /\ L[4] = d /\ L[5] = e /\ L[6] = f
      OBVIOUS
    <2> HIDE DEF L
    <2>3. Feeds(a) \/ Feeds(b) \/ Feeds(c) \/ Feeds(d) => Fed(L)
      BY <2>1, <2>2 DEF Fed
    <2>4. QED
      BY <2>1, <2>3 DEF L
  <1>8. ASSUME NEW a, NEW b, NEW c, NEW d, NEW e, NEW f, NEW g
        PROVE  IsList(<<a, b, c, d, e, f, g>>) /\ (Feeds(a) \/ Feeds(b) \/ Feeds(c) \/ Feeds(d) => Fed(<<a, b, c, d, e, f, g>>))
    <2> DEFINE L == <<a, b, c, d, e, f, g>>
    <2>1. IsList(L) /\ Len(L) = 7
      BY DEF IsList
    <2>2. L[1] = a /\ L[2] = b /\ L[3] = c /\ L[4] = d /\ L[5] = e /\ L[6] = f /\ L[7] = g
      OBVIOUS
    <2> HIDE DEF L
    <2>3. Feeds(a) \/ Feeds(b) \/ Feeds(c) \/ Feeds(d) => Fed(L)
      BY <2>1, <2>2 DEF Fed
    <2>4. QED
      BY <2>1, <2>3 DEF L
  <1>9. ASSUME NEW a, NEW b, NEW c, NEW d, NEW e, NEW f, NEW g, NEW h
        PROVE  IsList(<<a, b, c, d, e, f, g, h>>) /\ (Feeds(a) \/ Feeds(b) \/ Feeds(c) \/ Feeds(d) => Fed(<<a, b, c, d, e, f, g, h>>))
    <2> DEFINE L == <<a, b, c, d, e, f, g, h>>
    <2>1. IsList(L) /\ Len(L) = 8
      BY DEF IsList
    <2>2. L[1] = a /\ L[2] = b /\ L[3] = c /\ L[4] = d /\ L[5] = e /\ L[6] = f /\ L[7] = g /\ L[8] = h
      OBVIOUS
    <2> HIDE DEF L
    <2>3. Feeds(a) \/ Feeds(b) \/ Feeds(c) \/ Feeds(d) => Fed(L)
      BY <2>1, <2>2 DEF Fed
    <2>4. QED
      BY <2>1, <2>3 DEF L
  <1>10. ASSUME NEW L, NEW M, IsList(L), Fed(M)
         PROVE  Fed(L \o M)
    <2>1. PICK i \in 1 .. Len(M) : Feeds(M[i])
      BY <1>10 DEF Fed
    <2>2. IsList(L) /\ IsList(M) /\ Len(L) \in Nat /\ Len(M) \in Nat
      BY <1>10 DEF Fed, IsList
    <2>3. IsList(L \o M) /\ Len(L) + i \in 1 .. Len(L \o M) /\ (L \o M)[Len(L) + i] = M[i]
      BY <2>2, Joined
    <2>4. QED
      BY <2>1, <2>3 DEF Fed
  <1>11. ASSUME NEW L, NEW M, Fed(L), IsList(M)
         PROVE  Fed(L \o M)
    <2>1. PICK i \in 1 .. Len(L) : Feeds(L[i])
      BY <1>11 DEF Fed
    <2>2. IsList(L) /\ IsList(M) /\ Len(L) \in Nat /\ Len(M) \in Nat
      BY <1>11 DEF Fed, IsList
    <2>3. IsList(L \o M) /\ i \in 1 .. Len(L \o M) /\ (L \o M)[i] = L[i]
      BY <2>2, Joined
    <2>4. QED
      BY <2>1, <2>3 DEF Fed
  <1>12. QED
    BY <1>1, <1>2, <1>3, <1>4, <1>5, <1>6, <1>7, <1>8, <1>9, <1>10, <1>11

(* The steps that do.                                                       *)
LEMMA Feeding ==
  /\ Feeds(Take) /\ Feeds(Fail) /\ Feeds(Name)
  /\ \A t : t # "EOF" => Feeds(E(t))
  /\ \A p \in Eaters : Feeds(Do(p)) /\ \A a : Feeds(DoWith(p, a))
  <1>1. Feeds(Take) /\ Feeds(Fail)
    BY DEF Feeds, Eats
  <1>2. Feeds(Name)
    BY DEF Feeds, Eats, Name, One, Names, Words
  <1>3. \A t : t # "EOF" => Feeds(E(t))
    BY DEF Feeds, Eats, E, One
  <1>4. ASSUME NEW p \in Eaters, NEW a
        PROVE  Feeds(Do(p)) /\ Feeds(DoWith(p, a))
    <2> DEFINE s == Do(p)
               t == DoWith(p, a)
    <2>1. s[1] = "do" /\ s[2] = p /\ t[1] = "do" /\ t[2] = p
      BY Calls
    <2> HIDE DEF s, t
    <2>2. Feeds(s) /\ Feeds(t)
      BY <2>1 DEF Feeds, Eats
    <2>3. QED
      BY <2>2 DEF s, t
  <1>5. QED
    BY <1>1, <1>2, <1>3, <1>4

(* What may follow is a list.                                               *)
LEMMA Followers ==
  /\ IsList(Suite) /\ \A item : IsList(Block(item))
  /\ IsList(Patterns) /\ Fed(Suite)
  /\ \A t, u, s : t # "EOF" => Fed(Within(t, u, s))
  <1>1. Fed(Suite)
    BY FedLists, Feeding DEF Suite
  <1>2. QED
    BY <1>1, FedLists, Feeding DEF Block, Patterns, Within, Fed

(* Statements and their parts move on.                                      *)
LEMMA StatementsEat ==
  /\ Fed(parse_statement) /\ Fed(parse_simple_stmt) /\ Fed(parse_if) /\ Fed(parse_while)
  /\ Fed(parse_for) /\ Fed(parse_with) /\ \A a : Fed(parse_match(a))
  /\ Fed(parse_asm) /\ Fed(parse_binding) /\ Fed(parse_free) /\ Fed(stmt_arm) /\ Fed(expr_arm)
  <1>1. Fed(parse_statement)
    <2> DEFINE P == {"parse_if", "parse_while", "parse_for", "parse_match", "parse_with", "parse_asm",
                     "parse_simple_stmt"}
    <2>1. \A p \in P : Fed(<<Do(p)>>) /\ \A a : Fed(<<DoWith(p, a)>>)
      BY FedLists, Feeding DEF Eaters
    <2>2. \A p : Fed(<<Take, Take, Do(p)>>)
      BY FedLists, Feeding
    <2>3. \/ \E p \in P : parse_statement = <<Do(p)>> \/ parse_statement = <<DoWith(p, FALSE)>>
          \/ \E p : parse_statement = <<Take, Take, Do(p)>>
      BY DEF parse_statement, At, AtName, Names, Words
    <2>4. QED
      BY <2>1, <2>2, <2>3
  <1>2. Fed(parse_simple_stmt)
    <2>1. \A a : Fed(<<Fail, a>>) /\ Fed(<<Take, a>>)
      BY FedLists, Feeding
    <2>2. \A a, b, c : Fed(<<Take, a, b>>) /\ Fed(<<Take, a, b, c>>)
      BY FedLists, Feeding
    <2>3. Fed(<<Do("parse_binding")>>) /\ Fed(<<Do("parse_free"), Newline>>)
      BY FedLists, Feeding DEF Eaters
    <2>4. \A a : Fed(<<Do("parse_unary"), a>>)
      BY FedLists, Feeding DEF Eaters
    <2>5. QED
      BY <2>1, <2>2, <2>3, <2>4 DEF parse_simple_stmt, At, Names, Words
  <1>3. Fed(parse_if) /\ Fed(parse_while) /\ Fed(parse_with)
    <2>1. \A a : Fed(<<Take, a>>) /\ IsList(<<a>>)
      BY FedLists, Feeding
    <2>2. \A a : Fed(<<Take, a>> \o Suite)
      BY <2>1, Followers, FedLists
    <2>3. \A a, b : Fed(<<Take, a>> \o Suite \o <<b>>)
      BY <2>1, <2>2, FedLists
    <2>4. QED
      BY <2>2, <2>3 DEF parse_if, parse_while, parse_with
  <1>4. Fed(parse_for)
    <2>1. \A a, b, c, d : Fed(<<Take, a, b, c, d>>)
      BY FedLists, Feeding
    <2>2. \A a, b, c, d : Fed(<<Take, a, b, c, d>> \o Suite)
      BY <2>1, Followers, FedLists
    <2>3. QED
      BY <2>2 DEF parse_for
  <1>5. \A a : Fed(parse_match(a))
    <2>1. \A a, b : Fed(<<Take, a, b>>) /\ IsList(<<a>>)
      BY FedLists, Feeding
    <2>2. \A a, b, i : Fed(<<Take, a, b>> \o Block(i))
      BY <2>1, Followers, FedLists
    <2>3. \A a, b, c, i : Fed(<<Take, a, b>> \o Block(i) \o <<c>>)
      BY <2>1, <2>2, FedLists
    <2>4. QED
      BY <2>3 DEF parse_match
  <1>6. Fed(parse_asm)
    BY FedLists, Feeding DEF parse_asm
  <1>7. Fed(parse_binding)
    BY FedLists, Feeding DEF parse_binding
  <1>8. Fed(parse_free)
    BY FedLists, Feeding DEF parse_free
  <1>9. Fed(stmt_arm)
    BY Followers, FedLists DEF stmt_arm
  <1>10. Fed(expr_arm)
    <2>1. \A a, b : Fed(<<E("=>"), a, b>>)
      BY FedLists, Feeding
    <2>2. QED
      BY <2>1, Followers, FedLists DEF expr_arm
  <1>11. QED
    BY <1>1, <1>2, <1>3, <1>4, <1>5, <1>6, <1>7, <1>8, <1>9, <1>10

(* Expressions do.                                                          *)
LEMMA ExpressionsEat ==
  /\ Fed(parse_unary) /\ Fed(parse_postfix) /\ Fed(parse_primary) /\ Fed(parse_type_builtin)
  /\ Fed(parse_lambda) /\ Fed(parse_group_or_tuple) /\ Fed(parse_new)
  <1>1. Fed(parse_unary)
    <2>1. \A a : Fed(<<Fail, a>>) /\ IsList(<<a>>)
      BY FedLists, Feeding
    <2>2. \A a, b, c, d, e : Fed(<<Take, a, b>>) /\ Fed(<<Take, a, b, c, d, e>>)
      BY FedLists, Feeding
    <2>3. Fed(<<Do("parse_postfix")>>)
      BY FedLists, Feeding DEF Eaters
    <2> DEFINE M == IF Cur \in PrefixOps
                    THEN <<Take, Do("parse_unary"), Node(IF At("not") THEN "not" ELSE "other")>>
                    ELSE IF is_scalar_cast_ahead
                    THEN <<Take, Do("parse_type"), E(")"), Landed(CastEnd + 1), Do("parse_unary"), Node("other")>>
                    ELSE <<Do("parse_postfix")>>
    <2>4. Fed(M)
      BY <2>2, <2>3
    <2>5. parse_unary = IF nest >= MaxNest THEN <<Fail, Node("other")>> ELSE <<Enter>> \o M \o <<Leave>>
      BY DEF parse_unary
    <2> HIDE DEF M
    <2>6. Fed(<<Enter>> \o M)
      BY <2>1, <2>4, FedLists
    <2>7. Fed(<<Enter>> \o M \o <<Leave>>)
      BY <2>1, <2>6, FedLists
    <2>8. QED
      BY <2>1, <2>5, <2>7
  <1>2. Fed(parse_postfix)
    BY FedLists, Feeding DEF parse_postfix, Eaters
  <1>3. Fed(parse_primary)
    <2>1. \A p \in Eaters : \A a : Fed(<<Do(p)>>) /\ Fed(<<DoWith(p, a)>>)
      BY FedLists, Feeding
    <2>2. \A a, b, c : Fed(<<Take, a>>) /\ Fed(<<Take, a, b>>) /\ Fed(<<Take, a, b, c>>) /\ Fed(<<Fail, a>>)
      BY FedLists, Feeding
    <2>3. \A a : IsList(<<a>>)
      BY FedLists
    <2>4. Fed(Within("[", "]", <<Do("parse_expression")>>) \o <<Node("other")>>)
      BY <2>3, Followers, FedLists
    <2>5. /\ \A a : Fed(<<DoWith("parse_match", a)>>)
          /\ Fed(<<Do("parse_type_builtin")>>) /\ Fed(<<Do("parse_lambda")>>)
          /\ Fed(<<Do("parse_group_or_tuple")>>) /\ Fed(<<Do("parse_new")>>)
      BY <2>1 DEF Eaters
    <2> DEFINE A == <<Do("parse_type_builtin")>>
               B == <<Take, Do("format_part"), Node("other")>>
               C == <<Take, Node("other")>>
               D == <<Take, Node("name")>>
               F == <<Take, One(Names \cup Keywords), If({"("}, <<Do("parse_arg_list")>>, << >>), Node("other")>>
               G == <<Do("parse_lambda")>>
               H == <<Do("parse_group_or_tuple")>>
               I == Within("[", "]", <<Do("parse_expression")>>) \o <<Node("other")>>
               J == <<DoWith("parse_match", TRUE)>>
               K == <<Do("parse_new")>>
               L == <<Fail, Node("name")>>
    <2>6. parse_primary =
            CASE TypeBuiltinAt(pos) -> A [] At("f-start") -> B [] Cur \in Literals -> C
              [] Cur \in Names1 /\ ~TypeBuiltinAt(pos) -> D [] At("self") -> C [] At(".") -> F
              [] At("(") -> IF is_lambda_ahead THEN G ELSE H
              [] At("[") -> I [] At("match") -> J [] At("new") -> K [] OTHER -> L
      BY DEF parse_primary
    <2>7. Fed(A) /\ Fed(B) /\ Fed(C) /\ Fed(D) /\ Fed(F) /\ Fed(G) /\ Fed(H) /\ Fed(K) /\ Fed(L)
      BY <2>2, <2>5
    <2>8. Fed(I) /\ Fed(J)
      BY <2>4, <2>5, Zenon
    <2> HIDE DEF A, B, C, D, F, G, H, I, J, K, L
    <2>9. QED
      BY <2>6, <2>7, <2>8
  <1>4. Fed(parse_type_builtin)
    <2>1. \A a, b, c, d : IsList(<<Take, Take>>) /\ IsList(<< >>) /\ Fed(<<Take, a, b, c, d>>)
      BY FedLists, Feeding
    <2>2. \A a, b, c, d : Fed(<<Take, Take>> \o <<Take, a, b, c, d>>) /\ Fed(<< >> \o <<Take, a, b, c, d>>)
      BY <2>1, FedLists
    <2>3. QED
      BY <2>2 DEF parse_type_builtin
  <1>5. Fed(parse_lambda)
    BY FedLists, Feeding DEF parse_lambda
  <1>6. Fed(parse_group_or_tuple)
    BY FedLists, Feeding DEF parse_group_or_tuple
  <1>7. Fed(parse_new)
    BY FedLists, Feeding DEF parse_new
  <1>8. QED
    BY <1>1, <1>2, <1>3, <1>4, <1>5, <1>6, <1>7

(* Declarations do.                                                         *)
LEMMA DeclarationsEat ==
  /\ Fed(parse_top) /\ Fed(top_rest) /\ Fed(parse_global) /\ Fed(parse_const) /\ Fed(parse_extern)
  /\ Fed(parse_func) /\ \A a : Fed(parse_struct(a))
  /\ Fed(parse_enum) /\ \A a : Fed(parse_union(a))
  /\ Fed(parse_interface) /\ Fed(parse_handle) /\ Fed(parse_extend) /\ Fed(extend_member)
  /\ \A a : Fed(parse_type_member(a)) /\ Fed(member(a))
  /\ Fed(interface_member)
  <1>1. Fed(parse_top)
    <2>1. \A a, b : Fed(<<Take, a>>) /\ Fed(<<Take, a, b>>) /\ Fed(<<Fail, Take, a, b>>)
      BY FedLists, Feeding
    <2>2. Fed(<<Take, E("str")>> \o Suite)
      BY <2>1, Followers, FedLists
    <2>3. \A a, b : Fed(<<Do("parse_asm")>>) /\ Fed(<<Do("parse_extend")>>) /\ Fed(<<a, b, Do("top_rest")>>)
      BY FedLists, Feeding DEF Eaters
    <2> DEFINE A == <<Fail, Take, Sync, Opt({"INDENT"}, <<DoWith("skip_block", 1)>>)>>
               B == <<Take, E("str")>> \o Suite
               C == <<Do("parse_asm")>>
               D == <<Do("parse_extend")>>
               F == <<Take, Do("parse_arg_list"), E("NL")>>
               G == <<Take, Do("parse_func")>>
               H == <<Opt({"pub"}, << >>), Do("parse_attributes"), Do("top_rest")>>
    <2>4. parse_top =
            CASE Cur \in {"class", "spawn"} \/ (At("weak") /\ ~weak_is_attribute) -> A
              [] At("test") -> B [] At("asm") -> C
              [] At("extend") /\ Peek(1) \in Names /\ Peek(2) = ":" -> D
              [] At("assert") /\ Peek(1) = "(" -> F
              [] At("export") /\ Peek(1) \in Names \cup {"func"} -> G
              [] OTHER -> H
      BY DEF parse_top
    <2>5. Fed(A) /\ Fed(B) /\ Fed(C) /\ Fed(D) /\ Fed(F) /\ Fed(G) /\ Fed(H)
      BY <2>1, <2>2, <2>3
    <2> HIDE DEF A, B, C, D, F, G, H
    <2>6. QED
      BY <2>4, <2>5
  <1>2. Fed(top_rest)
    <2>1. \A p \in Eaters : Fed(<<Do(p)>>) /\ \A a : Fed(<<DoWith(p, a)>>)
      BY FedLists, Feeding
    <2> DEFINE A == <<Do("parse_global")>>
               B == <<Do("parse_const")>>
               C == <<Take, Name, E("="), Do("parse_type"), E("NL")>>
               D == <<Do("parse_extern")>>
               F == <<Do("parse_func")>>
               G == <<DoWith("parse_struct", FALSE)>>
               H == <<Do("parse_enum")>>
               I == <<DoWith("parse_union", "type")>>
               J == <<Do("parse_interface")>>
               K == <<Do("parse_handle")>>
               L == <<Fail, Sync>>
    <2>2. top_rest =
            CASE at_local \/ At("var") -> A [] At("let") -> B [] At("type") -> C [] At("extern") -> D
              [] Cur \in {"func", "static"} -> F [] Cur \in {"struct", "packed", "align"} -> G
              [] At("enum") -> H [] At("union") -> I [] At("interface") -> J
              [] At("handle") /\ Peek(1) \in Names /\ Peek(2) = ":" -> K [] OTHER -> L
      BY DEF top_rest
    <2>3. Fed(C) /\ Fed(L)
      BY FedLists, Feeding
    <2>4. Fed(A) /\ Fed(B) /\ Fed(D) /\ Fed(F) /\ Fed(H) /\ Fed(J) /\ Fed(K)
      BY <2>1 DEF Eaters
    <2>5. Fed(G) /\ Fed(I)
      <3>1. "parse_struct" \in Eaters /\ "parse_union" \in Eaters
        BY DEF Eaters
      <3>2. QED
        BY <2>1, <3>1, Zenon
    <2> HIDE DEF A, B, C, D, F, G, H, I, J, K, L
    <2>6. QED
      BY <2>2, <2>3, <2>4, <2>5
  <1>3. Fed(parse_global)
    <2>1. \A a, b, c, d, e, f : IsList(<<a>>) /\ IsList(<< >>) /\ Fed(<<a, E("var"), b, c, d, e>>)
      BY FedLists, Feeding
    <2>2. \A a, b, c, d, e, f : /\ Fed(<<a>> \o <<b, E("var"), c, d, e, f>>)
                                /\ Fed(<< >> \o <<b, E("var"), c, d, e, f>>)
      BY <2>1, FedLists
    <2>3. QED
      BY <2>2 DEF parse_global
  <1>4. Fed(parse_const) /\ Fed(parse_extern)
    BY FedLists, Feeding DEF parse_const, parse_extern
  <1>5. Fed(parse_func)
    <2>1. \A a, b, c, d, e, f : IsList(<<a>>) /\ Fed(<<a, b, E("func"), c, d, e, f>>)
      BY FedLists, Feeding
    <2>2. \A a, b, c, d, e, f : Fed(<<a, b, E("func"), c, d, e, f>> \o Suite)
      BY <2>1, Followers, FedLists
    <2>3. \A a, b, c, d, e, f, g : Fed(<<a, b, E("func"), c, d, e, f>> \o Suite \o <<g>>)
      BY <2>1, <2>2, FedLists
    <2>4. QED
      BY <2>3 DEF parse_func
  <1>6. ASSUME NEW a
        PROVE  Fed(parse_struct(a))
    <2>1. \A b, c, d : Fed(<<b, E("struct"), c, d>>) /\ IsList(<<b>>) /\ IsList(<<b, c>>)
      BY FedLists, Feeding
    <2>2. \A b, c, d, e, f : /\ Fed(<<b, E("struct"), c, d>> \o <<e>>)
                             /\ Fed(<<b, E("struct"), c, d>> \o <<e, f>>)
      BY <2>1, FedLists
    <2>3. \A b, c, d, e, f, i : /\ Fed(<<b, E("struct"), c, d>> \o <<e>> \o Block(i))
                                /\ Fed(<<b, E("struct"), c, d>> \o <<e, f>> \o Block(i))
      BY <2>2, Followers, FedLists
    <2> DEFINE A == IF At("packed") THEN Take ELSE Align
               B == Declare(IF a THEN "extern" ELSE "type")
    <2>4. \/ parse_struct(a) = <<A, E("struct"), B, Name>> \o <<E(":")>> \o Block("extern_member")
          \/ parse_struct(a) = <<A, E("struct"), B, Name>> \o <<Do("generics"), Do("parse_conformance")>>
                               \o Block("struct_member")
      <3>1. CASE a
        BY <3>1 DEF parse_struct
      <3>2. CASE ~a
        BY <3>2 DEF parse_struct
      <3>3. QED
        BY <3>1, <3>2
    <2> HIDE DEF A, B
    <2>5. QED
      BY <2>3, <2>4
  <1>7. Fed(parse_enum) /\ Fed(parse_interface) /\ Fed(parse_extend) /\ \A a : Fed(parse_union(a))
    <2>1. \A a, b, c, d, e : Fed(<<Take, a, b, c, d, e>>) /\ Fed(<<Take, a, b, c>>)
      BY FedLists, Feeding
    <2>2. \A a, b, c, d, e, i : /\ Fed(<<Take, a, b, c, d, e>> \o Block(i))
                                /\ Fed(<<Take, a, b, c>> \o Block(i))
      BY <2>1, Followers, FedLists
    <2>3. QED
      BY <2>2 DEF parse_enum, parse_interface, parse_extend, parse_union
  <1>8. Fed(parse_handle)
    BY FedLists, Feeding DEF parse_handle
  <1>9. Fed(extend_member)
    <2>1. Fed(<<DoWith("parse_type_member", FALSE), Do("only_method")>>)
      <3>1. "parse_type_member" \in Eaters
        BY DEF Eaters
      <3>2. Feeds(DoWith("parse_type_member", FALSE))
        BY <3>1, Feeding, Zenon
      <3>3. QED
        BY <3>2, FedLists, Zenon
    <2>2. QED
      BY <2>1 DEF extend_member
  <1>10. ASSUME NEW a
         PROVE  Fed(parse_type_member(a))
    <2>1. Feeds(DoWith("member", a))
      BY Feeding DEF Eaters
    <2>2. QED
      BY <2>1, FedLists DEF parse_type_member
  <1>11. ASSUME NEW a
         PROVE  Fed(member(a))
    <2>1. \A b, c, d, e, f : /\ IsList(<<b>>) /\ IsList(<< >>) /\ Fed(<<Name, b, c, d, e, f>>)
                             /\ Fed(<<Fail, b, c>>)
      BY FedLists, Feeding
    <2>2. \A b, c, d, e, f, g : /\ Fed(<<g>> \o <<Name, b, c, d, e, f>>)
                                /\ Fed(<< >> \o <<Name, b, c, d, e, f>>)
      BY <2>1, FedLists
    <2>3. Fed(<<Do("parse_func")>>)
      BY FedLists, Feeding DEF Eaters
    <2> DEFINE A == (IF AtName THEN << >> ELSE <<Take>>)
                    \o <<Name, E(":"), Do("parse_type"), Opt({"="}, <<Do("parse_expression")>>), E("NL"), Node("field")>>
               B == <<Do("parse_func")>>
               C == <<Fail, Sync, Node("field")>>
    <2>4. Fed(A) /\ Fed(B) /\ Fed(C)
      BY <2>1, <2>2, <2>3
    <2>5. member(a) =
            CASE Cur \in {"let", "var"} \/ (a /\ AtName) -> A
              [] ~(a /\ AtName) /\ Cur \in {"func", "static", "inline"} -> B
              [] OTHER -> C
      BY Zenon DEF member
    <2> HIDE DEF A, B, C
    <2> DEFINE u == Cur \in {"let", "var"} \/ (a /\ AtName)
               v == ~(a /\ AtName) /\ Cur \in {"func", "static", "inline"}
    <2>6. member(a) \in {A, B, C}
      <3>1. member(a) = CASE u -> A [] v -> B [] OTHER -> C
        BY <2>5, Zenon
      <3> HIDE DEF u, v
      <3>2. QED
        BY <3>1
    <2>7. QED
      BY <2>4, <2>6
  <1>12. Fed(interface_member)
    BY FedLists, Feeding DEF interface_member
  <1>13. QED
    BY <1>1, <1>2, <1>3, <1>4, <1>5, <1>6, <1>7, <1>8, <1>9, <1>10, <1>11, <1>12

(* Every production that is to take something does, or reports.             *)
LEMMA EatersEat ==
  \A p \in Eaters : \A a : Fed(Production(p, a))
  <1>1. /\ \A a : Fed(Production("parse_statement", a))
        /\ \A a : Fed(Production("parse_simple_stmt", a))
        /\ \A a : Fed(Production("parse_if", a))
        /\ \A a : Fed(Production("parse_while", a))
        /\ \A a : Fed(Production("parse_for", a))
        /\ \A a : Fed(Production("parse_match", a))
        /\ \A a : Fed(Production("parse_with", a))
    BY ProductionIs, StatementsEat, ExpressionsEat, DeclarationsEat
  <1>2. /\ \A a : Fed(Production("parse_asm", a))
        /\ \A a : Fed(Production("parse_binding", a))
        /\ \A a : Fed(Production("parse_free", a))
        /\ \A a : Fed(Production("parse_unary", a))
        /\ \A a : Fed(Production("parse_postfix", a))
        /\ \A a : Fed(Production("parse_primary", a))
        /\ \A a : Fed(Production("parse_type_builtin", a))
    BY ProductionIs, StatementsEat, ExpressionsEat, DeclarationsEat
  <1>3. /\ \A a : Fed(Production("parse_lambda", a))
        /\ \A a : Fed(Production("parse_group_or_tuple", a))
        /\ \A a : Fed(Production("parse_new", a))
        /\ \A a : Fed(Production("parse_top", a))
        /\ \A a : Fed(Production("top_rest", a))
        /\ \A a : Fed(Production("parse_global", a))
        /\ \A a : Fed(Production("parse_const", a))
    BY ProductionIs, StatementsEat, ExpressionsEat, DeclarationsEat
  <1>4. /\ \A a : Fed(Production("parse_extern", a))
        /\ \A a : Fed(Production("parse_func", a))
        /\ \A a : Fed(Production("parse_struct", a))
        /\ \A a : Fed(Production("parse_enum", a))
        /\ \A a : Fed(Production("parse_union", a))
        /\ \A a : Fed(Production("parse_interface", a))
        /\ \A a : Fed(Production("parse_handle", a))
    BY ProductionIs, StatementsEat, ExpressionsEat, DeclarationsEat
  <1>5. /\ \A a : Fed(Production("parse_extend", a))
        /\ \A a : Fed(Production("extend_member", a))
        /\ \A a : Fed(Production("parse_type_member", a))
        /\ \A a : Fed(Production("member", a))
        /\ \A a : Fed(Production("stmt_arm", a))
        /\ \A a : Fed(Production("expr_arm", a))
        /\ \A a : Fed(Production("interface_member", a))
    BY ProductionIs, StatementsEat, ExpressionsEat, DeclarationsEat
  <1>6. /\ \A a : Fed(Production("struct_member", a))
       /\ \A a : Fed(Production("extern_member", a))
    <2>1. \A a : Fed(parse_type_member(a))
      BY DeclarationsEat
    <2>2. Fed(parse_type_member(FALSE)) /\ Fed(parse_type_member(TRUE))
      BY <2>1, Zenon
    <2>3. /\ \A a : Production("struct_member", a) = parse_type_member(FALSE)
          /\ \A a : Production("extern_member", a) = parse_type_member(TRUE)
      BY ProductionIs, Zenon
    <2>4. QED
      BY <2>2, <2>3, Zenon
  <1>7. QED
    BY <1>1, <1>2, <1>3, <1>4, <1>5, <1>6 DEF Eaters

-----------------------------------------------------------------------------
(***************************************************************************)
(* The first step of a walk, and the walk that is left when it is done.    *)
(***************************************************************************)

(* The cost of a step with no steps inside.                                 *)
LEMMA CostFlat ==
  ASSUME NEW k \in Kinds, NEW s, NEW d, Cost3(k, s, d), s[1] \notin {"opt", "if", "list"}
  PROVE  Cost0(k, s, d)
  <1>1. RangeEnd[1] = "opt" /\ Align[1] = "opt"
    BY DEF RangeEnd, Align, Opt
  <1>2. QED
    BY <1>1 DEF Cost3, Cost2, Cost1

(* An expected token.                                                       *)
LEMMA CostOne ==
  ASSUME NEW k \in Kinds, NEW s, NEW d, Cost3(k, s, d), s[1] = "one"
  PROVE  /\ "EOF" \notin s[2]
         /\ \A t \in s[2] : Weight(k, t) = d
         /\ k = "nest" => d = 0
  BY CostFlat DEF Cost0, Still

(* The steps that stay where they are.                                      *)
LEMMA MoveStill ==
  ASSUME NEW T, NEW k \in Kinds, NEW s, NEW q \in Nat, NEW r \in Nat, NEW x \in Nat, NEW y \in Nat,
         Move(T, k, s, q, r, x, y), s[1] \in Still \cup {"progress"}
  PROVE  y = x /\ r \in {q, 0} /\ (s[1] # "declare" => r = 0)
  <1>1. Enter[1] = "enter" /\ Leave[1] = "leave" /\ Take[1] = "take"
    BY DEF Enter, Leave, Take
  <1> DEFINE d == y - x
  <1>2. d \in Int /\ (d = 0 => y = x)
    OBVIOUS
  <1>3. \/ Cost3(k, s, d) /\ r = 0
        \/ y = x /\ r = q /\ s[1] = "declare"
        \/ y = x /\ r = 0
    BY <1>1 DEF Move, Still
  <1> HIDE DEF d
  <1>4. Cost3(k, s, d) => d = 0
    BY CostFlat, TakesCost DEF Cost0, Still
  <1>5. QED
    BY <1>2, <1>3, <1>4

(* A token taken without looking.                                           *)
LEMMA MoveTake ==
  ASSUME NEW T, NEW k \in Kinds, NEW s, NEW q \in Nat, NEW r \in Nat, NEW x \in Nat, NEW y \in Nat,
         Move(T, k, s, q, r, x, y), s[1] = "take"
  PROVE  \/ k = "nest" /\ y = x /\ r = 0
         \/ Taken(T, q) /\ y = x + Weight(k, T[q]) /\ r \in {q + 1, 0}
  <1>1. Enter[1] = "enter" /\ Leave[1] = "leave" /\ Take[1] = "take"
    BY DEF Enter, Leave, Take
  <1>2. Cost3(k, s, y - x) => k = "nest" /\ y - x = 0
    BY TakesCost
  <1>3. QED
    BY <1>1, <1>2 DEF Move

(* A level opened or closed.                                                *)
LEMMA MoveLevel ==
  ASSUME NEW T, NEW k \in Kinds, NEW s, NEW q \in Nat, NEW r \in Nat, NEW x \in Nat, NEW y \in Nat,
         Move(T, k, s, q, r, x, y), s[1] \in {"enter", "leave"}
  PROVE  /\ s[1] = "enter" => s = Enter /\ y = x + Up(k) /\ r \in {q, 0}
         /\ s[1] = "leave" => y = x - Up(k) /\ r = 0
  <1>1. Enter[1] = "enter" /\ Leave[1] = "leave" /\ Take[1] = "take"
    BY DEF Enter, Leave, Take
  <1>2. ~Cost3(k, s, y - x)
    BY TakesCost
  <1>3. QED
    BY <1>1, <1>2 DEF Move

(* The steps whose cost is all there is to know.                            *)
LEMMA MoveCosts ==
  ASSUME NEW T, NEW k \in Kinds, NEW s, NEW q \in Nat, NEW r \in Nat, NEW x \in Nat, NEW y \in Nat,
         Move(T, k, s, q, r, x, y), s[1] \in {"one", "opt", "if", "list", "sync"}
  PROVE  Cost3(k, s, y - x) /\ r = 0
  <1>1. Enter[1] = "enter" /\ Leave[1] = "leave" /\ Take[1] = "take"
    BY DEF Enter, Leave, Take
  <1>2. QED
    BY <1>1 DEF Move

(* A production called.                                                     *)
LEMMA MoveDo ==
  ASSUME NEW T, NEW k \in Kinds, NEW s, NEW q \in Nat, NEW r \in Nat, NEW x \in Nat, NEW y \in Nat,
         Move(T, k, s, q, r, x, y), s[1] = "do"
  PROVE  /\ r = 0
         /\ \/ s[2] \in Easy \cup Closers \cup {"name_list"} /\ DoOK(s[2], s[3]) /\ y - x = CostDo(k, s[2])
            \/ k = "nest" /\ s[2] \in Led \cup {"skip_block"} /\ y = x
            \/ s[2] \in Led /\ Begins(T, s[2], q) /\ y = x
  <1>1. Enter[1] = "enter" /\ Leave[1] = "leave" /\ Take[1] = "take"
    BY DEF Enter, Leave, Take
  <1> DEFINE d == y - x
  <1>2. d = 0 => y = x
    OBVIOUS
  <1>3. \/ Cost3(k, s, d) /\ r = 0
        \/ s[2] \in Led /\ Begins(T, s[2], q) /\ y = x /\ r = 0
    BY <1>1 DEF Move
  <1> HIDE DEF d
  <1>4. Cost3(k, s, d) =>
          \/ s[2] \in Easy \cup Closers \cup {"name_list"} /\ DoOK(s[2], s[3]) /\ d = CostDo(k, s[2])
          \/ k = "nest" /\ s[2] \in Led \cup {"skip_block"} /\ d = 0
    BY CostFlat DEF Cost0, Still
  <1>5. QED
    BY <1>2, <1>3, <1>4 DEF d

(* The walk's first step is taken where the cursor is.                      *)
LEMMA WalkHead ==
  ASSUME NEW T, NEW k \in Kinds, NEW L, NEW q \in Nat, NEW x, NEW z, Runs(T, k, L, q, x, z), L # << >>
  PROVE  \E r \in Nat, y \in Nat : Move(T, k, Head(L), q, r, x, y) /\ Runs(T, k, Tail(L), r, y, z)
  <1> DEFINE s == Head(L)
             M == Tail(L)
  <1>1. PICK p \in {q, 0}, r \in Nat, y \in Nat : Move(T, k, s, p, r, x, y) /\ Runs(T, k, M, r, y, z)
    BY RunsHead
  <1>2. x \in Nat
    BY RunsCounts
  <1> HIDE DEF s, M
  <1>3. CASE p = q
    BY <1>1, <1>3 DEF s, M
  <1>4. CASE p = 0
    <2>1. ~Taken(T, 0) /\ \A p_ : ~Begins(T, p_, 0)
      BY DEF Taken, Begins
    <2>2. CASE s[1] = "declare" /\ y = x /\ r = 0
      <3>1. Move(T, k, s, q, q, x, y) /\ Runs(T, k, M, q, y, z)
        BY <1>1, <2>2, RunsAnywhere DEF Move
      <3>2. QED
        BY <3>1 DEF s, M
    <2>3. CASE s = Enter
      <3>1. Move(T, k, s, q, 0, x, y) /\ r = 0
        <4>1. ~Cost3(k, Enter, y - x) /\ Enter[1] = "enter" /\ Enter # Leave /\ Enter # Take
          BY CalmSteps DEF Enter, Leave, Take
        <4>2. QED
          BY <1>1, <1>4, <2>3, <4>1 DEF Move
      <3>2. QED
        BY <1>1, <3>1 DEF s, M
    <2>4. CASE s # Enter /\ ~(s[1] = "declare" /\ y = x /\ r = 0)
      <3>1. Move(T, k, s, q, r, x, y)
        BY <1>1, <1>4, <2>1, <2>4 DEF Move
      <3>2. QED
        BY <1>1, <3>1 DEF s, M
    <2>5. QED
      BY <2>2, <2>3, <2>4
  <1>5. QED
    BY <1>1, <1>3, <1>4

(* A list is its first step before the others.                              *)
LEMMA Recomposed ==
  ASSUME NEW L, IsList(L), L # << >>
  PROVE  L = <<Head(L)>> \o Tail(L)
  <1> DEFINE M == Tail(L)
             J == <<Head(L)>> \o M
  <1>1. IsList(M) /\ Len(M) = Len(L) - 1 /\ Head(L) = L[1] /\ \A i \in 1 .. Len(L) - 1 : M[i] = L[i + 1]
    BY Beheaded
  <1>2. Len(L) \in Nat /\ 1 + Len(M) = Len(L)
    BY <1>1 DEF IsList
  <1>3. IsList(J) /\ Len(J) = Len(L) /\ J[1] = L[1] /\ \A i \in 2 .. Len(L) : J[i] = M[i - 1]
    BY <1>1, <1>2, Prepended
  <1> HIDE DEF J, M
  <1>4. ASSUME NEW i \in 1 .. Len(L)
        PROVE  L[i] = J[i]
    <2>1. CASE i = 1
      BY <1>3, <2>1
    <2>2. CASE i # 1
      <3>1. i \in 2 .. Len(L) /\ i - 1 \in 1 .. Len(L) - 1 /\ (i - 1) + 1 = i
        BY <1>2, <2>2
      <3>2. QED
        BY <1>1, <1>3, <3>1
    <2>3. QED
      BY <2>1, <2>2
  <1>5. L = J
    BY <1>3, <1>4, SameList
  <1>6. QED
    BY <1>5 DEF J, M

(* A step without a cost leaves the walk where it was.                      *)
LEMMA WalkOn ==
  ASSUME NEW T, NEW k \in Kinds, NEW L, NEW q \in Nat, NEW x, NEW z, Runs(T, k, L, q, x, z), L # << >>,
         Head(L)[1] \in Still \cup {"progress"}
  PROVE  /\ Runs(T, k, Tail(L), q, x, z)
         /\ Head(L)[1] # "declare" => Runs(T, k, Tail(L), 0, x, z)
  <1> DEFINE s == Head(L)
             M == Tail(L)
  <1>1. PICK r \in Nat, y \in Nat : Move(T, k, s, q, r, x, y) /\ Runs(T, k, M, r, y, z)
    BY WalkHead
  <1>2. x \in Nat
    BY RunsCounts
  <1>3. s[1] \in Still \cup {"progress"}
    OBVIOUS
  <1> HIDE DEF s, M
  <1>4. y = x /\ r \in {q, 0} /\ (s[1] # "declare" => r = 0)
    BY <1>1, <1>2, <1>3, MoveStill
  <1>5. Runs(T, k, M, q, x, z) /\ (s[1] # "declare" => Runs(T, k, M, 0, x, z))
    BY <1>1, <1>4, RunsAnywhere
  <1>6. QED
    BY <1>5 DEF s, M

(* A token taken without looking was seen before, unless levels are counted. *)
LEMMA WalkTake ==
  ASSUME NEW T, NEW k \in Kinds, NEW L, NEW q \in Nat, NEW x, NEW z, Runs(T, k, L, q, x, z), L # << >>,
         Head(L)[1] = "take"
  PROVE  \/ k = "nest" /\ Runs(T, k, Tail(L), 0, x, z)
         \/ Taken(T, q) /\ Runs(T, k, Tail(L), q + 1, x + Weight(k, T[q]), z)
  <1> DEFINE s == Head(L)
             M == Tail(L)
  <1>1. PICK r \in Nat, y \in Nat : Move(T, k, s, q, r, x, y) /\ Runs(T, k, M, r, y, z)
    BY WalkHead
  <1>2. x \in Nat
    BY RunsCounts
  <1>3. s[1] = "take"
    OBVIOUS
  <1> HIDE DEF s, M
  <1>4. \/ k = "nest" /\ y = x /\ r = 0
        \/ Taken(T, q) /\ y = x + Weight(k, T[q]) /\ r \in {q + 1, 0}
    BY <1>1, <1>2, <1>3, MoveTake
  <1>5. \/ k = "nest" /\ Runs(T, k, M, 0, x, z)
        \/ Taken(T, q) /\ Runs(T, k, M, q + 1, x + Weight(k, T[q]), z)
    BY <1>1, <1>4, RunsAnywhere
  <1>6. QED
    BY <1>5 DEF s, M

(* An expected token is taken for what it weighs.                           *)
LEMMA WalkOne ==
  ASSUME NEW T, NEW k \in Kinds, NEW L, NEW q \in Nat, NEW x, NEW z, Runs(T, k, L, q, x, z), L # << >>,
         Head(L)[1] = "one"
  PROVE  /\ k = "nest" => Runs(T, k, Tail(L), 0, x, z)
         /\ \A t \in Head(L)[2] : t # "EOF" /\ Runs(T, k, Tail(L), 0, x + Weight(k, t), z)
         /\ "EOF" \notin Head(L)[2]
  <1> DEFINE s == Head(L)
             M == Tail(L)
  <1>1. PICK r \in Nat, y \in Nat : Move(T, k, s, q, r, x, y) /\ Runs(T, k, M, r, y, z)
    BY WalkHead
  <1>2. x \in Nat
    BY RunsCounts
  <1>3. s[1] = "one"
    OBVIOUS
  <1> HIDE DEF s, M
  <1> DEFINE d == y - x
  <1>4. Cost3(k, s, d) /\ r = 0 /\ d \in Int /\ y = x + d
    BY <1>1, <1>2, <1>3, MoveCosts
  <1> HIDE DEF d
  <1>5. ASSUME NEW t \in s[2]
        PROVE  t # "EOF" /\ Runs(T, k, M, 0, x + Weight(k, t), z)
    <2>1. Weight(k, t) = d /\ t # "EOF"
      BY <1>3, <1>4, <1>5, CostOne
    <2>2. QED
      BY <1>1, <1>4, <2>1
  <1>6. k = "nest" => Runs(T, k, M, 0, x, z)
    <2>1. k = "nest" => d = 0
      BY <1>3, <1>4, CostOne
    <2>2. QED
      BY <1>1, <1>2, <1>4, <2>1
  <1>7. "EOF" \notin s[2]
    BY <1>3, <1>4, CostOne
  <1>8. QED
    BY <1>5, <1>6, <1>7 DEF s, M

(* A level is opened or closed.                                             *)
LEMMA WalkLevel ==
  ASSUME NEW T, NEW k \in Kinds, NEW L, NEW q \in Nat, NEW x, NEW z, Runs(T, k, L, q, x, z), L # << >>
  PROVE  /\ Head(L)[1] = "enter" => Head(L) = Enter /\ Runs(T, k, Tail(L), q, x + Up(k), z)
         /\ Head(L)[1] = "leave" => Runs(T, k, Tail(L), q, x - Up(k), z)
  <1> DEFINE s == Head(L)
             M == Tail(L)
  <1>1. PICK r \in Nat, y \in Nat : Move(T, k, s, q, r, x, y) /\ Runs(T, k, M, r, y, z)
    BY WalkHead
  <1>2. x \in Nat
    BY RunsCounts
  <1> HIDE DEF s, M
  <1>3. /\ s[1] = "enter" => s = Enter /\ y = x + Up(k) /\ r \in {q, 0}
        /\ s[1] = "leave" => y = x - Up(k) /\ r = 0
    BY <1>1, <1>2, MoveLevel
  <1>4. /\ s[1] = "enter" => s = Enter /\ Runs(T, k, M, q, x + Up(k), z)
        /\ s[1] = "leave" => Runs(T, k, M, q, x - Up(k), z)
    BY <1>1, <1>3, RunsAnywhere
  <1>5. QED
    BY <1>4 DEF s, M

(* The steps that skip tokens may be left, or taken again.                  *)
LEMMA WalkSkips ==
  ASSUME NEW T, NEW k \in Kinds, NEW L, NEW q \in Nat, NEW x, NEW z, Runs(T, k, L, q, x, z), L # << >>,
         Head(L)[1] \in {"skip", "sync"}
  PROVE  /\ Head(L)[1] = "sync" => k = "nest"
         /\ Runs(T, k, L, 0, x, z) /\ Runs(T, k, Tail(L), 0, x, z)
  <1> DEFINE s == Head(L)
             M == Tail(L)
  <1>1. PICK r \in Nat, y \in Nat : Move(T, k, s, q, r, x, y) /\ Runs(T, k, M, r, y, z)
    BY WalkHead
  <1>2. x \in Nat /\ IsList(L)
    BY RunsCounts
  <1>3. s[1] \in {"skip", "sync"} /\ L = <<s>> \o M
    BY <1>2, Recomposed
  <1> HIDE DEF s, M
  <1>4. y = x /\ r = 0 /\ (s[1] = "sync" => k = "nest")
    <2>1. CASE s[1] = "skip"
      BY <1>1, <1>2, <2>1, MoveStill DEF Still
    <2>2. CASE s[1] = "sync"
      <3>1. Cost3(k, s, y - x) /\ r = 0
        BY <1>1, <1>2, <2>2, MoveCosts
      <3>2. k = "nest" /\ y - x = 0
        BY <2>2, <3>1, TakesCost
      <3>3. QED
        BY <1>1, <1>2, <3>1, <3>2
    <2>3. QED
      BY <1>3, <2>1, <2>2
  <1>5. Move(T, k, s, 0, 0, x, x)
    <2>1. x - x = 0
      BY <1>2
    <2>2. Cost0(k, s, 0)
      BY <1>3, <1>4 DEF Cost0, Still
    <2>3. Cost3(k, s, 0)
      BY <2>2, LevelsUp
    <2>4. QED
      BY <2>1, <2>3 DEF Move
  <1>6. Runs(T, k, M, 0, x, z)
    BY <1>1, <1>4
  <1>7. Runs(T, k, <<s>> \o M, 0, x, z)
    BY <1>2, <1>5, <1>6, RunsCons
  <1>8. QED
    BY <1>3, <1>4, <1>6, <1>7 DEF s, M

(* The lists inside a step open no level and force no progress.             *)
LEMMA CalmInside ==
  ASSUME NEW k \in Kinds
  PROVE  /\ \A L, d : Ends3(k, L, 1, d) => IsList(L) /\ Calm(L)
         /\ \A S, L, d : Branch3(k, S, L, d) => IsList(L) /\ Calm(L)
  <1>1. ASSUME NEW L, NEW d, NEW f \in {1, 2}, Ends3(k, L, f, d)
        PROVE  IsList(L) /\ \A i \in f .. Len(L) : L[i] # Enter /\ L[i][1] # "progress"
    BY <1>1, CalmSteps DEF Ends3, Mild3
  <1>2. \A L, d : Ends3(k, L, 1, d) => IsList(L) /\ Calm(L)
    BY <1>1 DEF Calm
  <1>3. ASSUME NEW S, NEW L, NEW c, NEW d, First(k, L[1], S, c), Ends3(k, L, 2, d)
        PROVE  IsList(L) /\ Calm(L)
    <2>1. L[1] # Enter /\ L[1][1] # "progress"
      <3>1. Do("parse_free")[1] = "do" /\ Enter[1] = "enter" /\ Take[1] = "take"
        BY Calls DEF Enter, Take
      <3>2. QED
        BY <1>3, <3>1 DEF First
    <2>2. IsList(L) /\ Len(L) \in Nat /\ \A i \in 2 .. Len(L) : L[i] # Enter /\ L[i][1] # "progress"
      BY <1>1, <1>3 DEF IsList
    <2>3. \A i \in 1 .. Len(L) : i = 1 \/ i \in 2 .. Len(L)
      BY <2>2
    <2>4. QED
      BY <2>1, <2>2, <2>3 DEF Calm
  <1>4. \A S, L, d : Branch3(k, S, L, d) => IsList(L) /\ Calm(L)
    BY <1>2, <1>3 DEF Branch3
  <1>5. QED
    BY <1>2, <1>4

(* A token that may be eaten, and the steps that follow it.                 *)
LEMMA OptRuns ==
  ASSUME NEW T, NEW k \in Kinds, NEW s, NEW q \in 1 .. Len(T), NEW x \in Nat, Cost3(k, s, 0), s[1] = "opt",
         T[q] \in s[2], Len(T) \in Nat,
         k = "nest" \/ (T[q] = "..<" => TokOf(T, q + 1) \notin Marks)
  PROVE  /\ T[q] # "EOF" /\ IsList(s[3]) /\ Calm(s[3])
         /\ Runs(T, k, s[3], q + 1, x + Weight(k, T[q]), x)
  <1> DEFINE w == Weight(k, T[q])
             M == s[3]
  <1>1. q + 1 \in Nat /\ w \in {-1, 0, 1}
    BY WeightFacts
  <1>2. CASE s = RangeEnd
    <2>1. T[q] = "..<" /\ M = <<Take>>
      BY <1>2 DEF RangeEnd, Opt
    <2>2. w = 0 /\ x + w = x /\ x = x + 0
      BY <2>1, WeightFacts DEF Marks
    <2>3. Move(T, k, Take, q + 1, 0, x, x)
      <3>1. CASE k = "nest"
        <4>1. x - x = 0 /\ Cost3(k, Take, 0)
          BY <3>1, Plain
        <4>2. QED
          BY <4>1 DEF Move
      <3>2. CASE TokOf(T, q + 1) \notin Marks
        <4>1. Taken(T, q + 1) /\ Weight(k, T[q + 1]) = 0
          BY <3>2, WeightFacts DEF TokOf, Taken, Marks
        <4>2. QED
          BY <2>2, <4>1 DEF Move
      <3>3. QED
        BY <2>1, <3>1, <3>2
    <2>4. Runs(T, k, <<Take>>, q + 1, x, x)
      BY <1>1, <2>3, RunsOne
    <2>5. IsList(<<Take>>) /\ Calm(<<Take>>)
      <3>1. Mild3(k, <<Fail>>, 1)
        BY Plain, Milds
      <3>2. QED
        BY CalmSteps DEF Calm, IsList
    <2>6. QED
      BY <2>1, <2>2, <2>4, <2>5
  <1>3. CASE s = Align
    <2> DEFINE J == <<E("("), Do("parse_expression"), E(")")>>
    <2>1. T[q] = "align" /\ M = J
      BY <1>3 DEF Align, Opt
    <2>2. w = 0 /\ x + w = x
      BY <2>1, WeightFacts DEF Marks
    <2>3. IsList(J) /\ Len(J) = 3 /\ J[1] = E("(") /\ J[2] = Do("parse_expression") /\ J[3] = E(")")
      BY DEF IsList
    <2> HIDE DEF J
    <2> DEFINE u == Weight(k, "(")
    <2>4. u \in {0, 1} /\ Cost3(k, J[1], u) /\ Cost3(k, J[3], -u) /\ Cost3(k, J[2], 0)
      BY <2>3, Weighty, Plain, EasyOnes
    <2> HIDE DEF u
    <2>5. Wrapped(T, k, J, q + 1, 1, 3, u)
      BY <2>3, <2>4 DEF Wrapped, Free
    <2>6. Runs(T, k, J, q + 1, x, x)
      BY <1>1, <2>4, <2>5, WrappedRuns
    <2>7. Calm(J)
      BY <2>5, CalmLists
    <2>8. QED
      BY <2>1, <2>2, <2>3, <2>6, <2>7
  <1>4. CASE ~(s \in {RangeEnd, Align})
    <2>1. "EOF" \notin s[2] /\ \A t \in s[2] : Weight(k, t) >= 0 /\ Ends3(k, M, 1, -Weight(k, t))
      BY <1>4, Inside_
    <2>2. T[q] # "EOF" /\ w >= 0 /\ Ends3(k, M, 1, -w)
      BY <2>1
    <2> HIDE DEF M, w
    <2> DEFINE d == -w
               a == x + w
    <2>3. a \in Nat /\ d \in Int /\ a + d \in Nat /\ a + d = x
      BY <1>1, <2>2
    <2>4. Ends3(k, M, 1, d)
      BY <2>2
    <2>5. IsList(M) /\ Calm(M)
      BY <2>2, CalmInside
    <2> HIDE DEF a, d
    <2>6. Runs(T, k, M, q + 1, a, a + d)
      BY <1>1, <2>3, <2>4, EndsRun
    <2>7. Runs(T, k, M, q + 1, a, x)
      BY <2>3, <2>6
    <2>8. QED
      BY <2>2, <2>5, <2>7 DEF M, a, w
  <1>5. QED
    BY <1>2, <1>3, <1>4

(* Whether it is eaten or not, the walk goes on.                            *)
LEMMA WalkOpt ==
  ASSUME NEW T, NEW k \in Kinds, NEW L, NEW q \in 1 .. Len(T), NEW x, NEW z, Runs(T, k, L, q, x, z), L # << >>,
         Head(L)[1] = "opt", Len(T) \in Nat,
         k = "nest" \/ (T[q] = "..<" => TokOf(T, q + 1) \notin Marks)
  PROVE  /\ Runs(T, k, Tail(L), 0, x, z)
         /\ T[q] \in Head(L)[2] =>
              /\ T[q] # "EOF" /\ IsList(Head(L)[3]) /\ Calm(Head(L)[3])
              /\ Runs(T, k, Head(L)[3] \o Tail(L), q + 1, x + Weight(k, T[q]), z)
  <1> DEFINE s == Head(L)
             M == Tail(L)
  <1>1. PICK r \in Nat, y \in Nat : Move(T, k, s, q, r, x, y) /\ Runs(T, k, M, r, y, z)
    BY WalkHead
  <1>2. x \in Nat /\ q \in Nat /\ q + 1 \in Nat
    BY RunsCounts
  <1>3. s[1] = "opt"
    OBVIOUS
  <1> HIDE DEF s, M
  <1>4. Cost3(k, s, y - x) /\ r = 0
    BY <1>1, <1>2, <1>3, MoveCosts
  <1>5. y - x = 0
    BY <1>3, <1>4, Inside_
  <1>6. y = x /\ Cost3(k, s, 0)
    BY <1>1, <1>2, <1>4, <1>5
  <1>7. Runs(T, k, M, 0, x, z)
    BY <1>1, <1>4, <1>6
  <1>8. ASSUME T[q] \in s[2]
        PROVE  /\ T[q] # "EOF" /\ IsList(s[3]) /\ Calm(s[3])
               /\ Runs(T, k, s[3] \o M, q + 1, x + Weight(k, T[q]), z)
    <2>1. /\ T[q] # "EOF" /\ IsList(s[3]) /\ Calm(s[3])
          /\ Runs(T, k, s[3], q + 1, x + Weight(k, T[q]), x)
      BY <1>2, <1>3, <1>6, <1>8, OptRuns
    <2>2. Runs(T, k, s[3] \o M, q + 1, x + Weight(k, T[q]), z)
      BY <1>2, <1>7, <2>1, RunsJoin
    <2>3. QED
      BY <2>1, <2>2
  <1>9. QED
    BY <1>7, <1>8 DEF s, M

(* Whatever the token ahead decides, the walk goes on.                      *)
LEMMA WalkIf ==
  ASSUME NEW T, NEW k \in Kinds, NEW L, NEW q \in 1 .. Len(T), NEW x, NEW z, Runs(T, k, L, q, x, z), L # << >>,
         Head(L)[1] = "if", Len(T) \in Nat
  PROVE  /\ IsList(Head(L)[4]) /\ Calm(Head(L)[4]) /\ Runs(T, k, Head(L)[4] \o Tail(L), q, x, z)
         /\ IsList(Head(L)[3]) /\ Calm(Head(L)[3])
         /\ T[q] \in Head(L)[2] => Runs(T, k, Head(L)[3] \o Tail(L), q, x, z)
  <1> DEFINE s == Head(L)
             M == Tail(L)
  <1>1. PICK r \in Nat, y \in Nat : Move(T, k, s, q, r, x, y) /\ Runs(T, k, M, r, y, z)
    BY WalkHead
  <1>2. x \in Nat /\ q \in Nat
    BY RunsCounts
  <1>3. s[1] = "if"
    OBVIOUS
  <1> HIDE DEF s, M
  <1> DEFINE d == y - x
  <1>4. Cost3(k, s, d) /\ r = 0
    BY <1>1, <1>2, <1>3, MoveCosts
  <1>5. d \in Int /\ x + d \in Nat /\ y = x + d
    BY <1>1, <1>2
  <1> HIDE DEF d
  <1>6. Branch3(k, s[2], s[3], d) /\ Ends3(k, s[4], 1, d)
    BY <1>3, <1>4, Inside_
  <1>7. IsList(s[3]) /\ Calm(s[3]) /\ IsList(s[4]) /\ Calm(s[4])
    BY <1>6, CalmInside
  <1>8. Runs(T, k, M, 0, x + d, z)
    BY <1>1, <1>4, <1>5
  <1>9. Runs(T, k, s[4], q, x, x + d)
    BY <1>2, <1>5, <1>6, EndsRun
  <1>10. T[q] \in s[2] => Runs(T, k, s[3], q, x, x + d)
    BY <1>2, <1>5, <1>6, BranchRun
  <1>11. /\ Runs(T, k, s[4] \o M, q, x, z)
         /\ T[q] \in s[2] => Runs(T, k, s[3] \o M, q, x, z)
    BY <1>2, <1>8, <1>9, <1>10, RunsJoin
  <1>12. QED
    BY <1>7, <1>11 DEF s, M

(* A list of items goes on to the next one.                                 *)
LEMMA WalkList ==
  ASSUME NEW T, NEW k \in Kinds, NEW L, NEW q \in Nat, NEW x, NEW z, Runs(T, k, L, q, x, z), L # << >>,
         Head(L)[1] = "list"
  PROVE  LET s == Head(L)
             P == s[3] \o <<Opt({","}, <<If({s[2]}, << >>, <<s>>)>>)>>
         IN  IsList(P) /\ Calm(P) /\ Runs(T, k, P \o Tail(L), q, x, z)
  <1> DEFINE s == Head(L)
             M == Tail(L)
             o == Opt({","}, <<If({s[2]}, << >>, <<s>>)>>)
             P == s[3] \o <<o>>
  <1>1. PICK r \in Nat, y \in Nat : Move(T, k, s, q, r, x, y) /\ Runs(T, k, M, r, y, z)
    BY WalkHead
  <1>2. x \in Nat /\ 0 \in Nat
    BY RunsCounts
  <1>3. s[1] = "list"
    OBVIOUS
  <1> HIDE DEF s, M
  <1>4. Cost3(k, s, y - x) /\ r = 0
    BY <1>1, <1>2, <1>3, MoveCosts
  <1>5. y - x = 0 /\ Mild0(k, s[3], 1)
    BY <1>3, <1>4, Inside_
  <1>6. Runs(T, k, M, 0, x, z)
    <2>1. y = x
      BY <1>1, <1>2, <1>5
    <2>2. QED
      BY <1>1, <1>4, <2>1
  <1>7. Cost3(k, o, 0)
    <2>1. Cost1(k, s, 0)
      BY <1>3, <1>5 DEF Cost1
    <2>2. Mild1(k, <<s>>, 1) /\ Mild1(k, << >>, 1)
      BY <2>1, Milds
    <2>3. Cost2(k, If({s[2]}, << >>, <<s>>), 0)
      BY <2>2, Levels2
    <2>4. Mild2(k, <<If({s[2]}, << >>, <<s>>)>>, 1)
      BY <2>3, Milds
    <2>5. QED
      BY <2>4, Levels3, Unmarked
  <1> HIDE DEF o
  <1>8. Mild3(k, s[3], 1) /\ Mild3(k, <<o>>, 1)
    BY <1>5, <1>7, Milds, LevelsUp DEF Mild0, Mild3
  <1>9. Turns(T, k, s[3], 0) /\ Turns(T, k, <<o>>, 0)
    BY <1>8, TurnsFacts
  <1>10. Turns(T, k, P, 0)
    BY <1>2, <1>9, TurnsFacts
  <1>11. IsList(P) /\ Calm(P) /\ Runs(T, k, P, 0, x, x)
    BY <1>2, <1>10, TurnsFacts DEF Turns
  <1> HIDE DEF P
  <1>12. Runs(T, k, P \o M, 0, x, z)
    BY <1>2, <1>6, <1>11, RunsJoin
  <1>13. Runs(T, k, P \o M, q, x, z)
    BY <1>12, RunsAnywhere
  <1>14. QED
    BY <1>11, <1>13 DEF P, M, o, s

(* A production is replaced by its steps.                                   *)
LEMMA WalkDo ==
  ASSUME NEW T, NEW k \in Kinds, NEW L, NEW q \in Nat, NEW x, NEW z, Runs(T, k, L, q, x, z), L # << >>,
         Head(L)[1] = "do"
  PROVE  \E d \in Int :
           /\ x + d \in Nat /\ Runs(T, k, Tail(L), 0, x + d, z)
           /\ LET s == Head(L) IN
              \/ s[2] \in Easy \cup Closers \cup {"name_list"} /\ DoOK(s[2], s[3]) /\ d = CostDo(k, s[2])
              \/ k = "nest" /\ s[2] \in Led \cup {"skip_block"} /\ d = 0
              \/ s[2] \in Led /\ Begins(T, s[2], q) /\ d = 0
  <1> DEFINE s == Head(L)
             M == Tail(L)
  <1>1. PICK r \in Nat, y \in Nat : Move(T, k, s, q, r, x, y) /\ Runs(T, k, M, r, y, z)
    BY WalkHead
  <1>2. x \in Nat
    BY RunsCounts
  <1>3. s[1] = "do"
    OBVIOUS
  <1> HIDE DEF s, M
  <1>4. /\ r = 0
        /\ \/ s[2] \in Easy \cup Closers \cup {"name_list"} /\ DoOK(s[2], s[3]) /\ y - x = CostDo(k, s[2])
           \/ k = "nest" /\ s[2] \in Led \cup {"skip_block"} /\ y = x
           \/ s[2] \in Led /\ Begins(T, s[2], q) /\ y = x
    BY <1>1, <1>2, <1>3, MoveDo
  <1> DEFINE d == y - x
  <1>5. d \in Int /\ x + d = y /\ (y = x => d = 0)
    BY <1>1, <1>2
  <1>6. \/ s[2] \in Easy \cup Closers \cup {"name_list"} /\ DoOK(s[2], s[3]) /\ d = CostDo(k, s[2])
        \/ k = "nest" /\ s[2] \in Led \cup {"skip_block"} /\ d = 0
        \/ s[2] \in Led /\ Begins(T, s[2], q) /\ d = 0
    BY <1>4, <1>5
  <1> HIDE DEF d
  <1>7. x + d \in Nat /\ Runs(T, k, M, 0, x + d, z)
    BY <1>1, <1>4, <1>5
  <1>8. QED
    BY <1>5, <1>6, <1>7 DEF s, M

-----------------------------------------------------------------------------
(***************************************************************************)
(* What each action does to the walk of what is still to do: its first     *)
(* step is replaced by a list M, and the walk goes on from the cursor.     *)
(***************************************************************************)
Parsing == tok \in Texts /\ InText
Replaced(M) == IsList(M) /\ todo' = M \o Tail(todo)
Goes(k, M, y) == Replaced(M) /\ Placed(M) /\ Runs(tok, k, todo', pos', y, 0)

(* The tokens around the cursor.                                            *)
LEMMA TextFacts ==
  ASSUME Parsing
  PROVE  /\ Len(tok) \in Nat /\ pos \in 1 .. Len(tok) /\ pos \in Nat
         /\ Cur = tok[pos] /\ Cur = TokOf(tok, pos) /\ \A i : Tok(i) = TokOf(tok, i)
         /\ \A i \in 1 .. Len(tok) : tok[i] = "EOF" <=> i = Len(tok)
  <1>1. tok \in Seq(STRING) /\ \A i \in 1 .. Len(tok) : tok[i] = "EOF" <=> i = Len(tok)
    BY ParserAssumption DEF Parsing
  <1>2. Len(tok) \in Nat /\ pos \in 1 .. Len(tok) /\ pos \in Nat
    BY <1>1 DEF Parsing, InText
  <1>3. \A i : Tok(i) = TokOf(tok, i)
    BY DEF Tok, TokOf
  <1>4. Cur = tok[pos]
    BY <1>2 DEF Cur, Peek, Tok
  <1>5. Cur = TokOf(tok, pos)
    BY <1>2, <1>4 DEF TokOf
  <1>6. QED
    BY <1>1, <1>2, <1>3, <1>4, <1>5

(* The cursor moves on by one token, and stays at the last.                 *)
LEMMA TakeMoves ==
  ASSUME Parsing, take
  PROVE  /\ pos' \in 1 .. Len(tok) /\ pos' \in Nat /\ pos' >= pos
         /\ tok[pos] # "EOF" => pos' = pos + 1
         /\ tok[pos] = "EOF" => pos' = pos
  <1>1. Len(tok) \in Nat /\ pos \in 1 .. Len(tok) /\ (tok[pos] = "EOF" <=> pos = Len(tok))
    BY TextFacts
  <1>2. pos' = IF pos < Len(tok) THEN pos + 1 ELSE pos
    BY DEF take
  <1>3. QED
    BY <1>1, <1>2

(* An empty list in the place of a step.                                    *)
LEMMA Emptied ==
  ASSUME NEW L, IsList(L), L # << >>
  PROVE  IsList(<< >>) /\ << >> \o Tail(L) = Tail(L) /\ Placed(<< >>) /\ Calm(<< >>)
  <1>1. IsList(Tail(L))
    BY Beheaded
  <1>2. << >> \o Tail(L) = Tail(L)
    BY <1>1, Written
  <1>3. IsList(<< >>) /\ Placed(<< >>) /\ Calm(<< >>)
    BY DEF IsList, Placed, Calm
  <1>4. QED
    BY <1>2, <1>3

(* A production is called.                                                  *)
LEMMA CallGoes ==
  ASSUME NEW k \in Kinds, NEW x, Parsing, Runs(tok, k, todo, pos, x, 0), Call
  PROVE  LET M == Production(Head(todo)[2], Head(todo)[3]) IN
         /\ Replaced(M)
         /\ Reports(k, M) \/ Goes(k, M, x)
  <1> DEFINE s == Head(todo)
             M == Production(s[2], s[3])
             N == Tail(todo)
  <1>1. todo # << >> /\ s[1] = "do" /\ todo' = M \o N /\ pos' = pos
    BY DEF Call, At_, Step, Go
  <1>2. pos \in Nat /\ x \in Nat
    BY TextFacts, RunsCounts
  <1>3. PICK d \in Int :
           /\ x + d \in Nat /\ Runs(tok, k, N, 0, x + d, 0)
           /\ \/ s[2] \in Easy \cup Closers \cup {"name_list"} /\ DoOK(s[2], s[3]) /\ d = CostDo(k, s[2])
              \/ k = "nest" /\ s[2] \in Led \cup {"skip_block"} /\ d = 0
              \/ s[2] \in Led /\ Begins(tok, s[2], pos) /\ d = 0
    BY <1>1, <1>2, WalkDo
  <1>4. InText
    BY DEF Parsing
  <1>5. Shuts(k, M, d)
    <2>1. CASE s[2] \in Easy /\ d = CostDo(k, s[2])
      <3>1. CostDo(k, s[2]) = 0
        BY <2>1 DEF CostDo, Easy
      <3>2. QED
        BY <1>4, <2>1, <3>1, ProductionFits
    <2>2. CASE s[2] \in Closers /\ DoOK(s[2], s[3]) /\ d = CostDo(k, s[2])
      BY <1>4, <2>2, ProductionFits
    <2>3. CASE s[2] = "name_list" /\ DoOK(s[2], s[3]) /\ d = CostDo(k, s[2])
      <3>1. CostDo(k, s[2]) = 0 /\ s[3] \in {Names, Names1}
        BY <2>3 DEF CostDo, DoOK
      <3>2. QED
        BY <1>4, <2>3, <3>1, ProductionFits
    <2>4. CASE k = "nest" /\ s[2] \in Led \cup {"skip_block"} /\ d = 0
      BY <1>4, <2>4, ProductionFits
    <2>5. CASE s[2] \in Led /\ Begins(tok, s[2], pos) /\ d = 0
      BY <1>4, <2>5, ProductionFits
    <2>6. QED
      BY <1>3, <2>1, <2>2, <2>3, <2>4, <2>5
  <1>6. Replaced(M)
    BY <1>1, <1>5 DEF Shuts, Replaced
  <1>7. CASE Placed(M) /\ \A n \in Nat : n + d \in Nat => Runs(tok, k, M, pos, n, n + d)
    <2>1. Runs(tok, k, M, pos, x, x + d)
      BY <1>2, <1>3, <1>7
    <2> HIDE DEF M, N
    <2>2. Runs(tok, k, M \o N, pos, x, 0)
      BY <1>2, <1>3, <2>1, RunsJoin
    <2>3. Goes(k, M, x)
      BY <1>1, <1>6, <1>7, <2>2 DEF Goes
    <2>4. QED
      BY <1>6, <2>3 DEF M
  <1>8. QED
    BY <1>5, <1>6, <1>7 DEF Shuts

(* A token is taken.                                                        *)
LEMMA TakeOneGoes ==
  ASSUME NEW k \in Kinds, NEW x, Parsing, Runs(tok, k, todo, pos, x, 0), TakeOne
  PROVE  /\ k = "nest" => Goes(k, << >>, x)
         /\ k # "nest" => pos' = pos + 1 /\ Goes(k, << >>, x + Weight(k, tok[pos]))
  <1> DEFINE N == Tail(todo)
  <1>1. todo # << >> /\ Head(todo)[1] = "take" /\ todo' = << >> \o N /\ take
    BY DEF TakeOne, At_, Step, Go
  <1>2. pos \in Nat /\ x \in Nat /\ IsList(todo)
    BY TextFacts, RunsCounts
  <1>3. pos' \in Nat /\ (tok[pos] # "EOF" => pos' = pos + 1)
    BY <1>1, TakeMoves
  <1>4. << >> \o N = N /\ IsList(<< >>) /\ Placed(<< >>)
    BY <1>1, <1>2, Emptied
  <1>5. \/ k = "nest" /\ Runs(tok, k, N, 0, x, 0)
        \/ Taken(tok, pos) /\ Runs(tok, k, N, pos + 1, x + Weight(k, tok[pos]), 0)
    BY <1>1, <1>2, WalkTake
  <1> HIDE DEF N
  <1>6. CASE k = "nest" /\ Runs(tok, k, N, 0, x, 0)
    <2>1. Runs(tok, k, N, pos', x, 0)
      BY <1>6, RunsAnywhere
    <2>2. QED
      BY <1>1, <1>4, <1>6, <2>1 DEF Goes, Replaced, N
  <1>7. CASE Taken(tok, pos) /\ Runs(tok, k, N, pos + 1, x + Weight(k, tok[pos]), 0)
    <2>1. pos' = pos + 1
      BY <1>3, <1>7 DEF Taken
    <2>2. Goes(k, << >>, x + Weight(k, tok[pos]))
      BY <1>1, <1>4, <1>7, <2>1 DEF Goes, Replaced, N
    <2>3. k = "nest" => x + Weight(k, tok[pos]) = x
      BY <1>2, WeightFacts
    <2>4. QED
      BY <2>1, <2>2, <2>3
  <1>8. QED
    BY <1>5, <1>6, <1>7

(* A token is expected.                                                     *)
LEMMA ExpectGoes ==
  ASSUME NEW k \in Kinds, NEW x, Parsing, Runs(tok, k, todo, pos, x, 0), Expect
  PROVE  /\ Replaced(<< >>)
         /\ k = "nest" => Goes(k, << >>, x)
         /\ \/ pos' = pos /\ failed' = TRUE
            \/ pos' = pos + 1 /\ Goes(k, << >>, x + Weight(k, tok[pos]))
  <1> DEFINE s == Head(todo)
             N == Tail(todo)
  <1>1. /\ todo # << >> /\ s[1] = "one" /\ todo' = << >> \o N
        /\ \/ Cur \in s[2] /\ take
           \/ failed' = TRUE /\ pos' = pos
    BY DEF Expect, At_, Step, Go
  <1>2. pos \in Nat /\ x \in Nat /\ IsList(todo) /\ Cur = tok[pos]
    BY TextFacts, RunsCounts
  <1>3. << >> \o N = N /\ IsList(<< >>) /\ Placed(<< >>)
    BY <1>1, <1>2, Emptied
  <1>4. /\ k = "nest" => Runs(tok, k, N, 0, x, 0)
        /\ \A t \in s[2] : t # "EOF" /\ Runs(tok, k, N, 0, x + Weight(k, t), 0)
    BY <1>1, <1>2, WalkOne
  <1> HIDE DEF N, s
  <1>5. Replaced(<< >>)
    BY <1>1, <1>3 DEF Replaced, N
  <1>6. ASSUME k = "nest"
        PROVE  Goes(k, << >>, x)
    <2>1. Runs(tok, k, N, pos', x, 0)
      BY <1>4, <1>6, RunsAnywhere
    <2>2. QED
      BY <1>1, <1>3, <1>5, <2>1 DEF Goes
  <1>7. CASE Cur \in s[2] /\ take
    <2>1. tok[pos] # "EOF" /\ Runs(tok, k, N, 0, x + Weight(k, tok[pos]), 0)
      BY <1>2, <1>4, <1>7
    <2>2. pos' = pos + 1
      BY <1>7, <2>1, TakeMoves
    <2>3. Runs(tok, k, N, pos', x + Weight(k, tok[pos]), 0)
      BY <2>1, RunsAnywhere
    <2>4. Goes(k, << >>, x + Weight(k, tok[pos]))
      BY <1>1, <1>3, <1>5, <2>3 DEF Goes
    <2>5. QED
      BY <1>5, <1>6, <2>2, <2>4
  <1>8. QED
    BY <1>1, <1>5, <1>6, <1>7

(* Expected tokens in the place of a step.                                  *)
LEMMA CalmOne ==
  ASSUME NEW s, s # Enter, s[1] # "progress"
  PROVE  IsList(<<s>>) /\ Calm(<<s>>) /\ Placed(<<s>>) /\ \A i \in 1 .. Len(<<s>>) : <<s>>[i] = s
  BY DEF IsList, Calm, Placed

(* A token may be eaten.                                                    *)
LEMMA EatGoes ==
  ASSUME NEW k \in Kinds, NEW x, Parsing, Runs(tok, k, todo, pos, x, 0), Eat, k = "nest" \/ RangesEnd
  PROVE  \E M : /\ IsList(M) /\ Calm(M)
                /\ \/ pos' = pos /\ Goes(k, M, x)
                   \/ pos' = pos + 1 /\ Goes(k, M, x + Weight(k, tok[pos]))
  <1> DEFINE s == Head(todo)
             N == Tail(todo)
  <1>1. /\ todo # << >> /\ s[1] = "opt"
        /\ \/ Cur \in s[2] /\ take /\ todo' = s[3] \o N
           \/ Cur \notin s[2] /\ todo' = << >> \o N /\ pos' = pos
    BY DEF Eat, At_, Step, Go
  <1>2. pos \in Nat /\ pos \in 1 .. Len(tok) /\ Len(tok) \in Nat /\ x \in Nat /\ IsList(todo) /\ Cur = tok[pos]
    BY TextFacts, RunsCounts
  <1>3. k = "nest" \/ (tok[pos] = "..<" => TokOf(tok, pos + 1) \notin Marks)
    <2>1. Tok(pos) = tok[pos] /\ Tok(pos + 1) = TokOf(tok, pos + 1)
      BY <1>2, TextFacts DEF TokOf
    <2>2. RangesEnd /\ tok[pos] = "..<" => Tok(pos + 1) \notin Brackets \cup {"INDENT", "DEDENT", "EOF"}
      BY <1>2, <2>1 DEF RangesEnd
    <2>3. Marks = Brackets \cup {"INDENT", "DEDENT", "EOF"}
      BY DEF Marks, Brackets
    <2>4. QED
      BY <2>1, <2>2, <2>3
  <1>4. << >> \o N = N /\ IsList(<< >>) /\ Placed(<< >>) /\ Calm(<< >>)
    BY <1>1, <1>2, Emptied
  <1>5. /\ Runs(tok, k, N, 0, x, 0)
        /\ tok[pos] \in s[2] =>
             /\ tok[pos] # "EOF" /\ IsList(s[3]) /\ Calm(s[3])
             /\ Runs(tok, k, s[3] \o N, pos + 1, x + Weight(k, tok[pos]), 0)
    BY <1>1, <1>2, <1>3, WalkOpt
  <1>6. CASE Cur \in s[2] /\ take /\ todo' = s[3] \o N
    <2>1. /\ tok[pos] # "EOF" /\ IsList(s[3]) /\ Calm(s[3])
          /\ Runs(tok, k, s[3] \o N, pos + 1, x + Weight(k, tok[pos]), 0)
      BY <1>2, <1>5, <1>6
    <2>2. pos' = pos + 1
      BY <1>6, <2>1, TakeMoves
    <2>3. Placed(s[3])
      BY <2>1, CalmLists
    <2>4. Goes(k, s[3], x + Weight(k, tok[pos]))
      BY <1>6, <2>1, <2>2, <2>3 DEF Goes, Replaced
    <2>5. QED
      BY <2>1, <2>2, <2>4
  <1>7. CASE Cur \notin s[2] /\ todo' = << >> \o N /\ pos' = pos
    <2>1. Runs(tok, k, << >> \o N, pos, x, 0)
      BY <1>4, <1>5, RunsAnywhere
    <2>2. Goes(k, << >>, x)
      BY <1>4, <1>7, <2>1 DEF Goes, Replaced
    <2>3. QED
      BY <1>4, <1>7, <2>2
  <1>8. QED
    BY <1>1, <1>6, <1>7

(* The token ahead decides, or the list has another item.                   *)
LEMMA LookGoes ==
  ASSUME NEW k \in Kinds, NEW x, Parsing, Runs(tok, k, todo, pos, x, 0), Look \/ Items
  PROVE  \E M : Calm(M) /\ Goes(k, M, x)
  <1> DEFINE s == Head(todo)
             N == Tail(todo)
             P == s[3] \o <<Opt({","}, <<If({s[2]}, << >>, <<s>>)>>)>>
  <1>1. pos \in Nat /\ pos \in 1 .. Len(tok) /\ Len(tok) \in Nat /\ Cur = tok[pos]
    BY TextFacts
  <1>2. CASE Look
    <2>1. todo # << >> /\ s[1] = "if" /\ todo' = (IF Cur \in s[2] THEN s[3] ELSE s[4]) \o N /\ pos' = pos
      BY <1>2 DEF Look, At_, Step, Go
    <2>2. /\ IsList(s[4]) /\ Calm(s[4]) /\ Runs(tok, k, s[4] \o N, pos, x, 0)
          /\ IsList(s[3]) /\ Calm(s[3])
          /\ tok[pos] \in s[2] => Runs(tok, k, s[3] \o N, pos, x, 0)
      BY <1>1, <2>1, WalkIf
    <2>3. CASE Cur \in s[2]
      <3>1. Goes(k, s[3], x)
        BY <1>1, <2>1, <2>2, <2>3, CalmLists DEF Goes, Replaced
      <3>2. QED
        BY <2>2, <3>1
    <2>4. CASE Cur \notin s[2]
      <3>1. Goes(k, s[4], x)
        BY <1>1, <2>1, <2>2, <2>4, CalmLists DEF Goes, Replaced
      <3>2. QED
        BY <2>2, <3>1
    <2>5. QED
      BY <2>3, <2>4
  <1>3. CASE Items
    <2>1. todo # << >> /\ s[1] = "list" /\ todo' = P \o N /\ pos' = pos
      BY <1>3 DEF Items, At_, Step, Go
    <2>2. IsList(P) /\ Calm(P) /\ Runs(tok, k, P \o N, pos, x, 0)
      BY <1>1, <2>1, WalkList
    <2> HIDE DEF P
    <2>3. Goes(k, P, x)
      BY <2>1, <2>2, CalmLists DEF Goes, Replaced
    <2>4. QED
      BY <2>2, <2>3
  <1>4. QED
    BY <1>2, <1>3

(* The steps that only note something.                                      *)
LEMMA NotesGo ==
  ASSUME NEW k \in Kinds, NEW x, Parsing, Runs(tok, k, todo, pos, x, 0),
         Complain \/ Made \/ MadeBinary \/ Foreseen \/ DeclareType
  PROVE  Goes(k, << >>, x)
  <1> DEFINE s == Head(todo)
             N == Tail(todo)
  <1>1. todo # << >> /\ todo' = << >> \o N /\ pos' = pos /\ s[1] \in Still
    BY DEF Complain, Made, MadeBinary, Foreseen, DeclareType, At_, Step, Go, Still
  <1>2. pos \in Nat /\ IsList(todo)
    BY TextFacts, RunsCounts
  <1>3. << >> \o N = N /\ IsList(<< >>) /\ Placed(<< >>)
    BY <1>1, <1>2, Emptied
  <1>4. Runs(tok, k, N, pos, x, 0)
    BY <1>1, <1>2, WalkOn
  <1>5. QED
    BY <1>1, <1>3, <1>4 DEF Goes, Replaced

(* A level is opened or closed.                                             *)
LEMMA NestingGoes ==
  ASSUME NEW k \in Kinds, NEW x, Parsing, Runs(tok, k, todo, pos, x, 0), Nesting
  PROVE  /\ pos' = pos
         /\ \/ Head(todo) = Enter /\ nest' = nest + 1 /\ Goes(k, << >>, x + Up(k))
            \/ Head(todo)[1] = "leave" /\ nest' = nest - 1 /\ Goes(k, << >>, x - Up(k))
  <1> DEFINE s == Head(todo)
             N == Tail(todo)
  <1>1. /\ todo # << >> /\ todo' = << >> \o N /\ pos' = pos
        /\ \/ s[1] = "enter" /\ nest' = nest + 1
           \/ s[1] = "leave" /\ nest' = nest - 1
    BY DEF Nesting, At_, Step, Go
  <1>2. pos \in Nat /\ IsList(todo)
    BY TextFacts, RunsCounts
  <1>3. << >> \o N = N /\ IsList(<< >>) /\ Placed(<< >>)
    BY <1>1, <1>2, Emptied
  <1>4. /\ s[1] = "enter" => s = Enter /\ Runs(tok, k, N, pos, x + Up(k), 0)
        /\ s[1] = "leave" => Runs(tok, k, N, pos, x - Up(k), 0)
    BY <1>1, <1>2, WalkLevel
  <1>5. CASE s[1] = "enter" /\ nest' = nest + 1
    BY <1>1, <1>3, <1>4, <1>5 DEF Goes, Replaced
  <1>6. CASE s[1] = "leave" /\ nest' = nest - 1
    BY <1>1, <1>3, <1>4, <1>6 DEF Goes, Replaced
  <1>7. QED
    BY <1>1, <1>5, <1>6

(* The end of a statement's line is expected, or not.                       *)
LEMMA NewlineGoes ==
  ASSUME NEW k \in Kinds, NEW x, Parsing, Runs(tok, k, todo, pos, x, 0), expect_stmt_newline
  PROVE  pos' = pos /\ \E M : Calm(M) /\ Goes(k, M, x)
  <1> DEFINE s == Head(todo)
             N == Tail(todo)
             M == <<E("NL")>>
  <1>1. /\ todo # << >> /\ s[1] = "newline" /\ pos' = pos
        /\ todo' = << >> \o N \/ todo' = M \o N
    BY DEF expect_stmt_newline, At_, Step, Go
  <1>2. pos \in Nat /\ x \in Nat /\ IsList(todo)
    BY TextFacts, RunsCounts
  <1>3. << >> \o N = N /\ IsList(<< >>) /\ Placed(<< >>) /\ Calm(<< >>)
    BY <1>1, <1>2, Emptied
  <1>4. Runs(tok, k, N, pos, x, 0) /\ Runs(tok, k, N, 0, x, 0)
    BY <1>1, <1>2, WalkOn DEF Still
  <1>5. CASE todo' = << >> \o N
    <2>1. Goes(k, << >>, x)
      BY <1>1, <1>3, <1>4, <1>5 DEF Goes, Replaced
    <2>2. QED
      BY <1>1, <1>3, <2>1
  <1>6. CASE todo' = M \o N
    <2>1. Weight(k, "NL") = 0 /\ E("NL")[1] = "one" /\ E("NL")[2] = {"NL"} /\ x - x = 0
      BY <1>2, WeightFacts DEF Marks, E, One
    <2>2. Cost0(k, E("NL"), 0)
      BY <2>1 DEF Cost0
    <2>3. Cost3(k, E("NL"), 0)
      BY <2>2, LevelsUp
    <2>4. Move(tok, k, E("NL"), pos, 0, x, x)
      BY <2>1, <2>3 DEF Move
    <2>5. Runs(tok, k, M \o N, pos, x, 0)
      BY <1>2, <1>4, <2>4, RunsCons
    <2>6. E("NL") # Enter /\ E("NL")[1] # "progress"
      BY <2>3, CalmSteps
    <2>7. IsList(M) /\ Calm(M) /\ Placed(M)
      BY <2>6, CalmOne
    <2> HIDE DEF M
    <2>8. Goes(k, M, x)
      BY <1>1, <1>6, <2>5, <2>7 DEF Goes, Replaced
    <2>9. QED
      BY <1>1, <2>7, <2>8
  <1>7. QED
    BY <1>1, <1>5, <1>6

(* Comments and empty lines are skipped, or the rest of a line is.          *)
LEMMA SkipsGo ==
  ASSUME NEW k \in Kinds, NEW x, Parsing, Runs(tok, k, todo, pos, x, 0), skip_docs \/ sync_line
  PROVE  /\ sync_line => k = "nest"
         /\ \E M : Calm(M) /\ Goes(k, M, x)
         /\ pos' = pos \/ (pos' = pos + 1 /\ (k # "nest" => Weight(k, tok[pos]) = 0)) \/ (k = "nest" /\ take)
  <1> DEFINE s == Head(todo)
             N == Tail(todo)
             M == <<Opt({"NL"}, << >>)>>
  <1>1. todo # << >> /\ s[1] \in {"skip", "sync"} /\ (sync_line => s[1] = "sync")
    BY DEF skip_docs, sync_line, At_, Step
  <1>2. pos \in Nat /\ x \in Nat /\ IsList(todo) /\ Cur = tok[pos]
    BY TextFacts, RunsCounts
  <1>3. << >> \o N = N /\ IsList(<< >>) /\ Placed(<< >>) /\ Calm(<< >>)
    BY <1>1, <1>2, Emptied
  <1>4. /\ s[1] = "sync" => k = "nest"
        /\ Runs(tok, k, todo, 0, x, 0) /\ Runs(tok, k, N, 0, x, 0)
    BY <1>1, <1>2, WalkSkips
  <1>5. todo = <<s>> \o N
    BY <1>1, <1>2, Recomposed
  <1>6. IsList(<<s>>) /\ Calm(<<s>>) /\ Placed(<<s>>)
    <2>1. s # Enter /\ s[1] # "progress"
      BY <1>1 DEF Enter
    <2>2. QED
      BY <2>1, CalmOne
  <1>7. CASE todo' = todo
    <2>1. Runs(tok, k, todo, pos', x, 0)
      BY <1>4, RunsAnywhere
    <2>2. Goes(k, <<s>>, x)
      BY <1>5, <1>6, <1>7, <2>1 DEF Goes, Replaced
    <2>3. QED
      <3>1. CASE skip_docs
        <4>1. CASE Cur \in {"doc", "NL"} /\ take
          <5>1. tok[pos] # "EOF" /\ tok[pos] \notin Marks
            BY <1>2, <4>1 DEF Marks
          <5>2. pos' = pos + 1 /\ Weight(k, tok[pos]) = 0
            BY <4>1, <5>1, TakeMoves, WeightFacts
          <5>3. QED
            BY <1>1, <1>4, <1>6, <2>2, <5>2
        <4>2. CASE pos' = pos
          BY <1>1, <1>4, <1>6, <2>2, <4>2
        <4>3. QED
          BY <3>1, <4>1, <4>2 DEF skip_docs
      <3>2. CASE sync_line
        <4>1. take \/ pos' = pos
          BY <3>2 DEF sync_line
        <4>2. QED
          BY <1>1, <1>4, <1>6, <2>2, <3>2, <4>1
      <3>3. QED
        BY <3>1, <3>2
  <1>8. CASE todo' = << >> \o N /\ pos' = pos
    <2>1. Runs(tok, k, N, pos', x, 0)
      BY <1>4, RunsAnywhere
    <2>2. Goes(k, << >>, x)
      BY <1>3, <1>8, <2>1 DEF Goes, Replaced
    <2>3. QED
      BY <1>1, <1>3, <1>4, <1>8, <2>2
  <1>9. CASE todo' = M \o N /\ pos' = pos /\ s[1] = "sync"
    <2> DEFINE o == Opt({"NL"}, << >>)
    <2>1. x - x = 0 /\ {"NL"} \cap Marks = {} /\ Mild0(k, << >>, 1)
      BY <1>2, Milds DEF Marks
    <2>2. Cost1(k, o, 0)
      BY <2>1, Levels1
    <2>3. Cost3(k, o, 0)
      BY <2>2, LevelsUp
    <2>4. Move(tok, k, o, pos, 0, x, x)
      BY <2>1, <2>3 DEF Move
    <2>5. Runs(tok, k, <<o>> \o N, pos, x, 0)
      BY <1>2, <1>4, <2>4, RunsCons
    <2>6. o # Enter /\ o[1] # "progress"
      BY <2>3, CalmSteps
    <2>7. IsList(<<o>>) /\ Calm(<<o>>) /\ Placed(<<o>>)
      BY <2>6, CalmOne
    <2>8. Goes(k, <<o>>, x)
      BY <1>9, <2>5, <2>7 DEF Goes, Replaced
    <2>9. QED
      BY <1>1, <1>4, <1>9, <2>7, <2>8
  <1>10. QED
    <2>1. skip_docs => todo' = todo \/ (todo' = << >> \o N /\ pos' = pos)
      BY DEF skip_docs, Step, Go
    <2>2. sync_line => todo' = todo \/ (todo' = M \o N /\ pos' = pos /\ s[1] = "sync")
      BY DEF sync_line, At_, Step, Go
    <2>3. QED
      BY <1>7, <1>8, <1>9, <2>1, <2>2

(* A token is taken where none was.                                         *)
LEMMA ProgressGoes ==
  ASSUME NEW k \in Kinds, NEW x, Parsing, Runs(tok, k, todo, pos, x, 0), ForceProgress
  PROVE  /\ todo # << >> /\ Head(todo)[1] = "progress" /\ Goes(k, << >>, x)
         /\ \/ pos' = pos /\ pos # Head(todo)[2]
            \/ take /\ pos = Head(todo)[2]
  <1> DEFINE s == Head(todo)
             N == Tail(todo)
  <1>1. /\ todo # << >> /\ todo' = << >> \o N /\ s[1] = "progress"
        /\ \/ pos' = pos /\ pos # s[2]
           \/ take /\ pos = s[2]
    BY DEF ForceProgress, At_, Step, Go
  <1>2. pos \in Nat /\ IsList(todo)
    BY TextFacts, RunsCounts
  <1>3. << >> \o N = N /\ IsList(<< >>) /\ Placed(<< >>)
    BY <1>1, <1>2, Emptied
  <1>4. Runs(tok, k, N, 0, x, 0)
    BY <1>1, <1>2, WalkOn
  <1>5. Runs(tok, k, N, pos', x, 0)
    BY <1>4, RunsAnywhere
  <1>6. Goes(k, << >>, x)
    BY <1>1, <1>3, <1>5 DEF Goes, Replaced
  <1>7. QED
    BY <1>1, <1>6

-----------------------------------------------------------------------------
(***************************************************************************)
(* Levels: the walk that is left closes every level that is open, and a    *)
(* level still to be opened is opened before anything else.                *)
(***************************************************************************)
Entered(L) ==
  \A i \in 1 .. Len(L) : L[i] = Enter => ~(nest >= MaxNest) /\ \A j \in 1 .. i - 1 : L[j] = Take
Levels ==
  /\ Parsing /\ nest \in 0 .. MaxNest
  /\ Runs(tok, "nest", todo, pos, nest, 0) /\ Entered(todo)

(* Past the first step no level is still to be opened, but for one token.   *)
LEMMA EnteredTail ==
  ASSUME NEW L, IsList(L), L # << >>, Entered(L)
  PROVE  /\ Entered(Tail(L))
         /\ Head(L) # Take => \A i \in 1 .. Len(Tail(L)) : Tail(L)[i] # Enter
  <1> DEFINE N == Tail(L)
  <1>1. /\ Len(L) \in Nat /\ Len(L) >= 1 /\ Head(L) = L[1] /\ IsList(N) /\ Len(N) = Len(L) - 1
        /\ \A i \in 1 .. Len(L) - 1 : N[i] = L[i + 1]
    BY Beheaded DEF IsList
  <1> HIDE DEF N
  <1>2. ASSUME NEW i \in 1 .. Len(N), N[i] = Enter
        PROVE  Head(L) = Take /\ ~(nest >= MaxNest) /\ \A j \in 1 .. i - 1 : N[j] = Take
    <2>1. i + 1 \in 1 .. Len(L) /\ L[i + 1] = Enter /\ 1 \in 1 .. (i + 1) - 1
      BY <1>1, <1>2
    <2>2. ~(nest >= MaxNest) /\ \A j \in 1 .. (i + 1) - 1 : L[j] = Take
      BY <2>1 DEF Entered
    <2>3. ASSUME NEW j \in 1 .. i - 1
          PROVE  N[j] = Take
      <3>1. j \in 1 .. Len(L) - 1 /\ j + 1 \in 1 .. (i + 1) - 1
        BY <1>1, <2>3
      <3>2. QED
        BY <1>1, <2>2, <3>1
    <2>4. QED
      BY <1>1, <2>1, <2>2, <2>3
  <1>3. QED
    BY <1>2 DEF Entered, N

(* The first step is replaced by a list that opens one only at its start.   *)
LEMMA EnteredJoin ==
  ASSUME NEW L, IsList(L), L # << >>, Entered(L), NEW M, IsList(M), Placed(M), Head(L) # Take \/ M = << >>
  PROVE  Entered(M \o Tail(L))
  <1> DEFINE N == Tail(L)
             J == M \o N
  <1>1. IsList(N)
    BY Beheaded
  <1>2. Entered(N) /\ (Head(L) # Take => \A i \in 1 .. Len(N) : N[i] # Enter)
    BY EnteredTail
  <1> HIDE DEF N
  <1>3. /\ IsList(J) /\ Len(J) = Len(M) + Len(N)
        /\ \A i \in 1 .. Len(M) : J[i] = M[i]
    BY <1>1, Joined
  <1>4. CASE M = << >>
    <2>1. J = N
      BY <1>1, <1>4, Written
    <2>2. QED
      BY <1>2, <2>1 DEF N
  <1>5. CASE Head(L) # Take
    <2>1. ASSUME NEW i \in 1 .. Len(J), J[i] = Enter
          PROVE  ~(nest >= MaxNest) /\ \A j \in 1 .. i - 1 : J[j] = Take
      <3>1. \/ i \in 1 .. Len(M) /\ J[i] = M[i]
            \/ \E j \in 1 .. Len(N) : i = Len(M) + j /\ J[i] = N[j]
        BY <1>1, <2>1, JoinedAt
      <3>2. i \in 1 .. Len(M) /\ M[i] = Enter
        BY <1>2, <1>5, <2>1, <3>1
      <3>3. ~(nest >= MaxNest) /\ \A j \in 1 .. i - 1 : M[j] = Take
        BY <3>2 DEF Placed
      <3>4. \A j \in 1 .. i - 1 : j \in 1 .. Len(M)
        BY <1>3, <3>2 DEF IsList
      <3>5. QED
        BY <1>3, <3>3, <3>4
    <2> HIDE DEF J
    <2>2. Entered(J)
      BY <2>1 DEF Entered
    <2>3. QED
      BY <2>2 DEF J, N
  <1>6. QED
    BY <1>4, <1>5

(* A step that opens and closes no level keeps the levels.                  *)
LEMMA LevelsKept ==
  ASSUME Levels, Parsing', todo # << >>, nest' = nest, tok' = tok,
         NEW M, Goes("nest", M, nest), Head(todo) # Take \/ M = << >>
  PROVE  Levels'
  <1>1. IsList(todo) /\ Entered(todo) /\ nest \in 0 .. MaxNest
    BY RunsCounts DEF Levels
  <1>2. IsList(M) /\ todo' = M \o Tail(todo) /\ Placed(M) /\ Runs(tok, "nest", todo', pos', nest, 0)
    BY DEF Goes, Replaced
  <1>3. Entered(M \o Tail(todo))
    BY <1>1, <1>2, EnteredJoin
  <1>4. Entered(todo)'
    BY <1>2, <1>3 DEF Entered
  <1>5. QED
    BY <1>1, <1>2, <1>4 DEF Levels

(* The cursor stays in the text.                                            *)
LEMMA ParsingStep ==
  ASSUME Parsing, [Next]_vars
  PROVE  Parsing' /\ tok' = tok /\ pos' \in Nat /\ pos' >= pos
  <1>1. pos \in 1 .. Len(tok) /\ pos \in Nat /\ Len(tok) \in Nat /\ tok \in Texts
    BY TextFacts DEF Parsing
  <1>2. tok' = tok
    BY DEF Next, vars, Call, TakeOne, Expect, Eat, Look, Items, Complain, Nesting, Made, MadeBinary,
           expect_stmt_newline, skip_docs, sync_line, ForceProgress, Foreseen, DeclareType
  <1>3. pos' = pos \/ take
    BY DEF Next, vars, Call, TakeOne, Expect, Eat, Look, Items, Complain, Nesting, Made, MadeBinary,
           expect_stmt_newline, skip_docs, sync_line, ForceProgress, Foreseen, DeclareType
  <1>4. pos' \in 1 .. Len(tok) /\ pos' \in Nat /\ pos' >= pos
    BY <1>1, <1>3, TakeMoves
  <1>5. QED
    BY <1>1, <1>2, <1>4 DEF Parsing, InText

(* So does every step.                                                      *)
LEMMA LevelsStep ==
  ASSUME Levels, [Next]_vars
  PROVE  Levels'
  <1> DEFINE k == "nest"
  <1>1. k \in Kinds /\ Parsing /\ nest \in 0 .. MaxNest /\ nest \in Nat /\ MaxNest \in Nat
    BY ParserAssumption DEF Kinds, Levels
  <1>2. Runs(tok, k, todo, pos, nest, 0) /\ Entered(todo) /\ IsList(todo)
    BY RunsCounts DEF Levels
  <1>3. Parsing' /\ tok' = tok
    BY <1>1, ParsingStep
  <1>4. Take[1] = "take" /\ Enter[1] = "enter"
    BY DEF Take, Enter
  <1> HIDE DEF k
  <1>5. CASE Call
    <2>1. todo # << >> /\ Head(todo)[1] = "do" /\ nest' = nest
      BY <1>5 DEF Call, At_, Step
    <2>2. PICK M : Goes(k, M, nest)
      <3>1. \A M : ~Reports(k, M)
        BY DEF Reports, k
      <3>2. QED
        BY <1>1, <1>2, <1>5, <3>1, CallGoes
    <2>3. QED
      BY <1>3, <1>4, <2>1, <2>2, LevelsKept DEF k
  <1>6. CASE TakeOne
    <2>1. todo # << >> /\ nest' = nest
      BY <1>6 DEF TakeOne, At_
    <2>2. Goes(k, << >>, nest)
      BY <1>1, <1>2, <1>6, TakeOneGoes DEF k
    <2>3. QED
      BY <1>3, <2>1, <2>2, LevelsKept DEF k
  <1>7. CASE Expect
    <2>1. todo # << >> /\ nest' = nest
      BY <1>7 DEF Expect, At_
    <2>2. Goes(k, << >>, nest)
      BY <1>1, <1>2, <1>7, ExpectGoes DEF k
    <2>3. QED
      BY <1>3, <2>1, <2>2, LevelsKept DEF k
  <1>8. CASE Eat
    <2>1. todo # << >> /\ Head(todo)[1] = "opt" /\ nest' = nest
      BY <1>8 DEF Eat, At_, Step
    <2>2. PICK M : Goes(k, M, nest) \/ Goes(k, M, nest + Weight(k, tok[pos]))
      BY <1>1, <1>2, <1>8, EatGoes DEF k
    <2>3. nest + Weight(k, tok[pos]) = nest
      BY <1>1, WeightFacts DEF k
    <2>4. Goes(k, M, nest)
      BY <2>2, <2>3
    <2>5. QED
      BY <1>3, <1>4, <2>1, <2>4, LevelsKept DEF k
  <1>9. CASE Look \/ Items
    <2>1. todo # << >> /\ Head(todo)[1] \in {"if", "list"} /\ nest' = nest
      BY <1>9 DEF Look, Items, At_, Step
    <2>2. PICK M : Goes(k, M, nest)
      BY <1>1, <1>2, <1>9, LookGoes
    <2>3. QED
      BY <1>3, <1>4, <2>1, <2>2, LevelsKept DEF k
  <1>10. CASE Complain \/ Made \/ MadeBinary \/ Foreseen \/ DeclareType
    <2>1. todo # << >> /\ nest' = nest
      BY <1>10 DEF Complain, Made, MadeBinary, Foreseen, DeclareType, At_
    <2>2. Goes(k, << >>, nest)
      BY <1>1, <1>2, <1>10, NotesGo
    <2>3. QED
      BY <1>3, <2>1, <2>2, LevelsKept DEF k
  <1>11. CASE Nesting
    <2>1. todo # << >> /\ Up(k) = 1
      BY <1>11 DEF Nesting, At_, Up, k
    <2>2. \/ Head(todo) = Enter /\ nest' = nest + 1 /\ Goes(k, << >>, nest + 1)
          \/ Head(todo)[1] = "leave" /\ nest' = nest - 1 /\ Goes(k, << >>, nest - 1)
      BY <1>1, <1>2, <1>11, <2>1, NestingGoes
    <2>3. Goes(k, << >>, nest') /\ Head(todo) # Take
      BY <1>4, <2>2
    <2>4. todo' = << >> \o Tail(todo) /\ Runs(tok, k, todo', pos', nest', 0)
      BY <2>3 DEF Goes, Replaced
    <2>5. todo' = Tail(todo)
      BY <1>2, <2>1, <2>4, Emptied
    <2>6. \A i \in 1 .. Len(todo') : todo'[i] # Enter
      BY <1>2, <2>1, <2>3, <2>5, EnteredTail
    <2>7. Entered(todo)'
      BY <2>6 DEF Entered
    <2>8. nest' \in 0 .. MaxNest
      <3>1. nest' \in Nat
        BY <2>4, RunsCounts
      <3>2. CASE Head(todo) = Enter /\ nest' = nest + 1
        <4>1. Len(todo) \in Nat /\ Len(todo) >= 1 /\ todo[1] = Enter
          BY <1>2, <2>1, <3>2, Beheaded DEF IsList
        <4>2. ~(nest >= MaxNest)
          BY <1>2, <4>1 DEF Entered
        <4>3. QED
          BY <1>1, <3>1, <3>2, <4>2
      <3>3. CASE nest' = nest - 1
        BY <1>1, <3>1, <3>3
      <3>4. QED
        BY <2>2, <3>2, <3>3
    <2>9. QED
      BY <1>3, <2>4, <2>7, <2>8 DEF Levels, k
  <1>12. CASE expect_stmt_newline
    <2>1. todo # << >> /\ Head(todo)[1] = "newline" /\ nest' = nest
      BY <1>12 DEF expect_stmt_newline, At_, Step
    <2>2. PICK M : Goes(k, M, nest)
      BY <1>1, <1>2, <1>12, NewlineGoes
    <2>3. QED
      BY <1>3, <1>4, <2>1, <2>2, LevelsKept DEF k
  <1>13. CASE skip_docs \/ sync_line
    <2>1. todo # << >> /\ Head(todo)[1] \in {"skip", "sync"} /\ nest' = nest
      BY <1>13 DEF skip_docs, sync_line, At_, Step
    <2>2. PICK M : Goes(k, M, nest)
      BY <1>1, <1>2, <1>13, SkipsGo
    <2>3. QED
      BY <1>3, <1>4, <2>1, <2>2, LevelsKept DEF k
  <1>14. CASE ForceProgress
    <2>1. nest' = nest
      BY <1>14 DEF ForceProgress
    <2>2. todo # << >> /\ Goes(k, << >>, nest)
      BY <1>1, <1>2, <1>14, ProgressGoes
    <2>3. QED
      BY <1>3, <2>1, <2>2, LevelsKept DEF k
  <1>15. CASE UNCHANGED vars
    BY <1>15 DEF vars, Levels, Parsing, InText, Entered
  <1>16. QED
    BY <1>5, <1>6, <1>7, <1>8, <1>9, <1>10, <1>11, <1>12, <1>13, <1>14, <1>15 DEF Next

(* A module starts with no level open.                                      *)
LEMMA LevelsInit ==
  ASSUME Init
  PROVE  Levels
  <1>1. tok \in Texts /\ pos = 1 /\ nest = 0 /\ todo = <<Do("parse_module")>>
    BY DEF Init
  <1>2. Len(tok) \in Nat /\ Len(tok) >= 1 /\ MaxNest \in Nat
    <2>1. tok \in Seq(STRING) /\ tok # << >> /\ MaxNest \in Nat
      BY <1>1, ParserAssumption
    <2>2. QED
      BY <2>1
  <1>3. Parsing
    BY <1>1, <1>2 DEF Parsing, InText
  <1> DEFINE s == Do("parse_module")
  <1>4. Move(tok, "nest", s, 1, 0, 0, 0)
    <2>1. s[1] = "do" /\ s[2] = "parse_module"
      BY Calls
    <2>2. Cost0("nest", s, 0)
      BY <2>1 DEF Cost0, Easy, DoOK, CostDo
    <2>3. Cost3("nest", s, 0) /\ 0 - 0 = 0
      BY <2>2, LevelsUp DEF Kinds
    <2>4. QED
      BY <2>3 DEF Move
  <1>5. Runs(tok, "nest", <<s>>, 1, 0, 0)
    BY <1>4, RunsOne
  <1>6. s # Enter /\ Len(<<s>>) = 1 /\ <<s>>[1] = s
    <2>1. s[1] = "do" /\ Enter[1] = "enter"
      BY Calls DEF Enter
    <2> HIDE DEF s
    <2>2. QED
      BY <2>1
  <1>7. Entered(<<s>>)
    BY <1>6 DEF Entered
  <1>8. QED
    BY <1>1, <1>2, <1>3, <1>5, <1>7 DEF Levels

(* A list of no steps goes nowhere.                                         *)
LEMMA RunsEnded ==
  ASSUME NEW T, NEW k, NEW q, NEW x, NEW z, Runs(T, k, << >>, q, x, z)
  PROVE  x = z
  <1>1. Len(<< >>) = 0
    OBVIOUS
  <1>2. QED
    BY <1>1 DEF Runs

(* The nesting of expressions stays within its limit, for any tokens, and   *)
(* the levels that were opened are closed when the module is read: every    *)
(* way out of an expression goes through the `nest--` that its `nest++` is  *)
(* paired with, the ways that report something included.                    *)
THEOREM LevelsClosedHolds == Spec => []LevelsClosed
  <1>1. Init => Levels
    BY LevelsInit
  <1>2. Levels /\ [Next]_vars => Levels'
    BY LevelsStep
  <1>3. Levels => LevelsClosed
    <2>1. SUFFICES ASSUME Levels PROVE LevelsClosed
      OBVIOUS
    <2>2. Done => nest = 0
      BY <2>1, RunsEnded DEF Levels, Done
    <2>3. QED
      BY <2>1, <2>2 DEF Levels, LevelsClosed
  <1>4. QED
    BY <1>1, <1>2, <1>3, PTL DEF Spec

-----------------------------------------------------------------------------
(***************************************************************************)
(* Brackets: as long as nothing was reported, the walk that is left closes *)
(* the brackets that the tokens taken so far have opened.                  *)
(***************************************************************************)
Pairs == {"(", "[", "INDENT"}
Count(T, t, j) == Cardinality({i \in 1 .. j : TokOf(T, i) = t})
DepthAt(T, j, k) == Count(T, k, j) - Count(T, Closer(k), j)
Balanced(k) ==
  /\ Runs(tok, k, todo, pos, DepthAt(tok, pos - 1, k), 0)
  /\ \A j \in 0 .. pos - 1 : DepthAt(tok, j, k) >= 0
(* What is forced to move on will have moved on when it is asked.           *)
Moving ==
  \A i \in 1 .. Len(todo) : todo[i][1] = "progress" =>
    /\ todo[i][2] \in Nat
    /\ \/ todo[i][2] < pos
       \/ todo[i][2] <= pos /\ \E j \in 1 .. i - 1 : Eats(todo[j])
(* The module is read on until the end of the file.                         *)
Lasts == {Do("parse_module"), Do("module_rest")}
Ending == (todo # << >> /\ todo[Len(todo)] \in Lasts) \/ pos = Len(tok)
(* A diagnostic was reported, or will be.                                   *)
Doomed == failed \/ \E i \in 1 .. Len(todo) : todo[i] = Fail
Paired == (\A k \in Pairs : Balanced(k)) /\ Moving /\ Ending
Pairing == Levels /\ failed \in BOOLEAN /\ (RangesEnd => Doomed \/ Paired)

(* How many of the first tokens are a given one.                            *)
LEMMA CountStep ==
  ASSUME NEW T, NEW t, NEW j \in Nat
  PROVE  /\ Count(T, t, j) \in Nat /\ Count(T, t, 0) = 0
         /\ Count(T, t, j + 1) = Count(T, t, j) + (IF TokOf(T, j + 1) = t THEN 1 ELSE 0)
  <1> DEFINE S(i) == {n \in 1 .. i : TokOf(T, n) = t}
  <1>1. IsFiniteSet(1 .. j)
    BY FS_Interval
  <1>2. S(j) \subseteq 1 .. j
    OBVIOUS
  <1>3. IsFiniteSet(S(j)) /\ Cardinality(S(j)) \in Nat
    BY <1>1, <1>2, FS_Subset, FS_CardinalityType
  <1>4. S(0) = {} /\ Cardinality(S(0)) = 0
    <2>1. S(0) = {}
      OBVIOUS
    <2>2. QED
      BY <2>1, FS_EmptySet
  <1>5. Cardinality(S(j + 1)) = Cardinality(S(j)) + (IF TokOf(T, j + 1) = t THEN 1 ELSE 0)
    <2>1. CASE TokOf(T, j + 1) = t
      <3>1. S(j + 1) = S(j) \cup {j + 1} /\ j + 1 \notin S(j)
        BY <2>1
      <3> HIDE DEF S
      <3>2. QED
        BY <1>3, <2>1, <3>1, FS_AddElement
    <2>2. CASE TokOf(T, j + 1) # t
      <3>1. S(j + 1) = S(j)
        BY <2>2
      <3> HIDE DEF S
      <3>2. QED
        BY <1>3, <2>2, <3>1
    <2>3. QED
      BY <2>1, <2>2
  <1>6. \A i : Count(T, t, i) = Cardinality(S(i))
    BY DEF Count
  <1> HIDE DEF S
  <1>7. QED
    BY <1>3, <1>4, <1>5, <1>6

(* Each token changes the brackets open by what it weighs.                  *)
LEMMA DepthStep ==
  ASSUME NEW T, NEW k \in Pairs, NEW j \in Nat
  PROVE  /\ DepthAt(T, j, k) \in Int /\ DepthAt(T, 0, k) = 0
         /\ DepthAt(T, j + 1, k) = DepthAt(T, j, k) + Weight(k, TokOf(T, j + 1))
  <1> DEFINE A(i) == Count(T, k, i)
             B(i) == Count(T, Closer(k), i)
             u == TokOf(T, j + 1)
  <1>1. A(j) \in Nat /\ A(0) = 0 /\ A(j + 1) = A(j) + (IF u = k THEN 1 ELSE 0)
    BY CountStep
  <1>2. B(j) \in Nat /\ B(0) = 0 /\ B(j + 1) = B(j) + (IF u = Closer(k) THEN 1 ELSE 0)
    BY CountStep
  <1>3. \A i : DepthAt(T, i, k) = A(i) - B(i)
    BY DEF DepthAt
  <1>4. k # "nest" /\ Closer(k) # k
    BY DEF Pairs, Closer
  <1> HIDE DEF A, B, u
  <1>5. Weight(k, u) = IF u = k THEN 1 ELSE IF u = Closer(k) THEN -1 ELSE 0
    BY <1>4 DEF Weight
  <1>6. DepthAt(T, j, k) \in Int /\ DepthAt(T, 0, k) = 0
    BY <1>1, <1>2, <1>3
  <1>7. A(j + 1) - B(j + 1) = A(j) - B(j) + Weight(k, u)
    BY <1>1, <1>2, <1>4, <1>5
  <1>8. QED
    BY <1>3, <1>6, <1>7 DEF u

(* It is what the model's depth says.                                       *)
LEMMA DepthIs ==
  ASSUME NEW k, NEW j
  PROVE  Depth(1, j, k, Closer(k)) = DepthAt(tok, j, k)
  <1>1. \A i : Tok(i) = TokOf(tok, i)
    BY DEF Tok, TokOf
  <1>2. QED
    BY <1>1 DEF Depth, DepthAt, Count

(* One step of a walk that takes what it weighs.                            *)
LEMMA BalancedKept ==
  ASSUME NEW k \in Pairs, Parsing, Balanced(k), tok' = tok, NEW M, NEW y, Goes(k, M, y),
         \/ pos' = pos /\ y = DepthAt(tok, pos - 1, k)
         \/ pos' = pos + 1 /\ y = DepthAt(tok, pos - 1, k) + Weight(k, tok[pos])
  PROVE  Balanced(k)'
  <1>1. pos \in Nat /\ pos - 1 \in Nat /\ pos \in 1 .. Len(tok) /\ TokOf(tok, pos) = tok[pos] /\ (pos - 1) + 1 = pos
    BY TextFacts
  <1> DEFINE x == DepthAt(tok, pos - 1, k)
  <1>2. DepthAt(tok, pos, k) = x + Weight(k, tok[pos])
    BY <1>1, DepthStep
  <1>3. y = DepthAt(tok, pos' - 1, k)
    <2>1. CASE pos' = pos /\ y = x
      BY <2>1
    <2>2. CASE pos' = pos + 1 /\ y = x + Weight(k, tok[pos])
      <3>1. pos' - 1 = pos
        BY <1>1, <2>2
      <3>2. QED
        BY <1>2, <2>2, <3>1
    <2>3. QED
      BY <2>1, <2>2
  <1>4. Runs(tok, k, todo', pos', y, 0)
    BY DEF Goes
  <1>5. y >= 0
    BY <1>4, RunsCounts
  <1>6. ASSUME NEW j \in 0 .. pos' - 1
        PROVE  DepthAt(tok, j, k) >= 0
    <2>1. CASE j \in 0 .. pos - 1
      BY <2>1 DEF Balanced
    <2>2. CASE j \notin 0 .. pos - 1
      <3>1. j = pos' - 1
        BY <1>1, <2>2
      <3>2. QED
        BY <1>3, <1>5, <3>1
    <2>3. QED
      BY <2>1, <2>2
  <1>7. QED
    BY <1>3, <1>4, <1>6 DEF Balanced

(* A step that takes no token is not to take one, or leaves one to be taken. *)
Advances(M) == pos' > pos \/ ~Eats(Head(todo)) \/ Fed(M)
Paid(k, M) ==
  \/ pos' = pos /\ Goes(k, M, DepthAt(tok, pos - 1, k))
  \/ pos' = pos + 1 /\ Goes(k, M, DepthAt(tok, pos - 1, k) + Weight(k, tok[pos]))

(* What every action does to the walk of one kind of bracket: it is paid    *)
(* for, or something was or will be reported.                               *)
LEMMA PairStep ==
  ASSUME NEW k \in Pairs, Parsing, Balanced(k), Moving, RangesEnd, Next
  PROVE  /\ todo # << >> /\ IsList(todo)
         /\ \/ failed' = TRUE
            \/ \E M : Replaced(M) /\ \E i \in 1 .. Len(M) : M[i] = Fail
            \/ \E M : Paid(k, M) /\ Advances(M)
  <1> DEFINE x == DepthAt(tok, pos - 1, k)
  <1>1. k \in Kinds /\ k # "nest" /\ Up(k) = 0
    BY DEF Pairs, Kinds, Up
  <1>2. Runs(tok, k, todo, pos, x, 0) /\ IsList(todo) /\ x \in Nat /\ pos \in Nat
    BY RunsCounts, TextFacts DEF Balanced
  <1>3. x + 0 = x /\ x - 0 = x /\ pos + 1 > pos
    BY <1>2
  <1>4. \A s : Eats(s) => s[1] \in {"take", "one", "do"}
    BY DEF Eats, Take
  <1> HIDE DEF x
  <1>5. CASE Call
    <2> DEFINE s == Head(todo)
               M == Production(s[2], s[3])
    <2>1. todo # << >> /\ s[1] = "do" /\ pos' = pos
      BY <1>5 DEF Call, At_, Step
    <2>2. Replaced(M) /\ (Reports(k, M) \/ Goes(k, M, x))
      BY <1>1, <1>2, <1>5, CallGoes
    <2>3. Eats(s) => Fed(M)
      <3>1. Take[1] = "take"
        BY DEF Take
      <3>2. Eats(s) => s[2] \in Eaters
        BY <2>1, <3>1 DEF Eats
      <3>3. QED
        BY <3>2, EatersEat
    <2> HIDE DEF M
    <2>4. QED
      BY <1>2, <2>1, <2>2, <2>3 DEF Reports, Paid, Advances, x
  <1>6. CASE TakeOne
    <2>1. todo # << >>
      BY <1>6 DEF TakeOne, At_
    <2>2. pos' = pos + 1 /\ Goes(k, << >>, x + Weight(k, tok[pos]))
      BY <1>1, <1>2, <1>6, TakeOneGoes
    <2>3. Paid(k, << >>) /\ Advances(<< >>)
      BY <1>3, <2>2 DEF Paid, Advances, x
    <2>4. QED
      BY <1>2, <2>1, <2>3
  <1>7. CASE Expect
    <2>1. todo # << >>
      BY <1>7 DEF Expect, At_
    <2>2. failed' = TRUE \/ (pos' = pos + 1 /\ Goes(k, << >>, x + Weight(k, tok[pos])))
      BY <1>1, <1>2, <1>7, ExpectGoes
    <2>3. pos' = pos + 1 /\ Goes(k, << >>, x + Weight(k, tok[pos])) => Paid(k, << >>) /\ Advances(<< >>)
      BY <1>3 DEF Paid, Advances, x
    <2>4. QED
      BY <1>2, <2>1, <2>2, <2>3
  <1>8. CASE Eat
    <2>1. todo # << >> /\ Head(todo)[1] = "opt"
      BY <1>8 DEF Eat, At_, Step
    <2>2. PICK M : \/ pos' = pos /\ Goes(k, M, x)
                   \/ pos' = pos + 1 /\ Goes(k, M, x + Weight(k, tok[pos]))
      BY <1>1, <1>2, <1>8, EatGoes
    <2>3. Paid(k, M) /\ Advances(M)
      BY <1>4, <2>1, <2>2 DEF Paid, Advances, x
    <2>4. QED
      BY <1>2, <2>1, <2>3
  <1>9. CASE Look \/ Items
    <2>1. todo # << >> /\ Head(todo)[1] \in {"if", "list"} /\ pos' = pos
      BY <1>9 DEF Look, Items, At_, Step
    <2>2. PICK M : Goes(k, M, x)
      BY <1>1, <1>2, <1>9, LookGoes
    <2>3. Paid(k, M) /\ Advances(M)
      BY <1>4, <2>1, <2>2 DEF Paid, Advances, x
    <2>4. QED
      BY <1>2, <2>1, <2>3
  <1>10. CASE Complain \/ Made \/ MadeBinary \/ Foreseen \/ DeclareType
    <2>1. todo # << >> /\ Head(todo)[1] \notin {"take", "one", "do"} /\ pos' = pos
      BY <1>10 DEF Complain, Made, MadeBinary, Foreseen, DeclareType, At_, Step
    <2>2. Goes(k, << >>, x)
      BY <1>1, <1>2, <1>10, NotesGo
    <2>3. Paid(k, << >>) /\ Advances(<< >>)
      BY <1>4, <2>1, <2>2 DEF Paid, Advances, x
    <2>4. QED
      BY <1>2, <2>1, <2>3
  <1>11. CASE Nesting
    <2>1. todo # << >> /\ Head(todo)[1] \notin {"take", "one", "do"} /\ pos' = pos
      BY <1>11 DEF Nesting, At_, Step
    <2>2. Goes(k, << >>, x)
      BY <1>1, <1>2, <1>3, <1>11, NestingGoes
    <2>3. Paid(k, << >>) /\ Advances(<< >>)
      BY <1>4, <2>1, <2>2 DEF Paid, Advances, x
    <2>4. QED
      BY <1>2, <2>1, <2>3
  <1>12. CASE expect_stmt_newline
    <2>1. todo # << >> /\ Head(todo)[1] = "newline"
      BY <1>12 DEF expect_stmt_newline, At_, Step
    <2>2. PICK M : pos' = pos /\ Goes(k, M, x)
      BY <1>1, <1>2, <1>12, NewlineGoes
    <2>3. Paid(k, M) /\ Advances(M)
      BY <1>4, <2>1, <2>2 DEF Paid, Advances, x
    <2>4. QED
      BY <1>2, <2>1, <2>3
  <1>13. CASE skip_docs \/ sync_line
    <2>1. todo # << >> /\ Head(todo)[1] \in {"skip", "sync"}
      BY <1>13 DEF skip_docs, sync_line, At_, Step
    <2>2. PICK M : Goes(k, M, x)
      BY <1>1, <1>2, <1>13, SkipsGo
    <2>3. pos' = pos \/ (pos' = pos + 1 /\ Weight(k, tok[pos]) = 0)
      BY <1>1, <1>2, <1>13, SkipsGo
    <2>4. Paid(k, M) /\ Advances(M)
      BY <1>3, <1>4, <2>1, <2>2, <2>3 DEF Paid, Advances, x
    <2>5. QED
      BY <1>2, <2>1, <2>4
  <1>14. CASE ForceProgress
    <2>1. todo # << >> /\ Head(todo)[1] = "progress" /\ Goes(k, << >>, x)
      BY <1>1, <1>2, <1>14, ProgressGoes
    <2>2. pos' = pos \/ pos = Head(todo)[2]
      BY <1>1, <1>2, <1>14, ProgressGoes
    <2>3. pos # Head(todo)[2]
      <3>1. Head(todo) = todo[1] /\ Len(todo) \in Nat /\ Len(todo) >= 1
        BY <1>2, <2>1, Beheaded DEF IsList
      <3>2. todo[1][2] \in Nat /\ (todo[1][2] < pos \/ \E j \in 1 .. 1 - 1 : Eats(todo[j]))
        BY <2>1, <3>1 DEF Moving
      <3>3. QED
        BY <1>2, <3>1, <3>2
    <2>4. Paid(k, << >>) /\ Advances(<< >>)
      BY <1>4, <2>1, <2>2, <2>3 DEF Paid, Advances, x
    <2>5. QED
      BY <1>2, <2>1, <2>4
  <1>15. QED
    BY <1>5, <1>6, <1>7, <1>8, <1>9, <1>10, <1>11, <1>12, <1>13, <1>14 DEF Next

(* What was to move on has, or is still to.                                 *)
LEMMA MovingStep ==
  ASSUME Parsing, IsList(todo), todo # << >>, Moving, pos' \in Nat, pos' >= pos,
         NEW M, Replaced(M), Placed(M), Advances(M)
  PROVE  Moving' \/ \E i \in 1 .. Len(M) : M[i] = Fail
  <1> SUFFICES ASSUME ~\E i \in 1 .. Len(M) : M[i] = Fail
               PROVE  Moving'
    OBVIOUS
  <1> DEFINE N == Tail(todo)
             n == Len(M)
  <1>1. /\ Len(todo) \in Nat /\ Len(todo) >= 1 /\ Head(todo) = todo[1] /\ IsList(N) /\ Len(N) = Len(todo) - 1
        /\ \A i \in 1 .. Len(todo) - 1 : N[i] = todo[i + 1]
    BY Beheaded DEF IsList
  <1>2. IsList(M) /\ todo' = M \o N /\ n \in Nat /\ pos \in Nat
    BY TextFacts DEF Replaced, IsList
  <1> HIDE DEF N
  <1>3. /\ IsList(todo') /\ Len(todo') = n + Len(N)
        /\ \A i \in 1 .. n : todo'[i] = M[i]
        /\ \A i \in 1 .. Len(N) : todo'[n + i] = N[i]
    <2>1. IsList(M) /\ IsList(N)
      BY <1>1, <1>2
    <2>2. /\ IsList(M \o N) /\ Len(M \o N) = Len(M) + Len(N)
          /\ \A i \in 1 .. Len(M) : (M \o N)[i] = M[i]
          /\ \A i \in 1 .. Len(N) : (M \o N)[Len(M) + i] = N[i]
      BY <2>1, Joined
    <2>3. QED
      BY <1>2, <2>2
  <1>4. ASSUME NEW i \in 1 .. Len(todo'), todo'[i][1] = "progress"
        PROVE  /\ todo'[i][2] \in Nat
               /\ \/ todo'[i][2] < pos'
                  \/ todo'[i][2] <= pos' /\ \E j \in 1 .. i - 1 : Eats(todo'[j])
    <2>1. CASE i \in 1 .. n
      <3>1. M[i][2] = pos /\ \E j \in 1 .. i - 1 : Eats(M[j])
        BY <1>3, <1>4, <2>1 DEF Placed
      <3>2. \A j \in 1 .. i - 1 : j \in 1 .. n
        BY <1>2, <2>1
      <3>3. QED
        BY <1>2, <1>3, <2>1, <3>1, <3>2
    <2>2. CASE i \notin 1 .. n
      <3> DEFINE m == i - n
                 v == todo[m + 1][2]
      <3>1. m \in 1 .. Len(N) /\ i = n + m /\ m + 1 \in 1 .. Len(todo) /\ m \in 1 .. Len(todo) - 1 /\ m \in Nat
        BY <1>1, <1>2, <1>3, <2>2
      <3>2. todo'[i] = N[m] /\ N[m] = todo[m + 1]
        BY <1>1, <1>3, <3>1
      <3>3. todo'[i][2] = v /\ todo[m + 1][1] = "progress"
        BY <1>4, <3>2
      <3>4. v \in Nat /\ (v < pos \/ (v <= pos /\ \E j \in 1 .. (m + 1) - 1 : Eats(todo[j])))
        BY <3>1, <3>3 DEF Moving
      <3> HIDE DEF v, m
      <3>5. CASE v < pos
        BY <1>2, <3>3, <3>4, <3>5
      <3>6. ASSUME NEW j \in 1 .. (m + 1) - 1, Eats(todo[j]), v <= pos
            PROVE  v < pos' \/ (v <= pos' /\ \E jj \in 1 .. i - 1 : Eats(todo'[jj]))
        <4>1. v <= pos'
          BY <1>2, <3>4, <3>6
        <4>2. CASE j = 1
          <5>1. CASE pos' > pos
            BY <1>2, <3>4, <3>6, <5>1
          <5>2. CASE Fed(M)
            <6>1. PICK e \in 1 .. n : Eats(M[e])
              BY <5>2 DEF Fed, Feeds
            <6>2. e \in 1 .. i - 1 /\ todo'[e] = M[e]
              BY <1>2, <1>3, <3>1, <6>1
            <6>3. QED
              BY <4>1, <6>1, <6>2
          <5>3. QED
            BY <1>1, <3>6, <4>2, <5>1, <5>2 DEF Advances
        <4>3. CASE j # 1
          <5> DEFINE e == n + (j - 1)
          <5>1. j - 1 \in 1 .. Len(N) /\ j - 1 \in 1 .. Len(todo) - 1 /\ (j - 1) + 1 = j /\ e \in 1 .. i - 1
            BY <1>1, <1>2, <3>1, <4>3
          <5>2. todo'[e] = todo[j]
            BY <1>1, <1>3, <5>1
          <5> HIDE DEF e
          <5>3. QED
            BY <3>6, <4>1, <5>1, <5>2
        <4>4. QED
          BY <4>2, <4>3
      <3>7. QED
        BY <3>3, <3>4, <3>5, <3>6
    <2>3. QED
      BY <2>1, <2>2
  <1>5. QED
    BY <1>4 DEF Moving

(* The end of the file is still to be reached, or was.                      *)
LEMMA EndingStep ==
  ASSUME Parsing, IsList(todo), todo # << >>, Ending, Next, pos' \in 1 .. Len(tok), pos' >= pos, tok' = tok,
         NEW M, Replaced(M)
  PROVE  Ending'
  <1> DEFINE N == Tail(todo)
             n == Len(todo)
  <1>1. /\ n \in Nat /\ n >= 1 /\ Head(todo) = todo[1] /\ IsList(N) /\ Len(N) = n - 1
        /\ \A i \in 1 .. n - 1 : N[i] = todo[i + 1]
    BY Beheaded DEF IsList
  <1>2. IsList(M) /\ todo' = M \o N /\ Len(M) \in Nat
    BY DEF Replaced, IsList
  <1>3. pos \in Nat /\ Len(tok) \in Nat /\ pos \in 1 .. Len(tok)
    BY TextFacts
  <1> HIDE DEF N
  <1>4. CASE pos = Len(tok)
    BY <1>3, <1>4 DEF Ending
  <1>5. CASE todo[n] \in Lasts /\ n > 1
    <2>1. /\ Len(M \o N) = Len(M) + Len(N)
          /\ \A i \in 1 .. Len(N) : (M \o N)[Len(M) + i] = N[i]
      <3>1. IsList(M) /\ IsList(N)
        BY <1>1, <1>2
      <3>2. QED
        BY <3>1, Joined
    <2>2. Len(N) \in 1 .. Len(N) /\ Len(N) \in 1 .. n - 1 /\ Len(N) + 1 = n
      BY <1>1, <1>5
    <2>3. (M \o N)[Len(M \o N)] = todo[n] /\ Len(M \o N) # 0
      BY <1>1, <1>2, <2>1, <2>2
    <2>4. M \o N # << >>
      BY <2>3
    <2>5. QED
      BY <1>2, <1>5, <2>3, <2>4 DEF Ending
  <1>6. CASE todo[n] \in Lasts /\ n = 1
    <2> DEFINE s == Head(todo)
    <2>1. s \in Lasts
      BY <1>1, <1>6
    <2>2. s[1] = "do" /\ s[2] \in {"parse_module", "module_rest"}
      BY <2>1, Calls DEF Lasts
    <2>3. Call
      BY <2>2 DEF Next, TakeOne, Expect, Eat, Look, Items, Complain, Nesting, Made, MadeBinary,
           expect_stmt_newline, skip_docs, sync_line, ForceProgress, Foreseen, DeclareType, At_, Step
    <2>4. todo' = Production(s[2], s[3]) \o N
      BY <2>3 DEF Call, Step, Go, N
    <2> DEFINE P == Production(s[2], s[3])
    <2>5. N = << >>
      <3>1. Len(N) = 0
        BY <1>1, <1>6
      <3>2. QED
        BY <1>1, <3>1 DEF IsList
    <2>6. ASSUME IsList(P)
          PROVE  todo' = P
      BY <2>4, <2>5, <2>6, Written
    <2> DEFINE a == Do("parse_module")
               b == Do("module_rest")
    <2>7. a \in Lasts /\ b \in Lasts
      BY DEF Lasts
    <2>8. CASE s[2] = "parse_module"
      <3>1. P = <<Skip, b>>
        BY <2>8, ProductionIs DEF parse_module
      <3> HIDE DEF b, P
      <3>2. IsList(P) /\ Len(P) = 2 /\ P[2] = b /\ P # << >>
        BY <3>1 DEF IsList
      <3>3. todo' = P
        BY <2>6, <3>2
      <3>4. QED
        BY <2>7, <3>2, <3>3 DEF Ending
    <2>9. CASE s[2] = "module_rest"
      <3>1. P = module_rest
        BY <2>9, ProductionIs
      <3>2. CASE At("EOF")
        <4>1. pos = Len(tok)
          BY <3>2, TextFacts DEF At
        <4>2. QED
          BY <1>3, <4>1 DEF Ending
      <3>3. CASE P = <<Do("parse_import"), a>>
        <4> DEFINE c == Do("parse_import")
        <4>1. P = <<c, a>>
          BY <3>3
        <4> HIDE DEF a, c, P
        <4>2. IsList(P) /\ Len(P) = 2 /\ P[2] = a /\ P # << >>
          BY <4>1 DEF IsList
        <4>3. todo' = P
          BY <2>6, <4>2
        <4>4. QED
          BY <2>7, <4>2, <4>3 DEF Ending
      <3>4. CASE P = <<Do("parse_top"), Progress, a>>
        <4> DEFINE c == Do("parse_top")
                   d == Progress
        <4>1. P = <<c, d, a>>
          BY <3>4
        <4> HIDE DEF a, c, d, P
        <4>2. IsList(P) /\ Len(P) = 3 /\ P[3] = a /\ P # << >>
          BY <4>1 DEF IsList
        <4>3. todo' = P
          BY <2>6, <4>2
        <4>4. QED
          BY <2>7, <4>2, <4>3 DEF Ending
      <3>5. At("EOF") \/ P = <<Do("parse_import"), a>> \/ P = <<Do("parse_top"), Progress, a>>
        <4> HIDE DEF P
        <4>1. QED
          BY <3>1 DEF module_rest
      <3>6. QED
        BY <3>2, <3>3, <3>4, <3>5
    <2>10. QED
      BY <2>2, <2>8, <2>9
  <1>7. QED
    <2>1. n = 1 \/ n > 1
      BY <1>1
    <2>2. QED
      BY <1>4, <1>5, <1>6, <2>1 DEF Ending

(* What was or will be reported is not taken back.                          *)
LEMMA DoomedStep ==
  ASSUME IsList(todo), todo # << >>, Doomed, failed \in BOOLEAN, Next, NEW M, Replaced(M)
  PROVE  Doomed'
  <1> DEFINE N == Tail(todo)
  <1>1. /\ Len(todo) \in Nat /\ Len(todo) >= 1 /\ Head(todo) = todo[1] /\ IsList(N) /\ Len(N) = Len(todo) - 1
        /\ \A i \in 1 .. Len(todo) - 1 : N[i] = todo[i + 1]
    BY Beheaded DEF IsList
  <1>2. IsList(M) /\ todo' = M \o N /\ Len(M) \in Nat
    BY DEF Replaced, IsList
  <1> HIDE DEF N
  <1>3. CASE failed
    <2>1. failed' = failed \/ failed' = TRUE
      BY DEF Next, Call, TakeOne, Expect, Eat, Look, Items, Complain, Nesting, Made, MadeBinary,
           expect_stmt_newline, skip_docs, sync_line, ForceProgress, Foreseen, DeclareType
    <2>2. QED
      BY <1>3, <2>1 DEF Doomed
  <1>4. ASSUME NEW i \in 1 .. Len(todo), todo[i] = Fail
        PROVE  Doomed'
    <2>1. CASE i = 1
      <3>1. Head(todo)[1] = "fail"
        BY <1>1, <1>4, <2>1 DEF Fail
      <3>2. Complain
        BY <3>1 DEF Next, Call, TakeOne, Expect, Eat, Look, Items, Nesting, Made, MadeBinary,
           expect_stmt_newline, skip_docs, sync_line, ForceProgress, Foreseen, DeclareType, At_, Step
      <3>3. failed' = TRUE
        BY <3>2 DEF Complain
      <3>4. QED
        BY <3>3 DEF Doomed
    <2>2. CASE i # 1
      <3>1. i - 1 \in 1 .. Len(N) /\ i - 1 \in 1 .. Len(todo) - 1 /\ (i - 1) + 1 = i
        BY <1>1, <2>2
      <3>2. /\ Len(M \o N) = Len(M) + Len(N)
            /\ \A j \in 1 .. Len(N) : (M \o N)[Len(M) + j] = N[j]
        <4>1. IsList(M) /\ IsList(N)
          BY <1>1, <1>2
        <4>2. QED
          BY <4>1, Joined
      <3>3. Len(M) + (i - 1) \in 1 .. Len(M \o N) /\ (M \o N)[Len(M) + (i - 1)] = Fail
        BY <1>1, <1>2, <1>4, <3>1, <3>2
      <3>4. QED
        BY <1>2, <3>3 DEF Doomed
    <2>3. QED
      BY <2>1, <2>2
  <1>5. QED
    BY <1>3, <1>4 DEF Doomed

(* It was or will be when a list that reports something replaces a step.    *)
LEMMA DoomedBy ==
  ASSUME IsList(todo), todo # << >>, NEW M, Replaced(M), NEW i \in 1 .. Len(M), M[i] = Fail
  PROVE  Doomed'
  <1> DEFINE N == Tail(todo)
  <1>1. IsList(N)
    BY Beheaded
  <1>2. IsList(M) /\ todo' = M \o N /\ Len(M) \in Nat
    BY DEF Replaced, IsList
  <1> HIDE DEF N
  <1>3. /\ Len(M \o N) = Len(M) + Len(N) /\ IsList(M \o N)
        /\ \A j \in 1 .. Len(M) : (M \o N)[j] = M[j]
    BY <1>1, <1>2, Joined
  <1>4. i \in 1 .. Len(M \o N) /\ (M \o N)[i] = Fail
    BY <1>1, <1>2, <1>3 DEF IsList
  <1>5. QED
    BY <1>2, <1>4 DEF Doomed

(* Every action replaces its step by a list.                                *)
LEMMA StepReplaces ==
  ASSUME Levels, Next
  PROVE  IsList(todo) /\ todo # << >> /\ \E M : Replaced(M)
  <1> DEFINE k == "nest"
  <1>1. k \in Kinds /\ Parsing /\ Runs(tok, k, todo, pos, nest, 0) /\ IsList(todo)
    BY RunsCounts DEF Kinds, Levels
  <1>2. todo # << >>
    BY DEF Next, Call, TakeOne, Expect, Eat, Look, Items, Complain, Nesting, Made, MadeBinary,
           expect_stmt_newline, skip_docs, sync_line, ForceProgress, Foreseen, DeclareType, At_
  <1>3. CASE Call
    BY <1>1, <1>2, <1>3, CallGoes
  <1>4. CASE TakeOne
    BY <1>1, <1>2, <1>4, TakeOneGoes DEF Goes
  <1>5. CASE Expect
    BY <1>1, <1>2, <1>5, ExpectGoes
  <1>6. CASE Eat
    BY <1>1, <1>2, <1>6, EatGoes DEF Goes
  <1>7. CASE Look \/ Items
    BY <1>1, <1>2, <1>7, LookGoes DEF Goes
  <1>8. CASE Complain \/ Made \/ MadeBinary \/ Foreseen \/ DeclareType
    BY <1>1, <1>2, <1>8, NotesGo DEF Goes
  <1>9. CASE Nesting
    BY <1>1, <1>2, <1>9, NestingGoes DEF Goes
  <1>10. CASE expect_stmt_newline
    BY <1>1, <1>2, <1>10, NewlineGoes DEF Goes
  <1>11. CASE skip_docs \/ sync_line
    BY <1>1, <1>2, <1>11, SkipsGo DEF Goes
  <1>12. CASE ForceProgress
    BY <1>1, <1>2, <1>12, ProgressGoes DEF Goes
  <1>13. QED
    BY <1>3, <1>4, <1>5, <1>6, <1>7, <1>8, <1>9, <1>10, <1>11, <1>12 DEF Next

(* Every step keeps the brackets paired, or something is reported.          *)
LEMMA PairingStep ==
  ASSUME Pairing, [Next]_vars
  PROVE  Pairing'
  <1>1. Levels /\ Parsing /\ failed \in BOOLEAN /\ (RangesEnd => Doomed \/ Paired)
    BY DEF Pairing, Levels
  <1>2. Levels' /\ tok' = tok /\ pos' \in Nat /\ pos' >= pos /\ pos' \in 1 .. Len(tok)
    BY <1>1, LevelsStep, ParsingStep DEF Parsing, InText
  <1>3. failed' \in BOOLEAN
    BY <1>1 DEF Next, vars, Call, TakeOne, Expect, Eat, Look, Items, Complain, Nesting, Made, MadeBinary,
           expect_stmt_newline, skip_docs, sync_line, ForceProgress, Foreseen, DeclareType
  <1>4. RangesEnd' => RangesEnd
    BY <1>2 DEF RangesEnd, Tok
  <1>5. CASE UNCHANGED vars
    BY <1>1, <1>2, <1>3, <1>4, <1>5
    DEF vars, Pairing, Doomed, Paired, Balanced, Moving, Ending
  <1>6. ASSUME Next, RangesEnd
        PROVE  Doomed' \/ Paired'
    <2>1. PICK M : IsList(todo) /\ todo # << >> /\ Replaced(M)
      BY <1>1, <1>6, StepReplaces
    <2>2. CASE Doomed
      BY <1>1, <1>6, <2>1, <2>2, DoomedStep
    <2>3. ASSUME Paired, ~Doomed'
          PROVE  Paired'
      <3>1. ASSUME NEW k \in Pairs
            PROVE  \E N : Paid(k, N) /\ Advances(N)
        <4>1. Balanced(k) /\ Moving
          BY <2>3 DEF Paired
        <4>2. CASE failed' = TRUE
          BY <2>3, <4>2 DEF Doomed
        <4>3. ASSUME NEW N, Replaced(N), \E i \in 1 .. Len(N) : N[i] = Fail
              PROVE  FALSE
          BY <2>1, <2>3, <4>3, DoomedBy
        <4>4. QED
          BY <1>1, <1>6, <4>1, <4>2, <4>3, PairStep
      <3>2. ASSUME NEW k \in Pairs
            PROVE  Balanced(k)'
        <4>1. PICK N : Paid(k, N)
          BY <3>1
        <4>2. Balanced(k)
          BY <2>3 DEF Paired
        <4>3. QED
          BY <1>1, <1>2, <4>1, <4>2, BalancedKept DEF Paid
      <3>3. Moving'
        <4>1. "(" \in Pairs
          BY DEF Pairs
        <4>2. PICK N : Replaced(N) /\ Placed(N) /\ Advances(N)
          BY <3>1, <4>1 DEF Paid, Goes
        <4>3. Moving
          BY <2>3 DEF Paired
        <4>4. Moving' \/ \E i \in 1 .. Len(N) : N[i] = Fail
          BY <1>1, <1>2, <2>1, <4>2, <4>3, MovingStep
        <4>5. ~\E i \in 1 .. Len(N) : N[i] = Fail
          BY <2>1, <2>3, <4>2, DoomedBy
        <4>6. QED
          BY <4>4, <4>5
      <3>4. Ending'
        BY <1>1, <1>2, <1>6, <2>1, <2>3, EndingStep DEF Paired
      <3>5. QED
        BY <3>2, <3>3, <3>4 DEF Paired
    <2>4. QED
      BY <1>1, <1>6, <2>2, <2>3
  <1>7. QED
    BY <1>2, <1>3, <1>4, <1>5, <1>6 DEF Pairing

(* A module starts with no bracket open.                                    *)
LEMMA PairingInit ==
  ASSUME Init
  PROVE  Pairing
  <1> DEFINE s == Do("parse_module")
  <1>1. tok \in Texts /\ pos = 1 /\ todo = <<s>> /\ failed = FALSE
    BY DEF Init
  <1>2. Levels
    BY LevelsInit
  <1>3. s[1] = "do" /\ s[2] = "parse_module" /\ s \in Lasts
    BY Calls DEF Lasts
  <1> HIDE DEF s
  <1>4. todo # << >> /\ Len(todo) = 1 /\ todo[1] = s
    BY <1>1
  <1>5. Moving
    BY <1>3, <1>4 DEF Moving
  <1>6. Ending
    BY <1>3, <1>4 DEF Ending
  <1>7. ASSUME NEW k \in Pairs
        PROVE  Balanced(k)
    <2>1. DepthAt(tok, 0, k) = 0
      BY DepthStep
    <2>2. k \in Kinds
      BY DEF Pairs, Kinds
    <2>3. Cost0(k, s, 0)
      BY <1>3 DEF Cost0, Easy, DoOK, CostDo
    <2>4. Cost3(k, s, 0) /\ 0 - 0 = 0
      BY <2>2, <2>3, LevelsUp
    <2>5. Move(tok, k, s, 1, 0, 0, 0)
      BY <2>4 DEF Move
    <2>6. Runs(tok, k, <<s>>, 1, 0, 0)
      BY <2>5, RunsOne
    <2>7. \A j \in 0 .. 0 : j = 0
      OBVIOUS
    <2>8. QED
      BY <1>1, <2>1, <2>6, <2>7 DEF Balanced
  <1>8. QED
    BY <1>1, <1>2, <1>5, <1>6, <1>7 DEF Pairing, Paired

(* In a module that was read without a diagnostic, for any tokens, every    *)
(* bracket and every block is closed by its own kind and none is closed     *)
(* that is not open, though no production looks at more than the bracket it *)
(* opened: where the end of a range in a pattern is a value.                *)
THEOREM BlocksPairHolds == Spec => []BlocksPair
  <1>1. Init => Pairing
    BY PairingInit
  <1>2. Pairing /\ [Next]_vars => Pairing'
    BY PairingStep
  <1>3. Pairing => BlocksPair
    <2>1. SUFFICES ASSUME Pairing, Accepted, RangesEnd,
                          NEW k \in Pairs
                   PROVE  /\ Depth(1, Len(tok), k, Closer(k)) = 0
                          /\ \A j \in 1 .. Len(tok) : Depth(1, j, k, Closer(k)) >= 0
      <3>1. \A k \in Pairs : k \in {"(", "[", "INDENT"}
        BY DEF Pairs
      <3>2. Closer("(") = ")" /\ Closer("[") = "]" /\ Closer("INDENT") = "DEDENT"
        BY DEF Closer
      <3>3. "(" \in Pairs /\ "[" \in Pairs /\ "INDENT" \in Pairs
        BY DEF Pairs
      <3>4. SUFFICES ASSUME Pairing, Accepted, RangesEnd
                     PROVE  \A p \in {<<"INDENT", "DEDENT">>, <<"(", ")">>, <<"[", "]">>} :
                              /\ Depth(1, Len(tok), p[1], p[2]) = 0
                              /\ \A j \in 1 .. Len(tok) : Depth(1, j, p[1], p[2]) >= 0
        BY DEF BlocksPair
      <3>5. \A k \in Pairs : /\ Depth(1, Len(tok), k, Closer(k)) = 0
                             /\ \A j \in 1 .. Len(tok) : Depth(1, j, k, Closer(k)) >= 0
        BY <2>1, <3>4
      <3>6. QED
        BY <3>2, <3>3, <3>5
    <2>2. todo = << >> /\ ~failed /\ Parsing /\ ~Doomed
      BY <2>1 DEF Accepted, Done, Pairing, Levels, Doomed
    <2>3. Balanced(k) /\ pos = Len(tok)
      BY <2>1, <2>2 DEF Pairing, Paired, Ending
    <2>4. Len(tok) \in Nat /\ pos \in Nat /\ pos - 1 \in Nat /\ (pos - 1) + 1 = pos /\ TokOf(tok, pos) = "EOF"
      BY <2>2, <2>3, TextFacts DEF TokOf
    <2>5. DepthAt(tok, pos - 1, k) = 0
      BY <2>2, <2>3, RunsEnded DEF Balanced
    <2>6. Weight(k, "EOF") = 0
      BY DEF Weight, Closer, Pairs
    <2>7. DepthAt(tok, pos, k) = 0
      <3> DEFINE m == pos - 1
      <3>1. m \in Nat /\ m + 1 = pos /\ TokOf(tok, m + 1) = "EOF" /\ DepthAt(tok, m, k) = 0
        BY <2>4, <2>5
      <3> HIDE DEF m
      <3>2. DepthAt(tok, m + 1, k) = DepthAt(tok, m, k) + Weight(k, TokOf(tok, m + 1))
        BY <3>1, DepthStep
      <3>3. DepthAt(tok, m + 1, k) = 0
        BY <2>6, <3>1, <3>2
      <3>4. QED
        BY <3>1, <3>3
    <2>8. ASSUME NEW j \in 1 .. Len(tok)
          PROVE  DepthAt(tok, j, k) >= 0
      <3>1. CASE j \in 0 .. pos - 1
        BY <2>3, <3>1 DEF Balanced
      <3>2. CASE j = pos
        BY <2>7, <3>2
      <3>3. QED
        BY <2>3, <2>4, <3>1, <3>2
    <2>9. QED
      BY <2>3, <2>7, <2>8, DepthIs
  <1>4. QED
    BY <1>1, <1>2, <1>3, PTL DEF Spec
=============================================================================
