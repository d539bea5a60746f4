------------------------------- MODULE Parser -------------------------------
(***************************************************************************)
(* The parser, src/parse: recursive descent over the tokens of a module,   *)
(* written as the steps still to do.  Calling a production replaces it by  *)
(* its own steps, which depend on the tokens ahead; the other steps take,  *)
(* expect or skip tokens, and count how deep the expressions nest.  Of the *)
(* tree the model keeps what later decisions of the parser look at: the    *)
(* kind of the expression parsed last.                                     *)
(***************************************************************************)
EXTENDS Integers, Sequences, FiniteSets, FiniteSetsExt, SequencesExt

CONSTANTS
  Texts,      (* the token sequences to parse; only the last one is "EOF"   *)
  MaxNest,    (* k_max_nest                                                 *)
  MaxChain,   (* k_max_chain                                                *)
  MaxParens,  (* k_max_type_parens                                          *)
  MaxIdle     (* the steps that may pass without a token taken              *)

ASSUME ParserAssumption ==
  /\ MaxNest \in Nat /\ MaxChain \in Nat /\ MaxParens \in Nat /\ MaxIdle \in Nat
  /\ \A s \in Texts : /\ s \in Seq(STRING) /\ s # <<>>
                     /\ \A i \in 1 .. Len(s) : s[i] = "EOF" <=> i = Len(s)

VARIABLES
  tok,      (* the tokens                                                   *)
  pos,      (* the cursor                                                   *)
  todo,     (* the steps still to do                                        *)
  failed,   (* a diagnostic was reported                                    *)
  nest,     (* how deep expressions nest                                    *)
  last,     (* the kind of the expression node made last                    *)
  types,    (* the types declared, and the ones extended                    *)
  nodes,    (* the binary operators: where their operands start and end     *)
  astray,   (* tokens were skipped, or a lookahead was wrong, in silence    *)
  idle      (* the steps since a token was taken last                       *)

vars == <<tok, pos, todo, failed, nest, last, types, nodes, astray, idle>>

-----------------------------------------------------------------------------
(***************************************************************************)
(* Tokens.  Names that the parser tells apart by their text stand for      *)
(* themselves; "x" is any other lowercase name, "T" a capitalised one.     *)
(***************************************************************************)
Words == {"weak", "inline", "section", "class", "spawn", "extend", "local",
          "export", "handle", "destroy", "packed", "align", "out", "noalias",
          "blocking", "assert", "memory", "allocate", "size_of", "hash"}
Names == Words \cup {"x", "T", "i64", "c", "void"}
Keywords == {"if", "elif", "else", "while", "for", "in", "match", "with", "asm",
             "let", "var", "return", "break", "continue", "defer", "recover",
             "free", "catch", "try", "not", "and", "or", "new", "func",
             "static", "struct", "enum", "union", "interface", "extern", "pub",
             "type", "test", "import", "from", "as", "const", "self", "true"}
Literals == {"int", "str", "true"}
CapitalOrCore == {"T", "i64"}
TypePathIdent == {"T", "i64", "c", "void"}
SurelyType == {"", "T", "i64", "c"}
PrefixOps == {"try", "not", "+", "-", "*", "&"}
AssignOps == {"=", "+="}
Compare == {"==", "<"}
Brackets == {"(", ")", "[", "]"}

(* prec_of, one operator or two to a level.                                 *)
PrecOf(t) ==
  CASE t = "or" -> 1 [] t = "and" -> 2 [] t \in Compare -> 3 [] t = "..<" -> 4
    [] t = "|" -> 5 [] t = "&" -> 7 [] t \in {"+", "-"} -> 9 [] t = "*" -> 10
    [] OTHER -> 0

Tok(i) == IF i \in 1 .. Len(tok) THEN tok[i] ELSE "EOF"
Peek(k) == Tok(pos + k)
Cur == Peek(0)
At(t) == Cur = t
AtName == Cur \in Names
EndedSuite == pos > 1 /\ Tok(pos - 1) = "DEDENT"

-----------------------------------------------------------------------------
(***************************************************************************)
(* Looking ahead.                                                          *)
(***************************************************************************)

(* How many of the brackets opened from i on are still open after j.        *)
Depth(i, j, open, close) ==
  Cardinality({k \in i .. j : Tok(k) = open}) -
  Cardinality({k \in i .. j : Tok(k) = close})

(* find_match: the first closing bracket that brings the depth to 0.        *)
find_match(i, open, close) ==
  LET ends == {j \in i .. Len(tok) : Tok(j) = close /\ Depth(i, j, open, close) = 0}
  IN  IF ends = {} THEN -1 ELSE Min(ends)

(* How many parentheses and brackets are open before k, from i on.          *)
Inside(i, k) == Depth(i, k - 1, "(", ")") + Depth(i, k - 1, "[", "]")

(* A parameter list holds names with types, and `=>` follows it.            *)
is_lambda_ahead ==
  LET close == find_match(pos, "(", ")")
      outer == {k \in pos + 1 .. close - 1 : Inside(pos + 1, k) <= 0}
      plain == {k \in outer : Tok(k) \notin Brackets}
  IN  /\ At("(") /\ close > 0 /\ Tok(close + 1) = "=>"
      /\ \A k \in plain : Tok(k) \in Names \cup {",", ":", "*", "?", "!", "->", ".", "func", "const"}
      /\ \A k \in outer : Tok(k) = "(" =>
           \E j \in plain : j < k /\ Tok(j) = ":" /\ plain \cap (j + 1 .. k - 1) = {}

(* Something between the brackets that no type holds.                       *)
bracket_holds_expression(open) ==
  LET close == find_match(open, "[", "]") IN
  \E k \in open + 1 .. close - 1 :
    /\ Inside(open + 1, k) <= 0
    /\ \/ Tok(k) \in {"+", "-", "<", "==", "|", "and", "or", "not", "str", "..", "..<"}
       \/ Tok(k) = "int" /\ k > open + 1
       \/ Tok(k) = "*" /\ Tok(k + 1) \in Names \cup {"int", "("}
       \/ /\ Tok(k) = "." /\ Tok(k + 1) \in Names \ {"T"}
          /\ k > open + 1 /\ Tok(k - 1) # "c"

(* A type word after any opening parentheses, and a comma at its depth, no  *)
(* further away than the scan looks.                                        *)
TupleWindow == 64
tuple_type_at(i) ==
  LET start == Min({k \in i .. Len(tok) + 1 : Tok(k) # "("})
      commas == {k \in start + 1 .. Len(tok) : Tok(k) = "," /\ k < start + TupleWindow
                   /\ \A j \in start + 1 .. k : Inside(start + 1, j + 1) >= 0 /\ Tok(j) # "NL"
                   /\ Inside(start + 1, k) = 0}
  IN  Tok(start) \in TypePathIdent /\ commas # {}

(* scan_layout_imports: `from memory import` anywhere among the tokens.     *)
layout_imports ==
  \E i, j \in 1 .. Len(tok) :
    /\ Tok(i) = "from" /\ Tok(i + 1) = "memory" /\ Tok(i + 2) = "import"
    /\ j >= i + 3 /\ (j - i) % 2 = 1 /\ Tok(j) = "size_of"
    /\ \A k \in i + 3 .. j - 1 : IF (k - i) % 2 = 1 THEN Tok(k) \in Names ELSE Tok(k) = ","

at_type_builtin(i, qualified) ==
  Tok(i) = "size_of" /\ (qualified \/ layout_imports) /\ Tok(i + 1) = "("
TypeBuiltinAt(i) ==
  \/ at_type_builtin(i, FALSE)
  \/ Tok(i) = "memory" /\ Tok(i + 1) = "." /\ at_type_builtin(i + 2, TRUE)

(* A `[` after a type: of an array or a span, or of type arguments.         *)
is_array_suffix_ahead ==
  /\ At("[")
  /\ \/ Peek(1) = "]"
     \/ bracket_holds_expression(pos)
     \/ Peek(1) = "(" /\ ~tuple_type_at(pos + 2)
     \/ Peek(1) \in {"int", "self"}
     \/ /\ Peek(1) \in Names
        /\ \/ TypeBuiltinAt(pos + 1)
           \/ Peek(1) \notin TypePathIdent /\ ~(Peek(2) = "." /\ Peek(3) = "T")

(* A `[` after a value: type arguments of a call, or an index.              *)
is_generic_call_ahead ==
  LET close == find_match(pos, "[", "]") IN
  /\ At("[") /\ close > 0 /\ Tok(close + 1) \in {"(", "."}
  /\ ~bracket_holds_expression(pos)
  /\ \/ Peek(1) = "func"
     \/ Peek(1) = "(" /\ (Peek(2) = "func" \/ tuple_type_at(pos + 2))
     \/ Peek(1) \in CapitalOrCore \cup {"void"}
     \/ Peek(1) \in Names /\ Peek(2) = "." /\ Peek(3) \in Names
        /\ (Peek(3) = "T" \/ Peek(1) = "c")

(* The suffixes of a type, from i on: where they end, -1 when a bracket does *)
(* not close, and whether one of them is a star.                            *)
type_suffixes(from) ==
  LET suffixes[i \in 1 .. Len(tok) + 5] ==
        LET close == find_match(i, "[", "]") IN
        CASE Tok(i) \in {"*", "?", "!"} ->
               [suffixes[i + 1] EXCEPT !.stars = @ \/ Tok(i) = "*"]
          [] Tok(i) = "[" /\ close > 0 -> suffixes[close + 1]
          [] OTHER -> [end |-> IF Tok(i) = "[" THEN -1 ELSE i, stars |-> FALSE]
  IN  suffixes[from]

(* The type that a cast's parentheses would hold; its end is -1 when it     *)
(* cannot be one.                                                           *)
cast_shape(from) ==
  LET no == [end |-> -1, name |-> "", stars |-> FALSE]
      With(name, i) ==
        LET s == type_suffixes(i) IN [end |-> s.end, name |-> name, stars |-> s.stars]
      shape[i \in 1 .. Len(tok) + 3, depth \in 0 .. MaxParens] ==
        LET start == Min({k \in (IF Tok(i) = "@" THEN i + 1 ELSE i) .. Len(tok) + 2 : Tok(k) # "const"})
            inner == shape[start + 1, depth + 1]
            dotted == Tok(start + 1) = "." /\ Tok(start + 2) \in Names
        IN  IF Tok(start) \in Names
            THEN With(Tok(start), IF dotted THEN start + 3 ELSE start + 1)
            ELSE IF Tok(start) # "(" \/ depth >= MaxParens THEN no
            ELSE IF inner.end < 0 \/ Tok(inner.end) # ")"
                    \/ (~inner.stars /\ inner.name \notin SurelyType) THEN no
            ELSE With("", inner.end + 1)
  IN  shape[from, 0]

is_scalar_cast_ahead ==
  LET shape == cast_shape(pos + 1)
      close == find_match(pos, "(", ")")
  IN  /\ At("(")
      /\ IF Peek(1) = "func"
         THEN Tok(close + 1) \in Names \cup {"(", "&", "*", "self", "try"} /\ close > 0
         ELSE /\ shape.end > 0 /\ Tok(shape.end) = ")"
              /\ \/ Tok(shape.end + 1) \in Names \cup Literals \cup {"self", "try"}
                 \/ /\ shape.stars \/ shape.name \in SurelyType
                    /\ Tok(shape.end + 1) \in {"(", "-", "*", "&"}
CastEnd == IF Peek(1) = "func" THEN find_match(pos, "(", ")") ELSE cast_shape(pos + 1).end

-----------------------------------------------------------------------------
(***************************************************************************)
(* The steps a production is made of.                                      *)
(***************************************************************************)
Do(p) == <<"do", p, "">>                     (* call a production           *)
DoWith(p, a) == <<"do", p, a>>
One(S) == <<"one", S>>                       (* take one of S, or complain  *)
E(t) == One({t})                             (* expect                      *)
Name == One(Names)
Take == <<"take">>
Opt(S, steps) == <<"opt", S, steps>>         (* eat, and what follows it    *)
If(S, yes, no) == <<"if", S, yes, no>>       (* look at the next token      *)
List(close, item) == <<"list", close, item>> (* items, commas between       *)
Fail == <<"fail">>
Enter == <<"enter">>                         (* nest++                      *)
Leave == <<"leave">>                         (* nest--                      *)
Node(k) == <<"node", k>>                     (* the node made: its kind     *)
Binary(lo, op) == <<"binary", lo, op>>       (* a binary node, made         *)
Newline == <<"newline">>                     (* expect_stmt_newline         *)
Skip == <<"skip">>                           (* skip_docs                   *)
Sync == <<"sync">>                           (* sync_line                   *)
Progress == <<"progress", pos>>              (* take one if none was taken  *)
Landed(p) == <<"landed", p>>                 (* where a lookahead pointed   *)
Declare(k) == <<"declare", k>>               (* the name ahead is a type's   *)

Names1 == Names \cup {"_"}
LineEnd == {"NL", "DEDENT", "EOF"}
Closes == {")", ",", "]"}

name_list(S) == IF Cur \in S THEN <<Take, Opt({","}, <<DoWith("name_list", S)>>)>> ELSE <<Fail>>

(* Mutant: the end of the file closes a block.                              *)
body_open_ended(item) ==
  IF Cur \in {"DEDENT", "EOF"} THEN <<Opt({"DEDENT"}, <<>>)>> ELSE <<Skip, DoWith("body_item", item)>>
(* Mutant: a member that read nothing is tried again.                       *)
body_item_again(item) ==
  IF At("DEDENT") \/ (At("EOF") /\ item = "parse_statement") THEN <<E("DEDENT")>>
  ELSE <<Do(item), DoWith("body", item)>>

(* A block's members; each must make progress, unless it makes its own.     *)
body(item) ==
  IF Cur \in {"DEDENT", "EOF"} THEN <<E("DEDENT")>> ELSE <<Skip, DoWith("body_item", item)>>
body_item(item) ==
  IF At("DEDENT") \/ (At("EOF") /\ item = "parse_statement") THEN <<E("DEDENT")>>
  ELSE <<Do(item)>> \o (IF item \in {"enum_member", "union_member"} THEN <<>> ELSE <<Progress>>)
       \o <<DoWith("body", item)>>
Block(item) == <<E("NL"), E("INDENT"), DoWith("body", item)>>

-----------------------------------------------------------------------------
(***************************************************************************)
(* Statements.                                                             *)
(***************************************************************************)
Compound == {"if", "while", "for", "match", "with", "asm"}
Suite == <<E(":"), Do("parse_suite")>>

parse_suite ==
  IF At("NL") THEN <<Take, E("INDENT"), DoWith("body", "parse_statement")>>
  ELSE IF Cur \in Compound THEN <<Fail, Do("parse_statement")>>
  ELSE <<Do("parse_simple_stmt")>>

parse_statement ==
  CASE At("if") -> <<Do("parse_if")>>
    [] At("while") -> <<Do("parse_while")>>
    [] At("for") -> <<Do("parse_for")>>
    [] At("match") -> <<DoWith("parse_match", FALSE)>>
    [] At("with") -> <<Do("parse_with")>>
    [] At("asm") -> <<Do("parse_asm")>>
    [] AtName /\ Peek(1) = ":" /\ Peek(2) = "while" -> <<Take, Take, Do("parse_while")>>
    [] AtName /\ Peek(1) = ":" /\ Peek(2) = "for" -> <<Take, Take, Do("parse_for")>>
    [] OTHER -> <<Do("parse_simple_stmt")>>

(* What the statement's newline depends on is the pointer, not the place.   *)
parse_free == <<Take, E("("), Do("parse_expression"), Do("free_rest")>>
free_rest == <<E(")"), Opt({"in"}, <<Do("parse_else_expr")>>), Node(last)>>

Catch == <<Opt(Names, <<>>)>> \o Suite

parse_simple_stmt ==
  CASE At("spawn") /\ Peek(1) \in Names -> <<Fail, Sync>>
    [] Cur \in {"let", "var"} -> <<Do("parse_binding")>>
    [] At("return") ->
         <<Take, Node("other"), If(LineEnd, <<>>, <<Do("parse_expression")>>), Newline>>
    [] Cur \in {"break", "continue"} -> <<Take, Opt(Names, <<>>), E("NL")>>
    [] At("defer") ->
         <<Take, If({":"}, Suite,
            <<If({"free"}, <<Do("parse_free"), Node("other"), Do("defer_rest")>>,
                           <<Do("parse_unary"), DoWith("assign_or_finish", <<TRUE, pos + 1>>)>>)>>)>>
    [] At("recover") -> <<Take, Do("parse_expression"), Newline>>
    [] At("free") -> <<Do("parse_free"), Newline>>
    [] OTHER -> <<Do("parse_unary"), DoWith("assign_or_finish", <<FALSE, pos>>)>>

(* `place = value`, `_ = value` among them, or the rest of an expression.   *)
assign_or_finish(d) ==
  IF Cur \in AssignOps THEN <<Take, Do("parse_expression"), Newline>>
  ELSE <<DoWith("finish_expression", d[2])>> \o (IF d[1] THEN <<Do("defer_rest")>> ELSE <<Newline>>)

defer_rest ==
  IF last = "catch" THEN <<>> ELSE <<If({"catch"}, <<Take>> \o Catch, <<E("NL")>>)>>

parse_binding ==
  <<Take,
    If({"("}, <<Take, DoWith("name_list", Names1), E(")")>>, <<Name>>),
    Opt({":"}, <<Do("parse_type")>>),
    Node("other"),
    If({"="}, <<Take, IF At("var") THEN If({"---"}, <<Take>>, <<Do("parse_expression")>>)
                                   ELSE Do("parse_expression")>>,
              IF At("let") THEN <<Fail>> ELSE <<>>),
    Newline>>

parse_condition ==
  IF At("let") THEN <<Take, Name, E("="), Do("parse_expression")>> ELSE <<Do("parse_expression")>>

parse_if == <<Take, Do("parse_condition")>> \o Suite \o <<Do("if_rest")>>
if_rest ==
  CASE At("elif") -> <<Take, Do("parse_condition")>> \o Suite \o <<Do("if_rest")>>
    [] At("else") -> <<Take>> \o Suite
    [] OTHER -> <<>>

parse_while == <<Take, Do("parse_condition")>> \o Suite

parse_for ==
  <<Take,
    If({"("}, <<Take, Opt(Names, <<>>), E(","), DoWith("name_list", Names), E(")")>>,
              <<One(Names1), Opt({":"}, <<Do("parse_type")>>)>>),
    E("in"), Opt({"&"}, <<>>), Do("parse_expression")>> \o Suite

parse_with == <<Take, Do("parse_expression")>> \o Suite

parse_match(as_expr) ==
  <<Take, Do("parse_expression"), E(":")>>
  \o Block(IF as_expr THEN "expr_arm" ELSE "stmt_arm") \o <<Node("suite")>>
Patterns == <<List("", <<Do("parse_pattern")>>), Opt({"if"}, <<Do("parse_expression")>>)>>
stmt_arm == Patterns \o Suite
expr_arm == Patterns \o <<E("=>"), Do("parse_expression"), E("NL")>>

parse_pattern ==
  CASE At("_") -> <<Take>>
    [] At(".") ->
         <<Take, One(Names \cup Keywords),
           Opt({"("}, <<If({")"}, <<>>, <<DoWith("name_list", Names1)>>), E(")")>>)>>
    [] OTHER -> <<Opt({"-"}, <<>>), Do("pattern_rest")>>
pattern_rest ==
  IF Cur \in Literals THEN <<Take, Opt({"..<"}, <<Take>>)>>
  ELSE IF AtName THEN <<Take>> ELSE <<Fail>>

-----------------------------------------------------------------------------
(***************************************************************************)
(* Expressions.                                                            *)
(***************************************************************************)
catch_rest ==
  IF ~EndedSuite /\ At("catch") THEN <<Take>> \o Catch \o <<Node("catch")>> ELSE <<>>

parse_expression ==
  IF nest >= MaxNest THEN <<Fail, Node("name")>>
  ELSE <<Enter, Do("parse_else_expr"), Do("catch_rest"), Leave>>

finish_expression(start) ==
  <<DoWith("parse_binary_rest", [min |-> 1, cmp |-> FALSE, range |-> FALSE, chain |-> 0, lo |-> start]),
    Do("parse_conditional_rest"), Do("parse_else_rest"), Do("catch_rest")>>

(* Mutant: the level of a `try` is not closed.                              *)
parse_else_expr_open ==
  IF At("try")
  THEN <<Take>> \o (IF nest >= MaxNest THEN <<Fail>> ELSE <<Enter, Do("parse_else_expr")>>)
       \o <<Node("other")>>
  ELSE <<Do("parse_conditional"), Do("parse_else_rest")>>

parse_else_expr ==
  IF At("try")
  THEN <<Take>> \o (IF nest >= MaxNest THEN <<Fail>> ELSE <<Enter, Do("parse_else_expr"), Leave>>)
       \o <<Node("other")>>
  ELSE <<Do("parse_conditional"), Do("parse_else_rest")>>

parse_else_rest ==
  IF EndedSuite \/ ~At("else") THEN <<>>
  ELSE <<Take, Do("else_arm"), Node("other")>>
else_arm ==
  CASE At("return") -> <<Take, If(LineEnd \cup Closes, <<>>, <<Do("parse_else_expr")>>)>>
    [] Cur \in {"break", "continue"} -> <<Take, Opt(Names, <<>>)>>
    [] OTHER -> <<Do("parse_else_expr")>>

parse_conditional == <<DoWith("parse_binary", 1), Do("parse_conditional_rest")>>
parse_conditional_rest ==
  IF EndedSuite \/ ~At("if") THEN <<>>
  ELSE <<Take, DoWith("parse_binary", 1), E("else"), Do("parse_conditional"), Node("other")>>

parse_binary(min) ==
  <<Do("parse_unary"),
    DoWith("parse_binary_rest", [min |-> min, cmp |-> FALSE, range |-> FALSE, chain |-> 0, lo |-> pos])>>

(* Mutant: operators of one level nest to the right.                        *)
parse_binary_rest_right(b) ==
  LET prec == PrecOf(Cur) IN
  IF EndedSuite \/ prec < b.min \/ prec = 0 THEN <<>>
  ELSE <<Take, DoWith("parse_binary", prec), Binary(b.lo, pos), DoWith("parse_binary_rest", b)>>

(* One turn of the loop: b is what the loop keeps, and where its first      *)
(* operand starts.                                                          *)
parse_binary_rest(b) ==
  LET prec == PrecOf(Cur)
      comparing == Cur \in Compare
      chained == (comparing /\ b.cmp) \/ (At("..<") /\ b.range)
      ambiguous == comparing /\ last = "not"
  IN  IF EndedSuite \/ prec < b.min \/ prec = 0 THEN <<>>
      ELSE IF nest + b.chain + 1 > MaxChain THEN <<Fail>>
      ELSE (IF chained \/ ambiguous THEN <<Fail>> ELSE <<>>)
           \o <<Take, DoWith("parse_binary", prec + 1), Binary(b.lo, pos),
                DoWith("parse_binary_rest",
                  [b EXCEPT !.chain = @ + 1, !.cmp = @ \/ comparing, !.range = @ \/ At("..<")])>>

parse_unary ==
  IF nest >= MaxNest THEN <<Fail, Node("other")>>
  ELSE <<Enter>>
       \o (IF Cur \in PrefixOps
           THEN <<Take, Do("parse_unary"), Node(IF At("not") THEN "not" ELSE "other")>>
           ELSE IF is_scalar_cast_ahead
           THEN <<Take, Do("parse_type"), E(")"), Landed(CastEnd + 1), Do("parse_unary"), Node("other")>>
           ELSE <<Do("parse_postfix")>>)
       \o <<Leave>>

parse_postfix == <<Do("parse_primary"), DoWith("postfix_rest", 0)>>
postfix_rest(chain) ==
  LET again == DoWith("postfix_rest", chain + 1)
      standard == /\ At(".") /\ Peek(1) \in Names /\ Peek(2) = "("
                  /\ \/ last = "name" /\ Tok(pos - 1) = "memory" /\ Peek(1) = "allocate"
                     \/ Peek(1) = "hash" /\ Peek(3) = ")"
  IN  CASE EndedSuite -> <<>>
        [] ~EndedSuite /\ nest + chain > MaxChain -> <<Fail>>
        [] OTHER ->
           CASE standard -> <<Take, Take, Do("parse_arg_list"), Node("other"), again>>
             [] At(".") /\ ~standard ->
                  <<Take, One(Names \cup Keywords \cup {"int"}),
                    Node(IF last = "name" THEN "member" ELSE "other"), again>>
             [] At("(") -> <<Do("parse_arg_list"), Node("other"), again>>
             [] At("[") -> <<Do("bracket"), Node("other"), again>>
             [] OTHER -> <<>>

(* `[` after a value: type arguments, a span's constructor, or an index.    *)
bracket ==
  IF is_generic_call_ahead
  THEN <<Do("parse_type_args"), Landed(find_match(pos, "[", "]") + 1), If({"("}, <<Do("parse_arg_list")>>, <<>>)>>
  ELSE IF Peek(1) = "]" /\ Peek(2) = "("
  THEN (IF last \in {"name", "member"} THEN <<>> ELSE <<Fail>>) \o <<Take, Take, Do("parse_arg_list")>>
  ELSE <<Take, Do("parse_subscript")>>

parse_subscript ==
  CASE At("..<") -> <<Take, Do("parse_expression"), E("]")>>
    [] At("..") -> <<Take, E("]")>>
    [] OTHER -> <<Do("parse_expression"), Do("subscript_rest")>>
subscript_rest ==
  (IF last = "range" THEN <<>>
   ELSE <<If({"..<"}, <<Take, Do("parse_expression")>>, <<Opt({".."}, <<>>)>>)>>) \o <<E("]")>>

Within(open, close, item) == <<E(open), If({close}, <<>>, <<List(close, item)>>), E(close)>>

parse_arg_list == Within("(", ")", <<Do("argument")>>)
argument == (IF AtName /\ Peek(1) = "=" THEN <<Take, Take>> ELSE <<>>) \o <<Do("parse_expression")>>

parse_type_args == Within("[", "]", <<Do("parse_type")>>)

parse_type_builtin ==
  (IF At("memory") THEN <<Take, Take>> ELSE <<>>)
  \o <<Take, E("("), If({")"}, <<>>, <<Do("measured"), Opt({","}, <<One(Names \cup Keywords)>>)>>), E(")"),
       Node("other")>>
measured ==
  LET next == IF Peek(1) = "." THEN Peek(3) ELSE Peek(1) IN
  IF Cur \in {"const", "func", "@", "("} \/ (AtName /\ next \in {"*", "[", "?", "!"})
  THEN <<Do("parse_type")>> ELSE <<Do("parse_expression")>>

parse_primary ==
  CASE TypeBuiltinAt(pos) -> <<Do("parse_type_builtin")>>
    [] At("f-start") -> <<Take, Do("format_part"), Node("other")>>
    [] Cur \in Literals -> <<Take, Node("other")>>
    [] Cur \in Names1 /\ ~TypeBuiltinAt(pos) -> <<Take, Node("name")>>
    [] At("self") -> <<Take, Node("other")>>
    [] At(".") -> <<Take, One(Names \cup Keywords), If({"("}, <<Do("parse_arg_list")>>, <<>>), Node("other")>>
    [] At("(") -> IF is_lambda_ahead THEN <<Do("parse_lambda")>> ELSE <<Do("parse_group_or_tuple")>>
    [] At("[") -> Within("[", "]", <<Do("parse_expression")>>) \o <<Node("other")>>
    [] At("match") -> <<DoWith("parse_match", TRUE)>>
    [] At("new") -> <<Do("parse_new")>>
    [] OTHER -> <<Fail, Node("name")>>

(* parse_formatted, a part at a time.                                       *)
format_part ==
  CASE At("f-text") -> <<Take, Do("format_part")>>
    [] At("{") -> <<Take, Do("parse_expression"), E("}"), Do("format_part")>>
    [] Cur \in {"f-end", "EOF"} -> <<E("f-end")>>
    [] OTHER -> <<Fail, E("f-end")>>

parse_lambda ==
  <<E("("), If({")"}, <<>>, <<Do("lambda_param")>>), E(")"),
    Landed(find_match(pos, "(", ")") + 1), E("=>"), Do("parse_expression"), Node("other")>>
lambda_param ==
  IF AtName THEN <<Take, Opt({":"}, <<Do("parse_type")>>), Opt({","}, <<If({")"}, <<>>, <<Do("lambda_param")>>)>>)>>
  ELSE <<Fail>>

parse_group_or_tuple ==
  <<Take,
    If({")"}, <<Take>>,
       <<Do("parse_expression"),
         Opt({","}, <<If({")"}, <<Fail>>, <<>>), List(")", <<Do("parse_expression")>>)>>), E(")")>>),
    Node("other")>>

parse_new ==
  <<Take, Do("parse_type"),
    If({"("}, <<Do("parse_arg_list")>>,
      <<If({"."}, <<Take, Opt(Names, <<>>), If({"("}, <<Do("parse_arg_list")>>, <<>>)>>, <<Opt({"---"}, <<>>)>>)>>),
    Opt({"in"}, <<Do("parse_else_expr")>>), Node("other")>>

-----------------------------------------------------------------------------
(***************************************************************************)
(* Types.                                                                  *)
(***************************************************************************)
parse_type ==
  <<Opt({"@"}, <<>>), DoWith("qualifiers", FALSE), Opt({"?"}, <<>>), Opt({"!"}, <<>>)>>
qualifiers(const) ==
  IF At("const") THEN <<Take, DoWith("qualifiers", TRUE)>>
  ELSE <<Do("parse_primary_type"), DoWith("type_suffix", [const |-> const, any |-> FALSE])>>
(* The stars and brackets after a type.                                     *)
type_suffix(q) ==
  LET again == DoWith("type_suffix", [q EXCEPT !.any = TRUE]) IN
  CASE At("*") -> <<Take, again>>
    [] is_array_suffix_ahead \/ (q.any /\ At("[")) ->
         <<Take, If({"]"}, <<Take>>, <<Do("parse_expression"), E("]")>>), again>>
    [] OTHER -> IF q.const /\ ~q.any THEN <<Fail>> ELSE <<>>

parse_primary_type ==
  CASE At("func") -> <<Take>> \o Within("(", ")", <<Do("parse_type")>>) \o <<E("->"), Do("parse_type")>>
    [] At("void") -> <<Take>>
    [] At("(") -> <<Take, Do("parse_type"), Opt({","}, <<List(")", <<Do("parse_type")>>)>>), E(")")>>
    [] AtName /\ Cur # "void" -> <<Take, DoWith("type_path", <<Cur, 1>>)>>
    [] OTHER -> <<Fail>>
(* The dotted path of a type named head: an enum case does not continue it. *)
type_path(h) ==
  IF /\ At(".") /\ Peek(1) \in Names
     /\ \/ Peek(1) \in TypePathIdent \/ h[1] = "c"
        \/ h[2] = 1 /\ h[1] \notin TypePathIdent /\ Peek(2) # "("
  THEN <<Take, Take, DoWith("type_path", <<h[1], h[2] + 1>>)>>
  ELSE IF At("[") /\ ~is_array_suffix_ahead
  THEN <<Do("parse_type_args"), Landed(find_match(pos, "[", "]") + 1)>> ELSE <<>>

-----------------------------------------------------------------------------
(***************************************************************************)
(* Declarations.                                                           *)
(***************************************************************************)
parse_module == <<Skip, Do("module_rest")>>
module_rest ==
  CASE At("EOF") -> <<Do("merge_extensions")>>
    [] Cur \in {"import", "from"} -> <<Do("parse_import"), Do("parse_module")>>
    [] OTHER -> <<Do("parse_top"), Progress, Do("parse_module")>>

parse_extend == <<Take, Declare("extend"), Take, E(":")>> \o Block("extend_member")
extend_member == <<DoWith("parse_type_member", FALSE), Do("only_method")>>
only_method == IF last = "func" THEN <<>> ELSE <<Fail>>
merge_extensions ==
  IF \A t \in types : t[1] = "extend" => <<"type", t[2]>> \in types THEN <<>> ELSE <<Fail>>

parse_import ==
  IF At("from")
  THEN <<Take, Do("parse_module_path"), E("import"), DoWith("name_list", Names), E("NL")>>
  ELSE <<Take, Do("parse_module_path"), Opt({"as"}, <<Name>>), E("NL")>>
parse_module_path == IF AtName THEN <<Take, Opt({"."}, <<Do("parse_module_path")>>)>> ELSE <<Fail>>

(* The first token past the attribute words from i on.                      *)
past_attributes(from) ==
  LET past[i \in 1 .. Len(tok) + 4] ==
        CASE Tok(i) \in {"weak", "inline"} -> past[i + 1]
          [] Tok(i) = "section" -> past[i + 4]
          [] OTHER -> i
  IN  past[from]
weak_is_attribute == Tok(past_attributes(pos + 1)) \in {"func", "static", "var", "local"}

parse_attributes ==
  CASE Cur \in {"weak", "inline"} -> <<Take, Do("parse_attributes")>>
    [] At("section") -> <<Take, E("("), E("str"), E(")"), Do("parse_attributes")>>
    [] OTHER -> <<>>

at_local == At("local") /\ Peek(1) \in Names \cup {"var"}

parse_top ==
  CASE Cur \in {"class", "spawn"} \/ (At("weak") /\ ~weak_is_attribute) ->
         <<Fail, Take, Sync, Opt({"INDENT"}, <<DoWith("skip_block", 1)>>)>>
    [] At("test") -> <<Take, E("str")>> \o Suite
    [] At("asm") -> <<Do("parse_asm")>>
    [] At("extend") /\ Peek(1) \in Names /\ Peek(2) = ":" -> <<Do("parse_extend")>>
    [] At("assert") /\ Peek(1) = "(" -> <<Take, Do("parse_arg_list"), E("NL")>>
    [] At("export") /\ Peek(1) \in Names \cup {"func"} -> <<Take, Do("parse_func")>>
    [] OTHER -> <<Opt({"pub"}, <<>>), Do("parse_attributes"), Do("top_rest")>>
(* Mutant: a line that is no declaration is passed over.                    *)
top_rest_silent ==
  IF Cur \in {"func", "static"} THEN <<Do("parse_func")>> ELSE <<Sync>>
top_rest ==
  CASE at_local \/ At("var") -> <<Do("parse_global")>>
    [] At("let") -> <<Do("parse_const")>>
    [] At("type") -> <<Take, Name, E("="), Do("parse_type"), E("NL")>>
    [] At("extern") -> <<Do("parse_extern")>>
    [] Cur \in {"func", "static"} -> <<Do("parse_func")>>
    [] Cur \in {"struct", "packed", "align"} -> <<DoWith("parse_struct", FALSE)>>
    [] At("enum") -> <<Do("parse_enum")>>
    [] At("union") -> <<DoWith("parse_union", "type")>>
    [] At("interface") -> <<Do("parse_interface")>>
    [] At("handle") /\ Peek(1) \in Names /\ Peek(2) = ":" -> <<Do("parse_handle")>>
    [] OTHER -> <<Fail, Sync>>
(* A block of full Luce, skipped with the blocks inside it.                 *)
skip_block(depth) ==
  CASE depth = 0 \/ At("EOF") -> <<>>
    [] depth > 0 /\ At("INDENT") -> <<Take, DoWith("skip_block", depth + 1)>>
    [] depth > 0 /\ At("DEDENT") -> <<Take, DoWith("skip_block", depth - 1)>>
    [] OTHER -> <<Take, DoWith("skip_block", depth)>>

parse_handle ==
  <<Take, Take, E(":"), E("NL"), E("INDENT"), If({"destroy"}, <<Take, Name>>, <<Fail>>), E("NL"),
    Do("handle_end")>>
handle_end == IF At("NL") THEN <<Take, Do("handle_end")>> ELSE <<E("DEDENT")>>

parse_const ==
  <<Take, Name, Opt({":"}, <<Do("parse_type")>>), E("="), Do("parse_expression"), Newline>>

parse_global ==
  (IF at_local THEN <<Take>> ELSE <<>>)
  \o <<Do("parse_attributes"), E("var"), Name, E(":"), Do("parse_type"),
       If({"="}, <<Take, If({"---"}, <<Take, E("NL")>>, <<Do("parse_expression"), Newline>>)>>, <<E("NL")>>)>>

Result == Opt({"->"}, <<If({"!"}, <<Take>>, <<Do("parse_type")>>)>>)
parse_func ==
  <<Do("parse_attributes"), Opt({"static"}, <<>>), E("func"), Name, Do("generics"),
    DoWith("parse_params", FALSE), Result>> \o Suite \o <<Node("func")>>
generics == IF At("[") /\ ~is_array_suffix_ahead THEN <<Do("parse_generic_params")>> ELSE <<>>

(* A list whose items start with a name and end the list without one.       *)
Params(open, close, item) == <<E(open), If({close}, <<>>, <<item>>), E(close)>>
Another(close, item) == Opt({","}, <<If({close}, <<>>, <<item>>)>>)

parse_generic_params == Params("[", "]", Do("generic_param"))
generic_param ==
  IF AtName THEN <<Take, Opt({":"}, <<Do("bounds")>>), Another("]", Do("generic_param"))>> ELSE <<Fail>>
bounds == <<Do("parse_type"), Opt({"&"}, <<Do("bounds")>>)>>

parse_params(extern_form) == Params("(", ")", DoWith("parameter", extern_form))
parameter(extern_form) ==
  CASE At("...") -> <<Take>> \o (IF extern_form THEN <<>> ELSE <<Fail>>)
    [] extern_form /\ At("out") -> <<Take, DoWith("named_parameter", TRUE)>>
    [] OTHER -> <<DoWith("named_parameter", extern_form)>>
named_parameter(extern_form) ==
  IF AtName \/ At("self")
  THEN <<Take, E(":"), Opt({"noalias"}, <<>>), Do("parse_type"), Opt({"="}, <<Do("parse_expression")>>),
         Another(")", DoWith("parameter", extern_form))>>
  ELSE <<Fail>>

Align == Opt({"align"}, <<E("("), Do("parse_expression"), E(")")>>)
parse_struct(is_extern) ==
  <<IF At("packed") THEN Take ELSE Align, E("struct"), Declare(IF is_extern THEN "extern" ELSE "type"), Name>>
  \o (IF is_extern THEN <<E(":")>> ELSE <<Do("generics"), Do("parse_conformance")>>)
  \o Block(IF is_extern THEN "extern_member" ELSE "struct_member")
parse_conformance == <<E(":"), If({"NL"}, <<>>, <<List("", <<Do("parse_type")>>), E(":")>>)>>

parse_type_member(is_extern) ==
  <<Opt({"pub"}, <<>>), Do("export_member"), Do("weak_member"), Align, DoWith("member", is_extern)>>
export_member == IF At("export") /\ Peek(1) # ":" THEN <<Take>> ELSE <<>>
weak_member == IF At("weak") /\ Peek(1) \in {"var", "let"} THEN <<Fail, Take>> ELSE <<>>
member(is_extern) ==
  CASE Cur \in {"let", "var"} \/ (is_extern /\ AtName) ->
         (IF AtName THEN <<>> ELSE <<Take>>)
         \o <<Name, E(":"), Do("parse_type"), Opt({"="}, <<Do("parse_expression")>>), E("NL"), Node("field")>>
    [] ~(is_extern /\ AtName) /\ Cur \in {"func", "static", "inline"} -> <<Do("parse_func")>>
    [] OTHER -> <<Fail, Sync, Node("field")>>

parse_enum ==
  <<Take, Declare("type"), Name, Do("generics"), Opt({"as"}, <<Do("parse_type")>>), Do("parse_conformance")>>
  \o Block("enum_member")
enum_member == <<Opt({"pub"}, <<>>), Do("enum_case")>>
enum_case ==
  CASE At("static") \/ (At("func") /\ Peek(1) \in Names) -> <<Do("parse_func")>>
    [] AtName -> <<Take, If({"("}, <<DoWith("parse_params", FALSE)>>, <<Opt({"="}, <<Do("parse_expression")>>)>>), E("NL")>>
    [] OTHER -> <<Fail, Sync>>

parse_union(kind) == <<Take, Declare(kind), Name, E(":")>> \o Block("union_member")
union_member ==
  <<Opt({"pub"}, <<>>)>>
  \o (IF Cur \in {"func", "static"} \/ (At("pub") /\ Peek(1) \notin Names)
      THEN <<Do("parse_func")>> ELSE <<Do("union_field")>>)
union_field == IF AtName THEN <<Take, E(":"), Do("parse_type"), E("NL")>> ELSE <<Fail, Sync>>

parse_interface == <<Take, Name, Do("generics"), E(":")>> \o Block("interface_member")
interface_member == <<E("func"), Name, Do("generics"), DoWith("parse_params", FALSE), Result, E("NL")>>

parse_extern == <<Take, Opt({"blocking"}, <<>>), Do("extern_rest")>>
extern_rest ==
  CASE At("type") -> <<Take, Name, Opt({"="}, <<Do("parse_type")>>), E("NL")>>
    [] At("var") -> <<Take, Name, E(":"), Do("parse_type"), E("NL")>>
    [] Cur \in {"struct", "packed", "align"} -> <<DoWith("parse_struct", TRUE)>>
    [] At("union") -> <<DoWith("parse_union", "extern")>>
    [] OTHER -> <<Opt({"blocking"}, <<>>), E("func"), Name, Opt({"as"}, <<E("str")>>),
                  DoWith("parse_params", TRUE), Result, E("NL")>>

parse_asm ==
  <<Take, Name, Opt({"("}, <<If({")"}, <<>>, <<Do("asm_operand")>>), E(")")>>), E(":"), E("NL"), E("INDENT"),
    Do("asm_line")>>
asm_operand ==
  IF AtName \/ At("in")
  THEN <<Take,
         Opt({"("}, <<Opt(Names \cup {"str"}, <<>>), E(")"), If({")", ","}, <<>>, <<Do("parse_expression")>>)>>),
         Opt({","}, <<Do("asm_operand")>>)>>
  ELSE <<Fail>>
asm_line == IF Cur \in {"raw", "NL"} THEN <<Take, Do("asm_line")>> ELSE <<E("DEDENT")>>

-----------------------------------------------------------------------------
(* What a production's call stands for.                                     *)
Production(p, a) ==
  CASE p = "argument" -> argument [] p = "asm_line" -> asm_line [] p = "asm_operand" -> asm_operand
    [] p = "assign_or_finish" -> assign_or_finish(a) [] p = "body" -> body(a)
    [] p = "body_item" -> body_item(a) [] p = "bounds" -> bounds [] p = "bracket" -> bracket
    [] p = "catch_rest" -> catch_rest [] p = "defer_rest" -> defer_rest [] p = "else_arm" -> else_arm
    [] p = "enum_case" -> enum_case [] p = "enum_member" -> enum_member
    [] p = "export_member" -> export_member [] p = "expr_arm" -> expr_arm
    [] p = "extend_member" -> extend_member [] p = "extern_rest" -> extern_rest
    [] p = "finish_expression" -> finish_expression(a) [] p = "format_part" -> format_part
    [] p = "free_rest" -> free_rest [] p = "generic_param" -> generic_param
    [] p = "generics" -> generics [] p = "handle_end" -> handle_end [] p = "if_rest" -> if_rest
    [] p = "interface_member" -> interface_member [] p = "lambda_param" -> lambda_param
    [] p = "measured" -> measured [] p = "member" -> member(a)
    [] p = "merge_extensions" -> merge_extensions [] p = "module_rest" -> module_rest
    [] p = "name_list" -> name_list(a) [] p = "named_parameter" -> named_parameter(a)
    [] p = "only_method" -> only_method [] p = "parameter" -> parameter(a)
    [] p = "parse_arg_list" -> parse_arg_list [] p = "parse_asm" -> parse_asm
    [] p = "parse_attributes" -> parse_attributes [] p = "parse_binary" -> parse_binary(a)
    [] p = "parse_binary_rest" -> parse_binary_rest(a) [] p = "parse_binding" -> parse_binding
    [] p = "parse_condition" -> parse_condition [] p = "parse_conditional" -> parse_conditional
    [] p = "parse_conditional_rest" -> parse_conditional_rest
    [] p = "parse_conformance" -> parse_conformance [] p = "parse_const" -> parse_const
    [] p = "parse_else_expr" -> parse_else_expr [] p = "parse_else_rest" -> parse_else_rest
    [] p = "parse_enum" -> parse_enum [] p = "parse_expression" -> parse_expression
    [] p = "parse_extend" -> parse_extend [] p = "parse_extern" -> parse_extern
    [] p = "parse_for" -> parse_for [] p = "parse_free" -> parse_free [] p = "parse_func" -> parse_func
    [] p = "parse_generic_params" -> parse_generic_params [] p = "parse_global" -> parse_global
    [] p = "parse_group_or_tuple" -> parse_group_or_tuple [] p = "parse_handle" -> parse_handle
    [] p = "parse_if" -> parse_if [] p = "parse_import" -> parse_import
    [] p = "parse_interface" -> parse_interface [] p = "parse_lambda" -> parse_lambda
    [] p = "parse_match" -> parse_match(a) [] p = "parse_module" -> parse_module
    [] p = "parse_module_path" -> parse_module_path [] p = "parse_new" -> parse_new
    [] p = "parse_params" -> parse_params(a) [] p = "parse_pattern" -> parse_pattern
    [] p = "parse_postfix" -> parse_postfix [] p = "parse_primary" -> parse_primary
    [] p = "parse_primary_type" -> parse_primary_type [] p = "parse_simple_stmt" -> parse_simple_stmt
    [] p = "parse_statement" -> parse_statement [] p = "parse_struct" -> parse_struct(a)
    [] p = "parse_subscript" -> parse_subscript [] p = "parse_suite" -> parse_suite
    [] p = "parse_top" -> parse_top [] p = "parse_type" -> parse_type
    [] p = "parse_type_args" -> parse_type_args [] p = "parse_type_builtin" -> parse_type_builtin
    [] p = "parse_type_member" -> parse_type_member(a) [] p = "parse_unary" -> parse_unary
    [] p = "parse_union" -> parse_union(a) [] p = "parse_while" -> parse_while
    [] p = "parse_with" -> parse_with [] p = "pattern_rest" -> pattern_rest
    [] p = "postfix_rest" -> postfix_rest(a) [] p = "qualifiers" -> qualifiers(a)
    [] p = "skip_block" -> skip_block(a) [] p = "stmt_arm" -> stmt_arm
    [] p = "subscript_rest" -> subscript_rest [] p = "top_rest" -> top_rest
    [] p = "type_path" -> type_path(a) [] p = "type_suffix" -> type_suffix(a)
    [] p = "union_field" -> union_field [] p = "union_member" -> union_member
    [] p = "weak_member" -> weak_member [] p = "struct_member" -> parse_type_member(FALSE)
    [] p = "extern_member" -> parse_type_member(TRUE)

-----------------------------------------------------------------------------
(***************************************************************************)
(* The machine: one step of the head of todo at a time.                    *)
(***************************************************************************)
Step == Head(todo)
At_(op) == todo # <<>> /\ Step[1] = op
Go(steps) == todo' = steps \o Tail(todo)
take == pos' = IF pos < Len(tok) THEN pos + 1 ELSE pos
Silent == ~failed /\ ~At("EOF")

Call ==
  /\ At_("do")
  /\ Go(Production(Step[2], Step[3]))
  /\ UNCHANGED <<tok, pos, failed, nest, last, types, nodes, astray>>

TakeOne ==
  /\ At_("take") /\ take /\ Go(<<>>)
  /\ UNCHANGED <<tok, failed, nest, last, types, nodes, astray>>

Expect ==
  /\ At_("one") /\ Go(<<>>)
  /\ IF Cur \in Step[2] THEN take /\ UNCHANGED failed ELSE failed' = TRUE /\ UNCHANGED pos
  /\ UNCHANGED <<tok, nest, last, types, nodes, astray>>

Eat ==
  /\ At_("opt")
  /\ IF Cur \in Step[2] THEN take /\ Go(Step[3]) ELSE Go(<<>>) /\ UNCHANGED pos
  /\ UNCHANGED <<tok, failed, nest, last, types, nodes, astray>>

Look ==
  /\ At_("if")
  /\ Go(IF Cur \in Step[2] THEN Step[3] ELSE Step[4])
  /\ UNCHANGED <<tok, pos, failed, nest, last, types, nodes, astray>>

(* The item, a comma, and the list again unless it closes there.            *)
Items ==
  /\ At_("list")
  /\ Go(Step[3] \o <<Opt({","}, <<If({Step[2]}, <<>>, <<Step>>)>>)>>)
  /\ UNCHANGED <<tok, pos, failed, nest, last, types, nodes, astray>>

Complain ==
  /\ At_("fail") /\ Go(<<>>) /\ failed' = TRUE
  /\ UNCHANGED <<tok, pos, nest, last, types, nodes, astray>>

Nesting ==
  /\ \/ At_("enter") /\ nest' = nest + 1
     \/ At_("leave") /\ nest' = nest - 1
  /\ Go(<<>>)
  /\ UNCHANGED <<tok, pos, failed, last, types, nodes, astray>>

Made ==
  /\ At_("node") /\ Go(<<>>) /\ last' = Step[2]
  /\ UNCHANGED <<tok, pos, failed, nest, types, nodes, astray>>

MadeBinary ==
  /\ At_("binary") /\ Go(<<>>)
  /\ last' = IF Tok(Step[3]) = "..<" THEN "range" ELSE "other"
  /\ nodes' = nodes \cup {[lo |-> Step[2], op |-> Step[3], hi |-> pos - 1]}
  /\ UNCHANGED <<tok, pos, failed, nest, types, astray>>

expect_stmt_newline ==
  /\ At_("newline")
  /\ Go(IF last \in {"catch", "suite"} \/ Cur \in Closes THEN <<>> ELSE <<E("NL")>>)
  /\ UNCHANGED <<tok, pos, failed, nest, last, types, nodes, astray>>

skip_docs ==
  /\ At_("skip")
  /\ IF Cur \in {"doc", "NL"} THEN take /\ UNCHANGED todo ELSE Go(<<>>) /\ UNCHANGED pos
  /\ UNCHANGED <<tok, failed, nest, last, types, nodes, astray>>

sync_line ==
  /\ At_("sync")
  /\ IF Cur \in LineEnd THEN Go(<<Opt({"NL"}, <<>>)>>) /\ UNCHANGED <<pos, astray>>
     ELSE take /\ UNCHANGED todo /\ astray' = (astray \/ Silent)
  /\ UNCHANGED <<tok, failed, nest, last, types, nodes>>

ForceProgress ==
  /\ At_("progress") /\ Go(<<>>)
  /\ IF pos = Step[2] THEN take /\ astray' = (astray \/ Silent) ELSE UNCHANGED <<pos, astray>>
  /\ UNCHANGED <<tok, failed, nest, last, types, nodes>>

(* Not a step of the code: it compares the cursor with what was foreseen.   *)
Foreseen ==
  /\ At_("landed") /\ Go(<<>>)
  /\ astray' = (astray \/ (~failed /\ pos # Step[2]))
  /\ UNCHANGED <<tok, pos, failed, nest, last, types, nodes>>

DeclareType ==
  /\ At_("declare") /\ Go(<<>>)
  /\ types' = types \cup (IF AtName THEN {<<Step[2], Cur>>} ELSE {})
  /\ UNCHANGED <<tok, pos, failed, nest, last, nodes, astray>>

Init ==
  /\ tok \in Texts
  /\ pos = 1 /\ todo = <<Do("parse_module")>>
  /\ failed = FALSE /\ nest = 0 /\ last = "other" /\ types = {} /\ nodes = {} /\ astray = FALSE
  /\ idle = 0

Next ==
  /\ \/ Call \/ TakeOne \/ Expect \/ Eat \/ Look \/ Items \/ Complain \/ Nesting \/ Made
     \/ MadeBinary \/ expect_stmt_newline \/ skip_docs \/ sync_line \/ ForceProgress
     \/ Foreseen \/ DeclareType
  /\ idle' = IF pos' # pos THEN 0 ELSE idle + 1

Spec == Init /\ [][Next]_vars

-----------------------------------------------------------------------------
(***************************************************************************)
(* Properties.                                                             *)
(***************************************************************************)
Done == todo = <<>>
Accepted == Done /\ ~failed

(* A module reported without a diagnostic was read whole: no token was      *)
(* skipped by the recovery of a line or of a block, and wherever the parser *)
(* decided by looking ahead (a cast, type arguments, a lambda) it stopped   *)
(* reading where the lookahead had found the end.                           *)
NothingInSilence == ~astray

(* Expressions nest no deeper than the limit, and the levels opened are the *)
(* ones closed, whatever was wrong in between, so one statement never       *)
(* spends another one's limit.                                              *)
LevelsClosed == nest \in 0 .. MaxNest /\ (Done => nest = 0)

(* In an accepted module a binary operator's left operand holds no operator *)
(* that binds less than it, and its right operand none that binds less or   *)
(* as much, at its own depth of brackets: prec_of is what the tree follows. *)
PrecedenceRespected ==
  Accepted => \A n, m \in nodes :
    LET between == IF m.op < n.op THEN m.op .. n.op ELSE n.op .. m.op
    IN  /\ n # m /\ m.lo >= n.lo /\ m.hi <= n.hi
        /\ Depth(n.lo, n.op - 1, "(", ")") = Depth(n.lo, m.op - 1, "(", ")")
        /\ Depth(n.lo, n.op - 1, "[", "]") = Depth(n.lo, m.op - 1, "[", "]")
        /\ \A k \in between : Tok(k) \notin {"=>", "in", "match", "NL"}
        => IF m.op < n.op THEN PrecOf(Tok(m.op)) >= PrecOf(Tok(n.op))
                          ELSE PrecOf(Tok(m.op)) > PrecOf(Tok(n.op))

(* The end of a range in a pattern is taken whatever token it is: no range  *)
(* ends at a bracket, or at the end of a block or of the file.              *)
RangesEnd ==
  \A k \in 1 .. Len(tok) :
    Tok(k) = "..<" => Tok(k + 1) \notin Brackets \cup {"INDENT", "DEDENT", "EOF"}

(* An accepted module's blocks and brackets pair up: what the productions   *)
(* open they close, where no range ends at a bracket.                       *)
BlocksPair ==
  Accepted /\ RangesEnd =>
  \A p \in {<<"INDENT", "DEDENT">>, <<"(", ")">>, <<"[", "]">>} :
    /\ Depth(1, Len(tok), p[1], p[2]) = 0
    /\ \A k \in 1 .. Len(tok) : Depth(1, k, p[1], p[2]) >= 0

(* Whatever the tokens, the parser comes to their end: a loop that found    *)
(* nothing to read forces its way on, so the steps between two tokens are   *)
(* bounded by the depth of the productions.                                 *)
Terminates == idle <= MaxIdle

=============================================================================
