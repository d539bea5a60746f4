----------------------------- MODULE MCProgram -----------------------------
EXTENDS Program

MCBuiltin == {<<"io">>, <<"memory">>}
MCEmbedded == {<<"paths">>, <<"files">>}

Plain(from) == [from |-> from, names |-> <<>>, alias |-> ""]
As(from, alias) == [from |-> from, names |-> <<>>, alias |-> alias]
From(from, names) == [from |-> from, names |-> names, alias |-> ""]

Decl(kind, name, pub, holds, uses) ==
  [kind |-> kind, name |-> name, pub |-> pub, holds |-> holds, uses |-> uses, home |-> <<>>]
Func(name, pub, uses) == Decl("func", name, pub, <<>>, uses)
Text(imports, decls) == [imports |-> imports, decls |-> decls, bad |-> "no"]
Broken(reason) == [imports |-> <<>>, decls |-> <<>>, bad |-> reason]
File(place) == [at |-> place, kind |-> "file"]
World(text) == [tree |-> {File(p) : p \in DOMAIN text}, text |-> text, entry |-> File(<<"main">>)]
Use(alias, name) == <<alias, name, "value">>
Address(alias, name) == <<alias, name, "address">>
Entry(uses) == Func("answer", TRUE, uses)

M == <<"main">>
A == <<"a">>
B == <<"b">>
C == <<"c">>

(* Every graph of imports over four modules, up to two imports each.        *)
Lists(others) == {<<>>} \cup {<<Plain(o)>> : o \in others}
                 \cup {<<Plain(o[1]), Plain(o[2])>> : o \in {p \in others \X others : p[1] # p[2]}}
Graphs ==
  {World(M :> Text(m, <<>>) @@ A :> Text(a, <<>>) @@ B :> Text(b, <<>>) @@ C :> Text(c, <<>>)) :
     m \in Lists({A, B, C}), a \in Lists({B, C, M}), b \in Lists({A, C}), c \in Lists({A, B})}

(* Files in src, directories of fragments, modules the compiler carries,    *)
(* files that are missing or wrong.                                         *)
Odd(there, imports) ==
  [tree |-> there, entry |-> File(M),
   text |-> M :> Text(imports, <<>>) @@ A :> Text(<<>>, <<>>) @@ <<"src", "b">> :> Text(<<Plain(A)>>, <<>>)
            @@ B :> Text(<<>>, <<>>) @@ C :> Broken("parse") @@ <<"paths">> :> Text(<<Plain(<<"files">>)>>, <<>>)
            @@ <<"files">> :> Text(<<>>, <<>>)]
OddWorlds ==
  {Odd({File(M), [at |-> A, kind |-> k]} \cup more, imports) :
     k \in {"file", "dir"},
     more \in SUBSET {File(<<"src", "b">>), File(B), File(C)},
     imports \in {<<Plain(A), Plain(B)>>, <<Plain(B), Plain(C)>>, <<Plain(<<"io">>), Plain(<<"paths">>), Plain(A)>>,
                  <<From(<<"luce_std">>, <<"files", "paths">>)>>, <<Plain(<<"luce_std", "paths">>), Plain(<<"paths">>)>>}}
  \cup {Odd({}, <<>>), [Odd({File(C)}, <<>>) EXCEPT !.entry = File(C)]}

(* Names through imports of every form, and a generic whose body uses them. *)
NameWorlds ==
  {World(M :> Text(top, <<Func("p", FALSE, <<>>), Func("q", FALSE, body), Entry(used)>>)
         @@ A :> Text(mid, <<Func("f", pub, <<>>), Decl("generic", "g", TRUE, <<>>, inner), Func("r", FALSE, <<>>)>>)
         @@ B :> Text(<<>>, <<Func("h", TRUE, <<>>), Decl("generic", "k", TRUE, <<>>, <<Use("", "z")>>),
                              Func("z", FALSE, <<>>)>>)) :
     top \in {<<Plain(A)>>, <<From(A, <<"f", "g">>)>>, <<Plain(A), As(A, "b")>>, <<Plain(A), From(A, <<"g">>)>>,
              <<Plain(A), As(B, "a")>>},
     body \in {<<>>, <<Use("", "p")>>}, used \in {<<Use("a", "g")>>, <<Use("", "g")>>, <<Use("a", "f"), Use("", "q")>>},
     mid \in {<<Plain(B)>>, <<As(B, "h")>>, <<From(B, <<"h", "k">>)>>, <<Plain(B), From(B, <<"h">>)>>, <<Plain(<<"io">>)>>},
     inner \in {<<Use("", "f")>>, <<Use("b", "h")>>, <<Use("", "h")>>, <<Use("b", "k")>>, <<Use("", "r"), Use("", "k")>>},
     pub \in BOOLEAN}

(* Records that hold, and point to, each other.                             *)
Rec(name) == <<"rec", name>>
Shapes(names) ==
  {Int64} \cup UNION {{Rec(n), <<"ptr", Rec(n)>>, <<"opt", Rec(n)>>, <<"arr", <<"opt", Rec(n)>>>>,
                       <<"tup", <<Int64, Rec(n)>>>>} : n \in names}
          \cup {<<"ptr", <<"arr", Int64>>>>, <<"fn", <<<<"ptr", Rec("R")>>, Rec("E")>>>>, Rec("E")}
TypeWorlds ==
  {World(M :> Text(<<>>, <<Decl("struct", "R", FALSE, <<r>>, <<>>), Decl(kind, "S", FALSE, <<s>>, <<>>),
                           Decl("struct", "T", FALSE, <<t[1], t[2]>>, <<>>), Decl("int_enum", "E", FALSE, <<>>, <<>>),
                           Decl("func", "answer", TRUE, <<<<"res", <<"tup", <<r, s>>>>>>, <<"fn", <<s, Int64>>>>>>, <<>>)>>)) :
     r \in Shapes({"S", "T", "R"}), s \in Shapes({"R", "T"}), kind \in {"struct"},
     t \in {<<Int64, Rec("R")>>, <<Rec("S"), Rec("R")>>, <<<<"opt", Rec("R")>>, <<"ptr", Rec("S")>>>>,
            <<Int64, <<"arr", <<"arr", Rec("S")>>>>>>}}
  \cup {World(M :> Text(<<Plain(A)>>, <<Decl("struct", "T", FALSE, <<x, Rec("G")>>, <<>>),
                                        Decl("instance", "G", FALSE, <<<<"opt", y>>, <<"ptr", Rec("G")>>>>, <<>>),
                                        Func("answer", TRUE, <<>>)>>)
              @@ A :> Text(<<>>, <<Decl("struct", "S", TRUE, <<Rec("R"), Int64>>, <<>>), Decl("struct", "R", TRUE, <<Int64>>, <<>>)>>)) :
     x \in Shapes({"R", "S"}) \ {<<"fn", <<<<"ptr", Rec("R")>>, Rec("E")>>>>, Rec("E")}, y \in {Rec("R"), Rec("S"), Int64}}

(* Constants in every order, in two modules, and addresses of what is       *)
(* above; a function that reads them.                                       *)
Global(kind, name, uses) == Decl(kind, name, TRUE, <<Int64>>, uses)
Orders(decls) == {[i \in DOMAIN decls |-> decls[p[i]]] : p \in Permutations(DOMAIN decls)}
GlobalWorlds ==
  {World(M :> Text(<<imp, From(A, <<"w">>)>>, mine \o <<Func("answer", TRUE, <<Use("", "x"), Use("", "w")>>)>>)
         @@ A :> Text(<<>>, other)) :
     imp \in {Plain(A)},
     mine \in UNION {Orders(<<Global("let", "x", x), Global("let", "y", y), Global("let", "z", z)>>) :
                       x \in {<<>>, <<Use("a", "p")>>, <<Address("a", "v")>>, <<Use("", "w")>>},
                       y \in {<<>>, <<Use("", "x")>>}, z \in {<<Use("", "y")>>, <<Address("a", "p")>>}},
     other \in UNION {{o \o <<Global("let", "w", w)>> : o \in Orders(<<Global("let", "p", p), Global("var", "v", v)>>)} :
                        p \in {<<>>, <<Use("", "w")>>}, v \in {<<>>, <<Use("", "p")>>}, w \in {<<>>}}
              \cup {o \o <<Global("let", "w", <<Address("", "v")>>)>> :
                      o \in Orders(<<Global("let", "p", <<>>), Global("var", "v", <<>>)>>)}}

(* Module and declaration names with underscores in them.                   *)
SymbolWorlds ==
  {World(M :> Text(<<Plain(A), Plain(<<"a_b">>)>>, <<Func(f, TRUE, <<>>), Func("answer", TRUE, <<>>)>>)
         @@ A :> Text(<<>>, <<Func(g, TRUE, <<>>)>>) @@ <<"a_b">> :> Text(<<>>, <<Func(h, TRUE, <<>>)>>)) :
     f \in {"c", "b_c", "a_c", "a_b_c"}, g \in {"c", "b_c"}, h \in {"c", "b_c"}}

(* Globals of one name in several modules.                                  *)
SameNameWorlds ==
  {World(M :> Text(<<Plain(A), Plain(B)>>, <<Global("var", "v", <<>>), Func("answer", TRUE, uses)>>)
         @@ A :> Text(<<>>, <<Global("var", "v", <<>>)>>) @@ B :> Text(a, <<Global("let", "v", v)>>)) :
     uses \in {<<Use("", "v"), Use("a", "v")>>, <<Use("b", "v"), Use("a", "v")>>},
     a \in {<<Plain(A)>>}, v \in {<<>>, <<Address("a", "v")>>}}

PlainWorlds ==
  Graphs \cup OddWorlds \cup NameWorlds \cup TypeWorlds \cup GlobalWorlds \cup SymbolWorlds \cup SameNameWorlds

MCSpelling ==
  [n \in {"main", "answer", "f", "g", "h", "k", "p", "q", "r", "z", "x", "y", "w", "v", "c", "a", "b", "io", "paths",
          "files", "memory", "R", "S", "T", "E", "G", "src"} |-> <<n>>]
  @@ "a_b" :> <<"a", "_", "b">> @@ "b_c" :> <<"b", "_", "c">> @@ "a_c" :> <<"a", "_", "c">>
  @@ "a_b_c" :> <<"a", "_", "b", "_", "c">>
=============================================================================
