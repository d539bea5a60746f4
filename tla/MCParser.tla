------------------------------ MODULE MCParser ------------------------------
EXTENDS Parser

(* Modules that use every production between them, each a declaration or a  *)
(* statement or two.                                                        *)
Func(stmt) == <<"func", "x", "(", ")", ":", "NL", "INDENT">> \o stmt \o <<"DEDENT", "EOF">>
Line(expr) == Func(<<"x", "=">> \o expr \o <<"NL">>)

Statements == {
  Func(<<"if", "let", "x", "=", "x", ":", "return", "NL", "elif", "x", ":", "break", "x", "NL", "else", ":", "continue", "NL">>),
  Func(<<"x", ":", "while", "x", ":", "NL", "INDENT", "doc", "recover", "x", "NL", "DEDENT">>),
  Func(<<"for", "(", "x", ",", "x", ")", "in", "&", "x", ":", "free", "(", "x", ")", "in", "x", "NL">>),
  Func(<<"for", "_", ":", "T", "in", "x", ":", "defer", ":", "x", "NL">>),
  Func(<<"with", "x", ":", "defer", "free", "(", "x", ")", "catch", "x", ":", "x", "NL">>),
  Func(<<"match", "x", ":", "NL", "INDENT", ".", "x", "(", "_", ",", "x", ")", ",", "-", "int", "..<", "int",
         "if", "(", "x", "<", "x", ")", ":", "x", "NL", "DEDENT">>),
  Func(<<"let", "(", "x", ",", "_", ")", "=", "match", "x", ":", "NL", "INDENT", "x", "=>", "x", "NL", "DEDENT">>),
  Func(<<"var", "x", ":", "const", "T", "[", "]", "=", "---", "NL">>),
  Func(<<"defer", "x", "(", ")", "catch", ":", "x", "NL">>),
  Func(<<"defer", "x", "+=", "x", "NL", "spawn", "x", "NL">>),
  Func(<<"asm", "x", "(", "in", "(", "str", ")", "x", ",", "out", ")", ":", "NL", "INDENT", "raw", "NL", "DEDENT">>) }

Expressions == {
  Line(<<"(", "T", ")", "-", "(", "T", ")", "-", "-", "not", "(", "-", "(", "x", ")", ")">>),
  Line(<<"x", "*", "x", "+", "x", "==", "x", "or", "x", "and", "x", "|", "x", "&", "-", "x">>),
  Line(<<"x", "if", "not", "x", "else", "x", "else", "return", "x">>),
  Line(<<"try", "x", "else", "break", "x", "catch", "x", ":", "x">>),
  Line(<<"(", "T", "*", ")", "(", "x", ")", ".", "int">>),
  Line(<<"(", "(", "i64", "?", ")", "[", "x", "]", ")", "x", "-", "(", "x", ")", "-", "x">>),
  Line(<<"(", "func", "(", "T", ",", "T", ")", "->", "T", ")", "x">>),
  Line(<<"(", "x", ":", "(", "T", ",", "T", ")", ",", "x", ")", "=>", "x", "+", "x">>),
  Line(<<"x", "[", "T", "]", "(", "x", "=", "x", ",", "x", ")", "[", "x", "..<", "x", "]">>),
  Line(<<"x", "[", "(", "T", ",", "T", ")", "]", ".", "x", "[", "x", "..", "]">>),
  Line(<<"T", "[", "]", "(", ")", ".", "hash", "(", ")", "[", "..<", "int", "]">>),
  Line(<<"(", "x", ",", "[", "x", ",", "]", ",", "(", ")", ")">>),
  Line(<<"new", "T", "[", "x", "]", "---", "in", "x", "catch", ":", "x">>),
  Line(<<"new", "T", ".", "x", "(", "x", ")">>),
  Line(<<"f-start", "f-text", "{", ".", "x", "(", ")", "}", "f-end">>),
  Line(<<"memory", ".", "size_of", "(", "T", "*", ",", "x", ")", "+", "memory", ".", "allocate", "(", ")">>) }

Decls == {
  <<"from", "memory", "import", "x", ",", "size_of", "NL", "import", "x", ".", "x", "as", "x", "NL", "EOF">>,
  <<"extend", "T", ":", "NL", "INDENT", "pub", "func", "x", "(", "self", ":", "noalias", "T", ")", "->", "!", ":", "x", "NL", "DEDENT",
    "packed", "struct", "T", "[", "T", ":", "T", "&", "T", "]", ":", "T", ":", "NL", "INDENT", "let", "x", ":", "T", "NL", "DEDENT", "EOF">>,
  <<"pub", "enum", "T", "as", "T", ":", "NL", "INDENT", "x", "(", "x", ":", "T", ")", "NL", "x", "=", "int", "NL",
    "static", "func", "x", "(", ")", ":", "x", "NL", "DEDENT", "EOF">>,
  <<"extern", "union", "T", ":", "NL", "INDENT", "pub", "x", ":", "T", "NL", "DEDENT", "EOF">>,
  <<"interface", "T", ":", "NL", "INDENT", "func", "x", "(", "x", ":", "T", "=", "x", ")", "->", "T", "NL", "DEDENT", "EOF">>,
  <<"extern", "blocking", "func", "x", "as", "str", "(", "out", "x", ":", "T", ",", "...", ")", "NL", "EOF">>,
  <<"extern", "align", "(", "int", ")", "struct", "T", ":", "NL", "INDENT", "x", ":", "T", "NL", "DEDENT", "EOF">>,
  <<"extern", "type", "T", "=", "c", ".", "x", "NL", "extern", "var", "x", ":", "T", "NL", "EOF">>,
  <<"handle", "T", ":", "NL", "INDENT", "destroy", "x", "NL", "NL", "DEDENT", "EOF">>,
  <<"weak", "section", "(", "str", ")", "var", "x", ":", "T", "=", "---", "NL", "local", "var", "x", ":", "T", "=", "x", "NL", "EOF">>,
  <<"let", "x", ":", "@", "T", "=", "x", "NL", "type", "T", "=", "(", "T", ",", "T", ")", "NL", "EOF">>,
  <<"test", "str", ":", "NL", "INDENT", "assert", "(", "x", ")", "NL", "DEDENT", "assert", "(", "x", ")", "NL", "EOF">>,
  <<"class", "T", ":", "NL", "INDENT", "if", "x", ":", "NL", "INDENT", "x", "NL", "DEDENT", "DEDENT", "EOF">> }

Samples == Statements \cup Expressions \cup Decls

(* A sample with one token gone or replaced.                                *)
Strays == {"x", "(", "NL", "DEDENT"}
Edits(s) ==
  {RemoveAt(s, i) : i \in 1 .. Len(s) - 1}
  \cup {ReplaceAt(s, i, t) : i \in 1 .. Len(s) - 1, t \in Strays}
MCTexts == Samples \cup UNION {Edits(s) : s \in Samples}
=============================================================================
