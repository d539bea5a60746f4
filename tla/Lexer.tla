------------------------------- MODULE Lexer -------------------------------
(***************************************************************************)
(* The tokenizer, src/lex/lexer.cpp: layout and delimiters.  The text is   *)
(* read a piece at a time (a line's indentation, a word, a literal, a      *)
(* symbol, a line's end), any piece after any other, so that texts of      *)
(* every length are covered.  Of the tokens it keeps how many more         *)
(* INDENTs there are than DEDENTs.                                         *)
(***************************************************************************)
EXTENDS Integers, Sequences, FiniteSets

CONSTANTS
  Widths,        (* the indentations the lines of a text may have           *)
  MaxOpen,       (* how many delimiters, and formatted strings, are open    *)
  NestedSuites   (* whether a suite opens in a suite inside a delimiter     *)

ASSUME LexerAssumption ==
  Widths \subseteq Nat /\ MaxOpen \in Nat /\ NestedSuites \in BOOLEAN

VARIABLES
  indent,    (* indent_width_                                               *)
  pending,   (* pending_layout_                                             *)
  delims,    (* delimiters_, each with the indentation it was opened at     *)
  regions,   (* layout_regions_                                             *)
  strings,   (* formatted_: whether each one is triple-quoted               *)
  asm,       (* "no", "seen" (saw_asm_), and for raw_suite_ "raw", "started"*)
  inText,    (* scan_formatted_text is running                              *)
  lineDone,  (* nothing but the end of the line may follow                  *)
  blocks,    (* the INDENTs emitted less the DEDENTs                        *)
  failed,    (* a diagnostic was reported                                   *)
  done       (* finish has run                                              *)

layout == <<indent, pending, regions, blocks>>
vars == <<indent, pending, delims, regions, strings, asm, inText, lineDone, blocks, failed, done>>

Step4 == 4
Top(s) == s[Len(s)]
Pop(s) == SubSeq(s, 1, Len(s) - 1)
Closing(d) == CASE d = "(" -> ")" [] d = "[" -> "]" [] d \in {"{", "field"} -> "}"

layout_active ==
  IF regions = <<>> THEN delims = <<>> ELSE Len(delims) = Top(regions).depth

Error == failed' = TRUE
Same == UNCHANGED failed

-----------------------------------------------------------------------------
(***************************************************************************)
(* The start of a line.                                                    *)
(***************************************************************************)

(* What update_indentation makes of a line w wide: the new indentation, and *)
(* whether it is an error.                                                  *)
NewIndent(w) ==
  IF regions # <<>> /\ w < Top(regions).base THEN indent
  ELSE IF w > indent THEN (IF w = indent + Step4 THEN w ELSE indent)
  ELSE indent - Step4 * ((indent - w + Step4 - 1) \div Step4)
BadIndent(w) == NewIndent(w) # w
PopsRegion(w) == regions # <<>> /\ w <= indent /\ w = Top(regions).base

(* Mutant: an indentation that matches no outer one leaves the level as it  *)
(* is, after the DEDENTs.                                                   *)
update_indentation_stale(w) ==
  /\ indent' = IF BadIndent(w) THEN indent ELSE w
  /\ blocks' = blocks + (NewIndent(w) - indent) \div Step4
  /\ regions' = IF PopsRegion(w) THEN Pop(regions) ELSE regions
  /\ failed' = (failed \/ BadIndent(w))

update_indentation(w) ==
  /\ indent' = NewIndent(w)
  /\ blocks' = blocks + (NewIndent(w) - indent) \div Step4
  /\ regions' = IF PopsRegion(w) THEN Pop(regions) ELSE regions
  /\ failed' = (failed \/ BadIndent(w))

AtLineStart == ~done /\ ~inText /\ pending /\ layout_active

(* A line of code, w wide: what is on it comes next.                        *)
scan_line_start(w) ==
  /\ AtLineStart /\ asm \in {"no", "seen"}
  /\ update_indentation(w)
  /\ pending' = FALSE /\ lineDone' = FALSE
  /\ UNCHANGED <<delims, strings, asm, inText, done>>

(* A line of documentation.                                                 *)
scan_documentation(w) ==
  /\ AtLineStart /\ asm \in {"no", "seen"}
  /\ update_indentation(w)
  /\ UNCHANGED <<pending, delims, strings, asm, inText, lineDone, done>>

(* A line of an asm suite.                                                  *)
scan_raw_line_start(w) ==
  LET suite == IF asm = "started" THEN indent ELSE indent + Step4 IN
  /\ AtLineStart /\ asm \in {"raw", "started"}
  /\ \/ /\ w < suite                       (* the suite ends before it      *)
        /\ asm' = "no" /\ update_indentation(w)
        /\ pending' = FALSE /\ lineDone' = FALSE
     \/ /\ w > suite /\ asm = "raw"
        /\ Error /\ asm' = "no"
        /\ UNCHANGED <<indent, pending, regions, blocks, lineDone>>
     \/ /\ w >= suite /\ (asm = "raw" => w = suite)
        /\ asm' = "started"
        /\ indent' = suite /\ blocks' = blocks + (suite - indent) \div Step4
        /\ UNCHANGED <<pending, regions, lineDone, failed>>
  /\ UNCHANGED <<delims, strings, inText, done>>

-----------------------------------------------------------------------------
(***************************************************************************)
(* The rest of a line: scan_token.                                         *)
(***************************************************************************)
InLine == ~done /\ ~inText /\ ~(pending /\ layout_active)
Inside == InLine /\ ~lineDone

(* Names, numbers, strings, characters and the symbols that are no          *)
(* delimiters; what does not scan is reported and makes no token.           *)
scan_word(word) ==
  /\ Inside
  /\ asm' = IF word = "asm" /\ asm = "no" THEN "seen" ELSE asm
  /\ UNCHANGED <<layout, delims, strings, inText, lineDone, failed, done>>

Scanned(ok) ==
  /\ Inside
  /\ IF ok THEN Same ELSE Error
  /\ UNCHANGED <<layout, delims, strings, asm, inText, lineDone, done>>

scan_string_literal(ok) == Scanned(ok)
scan_character(ok) == Scanned(ok)
scan_number(ok) == Scanned(ok)
match_symbol(ok) == Scanned(ok)

(* `require_multiline_field`: a field of a string on one line ends there.   *)
OneLineField == strings # <<>> /\ ~Top(strings)

skip_comment ==
  /\ Inside /\ lineDone' = TRUE
  /\ failed' = (failed \/ OneLineField)
  /\ UNCHANGED <<layout, delims, strings, asm, inText, done>>

EndOfLine ==
  /\ InLine /\ lineDone' = FALSE
  /\ failed' = (failed \/ OneLineField)
  /\ IF layout_active
     THEN /\ pending' = TRUE
          /\ asm' = IF asm = "seen" THEN "no" ELSE asm
     ELSE UNCHANGED <<pending, asm>>
  /\ UNCHANGED <<indent, regions, blocks, delims, strings, inText, done>>

-----------------------------------------------------------------------------
(***************************************************************************)
(* Delimiters, and the suites inside them.                                 *)
(***************************************************************************)
OpenDelimiter(d) ==
  /\ Inside /\ Len(delims) < MaxOpen
  /\ delims' = Append(delims, [is |-> d, at |-> indent])
  /\ UNCHANGED <<layout, strings, asm, inText, lineDone, failed, done>>

(* `:` at the end of its line: a suite, raw after asm, laid out by its      *)
(* indentation even inside delimiters.                                      *)
ColonEndsLine ==
  /\ Inside /\ lineDone' = TRUE
  /\ NestedSuites \/ \A i \in DOMAIN regions : regions[i].depth < Len(delims)
  /\ Len(regions) < MaxOpen
  /\ asm' = IF asm = "seen" THEN "raw" ELSE asm
  /\ regions' = IF delims = <<>> THEN regions
                ELSE Append(regions, [depth |-> Len(delims), base |-> indent])
  /\ UNCHANGED <<indent, pending, blocks, delims, strings, inText, failed, done>>

Closes == regions # <<>> /\ Top(regions).depth = Len(delims)

(* Mutant: the suite is forgotten, and its indentation stays.               *)
finish_layout_region_forgets ==
  /\ regions' = IF Closes THEN Pop(regions) ELSE regions
  /\ UNCHANGED <<indent, blocks>>

(* finish_layout_region: the suite that the delimiter's end closes.         *)
finish_layout_region ==
  /\ indent' = IF Closes /\ indent > Top(regions).base THEN Top(regions).base ELSE indent
  /\ blocks' = blocks + (indent' - indent) \div Step4
  /\ regions' = IF Closes THEN Pop(regions) ELSE regions

(* Mutant: a delimiter that does not match is closed all the same.          *)
close_delimiter_any(ch) ==
  /\ Inside /\ finish_layout_region
  /\ IF delims = <<>> THEN Error /\ UNCHANGED <<delims, inText>>
     ELSE delims' = Pop(delims) /\ Same /\ inText' = (ch = "}")
  /\ UNCHANGED <<pending, strings, asm, lineDone, done>>

(* A closing delimiter: when it ends a field, the string goes on.           *)
close_delimiter(ch) ==
  /\ Inside /\ finish_layout_region
  /\ IF delims # <<>> /\ ch = Closing(Top(delims).is)
     THEN /\ delims' = Pop(delims) /\ Same
          /\ inText' = (Top(delims).is = "field")
     ELSE Error /\ UNCHANGED <<delims, inText>>
  /\ UNCHANGED <<pending, strings, asm, lineDone, done>>

-----------------------------------------------------------------------------
(***************************************************************************)
(* Formatted strings.                                                      *)
(***************************************************************************)
FormatStart(triple) ==
  /\ Inside /\ Len(strings) < MaxOpen
  /\ strings' = Append(strings, triple) /\ inText' = TRUE
  /\ UNCHANGED <<layout, delims, asm, lineDone, failed, done>>

(* A piece of the text: `{` opens a field; the closing quotes end the       *)
(* string; text, escapes, doubled braces and the line ends of a triple one  *)
(* are passed; what is wrong stops the scan with the string still open.     *)
FormatField ==
  /\ ~done /\ inText /\ Len(delims) < MaxOpen
  /\ delims' = Append(delims, [is |-> "field", at |-> indent])
  /\ inText' = FALSE
  /\ UNCHANGED <<layout, strings, asm, lineDone, failed, done>>

FormatEnd ==
  /\ ~done /\ inText
  /\ strings' = Pop(strings) /\ inText' = FALSE
  /\ UNCHANGED <<layout, delims, asm, lineDone, failed, done>>

FormatWrong ==
  /\ ~done /\ inText
  /\ Error /\ inText' = FALSE
  /\ UNCHANGED <<layout, delims, strings, asm, lineDone, done>>

-----------------------------------------------------------------------------

(* The end of the text; inside a formatted string scan_formatted_text has   *)
(* complained first.                                                        *)
finish ==
  /\ ~done /\ done' = TRUE
  /\ failed' = (failed \/ inText \/ strings # <<>> \/ delims # <<>>)
  /\ indent' = 0 /\ blocks' = blocks - indent \div Step4
  /\ UNCHANGED <<pending, delims, regions, strings, asm, inText, lineDone>>

Init ==
  /\ indent = 0 /\ pending = TRUE /\ delims = <<>> /\ regions = <<>> /\ strings = <<>>
  /\ asm = "no" /\ inText = FALSE /\ lineDone = FALSE /\ blocks = 0
  /\ failed = FALSE /\ done = FALSE

Next ==
  \/ \E w \in Widths : scan_line_start(w) \/ scan_documentation(w) \/ scan_raw_line_start(w)
  \/ \E word \in {"asm", "name"} : scan_word(word)
  \/ \E ok \in BOOLEAN : scan_string_literal(ok) \/ scan_character(ok) \/ scan_number(ok) \/ match_symbol(ok)
  \/ skip_comment \/ EndOfLine
  \/ \E d \in {"(", "[", "{"} : OpenDelimiter(d)
  \/ \E ch \in {")", "]", "}"} : close_delimiter(ch)
  \/ ColonEndsLine
  \/ \E triple \in BOOLEAN : FormatStart(triple)
  \/ FormatField \/ FormatEnd \/ FormatWrong
  \/ finish

Spec == Init /\ [][Next]_vars

-----------------------------------------------------------------------------
(***************************************************************************)
(* Properties.                                                             *)
(***************************************************************************)

(* Every INDENT has its DEDENT: at each moment the blocks open in the       *)
(* tokens are the whole steps of indent_width_, through errors, raw suites and *)
(* suites inside delimiters, and at the end there are none.                 *)
BlocksFollowIndent == indent = Step4 * blocks /\ (done => blocks = 0)

(* scan_formatted_text always has the string it goes on with: the fields    *)
(* open are no more than the strings open, so formatted_.back() is there    *)
(* even after strings that were given up in the middle.                     *)
FieldsHaveStrings ==
  LET fields == Cardinality({i \in DOMAIN delims : delims[i].is = "field"}) IN
  IF inText THEN fields < Len(strings) ELSE fields <= Len(strings)

(* A suite opened inside a delimiter is closed inside it: when the          *)
(* delimiter is closed the indentation is what it was when it was opened,   *)
(* and once no delimiter is open a newline is a token again, unless an      *)
(* error was reported.  The parser counts on both.                          *)
SuitesStayInside ==
  [][/\ Len(delims') < Len(delims) /\ ~failed' => indent' = Top(delims).at
     /\ delims' = <<>> /\ ~failed' => regions' = <<>>]_vars

=============================================================================
