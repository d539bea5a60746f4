---------------------------- MODULE LexerProofs ----------------------------
(***************************************************************************)
(* The tokens' blocks are the ones the tokenizer's indentation counts; the *)
(* fields of formatted strings have their strings; the suites opened in a  *)
(* delimiter end in it.  For lines of every width and any number of open   *)
(* delimiters, suites and strings.                                         *)
(***************************************************************************)
EXTENDS Lexer, FiniteSetTheorems, TLAPS

(* A whole number of steps.                                                 *)
Column == {n \in Nat : n % 4 = 0}
Region == [depth : Nat, base : Column]
Opening == {"(", "[", "{", "field"}
Delim == [is : Opening, at : Column]

(* What BlocksFollowIndent rests on: a suite inside delimiters remembers a  *)
(* whole number of steps too, so that closing it keeps the count.           *)
LayoutInv ==
  /\ indent \in Column /\ blocks \in Nat /\ blocks = indent \div 4
  /\ regions \in Seq(Region) /\ delims \in Seq(Delim)
  /\ done \in BOOLEAN /\ (done => indent = 0)

(* The text has not ended, and its end is not this step.                    *)
Open == ~done /\ done' = done

(* The suite on top, and the ones under it.                                 *)
LEMMA TopOfRegions ==
  ASSUME regions \in Seq(Region), regions # <<>>
  PROVE  Top(regions) \in Region /\ Pop(regions) \in Seq(Region)
  <1>1. Len(regions) \in 1 .. Len(regions)
    OBVIOUS
  <1>2. QED
    BY <1>1 DEF Top, Pop

(* What is left when the top of a stack is taken away.                      *)
LEMMA PopOfStack ==
  ASSUME NEW S, NEW s \in Seq(S), s # <<>>
  PROVE  /\ Pop(s) \in Seq(S) /\ Len(Pop(s)) = Len(s) - 1 /\ Len(s) \in Nat \ {0}
         /\ Top(s) \in S /\ Top(s) = s[Len(s)]
         /\ \A i \in 1 .. Len(s) - 1 : Pop(s)[i] = s[i]
  <1>1. Len(s) \in Nat \ {0} /\ Len(s) \in DOMAIN s
    OBVIOUS
  <1>2. Pop(s) \in Seq(S) /\ Len(Pop(s)) = Len(s) - 1
    BY <1>1 DEF Pop
  <1>3. ASSUME NEW i \in 1 .. Len(s) - 1
        PROVE  Pop(s)[i] = s[i]
    BY <1>1, <1>3 DEF Pop
  <1>4. Top(s) \in S /\ Top(s) = s[Len(s)]
    BY <1>1 DEF Top
  <1>5. QED
    BY <1>1, <1>2, <1>3, <1>4

(* What is left when a delimiter closes.                                    *)
LEMMA PopOfDelims ==
  ASSUME delims \in Seq(Delim), delims # <<>>
  PROVE  Pop(delims) \in Seq(Delim)
  BY DEF Pop

(* A delimiter as it is opened.                                             *)
LEMMA OpenedDelim ==
  ASSUME NEW d \in Opening, NEW n \in Column
  PROVE  [is |-> d, at |-> n] \in Delim
  BY DEF Delim

(* update_indentation leaves a whole number of steps.                       *)
LEMMA NewIndentFacts ==
  ASSUME LayoutInv, NEW w \in Nat
  PROVE  NewIndent(w) \in Column
  <1>1. indent \in Nat /\ indent % 4 = 0
    BY DEF LayoutInv, Column
  <1>2. ASSUME w <= indent
        PROVE  indent - 4 * ((indent - w + 4 - 1) \div 4) \in Column
    BY <1>1, <1>2, SMT DEF Column
  <1>3. w = indent + 4 => w \in Column
    BY <1>1 DEF Column
  <1>4. QED
    BY <1>1, <1>2, <1>3 DEF NewIndent, Step4, Column

(* The tokens emitted for a move are as many as its steps.                  *)
LEMMA BlocksMove ==
  ASSUME LayoutInv, NEW n \in Column
  PROVE  blocks + ((n - indent) \div 4) = n \div 4 /\ n \div 4 \in Nat
  BY SMT DEF LayoutInv, Column

(* A step that moves the indentation to n, the DEDENTs or INDENTs with it.  *)
LEMMA MovedKeeps ==
  ASSUME LayoutInv, Open, NEW n \in Column, indent' = n,
         blocks' = blocks + ((n - indent) \div 4),
         regions' \in Seq(Region), delims' \in Seq(Delim)
  PROVE  LayoutInv'
  BY BlocksMove DEF LayoutInv, Open

(* update_indentation is such a move.                                       *)
LEMMA IndentKeeps ==
  ASSUME LayoutInv, Open, NEW w \in Nat, update_indentation(w), UNCHANGED delims
  PROVE  LayoutInv'
  <1>1. regions' \in Seq(Region)
    BY TopOfRegions DEF LayoutInv, update_indentation, PopsRegion
  <1>2. delims' \in Seq(Delim)
    BY DEF LayoutInv
  <1>3. indent' = NewIndent(w) /\ blocks' = blocks + ((NewIndent(w) - indent) \div 4)
    BY DEF update_indentation, Step4
  <1>4. QED
    BY <1>1, <1>2, <1>3, NewIndentFacts, MovedKeeps

(* A step that leaves the layout alone.                                     *)
LEMMA SameKeeps ==
  ASSUME LayoutInv, Open, UNCHANGED <<indent, blocks, regions>>, delims' \in Seq(Delim)
  PROVE  LayoutInv'
  BY DEF LayoutInv, Open

(* Every piece of text keeps the invariant.                                 *)
LEMMA StepKeeps ==
  ASSUME LayoutInv, Next
  PROVE  LayoutInv'
  <1>0. delims \in Seq(Delim) /\ regions \in Seq(Region) /\ indent \in Column /\ blocks \in Nat
    BY DEF LayoutInv
  <1>1. ASSUME NEW w \in Widths, scan_line_start(w) \/ scan_documentation(w)
        PROVE  LayoutInv'
    <2>1. w \in Nat
      BY LexerAssumption
    <2>2. QED
      BY <1>1, <2>1, IndentKeeps DEF scan_line_start, scan_documentation, AtLineStart, Open
  <1>2. ASSUME NEW w \in Widths, scan_raw_line_start(w)
        PROVE  LayoutInv'
    <2> DEFINE suite == IF asm = "started" THEN indent ELSE indent + 4
    <2>1. w \in Nat /\ Open /\ UNCHANGED delims
      BY <1>2, LexerAssumption DEF scan_raw_line_start, AtLineStart, Open
    <2>2. suite \in Column
      BY <1>0, SMT DEF Column
    <2>3. CASE update_indentation(w)
      BY <2>1, <2>3, IndentKeeps
    <2>4. CASE UNCHANGED <<indent, blocks, regions>>
      BY <1>0, <2>1, <2>4, SameKeeps
    <2>5. CASE indent' = suite /\ blocks' = blocks + ((suite - indent) \div 4) /\ UNCHANGED regions
      <3> HIDE DEF suite
      <3>1. regions' \in Seq(Region) /\ delims' \in Seq(Delim)
        BY <1>0, <2>1, <2>5
      <3>2. QED
        BY <2>1, <2>2, <2>5, <3>1, MovedKeeps
    <2>6. QED
      BY <1>2, <2>3, <2>4, <2>5 DEF scan_raw_line_start, Step4
  <1>3. ASSUME NEW ch \in {")", "]", "}"}, close_delimiter(ch)
        PROVE  LayoutInv'
    <2>1. Open /\ finish_layout_region
      BY <1>3 DEF close_delimiter, Inside, InLine, Open
    <2>2. delims' \in Seq(Delim)
      <3>1. UNCHANGED delims \/ (delims # <<>> /\ delims' = Pop(delims))
        BY <1>3 DEF close_delimiter
      <3>2. delims # <<>> => Pop(delims) \in Seq(Delim)
        BY <1>0, PopOfDelims
      <3>3. QED
        BY <1>0, <3>1, <3>2
    <2>3. regions' \in Seq(Region) /\ indent' \in Column
      BY <1>0, <2>1, TopOfRegions DEF finish_layout_region, Closes, Region
    <2>4. blocks' = blocks + ((indent' - indent) \div 4)
      BY <2>1 DEF finish_layout_region, Step4
    <2>5. QED
      BY <2>1, <2>2, <2>3, <2>4, MovedKeeps
  <1>4. CASE ColonEndsLine
    <2>1. Len(delims) \in Nat /\ [depth |-> Len(delims), base |-> indent] \in Region
      BY <1>0 DEF Region
    <2>2. regions' \in Seq(Region)
      BY <1>0, <1>4, <2>1 DEF ColonEndsLine
    <2>3. QED
      BY <1>4, <2>2 DEF ColonEndsLine, Inside, InLine, LayoutInv
  <1>5. CASE finish
    BY <1>5, <1>0, SMT DEF finish, LayoutInv, Column, Step4
  <1>6. ASSUME NEW d \in Opening, OpenDelimiter(d)
        PROVE  LayoutInv'
    <2>1. [is |-> d, at |-> indent] \in Delim
      BY <1>0, <1>6, OpenedDelim
    <2>2. delims' \in Seq(Delim)
      BY <1>0, <1>6, <2>1 DEF OpenDelimiter
    <2>3. QED
      BY <1>6, <2>2, SameKeeps DEF OpenDelimiter, Inside, InLine, Open, layout
  <1>7. CASE FormatField
    <2>1. [is |-> "field", at |-> indent] \in Delim
      BY <1>0, OpenedDelim DEF Opening
    <2>2. delims' \in Seq(Delim)
      BY <1>0, <1>7, <2>1 DEF FormatField
    <2>3. QED
      BY <1>7, <2>2, SameKeeps DEF FormatField, Open, layout
  <1>8. CASE \E ok \in BOOLEAN : scan_string_literal(ok) \/ scan_character(ok) \/ scan_number(ok) \/ match_symbol(ok)
    BY <1>8, <1>0, SameKeeps
    DEF scan_string_literal, scan_character, scan_number, match_symbol, Scanned, Inside, InLine, Open, layout
  <1>9. CASE (\E word \in {"asm", "name"} : scan_word(word)) \/ skip_comment \/ EndOfLine
    BY <1>9, <1>0, SameKeeps DEF scan_word, skip_comment, EndOfLine, Inside, InLine, Open, layout
  <1>10. CASE (\E triple \in BOOLEAN : FormatStart(triple)) \/ FormatEnd \/ FormatWrong
    BY <1>10, <1>0, SameKeeps DEF FormatStart, FormatEnd, FormatWrong, Inside, InLine, Open, layout
  <1>11. CASE \E d \in {"(", "[", "{"} : OpenDelimiter(d)
    BY <1>6, <1>11 DEF Opening
  <1>12. QED
    BY <1>1, <1>2, <1>3, <1>4, <1>5, <1>7, <1>8, <1>9, <1>10, <1>11 DEF Next

(* The layout's invariant holds of every text.                              *)
THEOREM LayoutHolds == Spec => []LayoutInv
  <1>1. Init => LayoutInv
    <2>1. 0 \in Column /\ 0 \div 4 = 0
      BY SMT DEF Column
    <2>2. ASSUME Init
          PROVE  /\ indent = 0 /\ blocks = 0 /\ done = FALSE
                 /\ regions \in Seq(Region) /\ delims \in Seq(Delim)
      BY <2>2 DEF Init
    <2>3. QED
      BY <2>1, <2>2 DEF LayoutInv
  <1>2. LayoutInv /\ [Next]_vars => LayoutInv'
    <2>1. LayoutInv /\ UNCHANGED vars => LayoutInv'
      BY DEF LayoutInv, vars
    <2>2. QED
      BY <2>1, StepKeeps
  <1>3. QED
    BY <1>1, <1>2, PTL DEF Spec

(* Every INDENT has its DEDENT, whatever the widths of the lines, whatever  *)
(* is open and whatever was wrong: the tokens the parser is given nest.     *)
THEOREM BlocksBalanced == Spec => []BlocksFollowIndent
  <1>1. LayoutInv => BlocksFollowIndent
    <2>1. ASSUME NEW n \in Nat, n % 4 = 0
          PROVE  n = 4 * (n \div 4)
      BY <2>1, SMT
    <2>2. ASSUME LayoutInv
          PROVE  indent \in Nat /\ indent % 4 = 0
      BY <2>2 DEF LayoutInv, Column
    <2>3. QED
      BY <2>1, <2>2, SMT DEF LayoutInv, BlocksFollowIndent, Step4
  <1>2. QED
    BY <1>1, LayoutHolds, PTL

-----------------------------------------------------------------------------
(***************************************************************************)
(* Formatted strings.                                                      *)
(***************************************************************************)
Fields(ds) == {i \in DOMAIN ds : ds[i].is = "field"}

(* FieldsHaveStrings is inductive once the stacks are stacks.               *)
StringsInv ==
  /\ delims \in Seq(Delim) /\ strings \in Seq(BOOLEAN) /\ inText \in BOOLEAN
  /\ FieldsHaveStrings

(* The fields of a stack are finitely many.                                 *)
LEMMA FieldsFinite ==
  ASSUME NEW ds \in Seq(Delim)
  PROVE  IsFiniteSet(Fields(ds)) /\ Cardinality(Fields(ds)) \in Nat
  <1>1. IsFiniteSet(1 .. Len(ds))
    BY FS_Interval
  <1>2. Fields(ds) \subseteq 1 .. Len(ds)
    BY DEF Fields
  <1>3. QED
    BY <1>1, <1>2, FS_Subset, FS_CardinalityType

(* Opening a delimiter adds one field, or none.                             *)
LEMMA FieldsOpened ==
  ASSUME NEW ds \in Seq(Delim), NEW d \in Delim
  PROVE  /\ d.is = "field" => Cardinality(Fields(Append(ds, d))) = Cardinality(Fields(ds)) + 1
         /\ d.is # "field" => Cardinality(Fields(Append(ds, d))) = Cardinality(Fields(ds))
  <1> DEFINE n == Len(ds) + 1
  <1>1. /\ DOMAIN Append(ds, d) = 1 .. n /\ n \in Nat /\ DOMAIN ds = 1 .. Len(ds)
        /\ Append(ds, d)[n] = d
        /\ \A i \in 1 .. Len(ds) : Append(ds, d)[i] = ds[i]
    OBVIOUS
  <1>2. n \notin Fields(ds)
    BY DEF Fields
  <1>3. Fields(Append(ds, d)) = IF d.is = "field" THEN Fields(ds) \cup {n} ELSE Fields(ds)
    BY <1>1 DEF Fields
  <1>4. IsFiniteSet(Fields(ds)) /\ Cardinality(Fields(ds)) \in Nat
    BY FieldsFinite
  <1> HIDE DEF n
  <1>5. Cardinality(Fields(ds) \cup {n}) = Cardinality(Fields(ds)) + 1
    BY <1>2, <1>4, FS_AddElement
  <1>6. QED
    BY <1>3, <1>4, <1>5

(* Closing one takes away one field, or none.                               *)
LEMMA FieldsClosed ==
  ASSUME NEW ds \in Seq(Delim), ds # <<>>
  PROVE  /\ Top(ds).is = "field" => Cardinality(Fields(Pop(ds))) = Cardinality(Fields(ds)) - 1
         /\ Top(ds).is # "field" => Cardinality(Fields(Pop(ds))) = Cardinality(Fields(ds))
  <1> DEFINE n == Len(ds)
  <1>1. /\ DOMAIN Pop(ds) = 1 .. n - 1 /\ n \in Nat \ {0} /\ DOMAIN ds = 1 .. n
        /\ \A i \in 1 .. n - 1 : Pop(ds)[i] = ds[i]
    BY DEF Pop
  <1>2. Fields(Pop(ds)) = Fields(ds) \ {n}
    BY <1>1 DEF Fields
  <1>3. n \in Fields(ds) <=> Top(ds).is = "field"
    BY <1>1 DEF Fields, Top
  <1>4. n \notin Fields(ds) => Fields(Pop(ds)) = Fields(ds)
    BY <1>2
  <1>5. IsFiniteSet(Fields(ds)) /\ Cardinality(Fields(ds)) \in Nat
    BY FieldsFinite
  <1> HIDE DEF n
  <1>6. n \in Fields(ds) => Cardinality(Fields(ds) \ {n}) = Cardinality(Fields(ds)) - 1
    BY <1>5, FS_RemoveElement
  <1>7. QED
    BY <1>2, <1>3, <1>4, <1>5, <1>6

(* A step that touches neither the stacks nor the text.                     *)
LEMMA SameStrings ==
  ASSUME StringsInv, UNCHANGED <<delims, strings, inText>>
  PROVE  StringsInv'
  BY DEF StringsInv, FieldsHaveStrings

(* Where the text of a string goes on, it has one more string than fields.  *)
LEMMA TextGoesOn ==
  ASSUME delims' \in Seq(Delim), strings' \in Seq(BOOLEAN), inText' = TRUE,
         Cardinality(Fields(delims')) < Len(strings')
  PROVE  StringsInv'
  BY DEF StringsInv, FieldsHaveStrings, Fields

(* Elsewhere as many will do.                                               *)
LEMMA TextStops ==
  ASSUME delims' \in Seq(Delim), strings' \in Seq(BOOLEAN), inText' = FALSE,
         Cardinality(Fields(delims')) <= Len(strings')
  PROVE  StringsInv'
  BY DEF StringsInv, FieldsHaveStrings, Fields

(* Every piece of text keeps it.                                            *)
LEMMA StringsKept ==
  ASSUME StringsInv, LayoutInv, Next
  PROVE  StringsInv'
  <1> DEFINE held == Cardinality(Fields(delims))
  <1>0. /\ delims \in Seq(Delim) /\ strings \in Seq(BOOLEAN) /\ indent \in Column
        /\ held \in Nat /\ Len(strings) \in Nat
    <2>1. delims \in Seq(Delim) /\ strings \in Seq(BOOLEAN) /\ indent \in Column
      BY DEF StringsInv, LayoutInv
    <2>2. QED
      BY <2>1, FieldsFinite
  <1>a. ASSUME inText PROVE held < Len(strings)
    BY <1>a DEF StringsInv, FieldsHaveStrings, Fields
  <1>b. ASSUME ~inText PROVE held <= Len(strings)
    BY <1>b DEF StringsInv, FieldsHaveStrings, Fields
  <1>2. ASSUME NEW d \in Opening, d # "field", OpenDelimiter(d)
        PROVE  StringsInv'
    <2> DEFINE e == [is |-> d, at |-> indent]
    <2>1. e \in Delim /\ e.is # "field"
      BY <1>0, <1>2, OpenedDelim
    <2>2. delims' = Append(delims, e) /\ UNCHANGED strings
      BY <1>2 DEF OpenDelimiter
    <2>3. inText' = FALSE /\ ~inText
      BY <1>2 DEF OpenDelimiter, Inside, InLine, StringsInv
    <2> HIDE DEF e
    <2>4. Cardinality(Fields(delims')) = held
      BY <1>0, <2>1, <2>2, FieldsOpened
    <2>5. delims' \in Seq(Delim) /\ strings' \in Seq(BOOLEAN)
      BY <1>0, <2>1, <2>2
    <2>6. held <= Len(strings)
      BY <1>b, <2>3
    <2>7. QED
      BY <2>2, <2>3, <2>4, <2>5, <2>6, TextStops
  <1>3. CASE FormatField
    <2> DEFINE e == [is |-> "field", at |-> indent]
    <2>1. e \in Delim /\ e.is = "field"
      BY <1>0, OpenedDelim DEF Opening
    <2>2. delims' = Append(delims, e) /\ UNCHANGED strings
      BY <1>3 DEF FormatField
    <2>3. inText' = FALSE /\ inText
      BY <1>3 DEF FormatField
    <2> HIDE DEF e
    <2>4. Cardinality(Fields(delims')) = held + 1
      BY <1>0, <2>1, <2>2, FieldsOpened
    <2>5. delims' \in Seq(Delim) /\ strings' \in Seq(BOOLEAN)
      BY <1>0, <2>1, <2>2
    <2>6. held < Len(strings)
      BY <1>a, <2>3
    <2>7. Cardinality(Fields(delims')) <= Len(strings')
      BY <1>0, <2>2, <2>4, <2>6
    <2>8. QED
      BY <2>3, <2>5, <2>7, TextStops
  <1>4. ASSUME NEW ch, close_delimiter(ch)
        PROVE  StringsInv'
    <2>1. CASE UNCHANGED <<delims, inText>>
      BY <1>4, <2>1, SameStrings DEF close_delimiter
    <2>2. CASE delims # <<>> /\ delims' = Pop(delims) /\ inText' = (Top(delims).is = "field")
      <3>1. /\ Top(delims).is = "field" => Cardinality(Fields(delims')) = held - 1
            /\ Top(delims).is # "field" => Cardinality(Fields(delims')) = held
        BY <1>0, <2>2, FieldsClosed
      <3>2. UNCHANGED strings /\ ~inText
        BY <1>4 DEF close_delimiter, Inside, InLine
      <3>3. delims' \in Seq(Delim) /\ strings' \in Seq(BOOLEAN)
        BY <1>0, <2>2, <3>2, PopOfDelims
      <3>4. held <= Len(strings)
        BY <1>b, <3>2
      <3>5. CASE Top(delims).is = "field"
        <4>1. inText' = TRUE
          BY <2>2, <3>5
        <4>2. strings' = strings /\ Cardinality(Fields(delims')) = held - 1
          BY <3>1, <3>2, <3>5
        <4>3. Cardinality(Fields(delims')) < Len(strings')
          BY <1>0, <3>4, <4>2
        <4>4. QED
          BY <3>3, <4>1, <4>3, TextGoesOn
      <3>6. CASE Top(delims).is # "field"
        <4>1. inText' = FALSE
          BY <2>2, <3>6
        <4>2. strings' = strings /\ Cardinality(Fields(delims')) = held
          BY <3>1, <3>2, <3>6
        <4>3. Cardinality(Fields(delims')) <= Len(strings')
          BY <3>4, <4>2
        <4>4. QED
          BY <3>3, <4>1, <4>3, TextStops
      <3>7. QED
        BY <3>5, <3>6
    <2>3. QED
      BY <1>4, <2>1, <2>2 DEF close_delimiter
  <1>5. ASSUME NEW triple \in BOOLEAN, FormatStart(triple)
        PROVE  StringsInv'
    <2>1. strings' = Append(strings, triple) /\ UNCHANGED delims
      BY <1>5 DEF FormatStart
    <2>2. inText' = TRUE /\ ~inText
      BY <1>5 DEF FormatStart, Inside, InLine
    <2>3. strings' \in Seq(BOOLEAN) /\ Len(strings') = Len(strings) + 1 /\ delims' \in Seq(Delim)
      BY <1>0, <2>1
    <2>4. held <= Len(strings)
      BY <1>b, <2>2
    <2>5. Cardinality(Fields(delims')) < Len(strings')
      BY <1>0, <2>1, <2>3, <2>4
    <2>6. QED
      BY <2>2, <2>3, <2>5, TextGoesOn
  <1>6. CASE FormatEnd
    <2>1. strings' = Pop(strings) /\ UNCHANGED delims
      BY <1>6 DEF FormatEnd
    <2>2. inText' = FALSE /\ inText
      BY <1>6 DEF FormatEnd
    <2>3. held < Len(strings)
      BY <1>a, <2>2
    <2>4. strings # <<>>
      BY <1>0, <2>3
    <2>5. strings' \in Seq(BOOLEAN) /\ Len(strings') = Len(strings) - 1 /\ delims' \in Seq(Delim)
      BY <1>0, <2>1, <2>4, PopOfStack
    <2>6. Cardinality(Fields(delims')) <= Len(strings')
      BY <1>0, <2>1, <2>3, <2>5
    <2>7. QED
      BY <2>2, <2>5, <2>6, TextStops
  <1>7. CASE FormatWrong
    <2>1. UNCHANGED <<delims, strings>> /\ inText' = FALSE /\ inText
      BY <1>7 DEF FormatWrong
    <2>2. held < Len(strings)
      BY <1>a, <2>1
    <2>3. held <= Len(strings)
      BY <1>0, <2>2
    <2>4. delims' \in Seq(Delim) /\ strings' \in Seq(BOOLEAN)
      BY <1>0, <2>1
    <2>5. QED
      BY <2>1, <2>3, <2>4, TextStops
  <1>8. CASE \E w \in Widths : scan_line_start(w) \/ scan_documentation(w) \/ scan_raw_line_start(w)
    BY <1>8, SameStrings DEF scan_line_start, scan_documentation, scan_raw_line_start
  <1>9. CASE \E ok \in BOOLEAN : scan_string_literal(ok) \/ scan_character(ok) \/ scan_number(ok) \/ match_symbol(ok)
    BY <1>9, SameStrings DEF scan_string_literal, scan_character, scan_number, match_symbol, Scanned
  <1>10. CASE (\E word \in {"asm", "name"} : scan_word(word)) \/ skip_comment \/ EndOfLine
    BY <1>10, SameStrings DEF scan_word, skip_comment, EndOfLine
  <1>11. CASE ColonEndsLine \/ finish
    BY <1>11, SameStrings DEF ColonEndsLine, finish
  <1>12. CASE \E d \in {"(", "[", "{"} : OpenDelimiter(d)
    BY <1>2, <1>12 DEF Opening
  <1>13. QED
    BY <1>3, <1>4, <1>5, <1>6, <1>7, <1>8, <1>9, <1>10, <1>11, <1>12 DEF Next

(* scan_formatted_text has a string to go on with whenever it runs or a     *)
(* field of one is open, for any number of strings and fields in each       *)
(* other, closed in order or given up: formatted_.back() is never asked of  *)
(* an empty stack.                                                          *)
THEOREM StringsAreThere == Spec => []FieldsHaveStrings
  <1>1. Init => StringsInv
    <2>1. ASSUME Init
          PROVE  /\ delims = <<>> /\ strings = <<>> /\ inText = FALSE
                 /\ delims \in Seq(Delim) /\ strings \in Seq(BOOLEAN)
                 /\ {i \in DOMAIN delims : delims[i].is = "field"} = {}
      BY <2>1 DEF Init
    <2>2. QED
      BY <2>1, FS_EmptySet DEF StringsInv, FieldsHaveStrings
  <1>2. StringsInv /\ LayoutInv /\ [Next]_vars => StringsInv'
    BY StringsKept, SameStrings DEF vars
  <1>3. StringsInv => FieldsHaveStrings
    BY DEF StringsInv
  <1>4. QED
    BY <1>1, <1>2, <1>3, LayoutHolds, PTL DEF Spec

-----------------------------------------------------------------------------
(***************************************************************************)
(* Suites inside delimiters, where no suite opens in a suite of the same   *)
(* delimiter.                                                              *)
(***************************************************************************)
HasSuite(rs, d) == \E i \in 1 .. Len(rs) : rs[i].depth = d

(* The indentation that held when the next delimiter was opened, or holds.  *)
After(ds, n, d) == IF d = Len(ds) THEN n ELSE ds[d + 1].at

(* Each suite is one of a delimiter that is open, and goes back to where    *)
(* that delimiter was opened; a delimiter has one suite at most, the outer  *)
(* ones first; and only in a suite is the indentation another, and wider,   *)
(* than where the delimiter was opened.                                     *)
Suited(ds, rs, n) ==
  /\ \A i \in 1 .. Len(rs) : /\ rs[i].depth \in 1 .. Len(ds)
                             /\ rs[i].base = ds[rs[i].depth].at
  /\ \A i, j \in 1 .. Len(rs) : i < j => rs[i].depth < rs[j].depth
  /\ \A d \in 1 .. Len(ds) : /\ ds[d].at <= After(ds, n, d)
                             /\ ~HasSuite(rs, d) => ds[d].at = After(ds, n, d)

SuitesInv == ~failed /\ ~done => Suited(delims, regions, indent)

(* What the elements of the two stacks are.                                 *)
LEMMA StackFacts ==
  ASSUME NEW ds \in Seq(Delim), NEW rs \in Seq(Region)
  PROVE  /\ Len(ds) \in Nat /\ Len(rs) \in Nat
         /\ \A d \in 1 .. Len(ds) : ds[d].at \in Nat
         /\ \A i \in 1 .. Len(rs) : rs[i].depth \in Nat /\ rs[i].base \in Nat
  <1>1. ASSUME NEW d \in 1 .. Len(ds)
        PROVE  ds[d].at \in Nat
    <2>1. ds[d] \in Delim
      OBVIOUS
    <2>2. QED
      BY <2>1 DEF Delim, Column
  <1>2. ASSUME NEW i \in 1 .. Len(rs)
        PROVE  rs[i].depth \in Nat /\ rs[i].base \in Nat
    <2>1. rs[i] \in Region
      OBVIOUS
    <2>2. QED
      BY <2>1 DEF Region, Column
  <1>3. QED
    BY <1>1, <1>2

(* Opening a delimiter.                                                     *)
LEMMA SuitedOpened ==
  ASSUME NEW ds \in Seq(Delim), NEW rs \in Seq(Region), NEW n \in Nat,
         NEW e \in Delim, e.at = n, Suited(ds, rs, n)
  PROVE  Suited(Append(ds, e), rs, n)
  <1> DEFINE es == Append(ds, e)
  <1>1. /\ Len(ds) \in Nat /\ Len(es) = Len(ds) + 1 /\ es[Len(ds) + 1] = e
        /\ \A i \in 1 .. Len(ds) : es[i] = ds[i]
    OBVIOUS
  <1> HIDE DEF es
  <1>2. ASSUME NEW d \in 1 .. Len(ds)
        PROVE  After(es, n, d) = After(ds, n, d)
    BY <1>1 DEF After
  <1>3. After(es, n, Len(es)) = n
    BY DEF After
  <1>4. ASSUME NEW d \in 1 .. Len(es)
        PROVE  /\ es[d].at <= After(es, n, d)
               /\ ~HasSuite(rs, d) => es[d].at = After(es, n, d)
    <2>1. CASE d = Len(es)
      BY <1>1, <1>3, <2>1
    <2>2. CASE d # Len(es)
      BY <1>1, <1>2, <2>2 DEF Suited
    <2>3. QED
      BY <2>1, <2>2
  <1>5. ASSUME NEW i \in 1 .. Len(rs)
        PROVE  rs[i].depth \in 1 .. Len(es) /\ rs[i].base = es[rs[i].depth].at
    <2>1. rs[i].depth \in 1 .. Len(ds) /\ rs[i].base = ds[rs[i].depth].at
      BY DEF Suited
    <2>2. es[rs[i].depth] = ds[rs[i].depth]
      BY <1>1, <2>1
    <2>3. QED
      BY <1>1, <2>1, <2>2
  <1>6. QED
    BY <1>4, <1>5 DEF Suited, es

(* A suite goes on at another indentation, no less than where its delimiter *)
(* was opened.                                                              *)
LEMMA SuitedMoved ==
  ASSUME NEW ds \in Seq(Delim), NEW rs \in Seq(Region), NEW n \in Nat, NEW m \in Nat,
         Suited(ds, rs, n),
         ds # <<>> => HasSuite(rs, Len(ds)) /\ Top(ds).at <= m
  PROVE  Suited(ds, rs, m)
  <1>1. Len(ds) \in Nat /\ (ds = <<>> <=> Len(ds) = 0)
    OBVIOUS
  <1>2. ASSUME NEW d \in 1 .. Len(ds)
        PROVE  /\ ds[d].at <= After(ds, m, d)
               /\ ~HasSuite(rs, d) => ds[d].at = After(ds, m, d)
    <2>1. CASE d = Len(ds)
      BY <1>1, <2>1 DEF After, Top
    <2>2. CASE d # Len(ds)
      <3>1. After(ds, m, d) = After(ds, n, d)
        BY <2>2 DEF After
      <3>2. QED
        BY <3>1 DEF Suited
    <2>3. QED
      BY <2>1, <2>2
  <1>3. QED
    BY <1>2 DEF Suited

(* The suite on top is the one of its delimiter, and no suite under it is.  *)
LEMMA SuitedTop ==
  ASSUME NEW ds \in Seq(Delim), NEW rs \in Seq(Region), NEW n \in Nat,
         Suited(ds, rs, n), rs # <<>>
  PROVE  /\ Len(rs) \in 1 .. Len(rs) /\ HasSuite(rs, Top(rs).depth)
         /\ Top(rs).depth \in 1 .. Len(ds) /\ Top(rs).base = ds[Top(rs).depth].at
         /\ \A i \in 1 .. Len(rs) - 1 : rs[i].depth < Top(rs).depth
         /\ \A d \in 1 .. Len(ds) :
              d # Top(rs).depth => (HasSuite(Pop(rs), d) <=> HasSuite(rs, d))
  <1>1. /\ Len(rs) \in 1 .. Len(rs) /\ Top(rs) = rs[Len(rs)] /\ Len(Pop(rs)) = Len(rs) - 1
        /\ \A i \in 1 .. Len(rs) - 1 : Pop(rs)[i] = rs[i]
    BY PopOfStack
  <1>2. /\ HasSuite(rs, Top(rs).depth)
        /\ Top(rs).depth \in 1 .. Len(ds) /\ Top(rs).base = ds[Top(rs).depth].at
    BY <1>1 DEF HasSuite, Suited
  <1>3. \A i \in 1 .. Len(rs) - 1 : rs[i].depth < Top(rs).depth
    BY <1>1 DEF Suited
  <1>4. ASSUME NEW d \in 1 .. Len(ds), d # Top(rs).depth
        PROVE  HasSuite(Pop(rs), d) <=> HasSuite(rs, d)
    BY <1>1, <1>4 DEF HasSuite
  <1>5. QED
    BY <1>1, <1>2, <1>3, <1>4

(* The suite on top ends: its delimiter's is the indentation again.         *)
LEMMA SuitedEnded ==
  ASSUME NEW ds \in Seq(Delim), NEW rs \in Seq(Region), NEW n \in Nat,
         Suited(ds, rs, n), rs # <<>>, Top(rs).depth = Len(ds)
  PROVE  Suited(ds, Pop(rs), Top(rs).base)
  <1> DEFINE ss == Pop(rs)
             m == Top(rs).base
  <1>1. /\ Len(rs) \in 1 .. Len(rs) /\ Len(ss) = Len(rs) - 1
        /\ \A i \in 1 .. Len(rs) - 1 : ss[i] = rs[i]
    BY PopOfStack
  <1>2. /\ m = ds[Len(ds)].at /\ Len(ds) \in 1 .. Len(ds)
        /\ \A d \in 1 .. Len(ds) : d # Len(ds) => (HasSuite(ss, d) <=> HasSuite(rs, d))
    BY SuitedTop
  <1>3. m \in Nat /\ Len(ds) \in Nat
    BY <1>2, StackFacts
  <1> HIDE DEF ss, m
  <1>4. ASSUME NEW d \in 1 .. Len(ds)
        PROVE  /\ ds[d].at <= After(ds, m, d)
               /\ ~HasSuite(ss, d) => ds[d].at = After(ds, m, d)
    <2>1. CASE d = Len(ds)
      BY <1>2, <1>3, <2>1 DEF After
    <2>2. CASE d # Len(ds)
      <3>1. After(ds, m, d) = After(ds, n, d)
        BY <2>2 DEF After
      <3>2. QED
        BY <1>2, <2>2, <3>1 DEF Suited
    <2>3. QED
      BY <2>1, <2>2
  <1>5. ASSUME NEW i \in 1 .. Len(ss)
        PROVE  ss[i].depth \in 1 .. Len(ds) /\ ss[i].base = ds[ss[i].depth].at
    BY <1>1 DEF Suited
  <1>6. ASSUME NEW i \in 1 .. Len(ss), NEW j \in 1 .. Len(ss), i < j
        PROVE  ss[i].depth < ss[j].depth
    BY <1>1, <1>6 DEF Suited
  <1>7. Suited(ds, ss, m)
    BY <1>4, <1>5, <1>6 DEF Suited
  <1>8. QED
    BY <1>7 DEF ss, m

(* A suite opens in the last delimiter, which has none.                     *)
LEMMA SuitedBegun ==
  ASSUME NEW ds \in Seq(Delim), NEW rs \in Seq(Region), NEW n \in Nat, n \in Column,
         Suited(ds, rs, n), ds # <<>>, \A i \in DOMAIN rs : rs[i].depth < Len(ds)
  PROVE  Suited(ds, Append(rs, [depth |-> Len(ds), base |-> n]), n)
  <1> DEFINE r == [depth |-> Len(ds), base |-> n]
             ss == Append(rs, r)
  <1>1. /\ Len(ds) \in 1 .. Len(ds) /\ Len(rs) \in Nat /\ DOMAIN rs = 1 .. Len(rs)
        /\ r.depth = Len(ds) /\ r.base = n
    OBVIOUS
  <1>2. r \in Region
    BY <1>1 DEF Region
  <1> HIDE DEF r
  <1>3. /\ Len(ss) = Len(rs) + 1 /\ ss[Len(rs) + 1] = r
        /\ \A i \in 1 .. Len(rs) : ss[i] = rs[i]
    BY <1>2
  <1> HIDE DEF ss
  <1>4. ds[Len(ds)].at = n
    <2>1. ~HasSuite(rs, Len(ds))
      BY <1>1, StackFacts DEF HasSuite
    <2>2. After(ds, n, Len(ds)) = n
      BY DEF After
    <2>3. QED
      BY <1>1, <2>1, <2>2 DEF Suited
  <1>5. ASSUME NEW i \in 1 .. Len(ss)
        PROVE  ss[i].depth \in 1 .. Len(ds) /\ ss[i].base = ds[ss[i].depth].at
    <2>1. CASE i = Len(rs) + 1
      BY <1>1, <1>3, <1>4, <2>1
    <2>2. CASE i # Len(rs) + 1
      BY <1>1, <1>3, <2>2 DEF Suited
    <2>3. QED
      BY <2>1, <2>2
  <1>6. ASSUME NEW i \in 1 .. Len(ss), NEW j \in 1 .. Len(ss), i < j
        PROVE  ss[i].depth < ss[j].depth
    <2>1. i \in 1 .. Len(rs) /\ ss[i] = rs[i]
      BY <1>1, <1>3, <1>6
    <2>2. CASE j = Len(rs) + 1
      BY <1>1, <1>3, <2>1, <2>2
    <2>3. CASE j # Len(rs) + 1
      <3>1. j \in 1 .. Len(rs) /\ ss[j] = rs[j]
        BY <1>1, <1>3, <2>3
      <3>2. QED
        BY <1>6, <2>1, <3>1 DEF Suited
    <2>4. QED
      BY <2>2, <2>3
  <1>7. ASSUME NEW d \in 1 .. Len(ds)
        PROVE  /\ ds[d].at <= After(ds, n, d)
               /\ ~HasSuite(ss, d) => ds[d].at = After(ds, n, d)
    <2>1. HasSuite(rs, d) => HasSuite(ss, d)
      BY <1>1, <1>3 DEF HasSuite
    <2>2. QED
      BY <2>1 DEF Suited
  <1>8. Suited(ds, ss, n)
    BY <1>5, <1>6, <1>7 DEF Suited
  <1>9. QED
    BY <1>8 DEF ss, r

(* A delimiter that has no suite any more is closed.                        *)
LEMMA SuitedPopped ==
  ASSUME NEW ds \in Seq(Delim), NEW rs \in Seq(Region), NEW n \in Nat,
         Suited(ds, rs, n), ds # <<>>, ~HasSuite(rs, Len(ds))
  PROVE  Suited(Pop(ds), rs, n) /\ n = Top(ds).at
  <1> DEFINE es == Pop(ds)
  <1>1. /\ Len(ds) \in 1 .. Len(ds) /\ Len(es) = Len(ds) - 1 /\ Top(ds) = ds[Len(ds)]
        /\ \A i \in 1 .. Len(ds) - 1 : es[i] = ds[i]
    BY PopOfStack
  <1> HIDE DEF es
  <1>2. n = Top(ds).at
    <2>1. After(ds, n, Len(ds)) = n
      BY DEF After
    <2>2. QED
      BY <1>1, <2>1 DEF Suited
  <1>3. ASSUME NEW d \in 1 .. Len(es)
        PROVE  After(es, n, d) = After(ds, n, d)
    BY <1>1, <1>2 DEF After
  <1>4. ASSUME NEW d \in 1 .. Len(es)
        PROVE  /\ es[d].at <= After(es, n, d)
               /\ ~HasSuite(rs, d) => es[d].at = After(es, n, d)
    BY <1>1, <1>3 DEF Suited
  <1>5. ASSUME NEW i \in 1 .. Len(rs)
        PROVE  rs[i].depth \in 1 .. Len(es) /\ rs[i].base = es[rs[i].depth].at
    <2>1. /\ rs[i].depth \in 1 .. Len(ds) /\ rs[i].base = ds[rs[i].depth].at
          /\ rs[i].depth # Len(ds)
      BY DEF Suited, HasSuite
    <2>2. rs[i].depth \in 1 .. Len(ds) - 1
      BY <1>1, <2>1
    <2>3. es[rs[i].depth] = ds[rs[i].depth]
      BY <1>1, <2>2
    <2>4. QED
      BY <1>1, <2>1, <2>2, <2>3
  <1>6. Suited(es, rs, n)
    BY <1>4, <1>5 DEF Suited
  <1>7. QED
    BY <1>2, <1>6 DEF es

(* A step that leaves the two stacks and the indentation alone.             *)
LEMMA SuitesSame ==
  ASSUME SuitesInv, UNCHANGED <<delims, regions, indent>>, ~failed' => ~failed, ~done
  PROVE  SuitesInv'
  BY DEF SuitesInv

(* A line's indentation, where there is layout.                             *)
LEMMA SuitesIndented ==
  ASSUME LayoutInv, SuitesInv, NEW w \in Nat, update_indentation(w), UNCHANGED delims,
         layout_active, ~done
  PROVE  SuitesInv'
  <1>1. /\ delims \in Seq(Delim) /\ regions \in Seq(Region) /\ indent \in Nat
    BY DEF LayoutInv, Column
  <1>2. SUFFICES ASSUME ~failed' PROVE Suited(delims, regions', indent')
    BY DEF SuitesInv
  <1>3. /\ ~failed /\ indent' = w /\ NewIndent(w) = w
        /\ regions' = IF PopsRegion(w) THEN Pop(regions) ELSE regions
    BY <1>2 DEF update_indentation, BadIndent
  <1>4. Suited(delims, regions, indent)
    BY <1>3 DEF SuitesInv
  <1>5. CASE regions = <<>>
    <2>1. delims = <<>> /\ regions' = regions
      BY <1>3, <1>5 DEF layout_active, PopsRegion
    <2>2. QED
      BY <1>1, <1>3, <1>4, <2>1, SuitedMoved
  <1>6. CASE regions # <<>>
    <2>1. /\ Top(regions).depth = Len(delims) /\ HasSuite(regions, Len(delims))
          /\ Top(regions).base = Top(delims).at
      BY <1>1, <1>4, <1>6, SuitedTop DEF layout_active, Top
    <2>2. CASE PopsRegion(w)
      <3>1. w = Top(regions).base
        BY <2>2 DEF PopsRegion
      <3>2. QED
        BY <1>1, <1>3, <1>4, <1>6, <2>1, <2>2, <3>1, SuitedEnded
    <2>3. CASE ~PopsRegion(w)
      <3>1. Top(regions).base \in Nat
        BY <1>1, <1>6, TopOfRegions DEF Region, Column
      <3>2. Top(regions).base <= w
        <4>1. CASE w < Top(regions).base
          <5>1. NewIndent(w) = indent
            BY <1>6, <4>1 DEF NewIndent
          <5>2. Top(delims).at <= indent
            <6>1. Len(delims) \in 1 .. Len(delims) /\ After(delims, indent, Len(delims)) = indent
              BY <1>1, <1>4, <1>6, <2>1, SuitedTop DEF After
            <6>2. QED
              BY <1>4, <6>1 DEF Suited, Top
          <5>3. QED
            BY <1>1, <1>3, <2>1, <3>1, <4>1, <5>1, <5>2
        <4>2. QED
          BY <3>1, <4>1
      <3>3. QED
        BY <1>1, <1>3, <1>4, <2>1, <2>3, <3>2, SuitedMoved
    <2>4. QED
      BY <2>2, <2>3
  <1>7. QED
    BY <1>5, <1>6

(* A closing delimiter: where it fits, its suite has ended and the          *)
(* indentation is the one it was opened at.                                 *)
LEMMA SuitesClosed ==
  ASSUME LayoutInv, SuitesInv, NEW ch, close_delimiter(ch), ~failed'
  PROVE  Suited(delims', regions', indent') /\ indent' = Top(delims).at
  <1>1. /\ delims \in Seq(Delim) /\ regions \in Seq(Region) /\ indent \in Nat
    BY DEF LayoutInv, Column
  <1>2. delims # <<>> /\ delims' = Pop(delims) /\ ~failed /\ ~done /\ finish_layout_region
    BY DEF close_delimiter, Error, Same, Inside, InLine
  <1>3. Suited(delims, regions, indent)
    BY <1>2 DEF SuitesInv
  <1>4. Len(delims) \in 1 .. Len(delims)
    BY <1>1, <1>2
  <1>5. CASE Closes
    <2>1. regions # <<>> /\ Top(regions).depth = Len(delims) /\ regions' = Pop(regions)
      BY <1>2, <1>5 DEF Closes, finish_layout_region
    <2>2. /\ Top(regions).base = delims[Len(delims)].at
          /\ \A i \in 1 .. Len(regions) - 1 : regions[i].depth < Len(delims)
      BY <1>1, <1>3, <2>1, SuitedTop
    <2>3. Top(regions).base <= indent
      <3>1. After(delims, indent, Len(delims)) = indent
        BY DEF After
      <3>2. QED
        BY <1>3, <1>4, <2>2, <3>1 DEF Suited
    <2>4. indent' = Top(regions).base
      <3>1. Top(regions).base \in Nat
        BY <1>1, <2>1, TopOfRegions DEF Region, Column
      <3>2. indent' = IF indent > Top(regions).base THEN Top(regions).base ELSE indent
        BY <1>2, <1>5 DEF finish_layout_region
      <3>3. QED
        BY <1>1, <2>3, <3>1, <3>2
    <2>5. Suited(delims, regions', indent')
      BY <1>1, <1>3, <2>1, <2>4, SuitedEnded
    <2>6. ~HasSuite(regions', Len(delims)) /\ regions' \in Seq(Region)
      <3>1. /\ Len(regions') = Len(regions) - 1 /\ regions' \in Seq(Region)
            /\ \A i \in 1 .. Len(regions) - 1 : regions'[i] = regions[i]
        BY <1>1, <2>1, PopOfStack
      <3>2. \A i \in 1 .. Len(regions') : regions'[i].depth < Len(delims)
        BY <2>2, <3>1
      <3>3. \A i \in 1 .. Len(regions') : regions'[i].depth \in Nat
        BY <1>1, <3>1, StackFacts
      <3>4. QED
        BY <1>4, <3>1, <3>2, <3>3 DEF HasSuite
    <2>7. indent' \in Nat
      BY <1>1, <2>1, <2>4, TopOfRegions DEF Region, Column
    <2>8. QED
      BY <1>1, <1>2, <2>5, <2>6, <2>7, SuitedPopped
  <1>6. CASE ~Closes
    <2>1. UNCHANGED <<indent, regions>>
      BY <1>2, <1>6 DEF finish_layout_region
    <2>2. ~HasSuite(regions, Len(delims))
      <3>1. SUFFICES ASSUME NEW i \in 1 .. Len(regions), regions[i].depth = Len(delims)
                     PROVE  FALSE
        BY DEF HasSuite
      <3>2. regions # <<>>
        BY <1>1, <3>1
      <3>3. /\ Top(regions).depth # Len(delims) /\ Top(regions).depth \in 1 .. Len(delims)
            /\ Top(regions) = regions[Len(regions)] /\ Len(regions) \in Nat
            /\ \A j \in 1 .. Len(regions) - 1 : regions[j].depth < Top(regions).depth
        BY <1>1, <1>3, <1>6, <3>2, SuitedTop DEF Closes, Top
      <3>4. i # Len(regions)
        BY <3>1, <3>3
      <3>5. regions[i].depth < Top(regions).depth
        BY <3>3, <3>4
      <3>6. QED
        BY <1>4, <3>1, <3>3, <3>5
    <2>3. QED
      BY <1>1, <1>2, <1>3, <2>1, <2>2, SuitedPopped
  <1>7. QED
    BY <1>5, <1>6

(* With no delimiter open there is no suite of one.                         *)
LEMMA NoneLeft ==
  ASSUME NEW rs \in Seq(Region), NEW n, Suited(<<>>, rs, n)
  PROVE  rs = <<>>
  <1>1. Len(<<>>) = 0
    OBVIOUS
  <1>2. \A i \in 1 .. Len(rs) : rs[i].depth \in 1 .. 0
    BY <1>1 DEF Suited
  <1>3. \A k \in 1 .. 0 : FALSE
    BY SMT
  <1>4. Len(rs) \notin 1 .. Len(rs)
    BY <1>2, <1>3
  <1>5. QED
    BY <1>4

(* Every piece of text keeps it.                                            *)
LEMMA SuitesKept ==
  ASSUME NestedSuites = FALSE, LayoutInv, SuitesInv, Next
  PROVE  SuitesInv'
  <1>0. /\ delims \in Seq(Delim) /\ regions \in Seq(Region)
        /\ indent \in Nat /\ indent \in Column
    BY DEF LayoutInv, Column
  <1>1. ASSUME NEW w \in Widths, scan_line_start(w) \/ scan_documentation(w)
        PROVE  SuitesInv'
    BY <1>1, LexerAssumption, SuitesIndented DEF scan_line_start, scan_documentation, AtLineStart
  <1>2. ASSUME NEW w \in Widths, scan_raw_line_start(w)
        PROVE  SuitesInv'
    <2> DEFINE suite == IF asm = "started" THEN indent ELSE indent + 4
    <2>1. layout_active /\ ~done /\ UNCHANGED delims /\ w \in Nat
      BY <1>2, LexerAssumption DEF scan_raw_line_start, AtLineStart
    <2>2. CASE update_indentation(w)
      BY <2>1, <2>2, SuitesIndented
    <2>3. CASE failed'
      BY <2>3 DEF SuitesInv
    <2>4. CASE indent' = suite /\ UNCHANGED <<regions, failed>>
      <3>1. suite \in Nat /\ indent <= suite
        BY <1>0
      <3> HIDE DEF suite
      <3>2. SUFFICES ASSUME ~failed PROVE Suited(delims, regions, suite)
        BY <2>1, <2>4 DEF SuitesInv
      <3>3. Suited(delims, regions, indent)
        BY <2>1, <3>2 DEF SuitesInv
      <3>4. ASSUME delims # <<>>
            PROVE  HasSuite(regions, Len(delims)) /\ Top(delims).at <= suite
        <4>1. regions # <<>> /\ Top(regions).depth = Len(delims)
          BY <2>1, <3>4 DEF layout_active
        <4>2. HasSuite(regions, Len(delims)) /\ Len(delims) \in 1 .. Len(delims)
          BY <1>0, <3>3, <4>1, SuitedTop
        <4>3. After(delims, indent, Len(delims)) = indent
          BY DEF After
        <4>4. Top(delims).at <= indent
          BY <3>3, <4>2, <4>3 DEF Suited, Top
        <4>5. Top(delims).at \in Nat
          BY <1>0, <4>2, StackFacts DEF Top
        <4>6. QED
          BY <1>0, <3>1, <4>2, <4>4, <4>5
      <3>5. QED
        BY <1>0, <3>1, <3>3, <3>4, SuitedMoved
    <2>5. QED
      BY <1>2, <2>2, <2>3, <2>4 DEF scan_raw_line_start, Step4, Error
  <1>3. ASSUME NEW ch, close_delimiter(ch)
        PROVE  SuitesInv'
    BY <1>3, SuitesClosed DEF SuitesInv
  <1>4. CASE ColonEndsLine
    <2>1. SUFFICES ASSUME ~failed PROVE Suited(delims, regions', indent)
      BY <1>4 DEF SuitesInv, ColonEndsLine
    <2>2. Suited(delims, regions, indent)
      BY <1>4, <2>1 DEF SuitesInv, ColonEndsLine, Inside, InLine
    <2>3. CASE delims = <<>>
      BY <1>4, <2>2, <2>3 DEF ColonEndsLine
    <2>4. CASE delims # <<>>
      <3>1. /\ regions' = Append(regions, [depth |-> Len(delims), base |-> indent])
            /\ \A i \in DOMAIN regions : regions[i].depth < Len(delims)
        BY <1>4, <2>4 DEF ColonEndsLine
      <3>2. QED
        BY <1>0, <2>2, <2>4, <3>1, SuitedBegun
    <2>5. QED
      BY <2>3, <2>4
  <1>5. CASE finish
    BY <1>5 DEF finish, SuitesInv
  <1>6. ASSUME NEW d \in Opening, NEW e, e = [is |-> d, at |-> indent], delims' = Append(delims, e),
               UNCHANGED <<regions, indent, failed>>, ~done
        PROVE  SuitesInv'
    <2>1. e \in Delim /\ e.at = indent
      BY <1>0, <1>6, OpenedDelim
    <2>2. Suited(delims, regions, indent) => Suited(Append(delims, e), regions, indent)
      BY <1>0, <2>1, SuitedOpened
    <2>3. QED
      BY <1>6, <2>2 DEF SuitesInv
  <1>7. ASSUME NEW d \in Opening, OpenDelimiter(d)
        PROVE  SuitesInv'
    BY <1>6, <1>7 DEF OpenDelimiter, Inside, InLine, layout
  <1>8. CASE FormatField
    BY <1>6, <1>8 DEF FormatField, layout, Opening
  <1>9. CASE \E ok \in BOOLEAN : scan_string_literal(ok) \/ scan_character(ok) \/ scan_number(ok) \/ match_symbol(ok)
    BY <1>9, SuitesSame
    DEF scan_string_literal, scan_character, scan_number, match_symbol, Scanned, Inside, InLine, layout,
        Error, Same
  <1>10. CASE (\E word \in {"asm", "name"} : scan_word(word)) \/ skip_comment \/ EndOfLine
    <2>1. ASSUME NEW word, scan_word(word) PROVE SuitesInv'
      BY <2>1, SuitesSame DEF scan_word, Inside, InLine, layout
    <2>2. CASE skip_comment
      BY <2>2, SuitesSame DEF skip_comment, Inside, InLine, layout
    <2>3. CASE EndOfLine
      BY <2>3, SuitesSame DEF EndOfLine, InLine
    <2>4. QED
      BY <1>10, <2>1, <2>2, <2>3
  <1>11. CASE (\E triple \in BOOLEAN : FormatStart(triple)) \/ FormatEnd \/ FormatWrong
    BY <1>11, SuitesSame DEF FormatStart, FormatEnd, FormatWrong, Inside, InLine, layout, Error
  <1>12. CASE \E d \in {"(", "[", "{"} : OpenDelimiter(d)
    BY <1>7, <1>12 DEF Opening
  <1>13. QED
    BY <1>1, <1>2, <1>3, <1>4, <1>5, <1>8, <1>9, <1>10, <1>11, <1>12 DEF Next

(* Whether a step closes a delimiter, or leaves none open.                  *)
LEMMA StepsInside ==
  ASSUME NestedSuites = FALSE, LayoutInv, LayoutInv', SuitesInv, Next
  PROVE  /\ Len(delims') < Len(delims) /\ ~failed' => indent' = Top(delims).at
         /\ delims' = <<>> /\ ~failed' => regions' = <<>>
  <1>1. SuitesInv'
    BY SuitesKept
  <1>2. /\ delims \in Seq(Delim) /\ regions' \in Seq(Region)
    BY DEF LayoutInv
  <1>3. CASE \E ch \in {")", "]", "}"} : close_delimiter(ch)
    BY <1>2, <1>3, SuitesClosed, NoneLeft
  <1>4. CASE finish
    <2>1. UNCHANGED <<delims, regions>> /\ ~done /\ (~failed' => ~failed)
      BY <1>4 DEF finish
    <2>2. Len(delims) \in Nat
      BY <1>2
    <2>3. ASSUME delims' = <<>>, ~failed' PROVE regions' = <<>>
      <3>1. Suited(delims, regions, indent) /\ delims = <<>>
        BY <2>1, <2>3 DEF SuitesInv
      <3>2. QED
        BY <1>2, <2>1, <3>1, NoneLeft
    <2>4. ~(Len(delims') < Len(delims))
      BY <2>1, <2>2
    <2>5. QED
      BY <2>3, <2>4
  <1>5. ASSUME ~done', UNCHANGED delims \/ \E e \in Delim : delims' = Append(delims, e)
        PROVE  /\ Len(delims') < Len(delims) /\ ~failed' => indent' = Top(delims).at
               /\ delims' = <<>> /\ ~failed' => regions' = <<>>
    <2>1. ~(Len(delims') < Len(delims))
      <3>1. CASE UNCHANGED delims
        BY <1>2, <3>1
      <3>2. ASSUME NEW e \in Delim, delims' = Append(delims, e)
            PROVE  ~(Len(delims') < Len(delims))
        BY <1>2, <3>2
      <3>3. QED
        BY <1>5, <3>1, <3>2
    <2>2. ASSUME delims' = <<>>, ~failed' PROVE regions' = <<>>
      <3>1. Suited(delims', regions', indent')
        BY <1>1, <1>5, <2>2 DEF SuitesInv
      <3>2. QED
        BY <1>2, <2>2, <3>1, NoneLeft
    <2>3. QED
      BY <2>1, <2>2
  <1>6. \A d \in Opening : [is |-> d, at |-> indent] \in Delim
    BY OpenedDelim DEF LayoutInv
  <1>7. CASE \E d \in {"(", "[", "{"} : OpenDelimiter(d)
    <2>1. PICK d \in Opening : OpenDelimiter(d)
      BY <1>7 DEF Opening
    <2>2. QED
      BY <1>5, <1>6, <2>1 DEF OpenDelimiter, Inside, InLine
  <1>8. CASE FormatField
    BY <1>5, <1>6, <1>8 DEF FormatField, Opening
  <1>9. CASE \E w \in Widths : scan_line_start(w) \/ scan_documentation(w) \/ scan_raw_line_start(w)
    BY <1>5, <1>9 DEF scan_line_start, scan_documentation, scan_raw_line_start, AtLineStart
  <1>10. CASE \E ok \in BOOLEAN : scan_string_literal(ok) \/ scan_character(ok) \/ scan_number(ok) \/ match_symbol(ok)
    BY <1>5, <1>10
    DEF scan_string_literal, scan_character, scan_number, match_symbol, Scanned, Inside, InLine
  <1>11. CASE (\E word \in {"asm", "name"} : scan_word(word)) \/ skip_comment \/ EndOfLine \/ ColonEndsLine
    BY <1>5, <1>11 DEF scan_word, skip_comment, EndOfLine, ColonEndsLine, Inside, InLine
  <1>12. CASE (\E triple \in BOOLEAN : FormatStart(triple)) \/ FormatEnd \/ FormatWrong
    BY <1>5, <1>12 DEF FormatStart, FormatEnd, FormatWrong, Inside, InLine
  <1>13. QED
    BY <1>3, <1>4, <1>7, <1>8, <1>9, <1>10, <1>11, <1>12 DEF Next

(* A suite opened inside a delimiter ends inside it: unless something was   *)
(* reported, the close of a delimiter finds or makes the indentation what   *)
(* it was when the delimiter was opened, and when the last one is closed no *)
(* suite is left to keep newlines from being tokens.  For texts of any      *)
(* size in which no suite opens in a suite of the same delimiter.           *)
THEOREM SuitesEndInside ==
  ASSUME NestedSuites = FALSE
  PROVE  Spec => SuitesStayInside
  <1>1. Init => SuitesInv
    <2>1. ASSUME Init PROVE delims = <<>> /\ regions = <<>>
      BY <2>1 DEF Init
    <2>2. Len(<<>>) = 0 /\ \A k \in 1 .. 0 : FALSE
      BY SMT
    <2>3. QED
      BY <2>1, <2>2 DEF SuitesInv, Suited
  <1>2. LayoutInv /\ SuitesInv /\ [Next]_vars => SuitesInv'
    <2>1. SuitesInv /\ UNCHANGED vars => SuitesInv'
      BY DEF SuitesInv, vars
    <2>2. QED
      BY <2>1, SuitesKept
  <1>3. LayoutInv /\ LayoutInv' /\ SuitesInv /\ [Next]_vars =>
          [/\ Len(delims') < Len(delims) /\ ~failed' => indent' = Top(delims).at
           /\ delims' = <<>> /\ ~failed' => regions' = <<>>]_vars
    BY StepsInside
  <1>4. QED
    BY <1>1, <1>2, <1>3, LayoutHolds, PTL DEF Spec, SuitesStayInside
=============================================================================
