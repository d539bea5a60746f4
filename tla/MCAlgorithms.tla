---------------------------- MODULE MCAlgorithms ----------------------------
(***************************************************************************)
(* The algorithms of the checker, the oracle, the emitter and the runtime, *)
(* asked one question at a time over every small input, beside the account *)
(* the checker keeps of handled messages.  Questions names the families    *)
(* that are asked.                                                         *)
(***************************************************************************)
EXTENDS Conversions, Folding, Flow, Utf8, Layout, HandledViews

CONSTANT Questions

VARIABLES asked,   \* the family of the question before the program, or "nothing"
          q        \* the question
algVars == << asked, q >>

Asking(family) ==
    /\ family \in Questions
    /\ asked = "nothing" /\ entered = 0 /\ depth = 1 /\ scope = << >>
    /\ asked' = family
    /\ UNCHANGED viewsVars

NumbersOf(t) == int_min(t) .. int_max(t)
Edges(t) == {int_min(t), int_min(t) + 1, 0, 1, int_max(t)}
Operators == Arithmetical \union Equality \union Ordering
(* Operands of one type, counts of shifts, and unsigned operands of two    *)
(* widths.  Signed ones of two widths are the widening run's.              *)
Meets(op, lt, rt) == \/ lt = rt
                     \/ op \in Shifts /\ unify_int(lt, rt) # NoType
                     \/ ~lt.signed /\ ~rt.signed
AskBinary ==
    /\ Asking("binary")
    /\ \E op \in Operators, lt, rt \in IntTypes : Meets(op, lt, rt)
          /\ \E a \in IF lt = rt THEN NumbersOf(lt) ELSE Edges(lt), b \in NumbersOf(rt) :
               q' = [op |-> op, lt |-> lt, rt |-> rt, a |-> a, b |-> b]
AskUnary ==
    /\ Asking("unary")
    /\ \E op \in {"-", "-%", "~"}, t \in IntTypes : (t.signed \/ op # "-")
           /\ \E a \in NumbersOf(t) : q' = [op |-> op, t |-> t, a |-> a]
Narrow == CHOOSE w \in Widths : \A v \in Widths : w <= v
AskLanes ==
    /\ Asking("lanes")
    /\ \E op \in Arithmetical \ Optional, s \in BOOLEAN :
         LET t == IntType(Narrow, s)
         IN  \E a, b \in [1 .. 2 -> Edges(t)] : q' = [op |-> op, t |-> t, a |-> a, b |-> b]
AskFold ==
    /\ Asking("fold")
    /\ \E which \in {"sum", "min", "max"}, s \in BOOLEAN :
         LET t == IntType(Narrow, s)
         IN  \E a \in [1 .. 3 -> Edges(t)] : q' = [which |-> which, t |-> t, a |-> a]

Floats == {NaN, Halves(Infinity), Halves(-Infinity)}
          \union {Halves(n) : n \in -(2 ^ (WordBits + 2)) .. 2 ^ (WordBits + 2)}
Sources == IntTypes \union {Char, Bool, Float} \union {Enum(IntType(b, FALSE)) : b \in Widths}
Targets(src) == CASE src.kind = "int" -> IntTypes \union {Char, Bool, Enum(IntType(src.bits, FALSE))}
                  [] src.kind = "enum" -> IntTypes
                  [] OTHER -> IntTypes
ValuesOf(t) == CASE t.kind = "float" -> Floats
                 [] t.kind = "enum" -> EnumCases
                 [] t.kind = "char" -> 0 .. LastScalar \ Surrogates
                 [] t.kind = "bool" -> 0 .. 1
                 [] OTHER -> NumbersOf(t)
AskConversion ==
    /\ Asking("conversion")
    /\ \E src \in Sources : \E dest \in Targets(src), x \in ValuesOf(src), checked \in BOOLEAN :
         /\ (src.kind \in {"bool", "enum"} \/ dest.kind = "bool" => ~checked)
         /\ q' = [src |-> src, dest |-> dest, x |-> x, checked |-> checked]
(* A sequence no longer than the index type counts to.                     *)
AskIndex ==
    /\ Asking("index")
    /\ \E t \in IntTypes : \E i \in NumbersOf(t), n \in 0 .. 2 ^ (t.bits - 1) :
         q' = [t |-> t, i |-> i, n |-> n]
AskSlice ==
    /\ Asking("slice")
    /\ \E t \in IntTypes : \E i \in NumbersOf(t), n \in {0, 1, 5, 2 ^ (t.bits - 1) - 1} :
         \E j \in NumbersOf(t) : i <= j /\ q' = [t |-> t, i |-> i, j |-> j, n |-> n]

(* The bytes on both sides of every bound of the code and of the standard. *)
LeadBytes == {0, 65, 127, 192, 193, 194, 223, 224, 237, 239, 240, 244, 245, 247, 248, 255}
TailBytes == {127, 128, 143, 144, 159, 160, 191, 192}
AskText ==
    /\ Asking("text")
    /\ \/ \E c \in LeadBytes : q' = << c >>
       \/ \E c \in LeadBytes, d \in TailBytes \union {65, 194} : q' = << c, d >>
       \/ \E c \in LeadBytes, d \in TailBytes, e \in TailBytes \union {65, 194} : q' = << c, d, e >>
       \/ \E c \in LeadBytes, d, e \in TailBytes, f \in TailBytes \union {65} : q' = << c, d, e, f >>
ScalarEdges == {0, 1, 127, 128, 2047, 2048, 4095, 4096, 55295, 57344, 65535, 65536, 262143, 262144, 1114111}
AskScalar ==
    /\ Asking("scalar")
    /\ \E x, y \in ScalarEdges : q' = << x, y >>

Words == 0 .. int_mask(WordBits)
Folded == {"+", "-", "*", "//", "%", "<<", ">>", "&"}
Few == {0, 1, 2, WordBits, int_max_signed(WordBits), int_max_signed(WordBits) + 1, int_mask(WordBits)}
Numeral(a) == IF a < 0 THEN Neg(Lit(-a)) ELSE Lit(a)
CloseTo(t) == Edges(t) \union {2, 3}
(* Operations that const_u64 gives another result than the program, with   *)
(* no trap to tell: of negative numbers, and of bits that leave the type.  *)
FoldsApart(op, t, a, b) == \/ op \in Dividing \union {">>"} /\ (a < 0 \/ b < 0)
                           \/ op = "<<" /\ t.bits < WordBits
AskConstant ==
    /\ Asking("constant")
    /\ \/ \E op \in Folded, a, b \in Words : q' = Bin(op, Lit(a), Lit(b))
       \/ \E o1, o2 \in Folded, a, b, c \in Few : q' = Bin(o1, Bin(o2, Lit(a), Let(Lit(b))), Lit(c))
       \/ \E t \in IntTypes : \E a \in NumbersOf(t) : q' = Cast(t, Numeral(a))
       \/ \E t \in IntTypes, op \in Folded, a, b \in CloseTo(i64) :
            /\ ~FoldsApart(op, i64, a, b)
            /\ q' = Cast(t, Bin(op, Numeral(a), Numeral(b)))
Comparisons == Equality \union Ordering
AskCondition ==
    /\ Asking("condition")
    /\ \/ \E op \in Comparisons, o1 \in Folded, a, b, c \in Few :
            q' = [op |-> op, l |-> Bin(o1, Lit(a), Lit(b)), r |-> Lit(c), t |-> usize]
       \/ \E op \in Comparisons, a, b \in NumbersOf(i64) :
            q' = [op |-> op, l |-> Numeral(a), r |-> Numeral(b), t |-> i64]
       \/ \E op \in Comparisons, o1 \in Folded, t \in IntTypes : \E a, b, c \in CloseTo(t) :
            /\ ~FoldsApart(o1, t, a, b)
            /\ q' = [op |-> op, l |-> Bin(o1, Let(Numeral(a)), Numeral(b)), r |-> Numeral(c), t |-> t]

Leaves == {Use, Call, Return, LetUnused(TRUE), LetUnused(FALSE)} \union {Assign(f) : f \in Fields}
Blocks1 == {Empty} \union {Block(<< x >>) : x \in Leaves}
LoopBlocks == Blocks1 \union {Block(<< Break >>)}
Branches == {If(c, a, b) : c \in Conditions, a, b \in Blocks1}
Compounds == Branches \union {While(c, x) : c \in Conditions, x \in LoopBlocks}
             \union {With(x) : x \in Blocks1} \union {Match(<< a, b >>) : a, b \in Blocks1}
Breaking == {If(c, a, b) : c \in {"true", "unknown"}, a \in {Block(<< Break >>), Block(<< With(Block(<< Break >>)) >>)},
                           b \in Blocks1}
AskBody ==
    /\ Asking("body")
    /\ \/ \E x \in Compounds, y \in Leaves : q' = Block(<< x, y >>)
       \/ \E x \in Leaves, y \in Compounds : q' = Block(<< x, y >>)
       \/ \E x, y \in Compounds : q' = Block(<< x, y, Assign(CHOOSE f \in Fields : TRUE) >>)
       \/ \E c \in Conditions, x \in Breaking, y, z \in Leaves :
            q' = Block(<< While(c, Block(<< x, y >>)), z >>)

Sizes == {1, 2, 4, 8}
Simple == {Prim(n) : n \in Sizes} \union {Ptr, Pair}
Sequences2 == {<< x, y >> : x, y \in Simple}
Plain2 == {<< Field(x, 0), Field(y, 0) >> : x, y \in Simple}
Composite == {Array(x, n) : x \in Simple, n \in {1, 3}} \union {Tuple(s) : s \in Sequences2}
             \union {Opt(x) : x \in Simple} \union {Fallible(x) : x \in Simple \union {Unit}}
             \union {Struct(s, p, 0) : s \in Plain2, p \in BOOLEAN}
             \union {Struct(<< Field(x, 0), Field(y, n) >>, FALSE, m) : x, y \in Simple, n \in {0, 2, 16}, m \in {0, 4, 32}}
             \union {UnionOf(s) : s \in Plain2}
             \union {EnumOf(<< << x, y >>, << z >>, << >> >>) : x, y, z \in Simple} \union {EnumOf(<< << >> >>)}
(* The types that the checker lays out otherwise than C: aggregates with   *)
(* methods only, allocators and error values.                              *)
Bodiless == {Struct(<< >>, p, m) : p \in BOOLEAN, m \in {0, 4, 32}} \union {UnionOf(<< >>)}
LaidApart == Bodiless \union {Allocator, ErrorValue}
(* align(N) with a literal N, and not on a field of a packed struct.       *)
AskLayout ==
    /\ Asking("layout")
    /\ \/ \E x \in Simple \union Composite \union LaidApart : q' = x
       \/ \E x \in Composite, y \in Simple, p \in BOOLEAN :
            q' = Struct(<< Field(y, 0), Field(x, 0), Field(Prim(1), 0) >>, p, 0)
       \/ \E x \in Composite : q' \in {Opt(x), Fallible(x), Array(x, 3), EnumOf(<< << Prim(1), x >>, << Prim(2) >> >>),
                                       UnionOf(<< Field(x, 0), Field(Array(Prim(1), 3), 0) >>), Tuple(<< Prim(1), x, Prim(2) >>)}

Answered == /\ asked # "nothing"
            /\ asked' = "nothing" /\ q' = << >>
            /\ UNCHANGED viewsVars
Account == "views" \in Questions /\ asked = "nothing" /\ ViewsNext /\ UNCHANGED algVars

AlgInit == asked = "nothing" /\ q = << >> /\ ViewsInit
AlgNext == \/ AskBinary \/ AskUnary \/ AskLanes \/ AskFold \/ AskConversion \/ AskIndex
           \/ AskSlice \/ AskText \/ AskScalar \/ AskConstant \/ AskCondition
           \/ AskBody \/ AskLayout \/ Answered \/ Account
AlgSpec == AlgInit /\ [][AlgNext]_<< algVars, viewsVars >>

-----------------------------------------------------------------------------
(* What the oracle stored, as the number it stands for.                    *)
Numbers(op, t, r) == IF op \in Comparisons \/ r.trap # "" THEN r ELSE Value(Read(t, r.v))
LaneNumbers(t, r) == [trap |-> r.trap, v |-> [i \in DOMAIN r.v |-> Read(t, r.v[i])]]
StoredLanes(t, a) == [i \in DOMAIN a |-> Stored(t, a[i])]
OracleBinary == LET t == result_type(q.op, q.lt, q.rt)
                IN  Numbers(q.op, t, eval_binary(q.op, t, Stored(q.lt, q.a), q.lt, Stored(q.rt, q.b), q.rt))
CompiledBinary == emit_binary_values(q.op, result_type(q.op, q.lt, q.rt), q.a, q.lt, q.b)
UnaryMeaning == CASE q.op = "-" -> OnlyIf(InType(q.t, -q.a), -q.a, Trap("integer overflow"))
                  [] q.op = "-%" -> Value(Congruent(q.t, -q.a))
                  [] q.op = "~" -> Value(Congruent(q.t, -q.a - 1))

(* The oracle's operators give the number the language defines, and trap   *)
(* exactly where it is not in the type: at every operand of every width,   *)
(* the word's own width included, where the host's arithmetic wraps.  An   *)
(* ordering of two widths is not among them: both executions read its      *)
(* right operand in the left one's type, and CompiledAgrees covers that.   *)
OperatorsMeanIt ==
    /\ asked = "binary" /\ ~(q.op \in Ordering /\ q.lt # q.rt) =>
         OracleBinary = Meaning(q.op, result_type(q.op, q.lt, q.rt), q.a, q.b)
    /\ asked = "unary" => Numbers(q.op, q.t, unary_scalar(q.t, Stored(q.t, q.a), q.op)) = UnaryMeaning

(* The compiled program, with the helper the emitter chose and the casts   *)
(* around it, gives the oracle's answer or its trap: scalars, the lanes of *)
(* a vector, and their folds, the trap being that of the first lane.       *)
CompiledAgrees ==
    /\ asked = "binary" => CompiledBinary = OracleBinary
    /\ asked = "unary" => emit_unary_scalar(q.t, q.op, q.a)
                          = Numbers(q.op, q.t, unary_scalar(q.t, Stored(q.t, q.a), q.op))
    /\ asked = "lanes" =>
         /\ emit_vector_binary(q.t, q.a, q.b, q.op)
              = LaneNumbers(q.t, eval_vector_binary(q.t, StoredLanes(q.t, q.a), StoredLanes(q.t, q.b), q.op))
         /\ \A op \in {"-%", "~"} \union (IF q.t.signed THEN {"-"} ELSE {}) :
              emit_vector_unary(q.t, q.a, op) = LaneNumbers(q.t, eval_vector_unary(q.t, StoredLanes(q.t, q.a), op))
    /\ asked = "fold" => emit_vector_fold(q.which, q.t, q.a)
                         = Numbers("+", q.t, eval_vector_fold(q.which, q.t, StoredLanes(q.t, q.a)))

(* T(x) gives x or traps, (T)x keeps the low bits, a float saturates: in   *)
(* the oracle and in the compiled program, at the bounds of both types.    *)
ConversionsMeanIt ==
    asked = "conversion" =>
      LET m == ConversionMeaning(q.x, q.src, q.dest, q.checked)
          x == IF q.src.kind = "int" THEN Stored(q.src, q.x) ELSE q.x
          o == eval_conv(x, q.src, q.dest, q.checked)
      IN  /\ (IF o.trap # "" \/ q.dest.kind # "int" THEN o ELSE Value(Read(q.dest, o.v))) = m
          /\ emit_conv(q.x, q.src, q.dest, q.checked) = m

(* An index or a slice that is not refused lies within the sequence, and   *)
(* the oracle and the compiled program refuse the same ones.               *)
PlacesAreInside ==
    /\ asked = "index" =>
         LET r == emit_index(q.i, q.n)
         IN  /\ r = eval_index(Stored(q.t, q.i), q.t, q.n)
             /\ r = IF q.i \in 0 .. q.n - 1 THEN Value(q.i) ELSE Trap("index out of bounds")
    /\ asked = "slice" =>
         LET r == emit_slice(q.i, q.j, q.n)
         IN  /\ r = eval_slice(Stored(q.t, q.i), Stored(q.t, q.j), q.t, q.n)
             /\ r.trap = "" <=> (0 <= q.i /\ q.j <= q.n)
             /\ r.trap = "" => r.v.start + r.v.length <= q.n

(* Bytes become text exactly when they are well-formed UTF-8: no overlong  *)
(* form, surrogate, scalar past the last or cut sequence gets through, and *)
(* text is read back scalar by scalar.                                     *)
TextIsWellFormed ==
    /\ asked = "text" => utf8_ok(q) = WellFormed(q)
    /\ asked = "scalar" =>
         LET s == Encoding(q[1]) \o Encoding(q[2])
             first == lb_utf8_scalar(s, 1)
         IN  utf8_ok(s) /\ first.scalar = q[1] /\ lb_utf8_scalar(s, 1 + first.width).scalar = q[2]

(* In usize, a constant that the checker computes and a condition that it  *)
(* decides are what the program would find, and what would trap is left to *)
(* run.  A condition on another integer type, or an operation under a      *)
(* cast, is decided as the program would unless the program traps:         *)
(* const_u64 folds every type on the words of usize, and also decides what *)
(* overflows a narrower or a signed type.  That it does, and what          *)
(* FoldsApart names, is RemovalKeepsMeaning in MCDisagreements.            *)
ConstantsAreTheirRun ==
    /\ asked = "constant" =>
         LET c == const_u64(q)
             run == Run(q, usize)
         IN  c.ok => run = Value(c.v) \/ (q.k = "cast" /\ run.trap # "")
    /\ asked = "condition" =>
         LET c == const_bool(q.op, q.l, q.r, q.t)
             run == RunCompare(q.op, q.l, q.r, q.t)
         IN  c.ok => run = Value(c.v) \/ (q.t # usize /\ run.trap # "")

(* A body the checker says always returns has no execution that falls      *)
(* through its end, so no return is missing; and removing decided          *)
(* branches, code after a return and unused bindings leaves a body exactly *)
(* the executions it had.                                                  *)
PruningKeepsMeaning ==
    asked = "body" =>
      /\ always_returns(q) => \A r \in Executions(q) : r.how # "falls"
      /\ Executions(check_stmt(q)) = Executions(q)

(* An init the checker accepts reads self only when every field has its    *)
(* value, assigns no field after it has let self be read, and falls off    *)
(* its end with every field assigned.                                      *)
InitBuildsTheWhole ==
    asked = "body" =>
      (check_init(check_stmt(q)) =>
         \A r \in Executions(q) : /\ WholeBeforeUse(r.ev)
                                  /\ r.how = "falls" => EveryFieldAssigned(r.ev))

(* The sizes, alignments and offsets the checker computes, which constants *)
(* and the oracle's memory are built on, are those the C compiler gives    *)
(* the types the emitter writes, nested to any arrangement of padding.     *)
(* They are too small for the types of LaidApart, which are asked alone.   *)
LayoutsAgree ==
    asked = "layout" =>
      IF q \in LaidApart THEN type_size(q) < CSize(c_type(q))
      ELSE /\ type_size(q) = CSize(c_type(q))
           /\ type_align(q) = CAlign(c_type(q))
           /\ q.k = "struct" => \A i \in DOMAIN q.fields : type_offset(q, i) = CLaid(c_type(q))[i].start
=============================================================================
