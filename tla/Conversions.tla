---------------------------- MODULE Conversions ----------------------------
(***************************************************************************)
(* Conversions between scalars, written T(x), which traps on a value the   *)
(* type has not, or (T)x, which keeps the bits; the bounds of an index and *)
(* of a slice; and the fold of a vector's lanes.  As in Arithmetic, the    *)
(* oracle works on stored words and the compiled program on C's numbers.   *)
(* A float is NaN or a number of halves, the infinities beyond every word. *)
(***************************************************************************)
EXTENDS Arithmetic

CONSTANTS CharBits,      \* the bits of a char, 32 in the code
          LastScalar,    \* 0x10FFFF
          Surrogates,    \* 0xD800 .. 0xDFFF
          EnumCases      \* the values an integer enum declares

ASSUME ScalarsAssumption == LastScalar < 2 ^ CharBits /\ Surrogates \subseteq 0 .. LastScalar

Char == [kind |-> "char", bits |-> CharBits, signed |-> FALSE]
Bool == [kind |-> "bool", bits |-> 1, signed |-> FALSE]
Float == [kind |-> "float", bits |-> 0, signed |-> TRUE]
Enum(t) == [kind |-> "enum", bits |-> t.bits, signed |-> t.signed]

Infinity == 2 ^ (WordBits + 3)
NaN == [nan |-> TRUE, h |-> 0]
Halves(n) == [nan |-> FALSE, h |-> n]
Truncated(a) == CDiv(a.h, 2)
BadConversion == Trap("integer conversion out of range")

-----------------------------------------------------------------------------
(* Whether a sign and a magnitude is a value of the type.                  *)
fits_destination(negative, bits, dest) ==
    CASE dest.kind = "char" -> ~negative /\ bits <= LastScalar /\ bits \notin Surrogates
      [] dest.kind = "int" /\ dest.signed ->
           IF negative THEN Long(bits) >= int_min(dest) ELSE bits <= int_max_signed(dest.bits)
      [] OTHER -> ~negative /\ bits <= int_max_unsigned(dest.bits)

float_to_int(a, dest, checked) ==
    LET hi == 2 * 2 ^ (IF dest.signed THEN dest.bits - 1 ELSE dest.bits)
        lo == IF dest.signed THEN -hi ELSE 0
    IN  CASE checked -> IF a.nan \/ a.h < lo \/ a.h >= hi THEN BadConversion
                        ELSE Value(v_int(dest, Word(Truncated(a))))
          [] ~checked /\ a.nan -> Value(v_int(dest, 0))
          [] ~checked /\ ~a.nan /\ dest.signed ->
               Value(v_int(dest, Word(CASE a.h <= lo -> int_min(dest)
                                        [] a.h >= hi -> int_max_signed(dest.bits)
                                        [] OTHER -> Truncated(a))))
          [] OTHER -> Value(v_int(dest, CASE a.h < 0 -> 0
                                          [] a.h >= hi -> int_max_unsigned(dest.bits)
                                          [] OTHER -> Truncated(a)))

int_to_enum(u, dest, checked) ==
    IF checked /\ ~\E v \in EnumCases : v % 2 ^ dest.bits = u % 2 ^ dest.bits
    THEN Trap("invalid enum value") ELSE Value(u)

eval_conv(x, src, dest, checked) ==
    CASE src.kind = "float" -> float_to_int(x, dest, checked)
      [] src.kind = "enum" -> Value(v_int(dest, as_u(x, src)))
      [] src.kind = "bool" -> Value(v_int(dest, x))
      [] src.kind = "int" /\ dest.kind = "bool" -> Value(IF as_u(x, src) # 0 THEN 1 ELSE 0)
      [] src.kind = "int" /\ dest.kind = "enum" -> int_to_enum(as_u(x, src), dest, checked)
      [] src.kind = "int" /\ dest.kind \in {"int", "char"} ->
           (LET negative == src.signed /\ as_s(x, src) < 0
                bits == IF src.signed THEN Word(as_s(x, src)) ELSE as_u(x, src)
            IN  IF checked /\ ~fits_destination(negative, bits, dest) THEN BadConversion
                ELSE Value(v_int(dest, IF dest.kind = "char" THEN bits % 2 ^ CharBits ELSE bits)))
      [] src.kind = "char" /\ dest.kind = "int" ->
           IF checked /\ x > int_max(dest) THEN BadConversion ELSE Value(v_int(dest, x))

-----------------------------------------------------------------------------
source_of(a, bits, signed) ==
    IF signed THEN [negative |-> sext(a, bits) < 0, bits |-> Word(sext(a, bits))]
              ELSE [negative |-> FALSE, bits |-> zext(a, bits)]
fits_u(v, bits) == v <= mask_bits(bits)
checked_bits_signless(s, bits, signed) ==
    LET bad == IF signed THEN s.bits > smax(bits) ELSE ~fits_u(s.bits, bits)
    IN  IF bad THEN BadConversion ELSE Value(s.bits)
checked_bits(s, bits, signed) ==
    LET bad == IF signed THEN (IF s.negative THEN Long(s.bits) < smin(bits) ELSE s.bits > smax(bits))
                         ELSE s.negative \/ ~fits_u(s.bits, bits)
    IN  IF bad THEN BadConversion ELSE Value(s.bits)
lb_conv_s(a, from, to, checked) ==
    LET s == source_of(a, from.bits, from.signed)
        r == checked_bits(s, to.bits, to.signed)
    IN  IF checked THEN (IF r.trap # "" THEN r ELSE Value(Long(r.v)))
        ELSE Value(IF to.signed THEN sext(zext(s.bits, to.bits), to.bits) ELSE zext(s.bits, to.bits))
lb_conv_u(a, from, to, checked) ==
    LET s == source_of(a, from.bits, from.signed)
    IN  IF checked THEN checked_bits(s, to.bits, to.signed) ELSE Value(zext(s.bits, to.bits))
lb_to_char(a, checked) ==
    IF checked /\ (a > LastScalar \/ a \in Surrogates) THEN BadConversion ELSE Value(a % 2 ^ CharBits)

lb_f_to_s(a, bits, checked) ==
    LET hi == 2 * 2 ^ (bits - 1)
    IN  CASE checked -> IF a.nan \/ Magnitude(a.h) >= Infinity \/ a.h < -hi \/ a.h >= hi
                        THEN BadConversion ELSE Value(Truncated(a))
          [] ~checked /\ a.nan -> Value(0)
          [] ~checked /\ ~a.nan /\ a.h <= -hi -> Value(smin(bits))
          [] ~checked /\ ~a.nan /\ a.h >= hi -> Value(smax(bits))
          [] OTHER -> Value(Truncated(a))
lb_f_to_u(a, bits, checked) ==
    LET hi == 2 * 2 ^ bits
    IN  CASE checked -> IF a.nan \/ Magnitude(a.h) >= Infinity \/ a.h < 0 \/ a.h >= hi
                        THEN BadConversion ELSE Value(Truncated(a))
          [] ~checked /\ (a.nan \/ a.h < 0) -> Value(0)
          [] ~checked /\ ~a.nan /\ a.h >= hi -> Value(mask_bits(bits))
          [] OTHER -> Value(Truncated(a))

emit_enum_check(e, dest) ==
    LET x == down_cast(dest, e)
    IN  IF \E v \in EnumCases : x = down_cast(dest, v) THEN Value(x) ELSE Trap("invalid enum value")

emit_conv(e, src, dest, checked) ==
    CASE dest.kind = "enum" -> IF checked THEN emit_enum_check(e, dest) ELSE Value(down_cast(dest, e))
      [] src.kind = "enum" -> Value(down_cast(dest, e))
      [] src.kind = "float" -> Down(dest, IF dest.signed THEN lb_f_to_s(e, dest.bits, checked)
                                                         ELSE lb_f_to_u(e, dest.bits, checked))
      [] src.kind \in {"int", "char"} /\ dest.kind \in {"int", "char"} ->
           (LET r == IF src.signed THEN lb_conv_s(word_cast(src, e), src, dest, checked)
                                   ELSE lb_conv_u(word_cast(src, e), src, dest, checked)
            IN  CASE r.trap # "" -> r
                  [] r.trap = "" /\ dest.kind = "char" -> lb_to_char(Word(r.v), checked)
                  [] OTHER -> Down(dest, r))
      [] OTHER -> Value(IF dest.kind = "bool" THEN (IF e # 0 THEN 1 ELSE 0) ELSE down_cast(dest, e))

-----------------------------------------------------------------------------
(* What a conversion means: the number itself, or a trap; (T)x the number  *)
(* congruent to it, and of a float the nearest one.                        *)
IsValue(t, x) == CASE t.kind = "char" -> x \in 0 .. LastScalar \ Surrogates
                   [] t.kind = "bool" -> x \in 0 .. 1
                   [] t.kind = "enum" -> x \in EnumCases
                   [] OTHER -> InType(t, x)
ConversionMeaning(x, src, dest, checked) ==
    CASE src.kind = "float" /\ checked ->
           IF ~x.nan /\ 2 * int_min(dest) <= x.h /\ x.h < 2 * (int_max(dest) + 1)
           THEN Value(Truncated(x)) ELSE BadConversion
      [] src.kind = "float" /\ ~checked -> Value(IF x.nan THEN 0 ELSE Nearest(dest, Truncated(x)))
      [] dest.kind = "bool" -> Value(IF x # 0 THEN 1 ELSE 0)
      [] dest.kind = "enum" /\ checked -> IF IsValue(dest, x) THEN Value(x) ELSE Trap("invalid enum value")
      [] dest.kind \in {"int", "char"} /\ src.kind # "float" /\ checked ->
           IF IsValue(dest, x) THEN Value(x) ELSE BadConversion
      [] OTHER -> Value(Congruent(dest, x))

-----------------------------------------------------------------------------
(* An index and a slice: where they lie in a sequence of len elements.     *)
eval_index(i, t, len) == IF as_u(i, t) >= len THEN Trap("index out of bounds") ELSE Value(as_u(i, t))
lb_check_index_closed(i, n) == i <= n
lb_check_index(i, n) == i < n
emit_index(i, len) == IF lb_check_index(Word(i), len) THEN Value(i) ELSE Trap("index out of bounds")
Slice(start, length) == [start |-> start, length |-> length]
NoSlice == [trap |-> "index out of bounds", v |-> Slice(0, 0)]
eval_slice(start, end, t, len) ==
    LET a == as_u(start, t)
        b == as_u(end, t)
    IN  IF a > b \/ b > len THEN NoSlice ELSE Value(Slice(a, b - a))
emit_slice(start, end, len) ==
    IF lb_check_index(Word(start), len + 1) /\ lb_check_index(Word(end), len + 1)
    THEN Value(Slice(start, Word(end - start))) ELSE NoSlice

(* sum, min and max of a vector, its lanes folded in order.                *)
FoldLanes(step(_, _), lanes) ==
    LET fold[i \in 1 .. Len(lanes)] ==
          IF i = 1 THEN Value(lanes[1])
          ELSE IF fold[i - 1].trap # "" THEN fold[i - 1] ELSE step(fold[i - 1].v, lanes[i])
    IN  fold[Len(lanes)]
eval_vector_fold(which, t, lanes) ==
    LET step(acc, lane) ==
          IF which = "sum" THEN arith(t, acc, lane, t, "+")
          ELSE Value(IF cmp_num(lane, acc, t, IF which = "min" THEN "<" ELSE ">") THEN lane ELSE acc)
    IN  FoldLanes(step, lanes)
emit_vector_fold(which, t, lanes) ==
    LET step(acc, lane) ==
          IF which = "sum" THEN emit_arith(t, "+", acc, lane)
          ELSE Value(IF Compare(IF which = "min" THEN "<" ELSE ">", lane, acc) THEN lane ELSE acc)
    IN  FoldLanes(step, lanes)
=============================================================================
