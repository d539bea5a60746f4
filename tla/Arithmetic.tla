----------------------------- MODULE Arithmetic -----------------------------
(***************************************************************************)
(* The scalars of a Luce program, computed twice: by the oracle, which     *)
(* keeps every integer as the low bits of a machine word and a type beside *)
(* it, and by the compiled program, where the emitter chooses a helper of  *)
(* the runtime and casts its answer down to the C type.  A word has        *)
(* WordBits bits, 64 in the code; an integer type is narrower or as wide.  *)
(* Operands and answers of the compiled program are the numbers C holds;   *)
(* those of the oracle are words.  An answer is a value or a trap.         *)
(***************************************************************************)
EXTENDS Integers, Sequences, FiniteSets, Bitwise

CONSTANTS WordBits,   \* the bits of uint64_t
          Widths      \* the widths of the integer types

(* A shift count below zero is at least the word's width when it is read   *)
(* without its sign, as the 8 bits of the narrowest type give 128 or more. *)
ASSUME WidthsAssumption ==
    /\ WordBits \in Nat \ {0} /\ WordBits \in Widths
    /\ \A w \in Widths : w \in 2 .. WordBits /\ 2 ^ (w - 1) >= WordBits

IntType(bits, signed) == [kind |-> "int", bits |-> bits, signed |-> signed]
IntTypes == {IntType(b, s) : b \in Widths, s \in BOOLEAN}
i64 == IntType(WordBits, TRUE)
usize == IntType(WordBits, FALSE)

Checked    == {"+", "-", "*"}
Optional   == {"+?", "-?", "*?"}
Wrapping   == {"+%", "-%", "*%"}
Saturating == {"+|", "-|", "*|"}
Dividing   == {"//", "%"}
Bits       == {"&", "|", "^"}
Shifts     == {"<<", ">>"}
Equality   == {"==", "!="}
Ordering   == {"<", "<=", ">", ">="}
Arithmetical == Checked \union Optional \union Wrapping \union Saturating
                \union Dividing \union Bits \union Shifts

Value(x) == [trap |-> "", v |-> x]
Trap(m) == [trap |-> m, v |-> 0]
None == Trap("none")          \* the absent value of an optional

(***************************************************************************)
(* The host's own arithmetic: two's complement words, and division toward  *)
(* zero.                                                                   *)
(***************************************************************************)
Word(x) == x % 2 ^ WordBits
Long(w) == IF w >= 2 ^ (WordBits - 1) THEN w - 2 ^ WordBits ELSE w
FitsLong(x) == -(2 ^ (WordBits - 1)) <= x /\ x < 2 ^ (WordBits - 1)
Magnitude(x) == IF x < 0 THEN -x ELSE x
CDiv(a, b) == LET q == Magnitude(a) \div Magnitude(b)
              IN  IF (a < 0) = (b < 0) THEN q ELSE -q
CMod(a, b) == a - b * CDiv(a, b)
WordAnd(a, b) == a & b
WordOr(a, b) == a | b
WordXor(a, b) == a ^^ b
BitOp(op, a, b) == CASE op = "&" -> WordAnd(a, b)
                     [] op = "|" -> WordOr(a, b)
                     [] op = "^" -> WordXor(a, b)
Compare(op, a, b) == CASE op = "<" -> a < b [] op = "<=" -> a <= b
                       [] op = ">" -> a > b [] op = ">=" -> a >= b
                       [] op = "==" -> a = b [] op = "!=" -> a # b
Plain(op) == CASE op \in {"+", "+?", "+%", "+|"} -> "+"
               [] op \in {"-", "-?", "-%", "-|"} -> "-"
               [] op \in {"*", "*?", "*%", "*|"} -> "*"
Exact(op, a, b) == CASE op = "+" -> a + b [] op = "-" -> a - b [] op = "*" -> a * b

-----------------------------------------------------------------------------
(***************************************************************************)
(* The oracle.                                                             *)
(***************************************************************************)
int_mask(bits) == 2 ^ bits - 1
int_max_signed(bits) == 2 ^ (bits - 1) - 1
int_max_unsigned(bits) == int_mask(bits)
int_min(t) == IF t.signed THEN -int_max_signed(t.bits) - 1 ELSE 0
int_max(t) == IF t.signed THEN int_max_signed(t.bits) ELSE int_max_unsigned(t.bits)
InType(t, x) == int_min(t) <= x /\ x <= int_max(t)

v_int(t, u) == IF t.kind = "int" THEN u % 2 ^ t.bits ELSE u
as_u(u, t) == u % 2 ^ t.bits
as_s(u, t) ==
    LET low == as_u(u, t)
    IN  Long(IF t.bits < WordBits /\ low >= 2 ^ (t.bits - 1)
             THEN low + (2 ^ WordBits - 2 ^ t.bits) ELSE low)

(* A number of type t as the oracle stores it, and back.                   *)
Stored(t, x) == v_int(t, Word(x))
Read(t, u) == IF t.signed THEN as_s(u, t) ELSE as_u(u, t)

signed_arith(t, op, a, b) ==
    LET r == Exact(Plain(op), a, b)
        over == ~FitsLong(r) \/ r < int_min(t) \/ r > int_max_signed(t.bits)
        clamp == IF (IF op = "*|" THEN (a < 0) # (b < 0) ELSE a < 0)
                 THEN int_min(t) ELSE int_max_signed(t.bits)
    IN  CASE op \in Dividing ->
               (CASE b = 0 -> Trap("division by zero")
                  [] b # 0 /\ a = int_min(t) /\ b = -1 -> Trap("integer overflow")
                  [] OTHER -> Value(v_int(t, Word(IF op = "//" THEN CDiv(a, b) ELSE CMod(a, b)))))
          [] op \in Wrapping -> Value(v_int(t, Word(r)))
          [] op \in Saturating -> Value(v_int(t, Word(IF over THEN clamp ELSE r)))
          [] OTHER -> IF over THEN Trap("integer overflow") ELSE Value(v_int(t, Word(r)))

unsigned_arith(t, op, a, b) ==
    LET maxv == int_max_unsigned(t.bits)
        r == Word(Exact(Plain(op), a, b))
        over == CASE Plain(op) = "+" -> IF t.bits >= WordBits THEN a > int_mask(WordBits) - b
                                                              ELSE Word(a + b) > maxv
                  [] Plain(op) = "-" -> a < b
                  [] Plain(op) = "*" -> b # 0 /\ a > maxv \div b
    IN  CASE op \in Dividing ->
               IF b = 0 THEN Trap("division by zero")
               ELSE Value(v_int(t, IF op = "//" THEN a \div b ELSE a % b))
          [] op \in Wrapping -> Value(v_int(t, r))
          [] op \in Saturating ->
               Value(v_int(t, IF over THEN (IF op = "-|" THEN 0 ELSE maxv) ELSE r))
          [] OTHER -> IF over THEN Trap("integer overflow") ELSE Value(v_int(t, r))

(* L is a word; the count of a shift is read in its own type rt.           *)
arith(t, L, R, rt, op) ==
    CASE op \in Bits -> Value(v_int(t, BitOp(op, as_u(L, t), as_u(R, t))))
      [] op \in Shifts ->
           (LET n == as_u(R, rt)
            IN  CASE n >= t.bits -> Trap("shift count out of range")
                  [] n < t.bits /\ op = "<<" -> Value(v_int(t, Word(as_u(L, t) * 2 ^ n)))
                  [] n < t.bits /\ op = ">>" /\ t.signed ->
                       Value(v_int(t, Word(as_s(L, t) \div 2 ^ n)))
                  [] OTHER -> Value(v_int(t, as_u(L, t) \div 2 ^ n)))
      [] OTHER -> IF t.signed THEN signed_arith(t, op, as_s(L, t), as_s(R, t))
                              ELSE unsigned_arith(t, op, as_u(L, t), as_u(R, t))

(* Both operands of an ordering are read in the left one's type.           *)
cmp_num_signless(L, R, t, op) == Compare(op, as_u(L, t), as_u(R, t))
cmp_num(L, R, t, op) == IF t.signed THEN Compare(op, as_s(L, t), as_s(R, t))
                                    ELSE Compare(op, as_u(L, t), as_u(R, t))
values_equal(L, lt, R, rt) == as_u(L, lt) = as_u(R, rt)

eval_binary(op, t, L, lt, R, rt) ==
    CASE op = "==" -> Value(values_equal(L, lt, R, rt))
      [] op = "!=" -> Value(~values_equal(L, lt, R, rt))
      [] op \in Ordering -> Value(cmp_num(L, R, lt, op))
      [] op \in Optional -> (LET r == arith(t, L, R, rt, op)
                             IN  IF r.trap # "" THEN None ELSE r)
      [] OTHER -> arith(t, L, R, rt, op)

unary_scalar(t, x, op) ==
    CASE op = "~" -> Value(v_int(t, int_mask(WordBits) - as_u(x, t)))
      [] op = "-%" -> Value(v_int(t, Word(0 - (IF t.signed THEN Word(as_s(x, t)) ELSE as_u(x, t)))))
      [] op = "-" -> IF as_s(x, t) = int_min(t) THEN Trap("integer overflow")
                     ELSE Value(v_int(t, Word(-as_s(x, t))))

(* Lane by lane, in order; the first lane that traps ends the operation.   *)
FirstTrap(lanes) == LET bad == {i \in DOMAIN lanes : lanes[i].trap # ""}
                    IN  lanes[CHOOSE i \in bad : \A j \in bad : i <= j]
InLanes(lanes) == IF \E i \in DOMAIN lanes : lanes[i].trap # ""
                  THEN [trap |-> FirstTrap(lanes).trap, v |-> << >>]
                  ELSE [trap |-> "", v |-> [i \in DOMAIN lanes |-> lanes[i].v]]
eval_vector_binary(t, L, R, op) == InLanes([i \in DOMAIN L |-> arith(t, L[i], R[i], t, op)])
eval_vector_unary(t, x, op) == InLanes([i \in DOMAIN x |-> unary_scalar(t, x[i], op)])

-----------------------------------------------------------------------------
(***************************************************************************)
(* The compiled program: the helpers of the runtime, on words and longs,   *)
(* and the casts the emitter writes around them.                           *)
(***************************************************************************)
mask_bits(bits) == 2 ^ bits - 1
smin(bits) == -(2 ^ (bits - 1))
smax(bits) == 2 ^ (bits - 1) - 1
sext(a, bits) ==
    LET u == Word(a) % 2 ^ bits
    IN  IF bits >= WordBits THEN a
        ELSE Long(IF u >= 2 ^ (bits - 1) THEN u + (2 ^ WordBits - 2 ^ bits) ELSE u)
zext(a, bits) == Word(a) % 2 ^ bits

SignedOver(r, bits) == ~FitsLong(r) \/ r < smin(bits) \/ r > smax(bits)
Or0(over, r) == IF over THEN Trap("integer overflow") ELSE Value(r)

lb_add_s(a, b, bits) == LET r == sext(a, bits) + sext(b, bits) IN Or0(SignedOver(r, bits), r)
lb_sub_s(a, b, bits) == LET r == sext(a, bits) - sext(b, bits) IN Or0(SignedOver(r, bits), r)
lb_mul_s(a, b, bits) == LET r == sext(a, bits) * sext(b, bits) IN Or0(SignedOver(r, bits), r)
AddOver(a, b, bits) == IF bits >= WordBits THEN a > int_mask(WordBits) - b
                                           ELSE Word(a + b) > mask_bits(bits)
lb_add_u(a, b, bits) == LET x == zext(a, bits) y == zext(b, bits) IN Or0(AddOver(x, y, bits), Word(x + y))
lb_sub_u(a, b, bits) == LET x == zext(a, bits) y == zext(b, bits) IN Or0(x < y, x - y)
lb_mul_u(a, b, bits) ==
    LET x == zext(a, bits) y == zext(b, bits)
    IN  Or0(y # 0 /\ x > mask_bits(bits) \div y, zext(Word(x * y), bits))

lb_div_s(a, b, bits) ==
    LET x == sext(a, bits) y == sext(b, bits)
    IN  IF y = 0 THEN Trap("division by zero") ELSE Or0(x = smin(bits) /\ y = -1, CDiv(x, y))
lb_mod_s(a, b, bits) ==
    LET x == sext(a, bits) y == sext(b, bits)
    IN  IF y = 0 THEN Trap("division by zero") ELSE Or0(x = smin(bits) /\ y = -1, CMod(x, y))
lb_div_u(a, b, bits) == LET x == zext(a, bits) y == zext(b, bits)
                        IN  IF y = 0 THEN Trap("division by zero") ELSE Value(x \div y)
lb_mod_u(a, b, bits) == LET x == zext(a, bits) y == zext(b, bits)
                        IN  IF y = 0 THEN Trap("division by zero") ELSE Value(x % y)

(* The checked forms tell the caller instead of trapping.                  *)
Quietly(r) == IF r.trap # "" THEN None ELSE r
lb_qadd_s(a, b, bits) == LET r == sext(a, bits) + sext(b, bits) IN Quietly(Or0(SignedOver(r, bits), r))
lb_qsub_s(a, b, bits) == LET r == sext(a, bits) - sext(b, bits) IN Quietly(Or0(SignedOver(r, bits), r))
lb_qmul_s(a, b, bits) == LET r == sext(a, bits) * sext(b, bits) IN Quietly(Or0(SignedOver(r, bits), r))
lb_qadd_u(a, b, bits) == LET x == zext(a, bits) y == zext(b, bits)
                         IN  Quietly(Or0(AddOver(x, y, bits), Word(x + y)))
lb_qsub_u(a, b, bits) == LET x == zext(a, bits) y == zext(b, bits) IN Quietly(Or0(x < y, x - y))
lb_qmul_u(a, b, bits) == LET x == zext(a, bits) y == zext(b, bits)
                         IN  Quietly(Or0(y # 0 /\ x > mask_bits(bits) \div y, zext(Word(x * y), bits)))

WrapS(r, bits) == Value(sext(Long(zext(r, bits)), bits))
lb_addw_s(a, b, bits) == WrapS(sext(a, bits) + sext(b, bits), bits)
lb_subw_s(a, b, bits) == WrapS(sext(a, bits) - sext(b, bits), bits)
lb_mulw_s(a, b, bits) == WrapS(sext(a, bits) * sext(b, bits), bits)
lb_addw_u(a, b, bits) == Value(zext(a + b, bits))
lb_subw_u(a, b, bits) == Value(zext(a - b, bits))
lb_mulw_u(a, b, bits) == Value(zext(a * b, bits))
lb_neg_s(a, bits) == Or0(sext(a, bits) = smin(bits), -sext(a, bits))
lb_negw_s(a, bits) == WrapS(0 - sext(a, bits), bits)
lb_negw_u(a, bits) == Value(zext(0 - zext(a, bits), bits))

Clamp(r, bits, below) ==
    Value(IF SignedOver(r, bits) THEN (IF below THEN smin(bits) ELSE smax(bits)) ELSE r)
lb_adds_s(a, b, bits) == LET x == sext(a, bits) y == sext(b, bits) IN Clamp(x + y, bits, x < 0)
lb_subs_s(a, b, bits) == LET x == sext(a, bits) y == sext(b, bits) IN Clamp(x - y, bits, x < 0)
lb_muls_s_either(a, b, bits) == LET x == sext(a, bits) y == sext(b, bits) IN Clamp(x * y, bits, x < 0)
lb_muls_s(a, b, bits) == LET x == sext(a, bits) y == sext(b, bits) IN Clamp(x * y, bits, (x < 0) # (y < 0))
lb_adds_u(a, b, bits) == LET x == zext(a, bits) y == zext(b, bits)
                         IN  Value(IF AddOver(x, y, bits) THEN mask_bits(bits) ELSE Word(x + y))
lb_subs_u(a, b, bits) == LET x == zext(a, bits) y == zext(b, bits) IN Value(IF x < y THEN 0 ELSE x - y)
lb_muls_u(a, b, bits) == LET x == zext(a, bits) y == zext(b, bits)
                         IN  Value(IF y # 0 /\ x > mask_bits(bits) \div y THEN mask_bits(bits)
                                   ELSE zext(Word(x * y), bits))

lb_shl_s(a, n, bits) == IF Word(n) >= bits THEN Trap("shift count out of range")
                        ELSE WrapS(Word(sext(a, bits)) * 2 ^ n, bits)
lb_shl_u(a, n, bits) == IF Word(n) >= bits THEN Trap("shift count out of range")
                        ELSE Value(zext(Word(zext(a, bits) * 2 ^ n), bits))
lb_shr_s(a, n, bits) == IF Word(n) >= bits THEN Trap("shift count out of range")
                        ELSE Value(sext(a, bits) \div 2 ^ n)
lb_shr_u(a, n, bits) == IF Word(n) >= bits THEN Trap("shift count out of range")
                        ELSE Value(zext(a, bits) \div 2 ^ n)
lb_not_u(a, bits) == Value(zext(int_mask(WordBits) - Word(a), bits))

(***************************************************************************)
(* The emitter.  A cast to an integer type of C keeps the low bits.        *)
(***************************************************************************)
down_cast(t, x) == IF t.signed THEN sext(Long(Word(x)), t.bits) ELSE zext(x, t.bits)
word_cast(t, x) == IF t.signed THEN x ELSE Word(x)
Down(t, r) == IF r.trap # "" THEN r ELSE Value(down_cast(t, r.v))

signed_helper(op, a, b, bits) ==
    CASE op = "+" -> lb_add_s(a, b, bits)    [] op = "-" -> lb_sub_s(a, b, bits)
      [] op = "*" -> lb_mul_s(a, b, bits)    [] op = "//" -> lb_div_s(a, b, bits)
      [] op = "%" -> lb_mod_s(a, b, bits)    [] op = "+%" -> lb_addw_s(a, b, bits)
      [] op = "-%" -> lb_subw_s(a, b, bits)  [] op = "*%" -> lb_mulw_s(a, b, bits)
      [] op = "+|" -> lb_adds_s(a, b, bits)  [] op = "-|" -> lb_subs_s(a, b, bits)
      [] op = "*|" -> lb_muls_s(a, b, bits)  [] op = "<<" -> lb_shl_s(a, b, bits)
      [] op = ">>" -> lb_shr_s(a, b, bits)
unsigned_helper(op, a, b, bits) ==
    CASE op = "+" -> lb_add_u(a, b, bits)    [] op = "-" -> lb_sub_u(a, b, bits)
      [] op = "*" -> lb_mul_u(a, b, bits)    [] op = "//" -> lb_div_u(a, b, bits)
      [] op = "%" -> lb_mod_u(a, b, bits)    [] op = "+%" -> lb_addw_u(a, b, bits)
      [] op = "-%" -> lb_subw_u(a, b, bits)  [] op = "*%" -> lb_mulw_u(a, b, bits)
      [] op = "+|" -> lb_adds_u(a, b, bits)  [] op = "-|" -> lb_subs_u(a, b, bits)
      [] op = "*|" -> lb_muls_u(a, b, bits)  [] op = "<<" -> lb_shl_u(a, b, bits)
      [] op = ">>" -> lb_shr_u(a, b, bits)
emit_helper(op, t, L, R) ==
    Down(t, IF t.signed THEN signed_helper(op, word_cast(t, L), word_cast(t, R), t.bits)
                        ELSE unsigned_helper(op, word_cast(t, L), word_cast(t, R), t.bits))
emit_arith(t, op, L, R) ==
    IF op \in Bits THEN Value(down_cast(t, BitOp(op, Word(L), Word(R))))
    ELSE emit_helper(op, t, L, R)

emit_checked(op, t, L, R) ==
    LET a == word_cast(t, L)
        b == word_cast(t, R)
    IN  Down(t, CASE op = "+?" /\ t.signed -> lb_qadd_s(a, b, t.bits)
                  [] op = "-?" /\ t.signed -> lb_qsub_s(a, b, t.bits)
                  [] op = "*?" /\ t.signed -> lb_qmul_s(a, b, t.bits)
                  [] op = "+?" /\ ~t.signed -> lb_qadd_u(a, b, t.bits)
                  [] op = "-?" /\ ~t.signed -> lb_qsub_u(a, b, t.bits)
                  [] op = "*?" /\ ~t.signed -> lb_qmul_u(a, b, t.bits))

(* C compares numbers; an ordering casts both to the left operand's type.  *)
emit_binary_values(op, t, L, lt, R) ==
    CASE op \in Equality -> Value(Compare(op, L, R))
      [] op \in Ordering -> Value(Compare(op, down_cast(lt, L), down_cast(lt, R)))
      [] op \in Optional -> emit_checked(op, t, L, R)
      [] OTHER -> emit_arith(t, op, L, R)

emit_unary_scalar(t, op, x) ==
    CASE op = "~" /\ ~t.signed -> Down(t, lb_not_u(word_cast(t, x), t.bits))
      [] op = "~" /\ t.signed -> Value(down_cast(t, -x - 1))
      [] op = "-%" /\ t.signed -> Down(t, lb_negw_s(x, t.bits))
      [] op = "-%" /\ ~t.signed -> Down(t, lb_negw_u(word_cast(t, x), t.bits))
      [] op = "-" -> Down(t, lb_neg_s(x, t.bits))

emit_vector_binary(t, L, R, op) == InLanes([i \in DOMAIN L |-> emit_arith(t, op, L[i], R[i])])
emit_vector_unary(t, x, op) == InLanes([i \in DOMAIN x |-> emit_unary_scalar(t, op, x[i])])

-----------------------------------------------------------------------------
(***************************************************************************)
(* The checker: the one type two integers meet in.                         *)
(***************************************************************************)
NoType == [kind |-> "none", bits |-> 0, signed |-> FALSE]
can_widen(from, to) == from = to \/ (from.signed = to.signed /\ from.bits < to.bits)
unify_int(a, b) == CASE can_widen(a, b) -> b [] can_widen(b, a) -> a [] OTHER -> NoType
result_type(op, lt, rt) == IF op \in Shifts /\ unify_int(lt, rt) # NoType THEN lt
                           ELSE unify_int(lt, rt)

-----------------------------------------------------------------------------
(***************************************************************************)
(* What the operators mean, on whole numbers.                              *)
(***************************************************************************)
Congruent(t, x) == CHOOSE y \in int_min(t) .. int_max(t) : (y - x) % 2 ^ t.bits = 0
Nearest(t, x) == CASE x < int_min(t) -> int_min(t) [] x > int_max(t) -> int_max(t) [] OTHER -> x
BitsOf(x) == {i \in 0 .. WordBits - 1 : (x \div 2 ^ i) % 2 = 1}
WithBits(t, set) == CHOOSE y \in int_min(t) .. int_max(t) :
                        \A i \in 0 .. t.bits - 1 : (i \in BitsOf(y)) = (i \in set)
SetOp(op, x, y) == CASE op = "&" -> x \intersect y [] op = "|" -> x \union y
                     [] op = "^" -> (x \ y) \union (y \ x)
OnlyIf(fits, x, otherwise) == IF fits THEN Value(x) ELSE otherwise

Meaning(op, t, a, b) ==
    CASE op \in Checked -> OnlyIf(InType(t, Exact(op, a, b)), Exact(op, a, b), Trap("integer overflow"))
      [] op \in Optional -> OnlyIf(InType(t, Exact(Plain(op), a, b)), Exact(Plain(op), a, b), None)
      [] op \in Wrapping -> Value(Congruent(t, Exact(Plain(op), a, b)))
      [] op \in Saturating -> Value(Nearest(t, Exact(Plain(op), a, b)))
      [] op \in Dividing ->
           IF b = 0 THEN Trap("division by zero")
           ELSE OnlyIf(InType(t, CDiv(a, b)), IF op = "//" THEN CDiv(a, b) ELSE CMod(a, b),
                       Trap("integer overflow"))
      [] op \in Bits -> Value(WithBits(t, SetOp(op, BitsOf(a), BitsOf(b))))
      [] op = "<<" -> IF b \in 0 .. t.bits - 1 THEN Value(Congruent(t, a * 2 ^ b))
                      ELSE Trap("shift count out of range")
      [] op = ">>" -> IF b \in 0 .. t.bits - 1 THEN Value(a \div 2 ^ b)
                      ELSE Trap("shift count out of range")
      [] OTHER -> Value(Compare(op, a, b))
=============================================================================
