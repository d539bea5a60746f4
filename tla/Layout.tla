------------------------------- MODULE Layout -------------------------------
(***************************************************************************)
(* Sizes, alignments and offsets, computed twice: by the checker, for      *)
(* sizeof, constants and the oracle's memory, and by the C compiler, from  *)
(* the typedefs the emitter writes.  A type is a tree; a field has a type  *)
(* and the alignment its align(N) raises it to, 0 without one.             *)
(***************************************************************************)
EXTENDS Naturals, Sequences

Prim(size) == [k |-> "prim", size |-> size]           \* integers, floats, char, bool
Ptr == [k |-> "ptr"]                                  \* a pointer, C text, a function
Pair == [k |-> "pair"]                                \* str, a span, an interface
Unit == [k |-> "unit"]
Array(elem, n) == [k |-> "array", elem |-> elem, n |-> n]
Tuple(elems) == [k |-> "tuple", elems |-> elems]
Opt(elem) == [k |-> "opt", elem |-> elem]
Fallible(elem) == [k |-> "fail", elem |-> elem]
Field(t, raised) == [t |-> t, raised |-> raised]
Struct(fields, packed, raised) == [k |-> "struct", fields |-> fields, packed |-> packed, raised |-> raised]
UnionOf(fields) == [k |-> "union", fields |-> fields]
EnumOf(cases) == [k |-> "cases", cases |-> cases]     \* a sequence of payload sequences
Allocator == [k |-> "alloc"]                          \* memory.Allocator
ErrorValue == [k |-> "error"]                         \* error(code, message)

PointerSize == 8
pad_to(off, align) == IF align <= 1 \/ off % align = 0 THEN off ELSE off + (align - (off % align))
Greater(a, b) == IF a > b THEN a ELSE b
(* The largest of f over a sequence, at least low.                         *)
Largest(f(_), seq, low) ==
    LET up[i \in 0 .. Len(seq)] == IF i = 0 THEN low ELSE Greater(up[i - 1], f(seq[i])) IN up[Len(seq)]
(* Members laid one after another, each at its alignment: where the last   *)
(* of the first i begins, and where it ends.                               *)
Laid(align(_), size(_), seq) ==
    LET at[i \in 0 .. Len(seq)] ==
          IF i = 0 THEN [start |-> 0, end |-> 0]
          ELSE LET s == pad_to(at[i - 1].end, align(seq[i])) IN [start |-> s, end |-> s + size(seq[i])]
    IN  at

-----------------------------------------------------------------------------
AllocatorSize == PointerSize + 4
ErrorSize == 4 + 2 * PointerSize

RECURSIVE type_align(_), type_size(_)
field_align(f) == Greater(type_align(f.t), f.raised)
type_align(t) ==
    CASE t.k = "prim" -> t.size
      [] t.k \in {"ptr", "pair", "alloc"} -> PointerSize
      [] t.k = "error" -> ErrorSize
      [] t.k = "unit" -> 1
      [] t.k \in {"array", "opt"} -> type_align(t.elem)
      [] t.k = "fail" -> Greater(type_align(t.elem), 8)
      [] t.k = "tuple" -> Largest(type_align, t.elems, 1)
      [] t.k = "struct" -> Greater(IF t.packed THEN 1 ELSE Largest(field_align, t.fields, 1), t.raised)
      [] t.k = "union" -> Largest(LAMBDA f : type_align(f.t), t.fields, 1)
      [] t.k = "cases" -> Largest(LAMBDA c : Largest(type_align, c, 1), t.cases, 4)

layout_struct(t) == Laid(LAMBDA f : IF t.packed THEN 1 ELSE field_align(f), LAMBDA f : type_size(f.t), t.fields)
layout_enum_untailed(t) ==
    LET payload(c) == Laid(type_align, type_size, c)[Len(c)].end
        palign == type_align(t)
    IN  pad_to(4, palign) + Largest(payload, t.cases, 0)
layout_enum(t) ==
    LET payload(c) == pad_to(Laid(type_align, type_size, c)[Len(c)].end, Largest(type_align, c, 1))
        palign == type_align(t)
    IN  pad_to(pad_to(4, palign) + Largest(payload, t.cases, 0), palign)

type_size(t) ==
    CASE t.k = "prim" -> t.size
      [] t.k = "ptr" -> PointerSize
      [] t.k = "pair" -> 2 * PointerSize
      [] t.k = "alloc" -> AllocatorSize
      [] t.k = "error" -> ErrorSize
      [] t.k = "unit" -> 0
      [] t.k = "array" -> type_size(t.elem) * t.n
      [] t.k = "opt" -> pad_to(type_size(t.elem) + 1, type_align(t))
      [] t.k = "fail" -> pad_to(pad_to(type_size(t.elem), 8) + 24 + 1, type_align(t))
      [] t.k = "tuple" -> pad_to(Laid(type_align, type_size, t.elems)[Len(t.elems)].end, type_align(t))
      [] t.k = "struct" -> pad_to(layout_struct(t)[Len(t.fields)].end, type_align(t))
      [] t.k = "union" -> pad_to(Largest(LAMBDA f : type_size(f.t), t.fields, 0), type_align(t))
      [] t.k = "cases" -> layout_enum(t)

type_offset(t, i) == IF t.k = "union" THEN 0 ELSE layout_struct(t)[i].start

-----------------------------------------------------------------------------
(***************************************************************************)
(* The C types the emitter writes: a scalar, a struct of members with the  *)
(* attributes packed and aligned, a union, or an array.                    *)
(***************************************************************************)
CScalar(size) == [c |-> "scalar", size |-> size]
CMember(type, aligned) == [type |-> type, aligned |-> aligned]
Plainly(type) == CMember(type, 0)
CStruct(members, packed, aligned) == [c |-> "struct", members |-> members, packed |-> packed, aligned |-> aligned]
CUnion(members) == [c |-> "union", members |-> members]
CArray(elem, n) == [c |-> "array", elem |-> elem, n |-> n]
Members(types) == [i \in DOMAIN types |-> Plainly(types[i])]

lb_str == CStruct(Members(<< CScalar(8), CScalar(8) >>), FALSE, 0)
lb_error == CStruct(Members(<< CScalar(4), lb_str >>), FALSE, 0)
lb_alloc == CStruct(Members(<< CScalar(8), CScalar(4) >>), FALSE, 0)
HoldsPayload(t) == \E i \in DOMAIN t.cases : t.cases[i] # << >>

RECURSIVE c_type(_)
(* `int unused;`, the member of an aggregate that has no field.            *)
OrUnused(members) == IF members = << >> THEN << Plainly(CScalar(4)) >> ELSE members
emit_struct(t) ==
    CStruct(OrUnused([i \in DOMAIN t.fields |-> CMember(c_type(t.fields[i].t), t.fields[i].raised)]),
            t.packed, t.raised)
emit_union(t) == CUnion(OrUnused([i \in DOMAIN t.fields |-> Plainly(c_type(t.fields[i].t))]))
emit_enum(t) ==
    LET case(c) == CStruct([i \in DOMAIN c |-> Plainly(c_type(c[i]))], FALSE, 0)
        held == SelectSeq(t.cases, LAMBDA c : c # << >>)
    IN  CStruct(<< Plainly(CScalar(4)) >>
                \o (IF HoldsPayload(t) THEN << Plainly(CUnion(Members([i \in DOMAIN held |-> case(held[i])]))) >>
                    ELSE << >>), FALSE, 0)
LB_OPT(elem) == CStruct(Members(<< elem, CScalar(1) >>), FALSE, 0)
LB_RES(elem) == CStruct(Members(<< elem, lb_error, CScalar(1) >>), FALSE, 0)
lb_r_unit == CStruct(Members(<< lb_error, CScalar(1) >>), FALSE, 0)
c_type(t) ==
    CASE t.k = "prim" -> CScalar(t.size)
      [] t.k = "ptr" -> CScalar(PointerSize)
      [] t.k = "pair" -> lb_str
      [] t.k = "alloc" -> lb_alloc
      [] t.k = "error" -> lb_error
      [] t.k = "array" -> CStruct(<< Plainly(CArray(c_type(t.elem), t.n)) >>, FALSE, 0)
      [] t.k = "opt" -> LB_OPT(c_type(t.elem))
      [] t.k = "fail" -> IF t.elem = Unit THEN lb_r_unit ELSE LB_RES(c_type(t.elem))
      [] t.k = "tuple" -> CStruct([i \in DOMAIN t.elems |-> Plainly(c_type(t.elems[i]))], FALSE, 0)
      [] t.k = "struct" -> emit_struct(t)
      [] t.k = "union" -> emit_union(t)
      [] t.k = "cases" -> emit_enum(t)

(* How the host's C compiler lays them out.                                *)
RECURSIVE CAlign(_), CSize(_)
MemberAlign(m, packed) == Greater(IF packed THEN 1 ELSE CAlign(m.type), m.aligned)
CLaid(t) == Laid(LAMBDA m : MemberAlign(m, t.packed), LAMBDA m : CSize(m.type), t.members)
CAlign(t) ==
    CASE t.c = "scalar" -> t.size
      [] t.c = "array" -> CAlign(t.elem)
      [] t.c = "struct" -> Greater(Largest(LAMBDA m : MemberAlign(m, t.packed), t.members, 1), t.aligned)
      [] t.c = "union" -> Largest(LAMBDA m : CAlign(m.type), t.members, 1)
CSize(t) ==
    CASE t.c = "scalar" -> t.size
      [] t.c = "array" -> t.n * CSize(t.elem)
      [] t.c = "struct" -> pad_to(CLaid(t)[Len(t.members)].end, CAlign(t))
      [] t.c = "union" -> pad_to(Largest(LAMBDA m : CSize(m.type), t.members, 0), CAlign(t))
=============================================================================
