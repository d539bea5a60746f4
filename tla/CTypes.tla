------------------------------- MODULE CTypes -------------------------------
(***************************************************************************)
(* src/emit/types.cpp: the C typedefs a program needs, each after the types *)
(* it holds by value; and src/check/check.cpp's refusal of a record that    *)
(* holds itself, without which there is no such order.                      *)
(*                                                                          *)
(* A type is <<kind, what>>: "int"; "rec", a struct, union or enum by its   *)
(* name; "ptr", a pointer, span or atomic; "arr", "opt", "res" (a result),  *)
(* "tup" and "fn", what being a sequence of types for the last two, a       *)
(* function's result last.                                                  *)
(***************************************************************************)
EXTENDS Integers, Sequences, SequencesExt, FiniteSets

Int64 == <<"int", "">>
Records == {"struct", "instance", "int_enum"}
AllDecls(trees) == UNION {ToSet(trees[n].decls) : n \in DOMAIN trees}
Holds(name, decls) == (CHOOSE d \in decls : d.kind \in Records /\ d.name = name).holds
IsIntEnum(name, decls) == \E d \in decls : d.kind = "int_enum" /\ d.name = name

-----------------------------------------------------------------------------
(* contains_by_value: whether one of the types holds record d, walking each *)
(* record once.                                                             *)
RECURSIVE contains_by_value(_, _, _, _)
contains_by_value(types, d, seen, decls) ==
  IF types = <<>> THEN [yes |-> FALSE, seen |-> seen]
  ELSE LET kind == Head(types)[1]
           what == Head(types)[2]
           here == IF kind \in {"arr", "opt"} THEN contains_by_value(<<what>>, d, seen, decls)
                   ELSE IF kind = "tup" THEN contains_by_value(what, d, seen, decls)
                   ELSE IF kind # "rec" THEN [yes |-> FALSE, seen |-> seen]
                   ELSE IF what = d THEN [yes |-> TRUE, seen |-> seen]
                   ELSE IF what \in seen THEN [yes |-> FALSE, seen |-> seen]
                   ELSE contains_by_value(Holds(what, decls), d, seen \cup {what}, decls)
       IN IF here.yes THEN here ELSE contains_by_value(Tail(types), d, here.seen, decls)

(* Mutant: a record holding itself through an optional is not looked for.   *)
check_containment_direct(own, decls) ==
  \E i \in DOMAIN own : own[i].kind = "struct" /\
    contains_by_value(SelectSeq(own[i].holds, LAMBDA t : t[1] # "opt"), own[i].name, {}, decls).yes

(* Whether a record of the module holds itself; a generic's instance is not *)
(* looked at.                                                               *)
check_containment(own, decls) ==
  \E i \in DOMAIN own :
    own[i].kind \in {"struct", "int_enum"} /\ contains_by_value(own[i].holds, own[i].name, {}, decls).yes

-----------------------------------------------------------------------------
(* A line of C: the types it declares, the ones it needs complete, and the  *)
(* names it mentions.                                                       *)
Line(kind, name, needs, mentions) == [kind |-> kind, name |-> name, needs |-> needs, mentions |-> mentions]

(* What a member of a type needs complete, and what it names.               *)
RECURSIVE Named(_)
Named(t) == IF t[1] = "ptr" THEN Named(t[2]) ELSE IF t[1] = "int" THEN {} ELSE {t}
Needs(types) == {t \in ToSet(types) : t[1] \notin {"ptr", "int", "fn"}}
NamedIn(types) == UNION {Named(types[i]) : i \in DOMAIN types}

Done(st, t) == t \in st.done
Write(st, t, line) == [st EXCEPT !.done = @ \cup {t}, !.out = Append(@, line)]

(* define_type, define_fail, emit_array_def: the typedef of a type after     *)
(* everything it holds by value; only the name of what a view is of is      *)
(* needed, which a record has from the start.  define_decl: a record after  *)
(* its members, not while it is being written.                              *)
RECURSIVE define_types(_, _, _)
define_types(types, st, decls) ==
  IF types = <<>> THEN st
  ELSE LET t == Head(types)
           kind == t[1]
           what == t[2]
           parts == IF kind \in {"tup", "fn"} THEN what ELSE <<what>>
           inner == define_types(parts, st, decls)
           (* define_decl *)
           members == define_types(Holds(what, decls), [st EXCEPT !.busy = @ \cup {what}], decls)
           one ==
             IF kind = "int" THEN st
             ELSE IF kind = "ptr" THEN IF what[1] = "rec" THEN st ELSE inner
             ELSE IF kind = "arr" /\ Done(st, t) THEN st
             ELSE IF kind \in {"arr", "opt", "res", "tup", "fn"} THEN
               IF Done(inner, t) THEN inner
               ELSE Write(inner, t, Line("type", t, IF kind = "fn" THEN {} ELSE Needs(parts), NamedIn(parts)))
             ELSE IF IsIntEnum(what, decls) \/ Done(st, t) \/ what \in st.busy THEN st
             ELSE Write([members EXCEPT !.busy = @ \ {what}], t,
                        Line("type", t, Needs(Holds(what, decls)), NamedIn(Holds(what, decls))))
       IN define_types(Tail(types), one, decls)

(* note_type, walk_types: the types a module mentions, what each is made of *)
(* before it, a struct's fields where it is first met.                      *)
RECURSIVE note_types(_, _, _)
note_types(types, noted, decls) ==
  IF types = <<>> THEN noted
  ELSE LET t == Head(types)
           parts == IF t[1] \in {"tup", "fn"} THEN t[2]
                    ELSE IF t[1] \in {"ptr", "arr", "opt", "res"} THEN <<t[2]>>
                    ELSE <<>>
           inner == note_types(parts, noted, decls)
           fresh == ~Contains(noted, t)
           one == IF t[1] = "rec" /\ fresh /\ ~IsIntEnum(t[2], decls)
                  THEN note_types(Holds(t[2], decls), Append(noted, t), decls)
                  ELSE IF t[1] \in {"int", "rec", "ptr"} \/ Contains(inner, t) THEN inner
                  ELSE Append(inner, t)
       IN note_types(Tail(types), one, decls)

OfKind(noted, kind) == SelectSeq(noted, LAMBDA t : t[1] = kind)

(* emit_type_forwards *)
emit_type_forwards(decls) ==
  LET records == SelectSeq(decls, LAMBDA d : d.kind \in Records)
  IN [i \in DOMAIN records |->
        Line(IF records[i].kind = "int_enum" THEN "type" ELSE "forward", <<"rec", records[i].name>>, {}, {})]

(* emit_type_defs: the modules' records, then the arrays, tuples, optionals, *)
(* results and function types noted.                                        *)
emit_type_defs(modules, decls) ==
  LET own == FlattenSeq(modules)
      records == SelectSeq(own, LAMBDA d : d.kind \in Records)
      noted == note_types(FlattenSeq([i \in DOMAIN own |-> own[i].holds]), <<>>, decls)
      wanted == [i \in DOMAIN records |-> <<"rec", records[i].name>>]
                \o OfKind(noted, "arr") \o OfKind(noted, "tup") \o OfKind(noted, "opt")
                \o OfKind(noted, "res") \o OfKind(noted, "fn")
  IN define_types(wanted, [done |-> {}, busy |-> {}, out |-> <<>>], decls).out
=============================================================================
