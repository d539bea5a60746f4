------------------------------ MODULE Program ------------------------------
(***************************************************************************)
(* What becomes of a checked program.  The emitter writes it as one C file  *)
(* (src/emit/emit.cpp): forward declarations, types, prototypes and         *)
(* globals, definitions, each pass over the modules from the back.  The     *)
(* oracle (src/interp/interp.cpp) binds the globals in passes.              *)
(***************************************************************************)
EXTENDS Names

CONSTANTS
  Spelling    (* the letters of a name, a dot or an underscore being one     *)

VARIABLES
  out,        (* the lines of C                                             *)
  pending,    (* the globals the oracle has still to bind, in order          *)
  later,      (* those it met in this pass and could not bind                *)
  size,       (* how many there were when the pass began                     *)
  values      (* the value of each global bound                              *)

running == <<out, pending, later, size, values>>
vars == <<world, phase, loading, why, checking, running>>

Globals == {"let", "var"}
Funcs == {"func", "clone"}
NotYet == <<"not yet">>

-----------------------------------------------------------------------------
(* C symbols: module_tag, piece, global_ident, func_ident.                  *)
RECURSIVE module_tag(_)
module_tag(module) ==
  IF module = <<>> THEN <<>>
  ELSE Spelling[Head(module)] \o (IF Len(module) > 1 THEN <<"_">> ELSE <<>>) \o module_tag(Tail(module))

(* Mutant: a name is spelt as it is.                                        *)
piece_plain(spelt) == spelt

Digits == <<"1", "2", "3", "4", "5", "6", "7", "8", "9">>

piece(spelt) == IF Contains(spelt, "_") THEN <<Digits[Len(spelt)]>> \o spelt ELSE spelt

(* The entry's declarations carry no module.                                *)
Symbol(module, d) ==
  (IF module = files[1] THEN <<>> ELSE piece(module_tag(module)) \o <<"_">>) \o piece(Spelling[d.name])

-----------------------------------------------------------------------------
(* emit_global, emit_expr: at file scope a constant stands for its value.   *)
(* What is left is a literal, an address or the value of a variable.        *)
RECURSIVE Initial(_, _)
Initial(module, d) ==
  IF d.uses = <<>> THEN <<"literal", module, d.name>>
  ELSE LET r == Resolve(Source, module, Head(d.uses)) IN
       IF Head(d.uses)[3] = "address" THEN <<"address", r.module, r.decl.name>>
       ELSE IF r.decl.kind = "let" THEN Initial(r.module, r.decl)
       ELSE <<"variable", r.module, r.decl.name>>

(* The names of declarations in C: a global's, a function's.                *)
Cname(module, d) == <<"name", <<Home(d, module), d.name, d.kind>>>>

emit_global(module, d) ==
  LET init == Initial(module, d) IN
  Line("global", Cname(module, d), Needs(d.holds),
       IF init[1] = "literal" THEN {}
       ELSE {Cname(init[2], DeclIn(Source[init[2]].decls, init[3]))})

Mentions(module, d) ==
  {IF r.decl.kind = "generic" THEN <<"name", <<r.module, r.decl.name, "clone">>>>
   ELSE IF r.decl.kind \in Globals \cup {"func"} THEN Cname(r.module, r.decl)
   ELSE <<"rec", r.decl.name>> : r \in Uses(Source, Home(d, module), d)}

OfKinds(decls, kinds) == SelectSeq(decls, LAMBDA d : d.kind \in kinds)
Each(decls, Op(_)) == [i \in DOMAIN decls |-> Op(decls[i])]

(* emit_decls: a module's prototypes, then its globals.                     *)
emit_decls(module) ==
  LET Prototype(d) == Line("prototype", Cname(module, d), {}, NamedIn(d.holds))
      Global(d) == emit_global(module, d)
  IN Each(OfKinds(tree[module].decls, Funcs), Prototype) \o Each(OfKinds(tree[module].decls, Globals), Global)

emit_defs(module) ==
  LET Define(d) == Line("definition", Cname(module, d), Needs(d.holds), Mentions(module, d))
  IN Each(OfKinds(tree[module].decls, Funcs), Define)

(* Mutant: each module is written out before the next one.                  *)
emit_many_by_module ==
  LET order == Reverse(files)
      modules == [i \in DOMAIN order |-> tree[order[i]].decls]
  IN FlattenSeq([i \in DOMAIN modules |-> emit_type_forwards(modules[i])])
     \o emit_type_defs(modules, AllDecls(tree))
     \o FlattenSeq([i \in DOMAIN order |-> emit_defs(order[i]) \o emit_decls(order[i])])

(* emit_many: every pass takes the modules from the back.                   *)
emit_many ==
  LET order == Reverse(files)
      modules == [i \in DOMAIN order |-> tree[order[i]].decls]
  IN FlattenSeq([i \in DOMAIN modules |-> emit_type_forwards(modules[i])])
     \o emit_type_defs(modules, AllDecls(tree))
     \o FlattenSeq([i \in DOMAIN order |-> emit_decls(order[i])])
     \o FlattenSeq([i \in DOMAIN order |-> emit_defs(order[i])])

emit_program ==
  /\ phase = "checked" /\ phase' = "emitted" /\ out' = emit_many
  /\ UNCHANGED <<world, loading, why, checking, pending, later, size, values>>

-----------------------------------------------------------------------------
(* load_globals: every global has its storage first; they are bound in      *)
(* passes over the modules, the entry's first, one that reads another not   *)
(* yet bound waiting for the next pass.                                     *)
AllGlobals ==
  FlattenSeq([i \in DOMAIN files |->
    LET own == OfKinds(tree[files[i]].decls, Globals) IN [k \in DOMAIN own |-> [module |-> files[i], decl |-> own[k]]]])

load_globals ==
  /\ phase = "emitted" /\ phase' = "loading globals"
  /\ pending' = AllGlobals /\ later' = <<>> /\ size' = Len(AllGlobals)
  /\ values' = [g \in {<<x.module, x.decl.name>> : x \in ToSet(AllGlobals)} |-> NotYet]
  /\ UNCHANGED <<world, loading, why, checking, out>>

(* What an initialiser evaluates to, NotYet when what it reads is unbound.  *)
Evaluated(g) ==
  IF g.decl.uses = <<>> THEN <<"literal", g.module, g.decl.name>>
  ELSE LET r == Resolve(Source, g.module, Head(g.decl.uses)) IN
       IF Head(g.decl.uses)[3] = "address" THEN <<"address", r.module, r.decl.name>>
       ELSE values[<<r.module, r.decl.name>>]

(* Mutant: what an initialiser finds is its value.                          *)
bind_global_zero ==
  /\ phase = "loading globals" /\ pending # <<>>
  /\ pending' = Tail(pending)
  /\ values' = [values EXCEPT ![<<Head(pending).module, Head(pending).decl.name>>] = Evaluated(Head(pending))]
  /\ UNCHANGED <<world, phase, loading, why, checking, out, later, size>>

bind_global ==
  /\ phase = "loading globals" /\ pending # <<>>
  /\ pending' = Tail(pending)
  /\ LET g == Head(pending) IN
     IF Evaluated(g) = NotYet THEN later' = Append(later, g) /\ UNCHANGED values
     ELSE values' = [values EXCEPT ![<<g.module, g.decl.name>>] = Evaluated(g)] /\ UNCHANGED later
  /\ UNCHANGED <<world, phase, loading, why, checking, out, size>>

(* The end of a pass: all bound, nothing more to bind, or another one.      *)
next_pass ==
  /\ phase = "loading globals" /\ pending = <<>>
  /\ phase' = IF later = <<>> THEN "running"
              ELSE IF Len(later) = size THEN "trapped" ELSE phase
  /\ pending' = later /\ size' = Len(later) /\ later' = <<>>
  /\ UNCHANGED <<world, loading, why, checking, out, values>>

-----------------------------------------------------------------------------

Stopped == phase \in {"failed", "trapped", "running"} /\ UNCHANGED vars

Init ==
  /\ LoadInit /\ CheckInit
  /\ out = <<>> /\ pending = <<>> /\ later = <<>> /\ size = 0 /\ values = <<>>
Next ==
  \/ Load /\ UNCHANGED <<checking, running>>
  \/ Check /\ UNCHANGED running
  \/ emit_program \/ load_globals \/ bind_global \/ next_pass
  \/ Stopped
Spec == Init /\ [][Next]_vars

-----------------------------------------------------------------------------

(* Every line of the C uses only what the lines above it declare, and holds *)
(* by value only what they complete: records in any order of fields and     *)
(* modules, instances made for another module, globals by address.          *)
DeclaredBefore ==
  \A i \in DOMAIN out :
    /\ out[i].needs \subseteq {out[j].name : j \in {k \in 1 .. i - 1 : out[k].kind = "type"}}
    /\ out[i].mentions \subseteq {out[j].name : j \in 1 .. i}

(* A record that holds itself by value, through whatever is between, is     *)
(* refused, and nothing else is refused for it.                             *)
RECURSIVE Direct(_)
Direct(t) ==
  IF t[1] \in {"arr", "opt"} THEN Direct(t[2])
  ELSE IF t[1] = "tup" THEN UNION {Direct(t[2][i]) : i \in DOMAIN t[2]}
  ELSE IF t[1] = "rec" THEN {t[2]} ELSE {}
HeldBy(d) == UNION {Direct(d.holds[i]) : i \in DOMAIN d.holds}
RecordsOf(decls) == {d \in decls : d.kind \in Records}
HoldsItself(decls) ==
  \E loop \in SUBSET RecordsOf(decls) \ {{}} : \A d \in loop : \E e \in loop : e.name \in HeldBy(d)
ContainmentExact ==
  /\ Checked => ~HoldsItself(AllDecls(Source))
  /\ why = "contains itself" => HoldsItself(AllDecls(Source))

(* Both executions give every global the same value before anything runs,   *)
(* whatever order the constants and the modules come in.                    *)
GlobalsAgree ==
  /\ phase # "trapped"
  /\ phase = "running" =>
       \A g \in DOMAIN values : values[g] = Initial(g[1], DeclIn(Source[g[1]].decls, g[2]))

(* No two declarations have one C symbol.                                   *)
SymbolsApart ==
  phase = "emitted" =>
    \A m, n \in ToSet(files) : \A d \in ToSet(tree[m].decls), e \in ToSet(tree[n].decls) :
      Symbol(Home(d, m), d) = Symbol(Home(e, n), e) => Home(d, m) = Home(e, n) /\ d.name = e.name

=============================================================================
