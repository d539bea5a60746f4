------------------------------- MODULE Names -------------------------------
(***************************************************************************)
(* The checker's walk over a program (src/check/check.cpp, generic.cpp):    *)
(* each module's imports and declarations are bound, its bodies resolved,   *)
(* the generics they use instantiated in the scope of the module that       *)
(* declares them, and what nothing used is taken out of the tree.           *)
(*                                                                          *)
(* A declaration is [kind, name, pub, holds, uses, home]: the types it      *)
(* holds, the names its body or initialiser uses, as <<module's alias or    *)
(* "", name, value or address>>, and for the instance of a generic the      *)
(* generic's module.                                                        *)
(***************************************************************************)
EXTENDS Packages, CTypes

VARIABLES
  at,         (* the module check_program has come to, from the back         *)
  tree,       (* what is left of each module's imports and declarations     *)
  insts       (* the instances made: the generic each one is of             *)

checking == <<at, tree, insts>>

NoDecl == [kind |-> "none", name |-> "", pub |-> FALSE, holds |-> <<>>, uses |-> <<>>, home |-> <<>>]
Whole(name) == [imports |-> Standard(name), decls |-> TextOf(name).decls]
DeclIn(decls, name) ==
  LET found == SelectSeq(decls, LAMBDA d : d.name = name /\ d.kind # "clone") IN IF found = <<>> THEN NoDecl ELSE Head(found)

(* What another module may name of it.                                      *)
pub_member(decls, name) == LET d == DeclIn(decls, name) IN IF d.pub THEN d ELSE NoDecl

last_component(import) == IF import.alias = "" THEN Last(import.from) ELSE import.alias

(* The names a module's imports bind: [name, module, of, by], `of` being    *)
(* what a `from` takes, `by` the place of the import.                       *)
bind_imports(trees, imports) ==
  FlattenSeq([i \in DOMAIN imports |->
    LET d == imports[i] IN
    IF d.from \in Builtin THEN <<>>
    ELSE IF d.names = <<>> THEN <<[name |-> last_component(d), module |-> d.from, of |-> "", by |-> i]>>
    ELSE [k \in DOMAIN d.names |->
            [name |-> d.names[k], module |-> d.from, of |-> d.names[k], by |-> i]]])

(* Why a module's imports are refused.                                      *)
ImportErrors(trees, imports) ==
  LET bound == bind_imports(trees, imports)
      again == \E i, j \in DOMAIN imports :
                 i < j /\ imports[i].names = <<>> /\ imports[j].names = <<>> /\ imports[i].from = imports[j].from
      private == \E i \in DOMAIN bound :
                   bound[i].of # "" /\ pub_member(trees[bound[i].module].decls, bound[i].of) = NoDecl
      shadow == \E i, j \in DOMAIN bound :
                  /\ i < j /\ bound[i].name = bound[j].name
                  /\ ~(bound[j].of = "" /\ bound[i].of = "" /\ bound[i].module = bound[j].module)
  IN (IF again THEN {"duplicate import"} ELSE {}) \cup (IF private THEN {"no public name"} ELSE {})
     \cup (IF shadow THEN {"already in scope"} ELSE {})

(* collect_module: every declaration is bound, after the imports.           *)
CollectErrors(trees, imports, decls) ==
  LET bound == bind_imports(trees, imports) IN
  IF \/ \E i, j \in DOMAIN decls : i < j /\ decls[i].name = decls[j].name
     \/ \E i \in DOMAIN decls, j \in DOMAIN bound : decls[i].name = bound[j].name
  THEN {"already in scope"} ELSE {}

(* What a use resolves to, the declaration's module and itself, and the      *)
(* import it goes through.                                                  *)
Nowhere == [module |-> <<>>, decl |-> NoDecl, by |-> 0]
Resolve(trees, name, use) ==
  LET mine == trees[name]
      bound == bind_imports(trees, mine.imports)
      through(label) == SelectSeq(bound, LAMBDA b : b.name = label)
      own == DeclIn(mine.decls, use[2])
      taken == through(IF use[1] = "" THEN use[2] ELSE use[1])
  IN IF use[1] = "" /\ own # NoDecl THEN [module |-> name, decl |-> own, by |-> 0]
     ELSE IF taken = <<>> \/ (Head(taken).of = "") # (use[1] # "") THEN Nowhere
     ELSE LET d == pub_member(trees[Head(taken).module].decls, use[2])
          IN IF d = NoDecl THEN Nowhere
             ELSE [module |-> Head(taken).module, decl |-> d, by |-> Head(taken).by]

Uses(trees, name, d) == {Resolve(trees, name, d.uses[i]) : i \in DOMAIN d.uses}

(* instantiate_func: the instance of a generic a body uses is resolved in   *)
(* the scope of the generic's own module, as that module now is, and so are *)
(* the instances it uses in turn.                                           *)
Generics(found) == {<<r.module, r.decl.name>> : r \in {x \in found : x.decl.kind = "generic"}}
RECURSIVE Instances(_, _, _)
Instances(trees, wanted, made) ==
  IF wanted \subseteq made THEN made
  ELSE LET now == wanted \ made
       IN Instances(trees,
            UNION {Generics(Uses(trees, g[1], DeclIn(trees[g[1]].decls, g[2]))) : g \in now}, made \cup now)

(* Mutant: a function is an import's use, a generic one is not.             *)
Marked_bodies(trees, name) ==
  UNION {Uses(trees, name, d) : d \in {x \in ToSet(trees[name].decls) : x.kind # "generic"}}

(* Every body of a module, the generics' templates too, marks what it uses. *)
Marked(trees, name) == UNION {Uses(trees, name, d) : d \in ToSet(trees[name].decls)}

(* A generic of another module stays a clone in the module that uses it.    *)
Clone(g, decls) ==
  [DeclIn(decls, g[2]) EXCEPT !.kind = "clone", !.home = g[1]]

(* Mutant: only what an exported function uses is used.                     *)
prune_unused_functions_exported(decls, marked, name) ==
  SelectSeq(decls, LAMBDA d :
    \/ d.kind \notin {"func", "generic"} \/ d.pub
    \/ \E e \in ToSet(decls) : e.pub /\ <<"", d.name, "value">> \in ToSet(e.uses))

prune_unused_functions(decls, marked, name) ==
  SelectSeq(decls, LAMBDA d :
    \/ d.kind \notin {"func", "generic"} \/ d.pub \/ d.name \in {"main", "answer"}
    \/ \E r \in marked : r.module = name /\ r.decl.name = d.name)

prune_unused_imports(imports, marked) ==
  LET used(i) == \E r \in marked : r.by = i
      kept(i) == SelectSeq(imports[i].names, LAMBDA n : \E r \in marked : r.by = i /\ r.decl.name = n)
      Still(i) == imports[i].from \in Builtin \/ used(i)
      places == SelectSeq([i \in DOMAIN imports |-> i], Still)
  IN [k \in DOMAIN places |-> [imports[places[k]] EXCEPT !.names = IF imports[places[k]].from \in Builtin THEN @ ELSE kept(places[k])]]

check_program ==
  /\ phase = "ordered" /\ phase' = "checking"
  /\ at' = Len(files) /\ tree' = [n \in ToSet(files) |-> Whole(n)] /\ insts' = {}
  /\ UNCHANGED <<world, loading, why>>

Refuse(reason) == phase' = "failed" /\ why' = reason /\ UNCHANGED <<world, loading, checking>>

(* check_module, the module check_program has come to.                      *)
check_module ==
  LET name == files[at]
      mine == tree[name]
      marked == Marked(tree, name)
      bodies == UNION {Uses(tree, name, d) : d \in {x \in ToSet(mine.decls) : x.kind # "generic"}}
      made == Instances(tree, Generics(bodies), insts)
      new == made \ insts
      inside == UNION {Uses(tree, g[1], DeclIn(tree[g[1]].decls, g[2])) : g \in new}
      errors == ImportErrors(tree, mine.imports) \cup CollectErrors(tree, mine.imports, mine.decls)
      clones == SetToSeq({Clone(g, tree[g[1]].decls) : g \in new})
  IN /\ phase = "checking" /\ at > 0
     /\ IF errors # {} THEN Refuse(CHOOSE e \in errors : TRUE)
        ELSE IF check_containment(mine.decls, AllDecls(tree)) THEN Refuse("contains itself")
        ELSE IF Nowhere \in marked \cup inside THEN Refuse("unknown name")
        ELSE /\ tree' = [tree EXCEPT ![name] =
                          [imports |-> prune_unused_imports(mine.imports, marked),
                           decls |-> prune_unused_functions(mine.decls, marked \cup inside, name) \o clones]]
             /\ insts' = made /\ at' = at - 1
             /\ phase' = IF at = 1 THEN "checked" ELSE "checking"
             /\ UNCHANGED <<world, loading, why>>

CheckInit == at = 0 /\ tree = <<>> /\ insts = {}
Check == check_program \/ check_module

-----------------------------------------------------------------------------
(***************************************************************************)
(* Properties.                                                             *)
(***************************************************************************)
Source == [n \in ToSet(files) |-> Whole(n)]
Checked == phase \in {"checked", "emitted", "loading globals", "running", "trapped"}
Home(d, name) == IF d.kind = "clone" THEN d.home ELSE name

(* Taking out what nothing uses never takes out what something uses: what a *)
(* body that is left resolves to in the source is still in the tree, the    *)
(* instances of other modules' generics included.                           *)
NothingUsedIsPruned ==
  Checked => \A n \in ToSet(files) : \A d \in ToSet(tree[n].decls) :
    \A r \in Uses(Source, Home(d, n), d) :
      r # Nowhere /\ r.decl \in ToSet(tree[r.module].decls)

(* An instance is resolved after its module's unused imports are gone: a    *)
(* name is unknown only when the source does not have it.                   *)
InstancesResolve ==
  why = "unknown name" =>
    \E n \in ToSet(files) : \E d \in ToSet(Whole(n).decls) : Nowhere \in Uses(Source, n, d)
=============================================================================
