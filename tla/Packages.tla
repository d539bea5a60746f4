------------------------------ MODULE Packages ------------------------------
(***************************************************************************)
(* src/pkg/package.cpp: a program's modules are found, each is loaded with  *)
(* what it imports, depth first, and they are put in the order in which the *)
(* checker, the emitter and the oracle walk them.                           *)
(*                                                                          *)
(* A module's dotted name, and the place of its file under the package's    *)
(* root, are sequences of names.  A world is a package: the files there     *)
(* are, what each one imports and declares, and the entry.                  *)
(***************************************************************************)
EXTENDS Integers, Sequences, SequencesExt, FiniteSets

CONSTANTS
  Worlds,     (* the packages                                               *)
  Builtin,    (* is_std_module: the modules that are no files               *)
  Embedded    (* the modules the compiler carries as text                   *)

VARIABLES
  world,      (* the package                                                *)
  phase,      (* how far the compilation has come                           *)
  files,      (* program.files: the modules' names, in order                *)
  stack,      (* the modules being loaded or visited, each at an import     *)
  post,       (* post_order: the modules visited, in order                  *)
  why         (* the diagnostic that ended it                               *)

loading == <<files, stack, post>>

-----------------------------------------------------------------------------
(* The file of a module, or the directory whose ORDER lists its fragments,  *)
(* under the root, then under src.                                          *)
Candidates(dotted) ==
  << [at |-> dotted, kind |-> "file"], [at |-> dotted, kind |-> "dir"],
     [at |-> <<"src">> \o dotted, kind |-> "file"], [at |-> <<"src">> \o dotted, kind |-> "dir"] >>
NoFile == [at |-> <<>>, kind |-> "none"]

resolve_file(dotted) ==
  LET there == {i \in 1 .. 4 : Candidates(dotted)[i] \in world.tree}
  IN IF there = {} THEN NoFile ELSE Candidates(dotted)[Min(there)]

(* There is such a file, or the compiler carries the module.                *)
Found(name) == resolve_file(name) # NoFile \/ name \in Embedded

(* `luce_std.paths` is `paths`, and `from luce_std import files, paths`     *)
(* imports those modules.  An import has the names it takes from its        *)
(* module, none when it binds the module itself, as alias.                  *)
luce_std_as_standard(imports) ==
  FlattenSeq([i \in DOMAIN imports |->
    LET d == imports[i] IN
    IF d.from = <<"luce_std">> /\ d.names # <<>>
    THEN [k \in DOMAIN d.names |-> [from |-> <<d.names[k]>>, names |-> <<>>, alias |-> ""]]
    ELSE IF Len(d.from) > 1 /\ Head(d.from) = "luce_std" THEN <<[d EXCEPT !.from = Tail(@)]>>
    ELSE <<d>>])

(* The text a module is made of.                                            *)
TextOf(name) ==
  LET file == resolve_file(name) IN
  IF file = NoFile THEN world.text[name] ELSE world.text[file.at]

Standard(name) == luce_std_as_standard(TextOf(name).imports)
Imports(name) == [i \in DOMAIN Standard(name) |-> Standard(name)[i].from]
find_loaded(name) == \E i \in DOMAIN files : files[i] = name
OnStack(name) == \E i \in DOMAIN stack : stack[i].name = name

(* The modules a world names.                                               *)
Froms(text) == LET list == luce_std_as_standard(text.imports) IN {list[i].from : i \in DOMAIN list}
ModulesOf(w) == {w.entry.at} \cup UNION {Froms(w.text[p]) : p \in DOMAIN w.text}
Modules == ModulesOf(world)

(* Every file, and every module the compiler carries, has its text, whose   *)
(* imports are a list.  The entry is a file.                                *)
ASSUME WorldsAssumption ==
  \A w \in Worlds :
    /\ w.entry = [at |-> w.entry.at, kind |-> "file"]
    /\ \A f \in w.tree : f.at \in DOMAIN w.text
    /\ \A n \in ModulesOf(w) : n \in Embedded => n \in DOMAIN w.text
    /\ \A p \in DOMAIN w.text :
         LET list == luce_std_as_standard(w.text[p].imports)
         IN list \in Seq(ToSet(list)) /\ w.text[p].bad # "cycle"

-----------------------------------------------------------------------------
(***************************************************************************)
(* Loading.                                                                *)
(***************************************************************************)
Fail(reason) == phase' = "failed" /\ why' = reason /\ UNCHANGED <<world, loading>>

(* load_one, load_fragments, load_source: the text is read, tokenized and   *)
(* parsed, and the module is put on the stack.                              *)
Push(name, st) ==
  IF TextOf(name).bad # "no" THEN Fail(TextOf(name).bad)
  ELSE /\ files' = Append(files, name)
       /\ stack' = Append(st, [name |-> name, next |-> 1])
       /\ UNCHANGED <<world, phase, post, why>>

(* load_program: the entry is named by its place.                           *)
load_program ==
  /\ phase = "start" /\ world.entry \in world.tree
  /\ phase' = IF TextOf(world.entry.at).bad # "no" THEN "failed" ELSE "loading"
  /\ why' = TextOf(world.entry.at).bad
  /\ files' = IF phase' = "failed" THEN <<>> ELSE <<world.entry.at>>
  /\ stack' = IF phase' = "failed" THEN <<>> ELSE <<[name |-> world.entry.at, next |-> 1]>>
  /\ UNCHANGED <<world, post>>

no_main == phase = "start" /\ world.entry \notin world.tree /\ Fail("no main")

Top == stack[Len(stack)]
Advanced == [stack EXCEPT ![Len(stack)].next = @ + 1]
Importing == phase = "loading" /\ stack # <<>> /\ Top.next <= Len(Imports(Top.name))
Dep == Imports(Top.name)[Top.next]

(* Mutant: a module on the stack is one that is loaded.                     *)
load_imports_loaded ==
  /\ Importing
  /\ IF Dep \in Builtin \/ find_loaded(Dep) THEN stack' = Advanced /\ UNCHANGED <<world, phase, files, post, why>>
     ELSE IF ~Found(Dep) THEN Fail("not found")
     ELSE Push(Dep, Advanced)

(* One import of the module on top.                                         *)
load_imports ==
  /\ Importing
  /\ IF Dep \in Builtin THEN stack' = Advanced /\ UNCHANGED <<world, phase, files, post, why>>
     ELSE IF OnStack(Dep) THEN Fail("cycle")
     ELSE IF find_loaded(Dep) THEN stack' = Advanced /\ UNCHANGED <<world, phase, files, post, why>>
     ELSE IF ~Found(Dep) THEN Fail("not found")
     ELSE Push(Dep, Advanced)

Loaded ==
  /\ phase = "loading" /\ stack # <<>> /\ Top.next > Len(Imports(Top.name))
  /\ stack' = SubSeq(stack, 1, Len(stack) - 1)
  /\ UNCHANGED <<world, phase, files, post, why>>

-----------------------------------------------------------------------------
(***************************************************************************)
(* order_dependencies_first: a depth-first walk lists each module after the *)
(* ones it imports; the list is taken from its back, behind the entry.      *)
(***************************************************************************)
order_dependencies_first ==
  /\ phase = "loading" /\ stack = <<>>
  /\ phase' = IF Len(files) < 3 THEN "ordered" ELSE "ordering"
  /\ UNCHANGED <<world, loading, why>>

(* A module is seen when a visit of it has begun.                           *)
Seen(name) == OnStack(name) \/ name \in ToSet(post)
Unseen == {i \in DOMAIN files : ~Seen(files[i])}

visit_next ==
  /\ phase = "ordering" /\ stack = <<>> /\ Unseen # {}
  /\ stack' = <<[name |-> files[Min(Unseen)], next |-> 1]>>
  /\ UNCHANGED <<world, phase, files, post, why>>

(* One import of the module visited, or its end.                            *)
visit_dependencies ==
  /\ phase = "ordering" /\ stack # <<>> /\ Top.next <= Len(Imports(Top.name))
  /\ stack' = IF Dep \in Builtin \/ Seen(Dep) THEN Advanced
              ELSE Append(Advanced, [name |-> Dep, next |-> 1])
  /\ UNCHANGED <<world, phase, files, post, why>>

Visited ==
  /\ phase = "ordering" /\ stack # <<>> /\ Top.next > Len(Imports(Top.name))
  /\ post' = Append(post, Top.name) /\ stack' = SubSeq(stack, 1, Len(stack) - 1)
  /\ UNCHANGED <<world, phase, files, why>>

Ordered ==
  /\ phase = "ordering" /\ stack = <<>> /\ Unseen = {}
  /\ phase' = "ordered"
  /\ LET back == Reverse(post)
         entry == CHOOSE k \in DOMAIN back : back[k] = files[1]
     IN files' = <<files[1]>> \o RemoveAt(back, entry)
  /\ UNCHANGED <<world, stack, post, why>>

LoadInit ==
  /\ world \in Worlds /\ phase = "start"
  /\ files = <<>> /\ stack = <<>> /\ post = <<>> /\ why = "no"
Load ==
  \/ load_program \/ no_main \/ load_imports \/ Loaded
  \/ order_dependencies_first \/ visit_next \/ visit_dependencies \/ Visited \/ Ordered

-----------------------------------------------------------------------------
(***************************************************************************)
(* Properties.                                                             *)
(***************************************************************************)
Files(name) == {Imports(name)[i] : i \in DOMAIN Imports(name)} \ Builtin

(* What each module imports.                                                *)
Edges == [n \in Modules |-> IF Found(n) THEN Files(n) ELSE {}]

(* What is in every set that holds `from` and, with a node, its successors. *)
Closure(nodes, edges, from) ==
  {n \in nodes : \A S \in SUBSET nodes : (from \subseteq S /\ \A m \in S : edges[m] \subseteq S) => n \in S}
Reachable(names) == Closure(Modules, Edges, names)

Ready == phase \notin {"start", "loading", "ordering", "failed"}

(* What comes after the modules are ordered leaves them alone.              *)
Later ==
  /\ Ready /\ phase' \notin {"start", "loading", "ordering"} /\ why' # "cycle"
  /\ UNCHANGED <<world, loading>>
LoadSpec == LoadInit /\ [][Load \/ Later]_<<world, phase, loading, why>>

(* A program is loaded when its modules are what the entry reaches, each of *)
(* them once, and it is refused for a cycle only when a module reaches      *)
(* itself.  Whoever walks the modules from the back meets a module's        *)
(* imports before the module, through diamonds of every shape, and the      *)
(* entry last.                                                              *)
WholeProgram ==
  /\ Ready => /\ ToSet(files) = Reachable({world.entry.at}) /\ IsInjective(files)
              /\ \A n \in ToSet(files) : n \notin Reachable(Files(n))
              /\ files[1] = world.entry.at
              /\ \A i, j \in DOMAIN files : files[j] \in Files(files[i]) => i < j
  /\ why = "cycle" => \E n \in ToSet(files) : n \in Reachable(Files(n))

=============================================================================
