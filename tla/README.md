# luce-seed: specifications

luce-seed compiles Luce Base.  It reads a program, checks it, and then executes
it twice: the *oracle* (`src/src/interp/`) walks the checked tree, the *product*
(`src/src/emit/` and `src/src/runtime/`) is C that the host compiler turns into
a binary.  The repository's contract is in `docs/DESIGN.md`, *Two executions*:
"Every executable language feature is proven by two independent executions that
must agree".  Its tests compare the two on programs somebody wrote.  This
project compares them on every program of a bounded shape, checks the passes in
front of them against what they promise, and proves of each part what holds for
inputs of any size.

Paths below are relative to `src/src/`.

## The system

| Component | State it keeps | Operations | Talks to |
| --- | --- | --- | --- |
| source, lexer (`source/`, `lex/`) | position, `indent_width_`, `delimiters_`, `layout_regions_`, `formatted_` | next piece of text, INDENT/DEDENT | parser |
| parser (`parse/`) | token position, expression nesting, diagnostics | one function per production, recovery | lexer, checker |
| packages (`pkg/`) | loaded modules, the stack of modules being loaded | find, load, order | parser, checker |
| checker (`check/`) | scopes, types on the tree, instances, open loops, `fallible_fn`, `in_defer`, `in_catch`, handled depths | one function per node, instantiation of generics, pruning, constants, definite initialisation, error lifetimes, layouts | tree, both executions |
| oracle: statements (`interp/exec.cpp`, parts of `eval`, `ops`, `call`, `interp`) | the recursion; the flags `trapped`, `returning`, `breaking`, `continuing`, `recovered`, `ret`, `recover_val`, `jump_label`; the `defers` stack; `current_alloc` | one case per statement | checker's tree |
| oracle: values and memory (`interp/eval`, `ops`, `memory`, `punning`) | frames, storage, globals, the FixedBuffer's last block | expressions, `new`, `free`, `memory.*` | |
| emitter (`emit/`) | `scopes` with their registered calls, `failure_target`, `failure_scope`, `catch_scope`, the typedefs written | one function per statement, expression, type and declaration | runtime, host C compiler |
| runtime (`runtime/lucb_rt.c`, `.h`) | the thread's allocator, the words of Mutex, Condition, Once, Semaphore, pipes and child processes | checked arithmetic, conversions, allocators, synchronisation, UTF-8, files, processes | operating system |
| driver (`main.cpp`, `emit/host.cpp`) | command line | check, eval, build, run, test | everything |

What is hard in it, and hard to test:

- **Exits.**  `return`, `error`, a failing `try`, `break`, `continue`,
  `recover` and a trap leave any number of blocks, loops, `with` scopes, catch
  operands and handlers, each of which may owe deferred calls, which are blocks
  that again loop, catch and defer.  The oracle does this with flags that every
  level of a recursion inspects, the emitter with cleanup inlined at each exit
  and C jumps: two mechanisms with nothing in common that have to agree.
- **Threads and processes.**  The runtime's primitives spin on atomic words;
  several threads run children over pipes that the children inherit.
- **Memory.**  Two bump allocators, one over typed values and one over bytes.
- **Wrong input.**  The lexer and the parser go on after an error; whatever they
  skip has to have been reported, and they have to end.
- **Order.**  Imports, global initialisers, C type definitions, and a pruning
  that is over when a later module instantiates a generic of an earlier one.
- **Widths.**  Every integer operation of the oracle is done on 64 bits and
  narrowed; the binary uses C types; the checker folds on `uint64_t`.

## Modules

    Constructs ---- InterpControl
         \                 \
          EmitControl ------ TwoExecutions ---- MCTwoExecutions
                                   \---- TwoExecutionsProofs
    Sync ---- MCSync
         \--- SyncProofs
    Allocator <= FixedBuffer ---- TwoBuffers ---- MCTwoBuffers
                                      \--- TwoBuffersProofs
    Process ---- MCProcess
            \--- ProcessProofs
    Lexer ---- LexerProofs
    Parser ---- MCParser
          \---- ParserProofs
    Packages, CTypes ---- Names ---- Program ---- MCProgram
           \--- PackagesProofs
    HandledViews ---- HandledViewsProofs
    Arithmetic ---- Conversions --\
              \---- Folding -------\
    Flow, Utf8, Layout, HandledViews ---- MCAlgorithms ---- MCDisagreements

(`<=`: implements; the other lines are EXTENDS.)

### Constructs, InterpControl, EmitControl, TwoExecutions

One activation of one function, whose body is any program: at every point where
a statement is due, some statement the checker admits there is chosen, so a
behaviour is a path through some program and TLC explores the paths of all
programs within the bounds.  `Constructs` holds what both executions share: the
stack of open constructs, the calls that `defer` and `errdefer` register
(`Deferred`: error-only or not, a call or a block), and the checker's rules
(`LoopsInScope`, `MayRaise`, `MayRecover`, and that a deferred block does not
return).

`InterpControl` is the oracle.  `ist` is the C++ recursion of `exec`, one frame
per construct being evaluated; `ifl` are the flags; `ialloc` is
`current_alloc`; `iout` is the error or value that a catch last handed to the
program, or the fact that a call was made.  The actions named after statements
(`IReturn`, `IBreak`, `IDefer`, `IWith`, ...) are the cases of `exec`.  The
actions under *the way out* are what each level does when control comes back to
it: a block stops and turns into a `"cleanup"` frame, which has set the exit
aside (`IStopBlock`, `EndOfBlock`), runs what it owes from the last registered
call on (`IRunDeferred`, `ISkipErrdefer`) and puts the exit back
(`IEndCleanup`); `ILeaveLoop` is `leave_loop`; `IEndOperand` and `IEndHandler`
are `eval_catch` and `run_catch_handler`; `IEndArgument` is the argument loop of
`call_func`.  A call within the program is atomic, but it leaves `ret`,
`recover_val` and `jump_label` as the callee's own exits left them
(`CallLeaves`): the staleness that the levels outside have to live with.

`EmitControl` is the binary.  `est` is the C nesting that execution is inside
of.  At an exit the emitter writes the cleanup of the open scopes inline:
`Unwind(from, ...)` is `run_defers_from(from)` followed by the C jump, and the
`"cleanup"` frame it pushes walks from the scope `at` down to the scope `to`
(`ENextScope`), and then jumps (`EFall`, `EDoReturn`, `EDoFail`, `EDoBreak`,
`EDoContinue`, `EDoRecover`).  Where a jump lands is C's rule, not the
emitter's: a `break` leaves the innermost loop *or switch*, a `goto` reaches its
label.

`TwoExecutions` runs both on one program.  When both wait (`Ready`), the next
statement is taken by both; in between each works its way out alone.  `Dialects`
are the sets of statement forms a program may be written in; one is chosen for
each program.

Not in the model of statements: the values of expressions (what a condition or
an operand yields is a choice), assignment, `let`, slots of variables, and the
binding of patterns.  Calls to other functions are atomic, so what is shown is
about one activation at a time; `ICallFunc` starts the next one with whatever
flags the last one left.

### Sync

The runtime's `Mutex`, `Condition`, `Once` and `Semaphore`.  Each action is one
atomic access of a word; all of them are sequentially consistent in the C
(`atomic_load`, `atomic_store`, `atomic_fetch_add`,
`atomic_compare_exchange_*`), so interleaving is a faithful memory model.  A
spin loop is an action that is enabled when the load that ends it would.  The
weak exchange of `lb_sem_acquire` may fail for no reason.  The client is a set
of threads that use the primitives as their contracts ask (`Lock` ... `Unlock`,
wait in a loop under the mutex for `ready`, `once.run`, acquire and release).

The oracle has no threads: `spawn` runs the function to its end, `lock` of a
held mutex traps ("mutex locked"), an empty semaphore and a re-entered Once trap
too, where the binary would spin.  Only the binary's version is modelled.  Three
hazards of the binary are outside it: 2^32 signals between a waiter's load and
its next look (`lucb_rt.c:549`), a Once run from its own function
(`lucb_rt.c:574`) and a mutex locked twice by one thread (`lucb_rt.c:503`); each
is ruled out by the contract the client keeps.

### Allocator, FixedBuffer, TwoBuffers

`Allocator` is the promise: the blocks a program holds lie inside the buffer and
apart, and an operation on one block leaves the others where they are.
`FixedBuffer` is the binary's bump allocator, with `used` as in `lb_fixed` and
the place `at` and length `len` of each block the program holds.  `FNew` is
`new`, `new T[n]` and `memory.allocate` over `lb_alloc_bytes`; `FFree` is
`lb_release_bytes`, which gives a FixedBuffer nothing back; `FGrow` is the code
written for `memory.grow`: `lb_resize_bytes`, and a fresh block of word
alignment when that refuses.  Sizes are counted modulo `Wrap`, as `size_t` is.
`KeepsPromise` is `Allocator`'s specification under the identity mapping
(`Promise == INSTANCE Allocator WITH ...`).

`TwoBuffers` adds the oracle, which keeps values and not bytes and only counts
what the buffer would hold: `iused` is the `used` field, `ilast` the bounds of
the last block (`fb_last_start`, `fb_last_end`), `itail` the one span it would
let grow (`bump_ptr`).  A behaviour is either a program run by the binary alone,
which asks for anything, or one run by both (`both`).

Not modelled: the contents of blocks, the heap (`posix_memalign` is the C
library's), allocators written in Luce, several buffers at once, and
`memory.grow` of a block that another allocator made.

### Process

`process.run` on POSIX, `lb_host_process_run` in the binary and the same call in
the oracle (`machine`).  A call makes its pipes, forks, closes its write ends,
polls and reads both streams until both have ended, waits for the child and
stores the captures; its `pc` is where it is.  A child inherits every descriptor
the process has open when it is forked, those of other calls too (`writers`,
`readers` say who holds each end): the end of a stream comes when the last
holder is gone.  Every system call may fail, the allocator may refuse the
capture, and a child may be killed at any moment.  Bytes are counted, since a
pipe keeps their order.

The oracle has one thread, so its calls do not overlap.  On a failed read it
neither kills nor reaps its child, and takes an interrupted `waitpid` for a
failure (`interp/call.cpp:664`); both are in the model, and `NothingHeld` asks
of the oracle only what it does.  The Windows version and the encoding of
arguments and environment are left out.

### Lexer

`src/lex/lexer.cpp` as a machine that reads a text piece by piece: the
indentation of a line, a word, a literal, a delimiter, part of a formatted
string, the end of a line or of the text.  Any piece may follow any other, so
texts of every length, right or wrong, are covered; the characters are not kept.
`blocks` counts INDENTs less DEDENTs.  `update_indentation`, `close_delimiter`
and `finish_layout_region` are the functions of those names.  Spellings,
numbers, escapes and the encoding gate of `source.cpp` are abstracted to "right
or wrong".

### Parser

Every production of `parse/` as the list of steps it has still to do (`todo`):
calling a production replaces it by its steps, which depend on the tokens ahead;
the other steps take, expect or skip tokens (`Take`, `E`, `Opt`, `Sync`) and
enter and leave levels of nesting.  `astray` becomes true when a token is
skipped while no diagnostic has been reported, or when a parse stops anywhere
but where the lookahead that chose it had found the end.  Of the tree the model
keeps the binary operators with their extents (`nodes`) and the kind of the last
expression, which later decisions look at.

### Packages, CTypes, Names, Program

A program from its files to its C text and its globals.  A *world* is a package:
the files there are, what each imports and declares, and the entry.  `Packages`
loads the modules depth first and orders them, one import a step, the recursion
of `load_source` and of `visit_dependencies` being `stack`; `Names` walks them from the back:
imports bound, names resolved, generics instantiated in the scope of the module
that declares them, and what nothing used taken out; `CTypes` is the order of
typedefs and the refusal of a record that holds itself; `Program` writes the C
as lines with what each one needs and mentions (`out`), and binds the oracle's
globals in passes.

What the worlds leave out, because there the code does not keep the property
(*Findings*): pointees that are composites of a record, a generic struct that
holds itself, globals initialised by a variable's value, cycles of `let`s,
addresses of later globals, a file imported under two names, modules whose names
differ only in `.` and `_`, and locals named like another module's global.

### Arithmetic, Conversions, Folding, Flow, Utf8, Layout, HandledViews

The pure parts, as operators: the oracle's version, the binary's, and the
meaning both are held to.

- `Arithmetic`: `eval_binary` and its parts on stored words; the helper that
  the emitter chooses (`lb_adds_s`, ...) and the casts around it on C numbers;
  vectors lane by lane; `Meaning`.  A word has `WordBits` bits in place of 64.
- `Conversions`: `T(x)` and `(T)x` between integers, chars, bools, enums and
  from floats; indexing and slicing.
- `Folding`: `const_u64`, `const_bool`, against a run of the expression.
- `Flow`: `always_returns`, `check_stmt`'s removals and the walk of
  `check/init.cpp` over a body, against the set of the body's executions.
- `Utf8`: the validation and `lb_utf8_scalar`, on real bytes, against the table
  of the Unicode standard.
- `Layout`: the checker's sizes, alignments and offsets against C's rules
  applied to the typedefs the emitter writes, the `int unused;` of an aggregate
  without fields included.
- `HandledViews`: the one state machine among them.  The checker's account of
  what each binding may view (`handled`), beside what it really views
  (`views`), over straight-line code with handlers inside handlers.

`MCAlgorithms` asks each of them every question of a bounded kind;
`MCDisagreements` asks the two kinds on which the code disagrees with itself.

## Runs

| Run | Checks | Bounds |
| --- | --- | --- |
| `control` | `SamePlace`, `NoStrayJump`, `NoCallLost` | 6 constructs open, 2 calls owed, deferred blocks one deep; in one dialect loops (one label and none), `match`, `defer`, calls and expression exits, in the other catch, handlers, arguments, `defer`, `errdefer` and calls |
| `allocators` | `SameAllocator`, `AllocatorRestored`, `ExitsEnd` | 5 constructs, 2 calls owed, 2 allocators; blocks, loops without labels, `with`, catch, `defer`, traps; with fairness |
| `sync` | `MutualExclusion`, `PermitsConserved`, `OnceRunsOnce`, `EveryoneFinishes` | 3 threads, 1 operation each, 1 permit; with fairness |
| `fixed` | `SameOutcome`, `KeepsPromise` | 3 blocks (symmetric), 9 bytes, sizes 0, 1, 2, 3, 5, alignments 1, 2, 4; `size_t` counts modulo 32 |
| `process` | `CapturesAll`, `NothingHeld`, `EveryCallReturns` | 2 calls at once, both machines, one child writing up to 2 bytes to each stream and one silent, pipes of 1 byte; with fairness |
| `lexer` | `BlocksFollowIndent`, `FieldsHaveStrings`, `SuitesStayInside` | texts of any length; lines indented by 0, 2, 4 and 8, 3 delimiters and 3 formatted strings open |
| `parser` | `NothingInSilence`, `LevelsClosed`, `PrecedenceRespected`, `BlocksPair`, `Terminates` | samples that use every production, and every text one removed or replaced token away; nesting 8, chains 9, 1 parenthesis around a type |
| `program` | `WholeProgram`, `NothingUsedIsPruned`, `InstancesResolve`, `DeclaredBefore`, `ContainmentExact`, `GlobalsAgree`, `SymbolsApart` | all import graphs over 4 modules with up to 2 imports each; records of 3 declarations in all shapes; globals of two modules in all orders; generics through every form of import |
| `algorithms` | `OperatorsMeanIt`, `CompiledAgrees`, `ConversionsMeanIt`, `PlacesAreInside`, `TextIsWellFormed`, `ConstantsAreTheirRun`, `PruningKeepsMeaning`, `InitBuildsTheWhole`, `LayoutsAgree`, `ViewsAreLive` | words of 6 bits, types of 4, 5 and 6; chars up to 27 without 12 and 13; bodies two statements deep, loops run up to twice, 2 fields; 3 bindings, 6 scopes, 2 handlers |
| `break_in_switch` | `SamePlace` is violated | as `control` |
| `widening` | `WideningAgrees` is violated | words of 6 bits, types of 4 and 6 |
| `folding` | `RemovalKeepsMeaning` is violated | words of 6 bits, types of 4 and 6; one operation of a constant, at the edges of its type |

Why the bounds are enough to be interesting.

- Six open constructs hold a loop, a block, a deferred block running inside its
  cleanup, a loop inside that and an exit out of it.  An exit inspects one level
  at a time and its flags have no memory beyond one set-aside per level, so a
  disagreement needs an exit, the construct it ends in, one that owes cleanup in
  between, and an exit in that cleanup.  Two owed calls show the order.  One
  label next to none separates "innermost" from "named".  The forms are split
  over dialects because together they multiply; each combines those that meet in
  an exit.  `SamePlace` and `SameAllocator` are proved without
  these bounds.
- Three threads: a lost exchange needs a winner, a loser and a releaser; more
  operations are left to the proofs.
- Nine bytes and alignment 4 leave a gap at every alignment, hold the largest
  block with room for another, and are exceeded by two of them.
- Two calls are what one needs to inherit the other's pipe; a pipe of one byte
  is full after one write, so both streams can block, and two bytes are more than
  a pipe holds.
- Widths 0, 4 and 8 give an indent, a dedent by one and by two; 2 fits no block.
  Three delimiters hold a suite inside a delimiter, a delimiter inside the suite
  and one more.
- An edit of one token reaches every recovery of the productions the samples
  use; the limits are small so that samples exceed them.  `MaxIdle` is the
  number of steps without a token taken after which a parse counts as stuck; the
  longest legal one is below it.
- Words of 6 bits have the word's own width, where the host wraps, among the
  types, and two narrower ones; every pair of operands is asked.  UTF-8 is
  checked on the bytes on both sides of every bound of the code and of the
  standard.

Deadlock.  A function body that is not trapped starts again (`CallFunc`), so
`control` and `allocators` find deadlocks of the way out: a state in which
neither execution can go on and they are not both waiting.  `process` finds a
call waiting for a child that waits for it, and `program` a pass that stops.
Four runs switch deadlock checking off: `sync`, where threads that wait for a
condition which nobody announces rightly wait for ever; `fixed`, where a program
that holds all its blocks has nothing left to ask; `lexer` and `parser`, which
stop at the end of the text.  That the parser ends is `Terminates`.

Fairness.  `FairSpec` of `TwoExecutions` says that an execution that is not
waiting for the program keeps running: both are sequential programs.  That of
`Sync` gives each thread weak fairness for the operation it is in, as the
operating system's scheduler does, and strong fairness for the success of the
weak exchange, which fails spuriously but not for ever.  There is no fairness on
starting operations.  The spin locks are not fair in general; `EveryoneFinishes`
holds in `sync` because each thread performs a bounded number of operations and
cannot be overtaken for ever.  `Process` assumes that threads are scheduled, that
a write with room for it or without a reader returns, and that a child ends when
it is in no write; failures and signals need not come, and a child need not
close a stream before it ends.

## Findings

Three runs show a disagreement between the code and its own text.

- `break_in_switch`: an unlabelled `break` in an arm of a `match` statement over
  integers or an enum leaves the C `switch` (`emit/stmt.cpp:616`).
- `widening`: operands of one signedness and two widths get no conversion in the
  tree; the oracle reads the narrower one's bits without its sign
  (`interp/ops.cpp:738`).
- `folding`: `const_u64` folds the integers of every type on `uint64_t`
  (`check/check.cpp:456`), and a branch is removed on that word.  With `A: u8 =
  200` the condition `A + A > 250` is decided, as is `9223372036854775807 + 1 >
  0`, where the program traps; `A << 1 > 200` and `-4 // 2 < 0` are decided the
  other way round than they run.  In `usize`, and for sums, differences and
  products that stay inside their type, the fold is the run: that is
  `ConstantsAreTheirRun` of `algorithms`.

The following were met in the source while modelling.  The models keep the code
as it is, and the passing runs leave out the programs that show them.

Control flow and memory:

- `let x = q else return v`, `else break`, `else continue` skip the deferred
  calls and leave the allocator of a `with` installed in the binary
  (`emit/expr.cpp:516`; form `"else past cleanup"`).
- When a handler inside an argument breaks or continues, the oracle makes the
  call all the same (`interp/interp.cpp:150`; form `"jump in argument"`).
- `free` in a FixedBuffer gives the last block back in the oracle, whichever
  block was freed, and nothing in the binary; `memory.grow` of a block that is
  not the newest moves it in the binary and is exhausted in the oracle;
  `lb_alloc_bytes` adds sizes without looking at wrap-around, which the oracle
  does (`lucb_rt.c:388`).
- A labelled `for` over an array, span or string has no C labels
  (`emit/stmt.cpp:387`); a label used by two loops of one function, or by a loop
  in a deferred block that is inlined twice, is a duplicate C label; the guard
  of a `match` arm over integers or an enum is not emitted; `x = try f()` stores
  into `x` before the failure is noticed (`interp/exec.cpp:143`); an exit that
  leaves a deferred block through its own handler is admitted although
  `check/stmt.cpp:106` says that nothing leaves it, and the emitter does not
  terminate on it.

Lexer and parser:

- `finish_layout_region` pops one suite (`lex/lexer.cpp:1015`), while a
  delimiter may hold a suite inside a suite; `SuitesStayInside` fails with
  `NestedSuites = TRUE`.
- The scalar of `\u{...}` is accumulated in an `int` without a bound
  (`lex/lexer.cpp:687`).
- The end of a range pattern takes any token without a diagnostic
  (`parse/stmt.cpp:492`); parentheses in types, `else` chains, conditionals and
  nested suites recurse without a bound.

Program:

- A file imported as `lib` and as `src.lib` is loaded twice.
- A record held by a composite that is pointed to is written before it is
  complete (`emit/types.cpp:436`); a generic struct may contain itself
  (`check/check.cpp:1028`); `c_imported` is not saved while a generic is
  instantiated (`check/generic.cpp:456`).
- Globals: the address of a later `var`, `var a = b`, and a cycle of `let`s are
  accepted; `let G: u8 = 250 + 10` traps in the oracle and is 4 in the binary.
- The modules `a.b` and `a_b` share C symbols (`emit/cgen.cpp:77`).
- A local is found by its name before a global of another module by its
  declaration (`interp/interp.cpp:28`), so `lib.x` inside a function with a
  parameter `x` reads the parameter in the oracle.

Values and analyses:

- An ordering of two unsigned widths reads its right operand in the left one's
  type (`interp/ops.cpp:731`, `emit/expr.cpp:842`), so that a `u8` 1 is not less
  than a `u16` 256; both executions agree on it, which `CompiledAgrees` checks,
  and `OperatorsMeanIt` leaves it out.
- A signed integer enum of value -1 converts to 255 in the oracle and -1 in the
  binary; `E(256)` of a `u8` enum is accepted by both.
- `a[3..<1]` traps in the oracle and has a length of 2^64 - 2 in the binary; an
  `i8` index of -1 reads element 255 of a long array in the oracle; an index,
  slice or formatted expression with effects is evaluated twice in the binary.
- An init may return before every field is assigned (`check/init.cpp:119`),
  fields after the 64th are not checked, and bodies of `defer` and `catch` are
  not walked.
- A view of a handled error's message escapes through a loop that reads it
  before assigning it, and through `*p`.
- A packed struct's field with `align(8)`, and `align` of a named constant or in
  parentheses, are laid out otherwise than in C.  So are a struct or union with
  methods only, of size 0 for the checker and 4 in C (`emit/types.cpp:181`), an
  allocator, 12 and 16 (`check/type.cpp:652`), and an error value, 20 and 24
  (`check/type.cpp:672`): `sizeof`, constants and the oracle's memory have the
  smaller size.  `Layout` models these, `LayoutsAgree` says that each is smaller
  by itself (`LaidApart`), and the types composed of them are not asked.

## Proofs

`TwoExecutionsProofs` first proves of the oracle, for any labels, allocators and
values and for any depth (the bounds are constraints of `TwoExecutions`, not of
`InterpControl`), that `ISpec` implies `[]ITypeOK`, `[]IInv`, `[]NoStrayJump`,
`[]AllocatorRestored` and `NoCallLost`.

`NoStrayJump` speaks of the end of the body and is far from inductive.  `IInv`
adds: a jump in flight is either a `break` or a `continue` and has a loop it is
aimed at among the open frames with no cleanup in between (`JumpAimed`); the
same holds below each cleanup for the jump it has set aside
(`SavedJumpsAimed`), which is what makes putting it back sound; only blocks and
cleanups hold registered calls (`CallsInBlocks`), so leaving any other frame
loses none; and the outermost `with` saved the first allocator
(`FirstWithSaved`, `OutsideWith`).  The checker's rule `LoopsInScope` is where
`JumpAimed` comes from: without it the theorem is false.  The proof has one step
per statement and per level of the way out; the lemmas on `Push`, `Pop` and
`SetTop` say what each change of the stack does to the three parts of
`StackInv`.

Then it proves `SamePlace` and `SameAllocator`: that the two executions agree,
for constructs nested to any depth, any labels, allocators and values, and any
bounds.  The one hypothesis is on the program: its dialect has none of the three
forms of `Differing` (`"else past cleanup"`, `"break in switch"`, `"jump in
argument"`), on which the code does differ (Findings).  The dialects of the runs
`control` and `allocators` satisfy it.

`SamePlace` speaks of the moments at which both wait for a statement and says
nothing of those in between, when the oracle returns one level of its recursion
at a time and the binary walks through the cleanup that the emitter inlined.  The
two do not go at the same pace, so no relation between their current states
alone is kept by every step.  What is kept is `Coupled`:

- `Tracked`: the binary's way out is deterministic (`After` is its step as a
  function), and some finite run of it from where it is leads to a state that
  the oracle `Follows`.  A step of the binary shortens that run, a step of the
  oracle extends it, and neither has to wait for the other.
- `Follows` is the case where the two are at corresponding places: each level
  of the recursion is at a position of the C nesting that is increasing and
  alike (`Placed`), and either no exit is under way (`Settled`), or the oracle
  is leaving the level whose cleanup the binary has inlined on top (`Leaving`),
  or the rest of the way owes nothing, so that the binary jumps at once where
  the oracle still returns level by level (`BareLevel`, `BareCleanup`), or the
  program has trapped (`Dead`).
- Under each cleanup of the recursion there is an inlined cleanup of the
  binary that carries the exit the oracle has set aside (`Unwinding`,
  `Carries`): its target is the level at which the flags will be consumed
  (`Aimed`).  That is why putting the flags back and jumping come to the same.
- `IInv`, and `Shape`: operands, handlers and arguments are written in blocks
  or in one another.

`Aimed` is where the emitter's bookkeeping is justified: that `loop_scope`, the
`failure_scope` saved around operands and handlers, and the landing place that C
gives `break` and `goto` name the level that the oracle's flags will come to.
When both wait, the finite run has no step left, `Follows` can only be `Settled`
or `Dead`, and the two views are equal.

`SyncProofs` proves, for any finite set of threads, any permits and any width of
the words, `SyncInv` and from it `TypeOK`, `MutualExclusion`,
`PermitsConserved` and `OnceRunsOnce`.  Conservation needs that a thread about
to exchange read a count above 0; the Once needs that its word tells how far its
single run has come.

`TwoBuffersProofs` proves, for any buffer, sizes, alignments and blocks, that
`used` and the blocks keep their ranges (`BufferTypeCorrect`) and that the
binary's FixedBuffer implements `Allocator` (`BufferKeepsPromise`), under
`NoSumWraps`: the largest request on top of a full buffer does not wrap.  Without
that the theorem is false.  The promise alone is not inductive: a fresh block
starts at `used`, rounded up, so what is needed is that no block reaches beyond
`used` (`FInv`); the block that ends at `used` is then the last, and resizing it
in place meets no other.

`LexerProofs` proves `BlocksFollowIndent` for lines of any width and anything
open: the INDENTs and DEDENTs of every text pair.  Alone it is not inductive: a
suite that ends because its delimiter closed goes back to the indentation it
remembers, so `LayoutInv` adds that every open suite and the current line stand
at a whole number of steps.  It needs no bound on nesting, and not
`NestedSuites = FALSE`.  `FieldsHaveStrings` is inductive as it stands; its proof
counts the fields of the delimiter stack as it grows and shrinks.
`SuitesStayInside`, a property of the step that closes a delimiter, is proved for
`NestedSuites = FALSE` (it is false otherwise, see above).  It needs to know what
indentation every open delimiter will find when the one inside it closes, so
`Suited` says of the whole stack that each suite is the only one of its
delimiter and goes back to where that delimiter was opened, and that between two
delimiters the indentation grew only if there is a suite; it holds until
something is reported.

`ParserProofs` proves `LevelsClosed` and `BlocksPair` for any tokens and any
limits.  Both are about the end of a parse, and what has to be known before is
what the steps that are left will do.  So the list `todo` is read as a walk
(`Runs`): each step changes how many brackets of a kind are open by an amount
known before it is taken, its cost, and a walk goes from what is open now to
nothing.  The cost of a step that has lists inside is that of either list
(`Cost1` to `Cost3`, for lists in lists); a token taken without being expected
must have been seen ahead, so a walk carries the place of the cursor for as long
as only such tokens are taken (`Move`).  `ProductionFits` says of each of the 99
productions that its steps cost what its call does, and the levels that
expressions nest are one more kind of bracket, opened by `Enter` and closed by
`Leave`: `Levels` is that walk, and that a level still to be opened stands behind
nothing but tokens, so the limit that the production looked at still holds.  The
walk of a real bracket is lost when something is reported, since the recovery
skips tokens; so `Pairing` says that a diagnostic was reported, or will be by a
`Fail` among the steps, or the walks of the three kinds close what the tokens
so far have opened.  Two more parts keep that from being false: forced progress
would skip a token in silence if the member before it took none (`Moving`; that
each of the productions in `Eaters` takes one or reports is `EatersEat`), and the
steps must not run out before the end of the file (`Ending`).  `BlocksPair` is
about texts where no range of a pattern ends at a bracket (`RangesEnd`): the end
of one takes any token (*Findings*), and with a bracket there it is false.

`ProcessProofs` proves `CapturesAll` and `NothingHeld` for any number of calls at
once, any output and any capacity of a pipe, the binary and the oracle.
`ProcessInv` has five parts for each call: what the child wrote is what was read
and what is in the pipe (`Conserved`); a stream is given up only when it is empty
and no process can write it (`ReadToEnd`), which together give `CapturesAll`; a
write under way holds its end of the pipe (`WritesHeld`), or a byte could come
after the hang-up; which of its own ends the process has in each phase
(`EndsClosed`); and how far the call and its child are in step (`InStep`).  A
step of one call meets another only through the ends of pipes that a fork
copies, so for the others it is enough that such a step takes no end from them
and makes none for a pipe nobody could write (`SameEnds`).

`TwoBuffersProofs` proves `SameOutcome` under `NoSumWraps`.  The invariant
(`Alike`): both count the same bytes, and when the program still holds the block
it was given last and that block is not empty, it is the one the oracle lets
grow and it ends where the used part of the binary's buffer does.  When it does
not fit in place, the binary looks for fresh bytes, which lie further on and do
not fit either; and the remainder of the oracle rounds as the mask of the binary
does.

`PackagesProofs` proves `WholeProgram` for packages of any size, of `LoadSpec`:
the loading and the ordering, and after them steps that leave the modules alone
(`Later`, which every step of `Names` and `Program` on a loaded program is).
Two depth-first walks run over the imports, and one invariant serves both
(`WalkOK`, of the stack and of the modules the walk is done with): no module is
on the stack twice, what a module there imports before the place it is at is
done or is just above it, each module reaches those above it, and what is done
imports only what is done.  So an import found on the stack reaches itself,
which is what the refusal says; a module that ends imports only what is done,
and as it is not done itself, it does not reach itself.  When the second walk
begins no module reaches itself, so it never meets its own stack, and each
module is listed after all it imports; nothing imports the entry, so taking it
to the front is harmless.  What a module reaches is defined as the least set
closed under imports, and the lemmas on `Closure` are all the proof needs of it.

`HandledViewsProofs` proves `ViewsAreLive` for any number of bindings, scopes and
handlers, without an assumption.  Alone it is not inductive: it does not say why
ending a handler leaves no view of its message.  `ViewsInv` adds that the account
of a binding or of a recovered value covers what it views (`Covers`: each message
is that of an open handler no deeper than `handled`), that a binding's account is
no deeper than the binding (`Accounted`), so that what survives a handler cannot
account for it, and that handlers are two scopes apart, each with a `recovered`
mark below its own depth (`Nested`).  The first part is kept by `Larger` in
`handled_view` and `Storing`, the second by `handled_stored`, the third by
`handled_recovered`.

Assumptions: `ConstructsAssumption` (labels, allocators and values are told
apart from the markers), `SyncAssumption` (finitely many threads; the count
fits its word), `FixedAssumption` (sizes and alignments are `size_t`s),
`AlignsArePowersOfTwo` (for which `align_up` rounds; the proofs do not need it,
since the modulus stands for the mask), `LexerAssumption` (widths are numbers),
`ParserAssumption` (a text is a sequence whose last token, and no other, is
`EOF`, as the lexer makes it), `ProcessAssumption` (the process that calls is none of the children),
`NoBlockAssumption` (no block is not a block) and `WorldsAssumption` (the entry
is a file, every file and every module the compiler carries has its text, the
imports of a text are a list, and no text is called a cycle).

Only model-checked: liveness (`ExitsEnd`, `EveryoneFinishes`,
`EveryCallReturns`), three properties of the parser (`Terminates` counts steps
against a bound given by the instance; `PrecedenceRespected` and
`NothingInSilence` need what a whole production has read, the second for every
lookahead, and the lookaheads of types are recursive), the passes of the checker
and the emitter over a loaded program, and the other algorithms, whose definitions are recursive over
trees or which compare two computations over a small word.

## Not modelled

- Literals and decimals (`support/literal.cpp`, `support/decimal.cpp`): their
  interesting inputs are long strings of digits.
- The typing of expressions, overloads (`check/call.cpp`) and interfaces: large
  tables of cases with little state, each decided by types the models abstract.
- Byte views of typed values in the oracle (`interp/punning.cpp`): out of reach
  of small instances.
- Files, formatting of numbers, the driver and the host compiler: calls of the
  operating system and of the C library.
- Thread creation: one call each of the C library's threads.

## Next

1. Overload resolution of `check/call.cpp` and the arguments of calls in both
   executions; assignment and the slots of variables.
2. Proofs that every exit ends for constructs of any depth, as a decreasing
   measure of the way out: the run `allocators` checks it as `ExitsEnd`.
3. Proofs about the parser's `PrecedenceRespected`, which need what a whole
   production has read.
