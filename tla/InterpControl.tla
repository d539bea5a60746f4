--------------------------- MODULE InterpControl ---------------------------
(***************************************************************************)
(* The oracle's statement evaluator (interp/exec.cpp, and the parts of     *)
(* interp/eval.cpp, ops.cpp, call.cpp and interp.cpp that an exit passes   *)
(* through).  The evaluator recurses over the tree; an exit is a set of    *)
(* flags that each level of the recursion looks at on its way out.  The    *)
(* recursion is the stack `ist`, the flags are the record `ifl`.           *)
(***************************************************************************)
EXTENDS Constructs

VARIABLES
  ist,     (* the open recursion: one frame per construct being evaluated   *)
  ifl,     (* the flags of Interp that carry an exit outwards               *)
  ialloc,  (* current_alloc                                                 *)
  iout     (* the value or the error last handed to the program by a catch  *)

ivars == <<ist, ifl, ialloc, iout>>

OutValue == Value \cup {Called}

(* trapped, returning, breaking, continuing, recovered; ret (failed, val);  *)
(* recover_val; jump_label.                                                 *)
Flags ==
  [trapped : BOOLEAN, returning : BOOLEAN, breaking : BOOLEAN,
   continuing : BOOLEAN, recovered : BOOLEAN, failed : BOOLEAN,
   val : Value, rec : Value, jump : Label]

IKinds == {"block", "cleanup", "loop", "with", "arm", "operand", "handler",
           "argument"}

(* One level of the recursion.  ds: the registered calls of a block, or the *)
(* ones a cleanup has still to look at; al: the allocator a `with` saved;   *)
(* fl and failing: what the end of a block set aside.                       *)
IFrame ==
  [k : IKinds, lab : Label, ds : Seq(Deferred), al : Allocs,
   fl : Flags, failing : BOOLEAN]

(* The flags before the first call.                                         *)
NoFlags ==
  [trapped |-> FALSE, returning |-> FALSE, breaking |-> FALSE,
   continuing |-> FALSE, recovered |-> FALSE, failed |-> FALSE,
   val |-> Unit, rec |-> Unit, jump |-> NoLabel]

(* A frame as the recursion opens it.                                       *)
IOpen(kind) ==
  [k |-> kind, lab |-> NoLabel, ds |-> <<>>, al |-> HeapAlloc,
   fl |-> NoFlags, failing |-> FALSE]

InFlight == ifl.returning \/ ifl.breaking \/ ifl.continuing

(* The last registered call a cleanup still holds is one it will run.       *)
IRunnable ==
  /\ Top(ist).ds # <<>>
  /\ Top(Top(ist).ds).errOnly => Top(ist).failing

(* The evaluator waits for the program: for a statement, a loop condition,  *)
(* the outcome of an operand, or the deferred call it is about to make.     *)
IQuiet ==
  /\ ist # <<>> => ~ifl.trapped
  /\ IF TopKind(ist) = "cleanup"
     THEN IRunnable
     ELSE /\ TopKind(ist) \in {"end", "block", "loop", "operand", "argument"}
          /\ ist # <<>> => ~InFlight

(* What the activation returned: call_func's result.                        *)
IResult ==
  IF ifl.trapped THEN <<"trapped", Unit>>
  ELSE IF ~ifl.returning THEN <<"value", Unit>>
  ELSE <<IF ifl.failed THEN "failed" ELSE "value", ifl.val>>

IInit ==
  /\ ist = <<>>
  /\ ifl = NoFlags
  /\ ialloc = HeapAlloc
  /\ iout = Unit

-----------------------------------------------------------------------------
(***************************************************************************)
(* Statements, each where the evaluator waits for one and the checker      *)
(* admits it.                                                              *)
(***************************************************************************)
IAt(K) == IQuiet /\ TopKind(ist) \in K

(* call_func: `returning` is cleared and nothing else is.                   *)
ICallFunc ==
  /\ IAt({"end"}) /\ ~ifl.trapped
  /\ ist' = <<IOpen("block")>>
  /\ ifl' = [ifl EXCEPT !.returning = FALSE]
  /\ iout' = Unit
  /\ UNCHANGED ialloc

(* A statement or an expression that changes the recursion and no flag.     *)
IGoto(s) ==
  /\ ist' = s
  /\ iout' = Unit
  /\ UNCHANGED <<ifl, ialloc>>

(* The body of an `if` is a block, and so is each iteration of a loop.      *)
IBlock == IAt({"block"}) /\ IGoto(Append(ist, IOpen("block")))
IIterate == IAt({"loop"}) /\ IGoto(Append(ist, IOpen("block")))

(* enter_loop: no label is open twice.                                      *)
ILoop(l) ==
  /\ IAt({"block"})
  /\ l # NoLabel => LoopsInScope(ist, l) = {}
  /\ IGoto(Append(ist, [IOpen("loop") EXCEPT !.lab = l]))

(* The condition of the loop fails, or its range is exhausted.              *)
ILoopDone == IAt({"loop"}) /\ IGoto(Pop(ist))

IMatch == IAt({"block"}) /\ IGoto(Push2(ist, IOpen("arm"), IOpen("block")))

(* A catch, and the argument of a call that holds one.                      *)
ICatch == IAt({"block", "operand"}) /\ IGoto(Append(ist, IOpen("operand")))
IArgument ==
  /\ IAt({"block", "operand"})
  /\ IGoto(Push2(ist, IOpen("argument"), IOpen("operand")))

(* The operand of a catch has its value.                                    *)
IOperandDone == IAt({"operand"}) /\ IGoto(Pop(ist))

(* The argument of a call has its own, and the call is made.                *)
IArgumentDone ==
  /\ IAt({"argument"})
  /\ ist' = Pop(ist)
  /\ iout' = Called
  /\ UNCHANGED <<ifl, ialloc>>

IWith(a) ==
  /\ IAt({"block"})
  /\ ist' = Push2(ist, [IOpen("with") EXCEPT !.al = ialloc], IOpen("block"))
  /\ ialloc' = a
  /\ iout' = Unit
  /\ UNCHANGED ifl

(* `defer`, and `errdefer`, which a deferred block may not hold.            *)
IDefer(d) ==
  /\ IAt({"block"})
  /\ d.errOnly => ~InDeferred(ist)
  /\ IGoto(SetTop(ist, [Top(ist) EXCEPT !.ds = Append(@, d)]))

(* A call that the evaluator makes whole.  call_func restores `returning`,  *)
(* but `ret`, `recovered`, `recover_val` and `jump_label` stay as the       *)
(* callee's own exits and handlers left them.                               *)
CallLeaves(fl) ==
  {fl} \cup
  {[fl EXCEPT !.failed = f, !.val = Unit, !.rec = Unit, !.recovered = FALSE,
              !.jump = l] : f \in BOOLEAN, l \in Label}

ICall ==
  /\ IAt({"block"})
  /\ ifl' \in CallLeaves(ifl)
  /\ iout' = Unit
  /\ UNCHANGED <<ist, ialloc>>

IExit(fl) ==
  /\ ifl' = fl
  /\ iout' = Unit
  /\ UNCHANGED <<ist, ialloc>>

(* A deferred block may not return.                                         *)
IReturn(v) ==
  /\ IAt({"block"}) /\ ~InDeferred(ist)
  /\ IExit([ifl EXCEPT !.returning = TRUE, !.failed = FALSE, !.val = v])

(* `error(code, ...)`, and a `try` whose operand failed.                    *)
IRaise(e) ==
  /\ IAt({"block", "operand"}) /\ MayRaise(ist)
  /\ IExit([ifl EXCEPT !.returning = TRUE, !.failed = TRUE, !.val = e])

IBreak(l) ==
  /\ IAt({"block"}) /\ LoopsInScope(ist, l) # {}
  /\ IExit([ifl EXCEPT !.breaking = TRUE, !.jump = l])

IContinue(l) ==
  /\ IAt({"block"}) /\ LoopsInScope(ist, l) # {}
  /\ IExit([ifl EXCEPT !.continuing = TRUE, !.jump = l])

(* `recover v`: a return that only the handler ends.                        *)
IRecover(v) ==
  /\ IAt({"block"}) /\ MayRecover(ist)
  /\ IExit([ifl EXCEPT !.rec = v, !.failed = FALSE, !.val = Unit,
                       !.recovered = TRUE, !.returning = TRUE])

ITrap ==
  /\ IQuiet /\ ist # <<>>
  /\ IExit([ifl EXCEPT !.trapped = TRUE])

(* The last statement of the block on top is done, or an exit stopped it:   *)
(* its registered calls are due, and the exit in flight is set aside.       *)
EndOfBlock(f, fl) ==
  [f EXCEPT !.k = "cleanup", !.fl = fl, !.failing = fl.returning /\ fl.failed]

IEndBlock == IAt({"block"}) /\ IGoto(SetTop(ist, EndOfBlock(Top(ist), ifl)))

(* Mutant: the calls run in the order they were registered.                 *)
IDroppedFirst == SetTop(ist, [Top(ist) EXCEPT !.ds = Tail(@)])

(* The cleanup on top starts the last call it holds, with no exit in        *)
(* flight.  A block is executed statement by statement, a call whole.       *)
IDropped == SetTop(ist, [Top(ist) EXCEPT !.ds = Pop(@)])
Aside(fl) ==
  [fl EXCEPT !.returning = FALSE, !.breaking = FALSE, !.continuing = FALSE]

IRunDeferred ==
  /\ IAt({"cleanup"})
  /\ IF Top(Top(ist).ds).body = "block"
     THEN /\ ist' = Append(IDropped, IOpen("block"))
          /\ ifl' = Aside(ifl)
     ELSE /\ ist' = IDropped
          /\ ifl' \in CallLeaves(Aside(ifl))
  /\ iout' = Unit
  /\ UNCHANGED ialloc

-----------------------------------------------------------------------------
(***************************************************************************)
(* The way out.  One step per level of the recursion.                      *)
(***************************************************************************)

(* A statement left an exit in flight: the rest of the block is skipped.    *)
IStopBlock ==
  /\ TopKind(ist) = "block"
  /\ InFlight /\ ~ifl.trapped
  /\ ist' = SetTop(ist, EndOfBlock(Top(ist), ifl))
  /\ UNCHANGED <<ifl, ialloc, iout>>

(* An `errdefer` does not run unless the exit is a failure.                 *)
ISkipErrdefer ==
  /\ TopKind(ist) = "cleanup"
  /\ ~ifl.trapped
  /\ Top(ist).ds # <<>> /\ ~IRunnable
  /\ ist' = IDropped
  /\ UNCHANGED <<ifl, ialloc, iout>>

(* All calls made: the exit that was set aside is in flight again.          *)
IEndCleanup ==
  /\ TopKind(ist) = "cleanup"
  /\ Top(ist).ds = <<>> \/ ifl.trapped
  /\ ifl' = [Top(ist).fl EXCEPT !.trapped = ifl.trapped]
  /\ ist' = Pop(ist)
  /\ UNCHANGED <<ialloc, iout>>

(* Mutants: a jump without a label does not end in a loop that has one; a   *)
(* loop that a `continue` is aimed at forgets to end it.                    *)
IAimedHereByName == ifl.jump = Top(ist).lab

(* leave_loop, and the conditions the loops test between iterations.        *)
IAimedHere == ifl.jump = NoLabel \/ ifl.jump = Top(ist).lab

ILeaveLoopKeepsContinue ==
  /\ TopKind(ist) = "loop"
  /\ ~ifl.trapped
  /\ InFlight
  /\ IF ~ifl.breaking /\ ifl.continuing /\ IAimedHere
     THEN UNCHANGED ist
     ELSE ist' = Pop(ist)
  /\ ifl' = [ifl EXCEPT !.breaking = @ /\ ~IAimedHere]
  /\ UNCHANGED <<ialloc, iout>>

ILeaveLoop ==
  /\ TopKind(ist) = "loop"
  /\ ~ifl.trapped
  /\ InFlight
  /\ IF ~ifl.breaking /\ ifl.continuing /\ IAimedHere
     THEN UNCHANGED ist
     ELSE ist' = Pop(ist)
  /\ ifl' = IF ifl.breaking
            THEN [ifl EXCEPT !.breaking = ~IAimedHere]
            ELSE [ifl EXCEPT !.continuing = @ /\ ~IAimedHere]
  /\ UNCHANGED <<ialloc, iout>>

(* Mutant: a body that was left by an exit keeps its allocator.             *)
IEndWithOnFallOnly ==
  /\ TopKind(ist) = "with"
  /\ ialloc' = IF InFlight THEN ialloc ELSE Top(ist).al
  /\ ist' = Pop(ist)
  /\ UNCHANGED <<ifl, iout>>

(* `with`: the allocator is put back however the body ended.                *)
IEndWith ==
  /\ TopKind(ist) = "with"
  /\ ialloc' = Top(ist).al
  /\ ist' = Pop(ist)
  /\ UNCHANGED <<ifl, iout>>

IEndArm ==
  /\ TopKind(ist) = "arm"
  /\ ist' = Pop(ist)
  /\ UNCHANGED <<ifl, ialloc, iout>>

(* eval_catch: a failure in flight starts the handler, which is given the   *)
(* error; any other exit passes through.                                    *)
IEndOperand ==
  /\ TopKind(ist) = "operand"
  /\ InFlight /\ ~ifl.trapped
  /\ IF ifl.returning /\ ifl.failed
     THEN /\ ist' = Push2(Pop(ist), IOpen("handler"), IOpen("block"))
          /\ ifl' = [ifl EXCEPT !.returning = FALSE, !.rec = Unit,
                                !.recovered = FALSE]
          /\ iout' = ifl.val
     ELSE /\ ist' = Pop(ist)
          /\ UNCHANGED <<ifl, iout>>
  /\ UNCHANGED ialloc

(* run_catch_handler: `recover` ends here, with the value it set.  The      *)
(* checker lets a handler fall through only where no value is wanted.       *)
IEndHandler ==
  /\ TopKind(ist) = "handler"
  /\ ~ifl.trapped
  /\ ist' = Pop(ist)
  /\ ifl' = IF ifl.recovered
            THEN [ifl EXCEPT !.returning = FALSE, !.recovered = FALSE]
            ELSE ifl
  /\ iout' = IF ifl.recovered THEN ifl.rec ELSE iout
  /\ UNCHANGED ialloc

(* call_func gives up on a call when an argument was left by a return.  A   *)
(* jump does not stop it: the call is made, and one statement of its body   *)
(* is executed before the block that holds it looks at the flags.           *)
IEndArgument ==
  /\ TopKind(ist) = "argument"
  /\ InFlight /\ ~ifl.trapped
  /\ ist' = Pop(ist)
  /\ iout' = IF ifl.returning THEN iout ELSE Called
  /\ UNCHANGED <<ifl, ialloc>>

(* A trap stops every level; only a `with` and a cleanup have more to do.   *)
ITrapped ==
  /\ ifl.trapped
  /\ TopKind(ist) \notin {"end", "with", "cleanup", "arm"}
  /\ ist' = Pop(ist)
  /\ UNCHANGED <<ifl, ialloc, iout>>

IStep ==
  \/ IStopBlock \/ ISkipErrdefer \/ IEndCleanup \/ ILeaveLoop
  \/ IEndWith \/ IEndArm \/ IEndOperand \/ IEndHandler
  \/ IEndArgument \/ ITrapped

(* Any statement of any program.                                            *)
IStatement ==
  \/ ICallFunc \/ IBlock \/ IIterate \/ ILoopDone \/ IMatch \/ ICatch
  \/ IArgument \/ IOperandDone \/ IArgumentDone \/ ICall \/ IEndBlock
  \/ IRunDeferred \/ ITrap
  \/ \E l \in Label : ILoop(l) \/ IBreak(l) \/ IContinue(l)
  \/ \E a \in Allocs : IWith(a)
  \/ \E d \in Deferred : IDefer(d)
  \/ \E v \in Vals : IReturn(v) \/ IRaise(v) \/ IRecover(v)

INext == IStatement \/ IStep

ISpec == IInit /\ [][INext]_ivars

-----------------------------------------------------------------------------
(***************************************************************************)
(* Properties of the oracle.                                               *)
(***************************************************************************)

(* The oracle's variables have the types of their declarations.             *)
ITypeOK ==
  /\ ist \in Seq(IFrame)
  /\ ifl \in Flags
  /\ ialloc \in Allocs
  /\ iout \in OutValue

(* A `break` or `continue` never leaves the function it was written in:     *)
(* call_func resets `returning` alone, so a jump still in flight when the   *)
(* body ends would stop a loop of the caller.                               *)
NoStrayJump ==
  ist = <<>> /\ ~ifl.trapped => ~ifl.breaking /\ ~ifl.continuing

(* From s to t: a construct that owes a registered call stays open, and of  *)
(* the calls it owes at most one is taken, the last.                        *)
CallsKept(s, t) ==
  \A i \in 1 .. Len(s) :
    s[i].ds # <<>> =>
      /\ i <= Len(t)
      /\ Len(t[i].ds) >= Len(s[i].ds) \/ t[i].ds = Pop(s[i].ds)

(* No registered call is lost (exec, end of Block): whatever exit is under  *)
(* way, a construct is left only when no call registered in it is owed any  *)
(* more, and calls are taken one at a time, the last first, unless the      *)
(* program trapped.                                                         *)
NoCallLost == [][ifl.trapped \/ CallsKept(ist, ist')]_ivars

(* A `with` restores: outside every `with` the program's first allocator is *)
(* current, however the scopes were left.                                   *)
AllocatorRestored ==
  Of(ist, {"with"}) = {} => ialloc = HeapAlloc

-----------------------------------------------------------------------------
(***************************************************************************)
(* The inductive invariant behind the properties.                          *)
(***************************************************************************)

(* In the first n frames of s a jump labelled l has a loop to end in, with  *)
(* no cleanup, which it would never cross, in between.                      *)
Target(s, n, l) ==
  \E i \in 1 .. n :
    /\ s[i].k = "loop" /\ (l = NoLabel \/ s[i].lab = l)
    /\ \A j \in i .. n : s[j].k # "cleanup"

(* Only blocks and cleanups hold registered calls.                          *)
CallsInBlocks(s) ==
  \A i \in 1 .. Len(s) : s[i].k \in {"block", "cleanup"} \/ s[i].ds = <<>>

(* A jump that a cleanup set aside still has its loop outside the cleanup.  *)
SavedJumpsAimed(s) ==
  \A c \in 1 .. Len(s) :
    s[c].k = "cleanup" =>
      /\ ~(s[c].fl.breaking /\ s[c].fl.continuing)
      /\ s[c].fl.breaking \/ s[c].fl.continuing => Target(s, c - 1, s[c].fl.jump)

(* The outermost `with` saved the allocator the program started with.       *)
FirstWithSaved(s) ==
  \A i \in 1 .. Len(s) :
    s[i].k = "with" /\ (\A j \in 1 .. i - 1 : s[j].k # "with")
      => s[i].al = HeapAlloc

StackInv(s) == CallsInBlocks(s) /\ SavedJumpsAimed(s) /\ FirstWithSaved(s)

OutsideWith(s, a) == (\A i \in 1 .. Len(s) : s[i].k # "with") => a = HeapAlloc

(* A jump in flight is one jump, and has a loop to end in.                  *)
JumpAimed ==
  ~ifl.trapped =>
    /\ ~(ifl.breaking /\ ifl.continuing)
    /\ TopKind(ist) # "cleanup" /\ (ifl.breaking \/ ifl.continuing)
         => Target(ist, Len(ist), ifl.jump)

(* What every statement and every step on the way out preserves: the types, *)
(* the stack of exec's recursion as its levels left it, the allocator and   *)
(* the aim of the jump in flight.                                           *)
IInv == ITypeOK /\ StackInv(ist) /\ OutsideWith(ist, ialloc) /\ JumpAimed

=============================================================================
