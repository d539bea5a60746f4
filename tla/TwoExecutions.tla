--------------------------- MODULE TwoExecutions ---------------------------
(***************************************************************************)
(* One program, run by the oracle (InterpControl) and by its binary        *)
(* (EmitControl).  Whenever both wait, the program's next statement is     *)
(* chosen for both; between two statements each works its own way out.     *)
(* docs/DESIGN.md promises that the two executions agree.                  *)
(***************************************************************************)
EXTENDS InterpControl, EmitControl, FiniteSetsExt

VARIABLE forms    (* the dialect this program is written in *)

vars == <<ivars, evars, forms>>

Ready == IQuiet /\ EQuiet

(* What the oracle's recursion and the C nesting have in common.  An inlined*)
(* cleanup stands where the block it is cleaning up stood; the C statements *)
(* it was written in are behind it.                                         *)
Seen(f) == [k |-> f.k, lab |-> IF f.k = "loop" THEN f.lab ELSE NoLabel,
            ds |-> f.ds, failing |-> f.failing]
IView == [i \in 1 .. Len(ist) |-> Seen(ist[i])]

Shown == {i \in 1 .. Len(est) : \A c \in Of(est, {"cleanup"}) : i < est[c].at \/ i >= c}
Place(n) == CHOOSE i \in Shown : Cardinality({j \in Shown : j <= i}) = n
EView == [n \in 1 .. Cardinality(Shown) |-> Seen(est[Place(n)])]

Init == IInit /\ EInit /\ forms \in Dialects

-----------------------------------------------------------------------------
(***************************************************************************)
(* The statements of the program, where the checker admits them.           *)
(***************************************************************************)
Room(n) == EQuiet /\ Len(est) + n <= MaxFrames
Form(f) == EQuiet /\ f \in forms

(* The calls that are registered and not yet made.                          *)
Owed == MapThenSumSet(LAMBDA i : Len(ist[i].ds), DOMAIN ist)

CallFunc == EQuiet /\ ICallFunc /\ ECallFunc
Block == Room(1) /\ Form("if") /\ IBlock /\ EBlock

(* A label of the code around an inlined cleanup may not be taken again:    *)
(* C would see it twice.                                                    *)
Loop ==
  /\ Room(2) /\ Form("loop")
  /\ \E l \in Label :
       /\ l # NoLabel => Form("label") /\ \A i \in Of(est, {"loop"}) : est[i].lab # l
       /\ ILoop(l) /\ ELoop(l)

Iterate == EQuiet /\ IIterate /\ EBlock
LoopDone == EQuiet /\ ILoopDone /\ ELoopDone

With == Room(2) /\ Form("with") /\ \E a \in Allocs : IWith(a) /\ EWith(a)
Match == Room(2) /\ Form("match") /\ IMatch /\ EMatch
Catch == Room(2) /\ Form("catch") /\ ICatch /\ ECatch
Argument == Room(3) /\ Form("argument") /\ IArgument /\ EArgument
OperandDone == EQuiet /\ IOperandDone /\ EOperandDone
ArgumentDone == EQuiet /\ IArgumentDone /\ EArgumentDone

Defer ==
  \E d \in Deferred :
    /\ Form(IF d.errOnly THEN "errdefer" ELSE "defer")
    /\ d.body = "block" => Cardinality(Of(est, {"cleanup"})) < MaxNesting
    /\ IDefer(d) /\ EDefer(d)
    /\ Owed < MaxDefers

(* A callee leaves a label behind only in a program that has one.           *)
LabelsLeft == ifl'.jump # NoLabel => Form("label")
Call == Form("call") /\ ICall /\ ECall /\ LabelsLeft
EndBlock == EQuiet /\ IEndBlock /\ EEndBlock
RunDeferred == EQuiet /\ IRunDeferred /\ ERunDeferred /\ LabelsLeft

Return == EQuiet /\ \E v \in Vals : IReturn(v) /\ EReturn(v)
Raise == EQuiet /\ \E e \in Vals : IRaise(e) /\ ERaise(e)
Recover == EQuiet /\ \E v \in Vals : IRecover(v) /\ ERecover(v)

(* The jumps that leave no argument of a call, unless the program has some. *)
MayJump(l) ==
  ~LeavesNoArgument(ist, Innermost(LoopsInScope(ist, l))) => Form("jump in argument")

Break ==
  EQuiet /\ \E l \in Label :
    /\ MayJump(l)
    /\ l = NoLabel /\ ~BreakSeesLoop(ist) => Form("break in switch")
    /\ IBreak(l) /\ EBreak(l)

Continue ==
  EQuiet /\ \E l \in Label : MayJump(l) /\ IContinue(l) /\ EContinue(l)

(* `let x = q else return v` and its like, when q is none; past owed        *)
(* cleanup only if the program does that.                                   *)
MayElse(p) ==
  /\ Form("else exit")
  /\ ~OwesNothing(ist, p) => Form("else past cleanup")

ElseReturn ==
  \E v \in Vals : MayElse(1) /\ IReturn(v) /\ EElse("return", v)
ElseBreak ==
  /\ MayElse(Innermost(LoopsInScope(ist, NoLabel))) /\ MayJump(NoLabel)
  /\ BreakSeesLoop(ist)
  /\ IBreak(NoLabel) /\ EElse("break", Unit)
ElseContinue ==
  /\ MayElse(Innermost(LoopsInScope(ist, NoLabel))) /\ MayJump(NoLabel)
  /\ IContinue(NoLabel) /\ EElse("continue", Unit)

Trap == Form("trap") /\ ITrap /\ ETrap

(* A trap ended the program.                                                *)
Stopped == Ready /\ ifl.trapped /\ UNCHANGED <<ivars, evars>>

Oracle == IStep /\ UNCHANGED evars
Binary == IQuiet /\ EStep /\ UNCHANGED ivars

Statement ==
  \/ CallFunc \/ Block \/ Loop \/ Iterate \/ LoopDone \/ With \/ Match
  \/ Catch \/ Argument \/ OperandDone \/ ArgumentDone \/ Defer \/ Call
  \/ EndBlock \/ RunDeferred \/ Return \/ Raise \/ Recover \/ Break
  \/ Continue \/ ElseReturn \/ ElseBreak \/ ElseContinue \/ Trap

Next == (Statement \/ Stopped \/ Oracle \/ Binary) /\ UNCHANGED forms

Spec == Init /\ [][Next]_vars

(* A process that is not waiting for the program keeps running.             *)
FairSpec == Spec /\ WF_vars(Oracle /\ UNCHANGED forms) /\ WF_vars(Binary /\ UNCHANGED forms)

-----------------------------------------------------------------------------
(***************************************************************************)
(* Properties.                                                             *)
(***************************************************************************)

(* docs/DESIGN.md, Two executions: whenever both executions wait for the    *)
(* program they are at the same place of it: inside the same constructs,    *)
(* with the same registered calls still owed, about to make the same        *)
(* deferred call, with the same value or error in the program's hands, and  *)
(* when the function is over with the same value or failure returned.       *)
SamePlace ==
  Ready => IView = EView /\ iout = eout /\ (ist = <<>> => IResult = eret)

(* Two executions: the same allocator is current in both, and a function    *)
(* leaves its caller's behind, however its `with` scopes were left.         *)
SameAllocator ==
  Ready /\ ~ifl.trapped =>
    /\ ialloc = ealloc
    /\ Of(ist, {"with"}) = {} => ealloc = HeapAlloc

(* Every exit ends: the oracle's way out and the binary's inlined cleanup   *)
(* come back to the program, which then has its next statement or is over.  *)
ExitsEnd == []<>Ready

=============================================================================
