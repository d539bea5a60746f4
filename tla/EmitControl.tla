---------------------------- MODULE EmitControl ----------------------------
(***************************************************************************)
(* The compiled program: the C that emit/stmt.cpp and emit/expr.cpp write  *)
(* for the same statements.  C has no flags.  At an exit the emitter knows *)
(* the scopes that are open, writes their registered calls inline, and     *)
(* ends with a `return`, `break`, `continue` or `goto`.                    *)
(*                                                                         *)
(* The stack `est` is the C nesting that execution is in.  A scope of the  *)
(* emitter (Emitter::scopes) is a frame of kind "block", "loop" or "with"; *)
(* a registered call stays in its scope while the inlined cleanup runs, as *)
(* the emitter leaves `scopes` alone while it writes it.                   *)
(***************************************************************************)
EXTENDS Constructs

VARIABLES
  est,     (* the C statements that execution is inside of                  *)
  ealloc,  (* the runtime's current allocator, lb_get_alloc()               *)
  eret,    (* what the function returned: "none" until then                 *)
  eout     (* the value or the error last handed to the program by a catch  *)

evars == <<est, ealloc, eret, eout>>

(* A C statement.  at, to: the scope the inlined cleanup has reached, and   *)
(* its last one; jump, lab, val: how the cleanup ends ("fall", "return",    *)
(* "fail", "break", "continue", "recover"), and what it carries.            *)
EOpen(kind) ==
  [k |-> kind, lab |-> NoLabel, ds |-> <<>>, al |-> HeapAlloc,
   failing |-> FALSE, at |-> 0, to |-> 0, jump |-> "fall", val |-> Unit]

(* run_defers skips an errdefer where it does not write a failing exit.     *)
ERunnable ==
  /\ Top(est).ds # <<>>
  /\ Top(Top(est).ds).errOnly => Top(est).failing

EQuiet ==
  IF TopKind(est) = "cleanup"
  THEN ERunnable
  ELSE TopKind(est) \in {"end", "block", "loop", "operand", "argument"}

EInit ==
  /\ est = <<>>
  /\ ealloc = HeapAlloc
  /\ eret = <<"value", Unit>>
  /\ eout = Unit

-----------------------------------------------------------------------------
(***************************************************************************)
(* Exits.                                                                  *)
(***************************************************************************)

(* run_defers_from(from, failing), then the jump: the scopes from the top   *)
(* of the stack down to position `from` are cleaned up in that order.       *)
Unwind(from, fails, j, l, v) ==
  est' = Append(est, [EOpen("cleanup") EXCEPT
                        !.ds = IF from > Len(est) THEN <<>> ELSE Top(est).ds,
                        !.failing = fails,
                        !.at = Len(est), !.to = from,
                        !.jump = j, !.lab = l, !.val = v])

(* Mutant: the label is not looked at.                                      *)
LoopScopeInnermost(l) ==
  LET p == Innermost(Of(est, {"loop"})) IN IF p = 0 THEN 1 ELSE p

(* loop_scope(label): the innermost loop scope it fits, the outermost scope *)
(* when there is none.                                                      *)
LoopScope(l) ==
  LET p == Innermost({i \in Of(est, {"loop"}) : l = NoLabel \/ est[i].lab = l})
  IN  IF p = 0 THEN 1 ELSE p

(* failure_scope and failure_target: the operand being emitted, if any.     *)
FailureScope == Innermost(Of(est, {"operand"})) + 1

(* catch_scope: the innermost handler being emitted.                        *)
CatchScope == Innermost(Of(est, {"handler"})) + 1

EUnwind(from, fails, j, l, v) ==
  /\ Unwind(from, fails, j, l, v)
  /\ eout' = Unit
  /\ UNCHANGED <<ealloc, eret>>

EReturn(v) == EUnwind(1, FALSE, "return", NoLabel, v)
ERaise(e) == EUnwind(FailureScope, TRUE, "fail", NoLabel, e)
EBreak(l) == EUnwind(LoopScope(l), FALSE, "break", l, Unit)
EContinue(l) == EUnwind(LoopScope(l), FALSE, "continue", l, Unit)
ERecover(v) == EUnwind(CatchScope, FALSE, "recover", NoLabel, v)

(* unwind_scope at the closing brace of a block.                            *)
EEndBlock == EUnwind(Len(est), FALSE, "fall", NoLabel, Unit)

(* The expression forms `else return v`, `else break`, `else continue` are  *)
(* the bare C statement: an exit that cleans up nothing.                    *)
EElse(j, v) == EUnwind(Len(est) + 1, FALSE, j, NoLabel, v)

(* lb_trap ends the process.                                                *)
ETrap ==
  /\ est' = <<>>
  /\ eret' = <<"trapped", Unit>>
  /\ eout' = Unit
  /\ UNCHANGED ealloc

-----------------------------------------------------------------------------
(***************************************************************************)
(* Statements that open a construct, and the ends that C takes by itself.  *)
(***************************************************************************)
EEnter(s) ==
  /\ est' = s
  /\ eout' = Unit
  /\ UNCHANGED <<ealloc, eret>>

ECallFunc ==
  /\ est' = <<EOpen("block")>>
  /\ eret' = <<"value", Unit>>
  /\ eout' = Unit
  /\ UNCHANGED ealloc

EBlock == EEnter(Append(est, EOpen("block")))
ELoop(l) == EEnter(Append(est, [EOpen("loop") EXCEPT !.lab = l]))
EMatch == EEnter(Push2(est, EOpen("arm"), EOpen("block")))
ECatch == EEnter(Append(est, EOpen("operand")))
EArgument == EEnter(Push2(est, EOpen("argument"), EOpen("operand")))
EDefer(d) == EEnter(SetTop(est, [Top(est) EXCEPT !.ds = Append(@, d)]))
ELoopDone == EEnter(Pop(est))
EOperandDone == EEnter(Pop(est))
EArgumentDone ==
  /\ est' = Pop(est)
  /\ eout' = Called
  /\ UNCHANGED <<ealloc, eret>>

ECall == EEnter(est)

EWith(a) ==
  /\ est' = Push2(est, [EOpen("with") EXCEPT !.al = ealloc], EOpen("block"))
  /\ ealloc' = a
  /\ eout' = Unit
  /\ UNCHANGED eret

(* The next registered call of the inlined cleanup.                         *)
EDropped == SetTop(est, [Top(est) EXCEPT !.ds = Pop(@)])

ERunDeferred ==
  EEnter(IF Top(Top(est).ds).body = "block"
         THEN Append(EDropped, EOpen("block"))
         ELSE EDropped)

-----------------------------------------------------------------------------
(***************************************************************************)
(* The inlined cleanup and the jump after it.                              *)
(***************************************************************************)
ESkipErrdefer ==
  /\ TopKind(est) = "cleanup"
  /\ Top(est).ds # <<>> /\ ~ERunnable
  /\ est' = EDropped
  /\ UNCHANGED <<ealloc, eret, eout>>

(* Mutant: an exit leaves the allocators of the scopes it crosses.          *)
ENextScopeKeepsAlloc ==
  LET c == Top(est) IN
  /\ TopKind(est) = "cleanup"
  /\ c.ds = <<>> /\ c.at >= c.to
  /\ est' = SetTop(est, [c EXCEPT !.at = @ - 1,
                                  !.ds = IF c.at > c.to
                                         THEN est[c.at - 1].ds ELSE <<>>])
  /\ UNCHANGED <<ealloc, eret, eout>>

(* The calls of one scope are done: its allocator is restored, and the      *)
(* cleanup goes on with the scope outside it.                               *)
ENextScope ==
  LET c == Top(est) IN
  /\ TopKind(est) = "cleanup"
  /\ c.ds = <<>> /\ c.at >= c.to
  /\ ealloc' = IF est[c.at].k = "with" THEN est[c.at].al ELSE ealloc
  /\ est' = SetTop(est, [c EXCEPT !.at = @ - 1,
                                  !.ds = IF c.at > c.to
                                         THEN est[c.at - 1].ds ELSE <<>>])
  /\ UNCHANGED <<eret, eout>>

EUnwound(j) ==
  /\ TopKind(est) = "cleanup" /\ Top(est).jump = j
  /\ Top(est).ds = <<>> /\ Top(est).at < Top(est).to

(* The C statements around the cleanup on top that a jump may leave.        *)
EAround(K) == Of(Pop(est), K)

EFall ==
  /\ EUnwound("fall")
  /\ est' = Cut(est, Len(est) - 2)
  /\ UNCHANGED <<ealloc, eret, eout>>

(* `return`: the value was evaluated before the cleanup.                    *)
EDoReturn ==
  /\ EUnwound("return")
  /\ eret' = <<"value", Top(est).val>>
  /\ est' = <<>>
  /\ UNCHANGED <<ealloc, eout>>

(* A failure: `goto` the handler of the operand it is in, or return it.     *)
EDoFail ==
  LET p == Innermost(EAround({"operand"})) IN
  /\ EUnwound("fail")
  /\ IF p = 0
     THEN /\ eret' = <<"failed", Top(est).val>>
          /\ est' = <<>>
          /\ UNCHANGED eout
     ELSE /\ est' = Push2(Cut(est, p - 1), EOpen("handler"), EOpen("block"))
          /\ eout' = Top(est).val
          /\ UNCHANGED eret
  /\ UNCHANGED ealloc

(* `break;` leaves the innermost C loop or switch, `goto lb_brk_L` the loop *)
(* labelled L.                                                              *)
EDoBreak ==
  LET l == Top(est).lab
      p == IF l = NoLabel
           THEN Innermost(EAround({"loop", "arm"}))
           ELSE Innermost({i \in EAround({"loop"}) : est[i].lab = l})
  IN
  /\ EUnwound("break")
  /\ est' = Cut(est, p - 1)
  /\ UNCHANGED <<ealloc, eret, eout>>

EDoContinue ==
  LET l == Top(est).lab
      p == Innermost({i \in EAround({"loop"}) : l = NoLabel \/ est[i].lab = l})
  IN
  /\ EUnwound("continue")
  /\ est' = Cut(est, p)
  /\ UNCHANGED <<ealloc, eret, eout>>

(* `goto` the end of the catch, whose value the recover assigned.           *)
EDoRecover ==
  /\ EUnwound("recover")
  /\ est' = Cut(est, Innermost(EAround({"handler"})) - 1)
  /\ eout' = Top(est).val
  /\ UNCHANGED <<ealloc, eret>>

(* The closing brace of a `with`: unwind_scope puts its allocator back.     *)
EEndWith ==
  /\ TopKind(est) = "with"
  /\ ealloc' = Top(est).al
  /\ est' = Pop(est)
  /\ UNCHANGED <<eret, eout>>

(* The end of a switch arm, and of a handler that falls through.            *)
EEndArm ==
  /\ TopKind(est) = "arm"
  /\ est' = Pop(est)
  /\ UNCHANGED <<ealloc, eret, eout>>

EEndHandler ==
  /\ TopKind(est) = "handler"
  /\ est' = Pop(est)
  /\ eout' = Unit
  /\ UNCHANGED <<ealloc, eret>>

EStep ==
  \/ ESkipErrdefer \/ ENextScope \/ EFall \/ EDoReturn \/ EDoFail
  \/ EDoBreak \/ EDoContinue \/ EDoRecover
  \/ EEndWith \/ EEndArm \/ EEndHandler

=============================================================================
