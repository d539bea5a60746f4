----------------------------- MODULE Constructs -----------------------------
(***************************************************************************)
(* The statements of one function activation, as both executions of a Luce *)
(* Base program see them: the constructs a statement may open, the calls   *)
(* that `defer` and `errdefer` register, and the places where the checker  *)
(* (check/stmt.cpp) admits an exit.                                        *)
(*                                                                         *)
(* The source of a program never appears.  An execution is a path through  *)
(* fresh source: whenever a statement is due, some statement that the      *)
(* checker would accept there is chosen.  Everything an exit depends on is *)
(* then in the stack of constructs that are open.                          *)
(***************************************************************************)
EXTENDS Naturals, Sequences, FiniteSets

CONSTANTS
  Labels,      (* labels a loop may carry, NoLabel aside                    *)
  Allocs,      (* allocators a `with` may install                           *)
  HeapAlloc,   (* the allocator a program starts with                       *)
  Vals,        (* values returned or recovered, and error codes             *)
  Dialects,    (* the sets of statement forms that programs are written in  *)
  MaxFrames,   (* bound: constructs open at once                            *)
  MaxDefers,   (* bound: calls registered and not yet made                  *)
  MaxNesting   (* bound: deferred blocks registered inside one another      *)

(* No label: the empty `text` of a jump, the empty `label` of a loop.       *)
NoLabel == "no label"

(* The value of a construct that has none, v_unit() and {0}.                *)
Unit == "unit"

(* A call was made that its argument did not complete.                      *)
Called == "called"

(* The optional forms.  Each of the last three makes the two executions     *)
(* disagree.                                                                *)
AllForms == {"if", "loop", "label", "with", "match", "catch", "argument", "defer",
             "errdefer", "call", "trap", "else exit", "else past cleanup",
             "break in switch", "jump in argument"}

ASSUME ConstructsAssumption ==
  /\ NoLabel \notin Labels
  /\ HeapAlloc \in Allocs
  /\ Vals \cap {Unit, Called} = {}
  /\ Dialects \subseteq SUBSET AllForms
  /\ MaxFrames \in Nat
  /\ MaxDefers \in Nat
  /\ MaxNesting \in Nat

Label == Labels \cup {NoLabel}
Value == Vals \cup {Unit}

(* A registered call: `defer` or `errdefer`, of a call or of a block.       *)
Deferred == [errOnly : BOOLEAN, body : {"call", "block"}]

(***************************************************************************)
(* Stacks.                                                                 *)
(***************************************************************************)
Top(s) == s[Len(s)]
Cut(s, n) == SubSeq(s, 1, n)
Pop(s) == Cut(s, Len(s) - 1)
TopKind(s) == IF s = <<>> THEN "end" ELSE Top(s).k
Push2(s, f, g) == Append(Append(s, f), g)
SetTop(s, f) == [s EXCEPT ![Len(s)] = f]

(* The positions of s that hold a frame of one of the kinds K.              *)
Of(s, K) == {i \in 1 .. Len(s) : s[i].k \in K}

(* The innermost position of a set, 0 when it is empty.                     *)
Innermost(P) == IF P = {} THEN 0 ELSE CHOOSE p \in P : \A q \in P : q <= p

(***************************************************************************)
(* Where the checker admits a statement.  A deferred block is checked with *)
(* no loop open, in no fallible function, and may not return.              *)
(***************************************************************************)
Barrier(s) == Innermost(Of(s, {"cleanup"}))
InDeferred(s) == Barrier(s) > 0

(* check_deferred clears loop_labels; Break and Continue look them up.      *)
LoopsInScope(s, l) ==
  {i \in Of(s, {"loop"}) : /\ l = NoLabel \/ s[i].lab = l
                           /\ \A j \in i .. Len(s) : s[j].k # "cleanup"}

(* `error`, or a failing `try`, needs a fallible function or an operand.    *)
MayRaise(s) == ~InDeferred(s) \/ Innermost(Of(s, {"operand"})) > Barrier(s)

(* `recover` belongs to the innermost handler.                              *)
MayRecover(s) == Innermost(Of(s, {"handler"})) > Barrier(s)

(* The innermost C statement that a bare `break` leaves is a loop.          *)
BreakSeesLoop(s) == Innermost(Of(s, {"loop", "arm"})) \in Of(s, {"loop"})

(* A jump to position p leaves no argument of a call that is being made.    *)
LeavesNoArgument(s, p) == Innermost(Of(s, {"argument"})) <= p

(* Leaving the constructs from position p on owes the program nothing.      *)
OwesNothing(s, p) ==
  \A i \in 1 .. Len(s) : i >= p => s[i].ds = <<>> /\ s[i].k # "with"
=============================================================================
