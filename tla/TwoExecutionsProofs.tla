------------------------ MODULE TwoExecutionsProofs ------------------------
(***************************************************************************)
(* Theorems about the oracle's statement evaluator and about the two       *)
(* executions, for every program: any labels, allocators and values, and   *)
(* constructs nested to any depth.                                         *)
(*                                                                         *)
(* The oracle makes one step for each level of its recursion; the binary   *)
(* inlines the whole cleanup of an exit and then jumps.  So the two are    *)
(* not at the same place while an exit is under way.  What holds between   *)
(* them at every step (Tracked, below) is that some finite run of the      *)
(* binary, on its way out, leads to where the oracle is; every step of the *)
(* oracle is matched by going further along that run.                      *)
(***************************************************************************)
EXTENDS TwoExecutions, SequenceTheorems, FiniteSetTheorems, WellFoundedInduction, TLAPS

-----------------------------------------------------------------------------
(***************************************************************************)
(* Stacks.                                                                 *)
(***************************************************************************)

(* What pushing a frame leaves of a stack.                                  *)
LEMMA PushFacts ==
  ASSUME NEW S, NEW s \in Seq(S), NEW f \in S
  PROVE  /\ Append(s, f) \in Seq(S)
         /\ Len(Append(s, f)) = Len(s) + 1
         /\ \A i \in 1 .. Len(s) : Append(s, f)[i] = s[i]
         /\ Append(s, f)[Len(s) + 1] = f
  BY AppendProperties

(* What popping a frame leaves of a stack.                                  *)
LEMMA PopFacts ==
  ASSUME NEW S, NEW s \in Seq(S), s # <<>>
  PROVE  /\ Pop(s) \in Seq(S)
         /\ Len(s) \in Nat \ {0}
         /\ Len(Pop(s)) = Len(s) - 1
         /\ \A i \in 1 .. Len(s) - 1 : Pop(s)[i] = s[i]
  <1> DEFINE n == Len(s) - 1
  <1>1. Len(s) \in Nat \ {0}
    BY EmptySeq
  <1>2. n \in Nat /\ 1 \in Int /\ n \in Int /\ Len(s) = n + 1
    BY <1>1
  <1>3. \A i \in 1 .. n : s[i] \in S
    BY <1>2, ElementOfSeq
  <1>4. Pop(s) = SubSeq(s, 1, n)
    BY DEF Pop, Cut
  <1> HIDE DEF n
  <1>5. /\ SubSeq(s, 1, n) \in Seq(S)
        /\ Len(SubSeq(s, 1, n)) = IF 1 <= n THEN n - 1 + 1 ELSE 0
        /\ \A i \in 1 .. n - 1 + 1 : SubSeq(s, 1, n)[i] = s[1 + i - 1]
    BY <1>2, <1>3, SubSeqProperties
  <1>6. /\ Len(Pop(s)) = n
        /\ \A i \in 1 .. n : Pop(s)[i] = s[i]
    BY <1>2, <1>4, <1>5
  <1>7. QED
    BY <1>1, <1>4, <1>5, <1>6 DEF n

(* What replacing the top frame leaves of a stack.                          *)
LEMMA SetTopFacts ==
  ASSUME NEW S, NEW s \in Seq(S), s # <<>>, NEW f \in S
  PROVE  /\ SetTop(s, f) \in Seq(S)
         /\ Len(s) \in Nat \ {0}
         /\ Len(SetTop(s, f)) = Len(s)
         /\ \A i \in 1 .. Len(s) - 1 : SetTop(s, f)[i] = s[i]
         /\ SetTop(s, f)[Len(s)] = f
  <1>1. Len(s) \in Nat /\ Len(s) # 0
    BY EmptySeq, LenProperties
  <1>2. QED
    BY <1>1, ExceptSeq DEF SetTop

(* The top of a stack that is not empty.                                    *)
LEMMA TopFacts ==
  ASSUME NEW S, NEW s \in Seq(S), s # <<>>
  PROVE  Len(s) \in 1 .. Len(s) /\ Top(s) = s[Len(s)] /\ Top(s) \in S
  <1>1. Len(s) \in Nat /\ Len(s) # 0
    BY EmptySeq, LenProperties
  <1>2. QED
    BY <1>1, ElementOfSeq DEF Top

-----------------------------------------------------------------------------
(***************************************************************************)
(* Types.                                                                  *)
(***************************************************************************)

(* A frame as the recursion opens it, and the flags of a fresh oracle.      *)
LEMMA OpenType ==
  /\ NoFlags \in Flags
  /\ \A kind \in IKinds : IOpen(kind) \in IFrame
  <1>1. NoFlags \in Flags
    BY DEF NoFlags, Flags, Value, Label
  <1>2. <<>> \in Seq(Deferred)
    BY EmptySeq
  <1>3. QED
    BY <1>1, <1>2, ConstructsAssumption DEF IOpen, IFrame, Label

(* A call leaves flags behind, and no jump of its own in flight.            *)
LEMMA CallLeavesType ==
  ASSUME NEW fl \in Flags
  PROVE  /\ CallLeaves(fl) \subseteq Flags
         /\ \A g \in CallLeaves(fl) : /\ g.breaking = fl.breaking
                                     /\ g.continuing = fl.continuing
  <1> DEFINE left(f, l) == [fl EXCEPT !.failed = f, !.val = Unit, !.rec = Unit,
                                      !.recovered = FALSE, !.jump = l]
  <1>1. Unit \in Value
    BY DEF Value
  <1>2. \A f \in BOOLEAN, l \in Label : left(f, l) \in Flags
    BY <1>1 DEF Flags
  <1>3. \A f \in BOOLEAN, l \in Label : /\ left(f, l).breaking = fl.breaking
                                      /\ left(f, l).continuing = fl.continuing
    BY DEF Flags
  <1>4. CallLeaves(fl) = {fl} \cup {left(f, l) : f \in BOOLEAN, l \in Label}
    BY DEF CallLeaves
  <1> HIDE DEF left
  <1>5. QED
    BY <1>2, <1>3, <1>4

(* A frame keeps its type when its block ends, or a call is registered in   *)
(* it or taken from it.                                                     *)
LEMMA FrameType ==
  ASSUME NEW f \in IFrame
  PROVE  /\ \A fl \in Flags : EndOfBlock(f, fl) \in IFrame
         /\ \A d \in Deferred : [f EXCEPT !.ds = Append(@, d)] \in IFrame
         /\ f.ds # <<>> => [f EXCEPT !.ds = Pop(@)] \in IFrame
  <1>1. f.ds \in Seq(Deferred)
    BY DEF IFrame
  <1>2. \A fl \in Flags : EndOfBlock(f, fl) \in IFrame
    BY DEF EndOfBlock, IFrame, IKinds, Flags
  <1>3. \A d \in Deferred : Append(f.ds, d) \in Seq(Deferred)
    BY <1>1, AppendProperties
  <1>4. f.ds # <<>> => Pop(f.ds) \in Seq(Deferred)
    BY <1>1, PopFacts
  <1>5. QED
    BY <1>2, <1>3, <1>4 DEF IFrame

(* The kind on top tells an empty stack from one that holds a frame.        *)
LEMMA TopKindFacts ==
  ASSUME NEW s \in Seq(IFrame)
  PROVE  /\ s = <<>> <=> TopKind(s) = "end"
         /\ s # <<>> => /\ TopKind(s) = s[Len(s)].k
                        /\ Top(s) = s[Len(s)]
                        /\ Len(s) \in 1 .. Len(s)
                        /\ s[Len(s)] \in IFrame
  <1>1. s # <<>> => /\ Len(s) \in 1 .. Len(s)
                   /\ Top(s) = s[Len(s)]
                   /\ s[Len(s)] \in IFrame
    BY TopFacts
  <1>2. "end" \notin IKinds
    BY DEF IKinds
  <1>3. QED
    BY <1>1, <1>2 DEF TopKind, IFrame

(* Replacing the top frame makes its kind the kind on top.                  *)
LEMMA SetTopKind ==
  ASSUME NEW s \in Seq(IFrame), s # <<>>, NEW f \in IFrame
  PROVE  TopKind(SetTop(s, f)) = f.k
  <1>1. /\ SetTop(s, f) \in Seq(IFrame)
        /\ Len(s) \in Nat \ {0}
        /\ Len(SetTop(s, f)) = Len(s)
        /\ SetTop(s, f)[Len(s)] = f
    BY SetTopFacts
  <1>2. SetTop(s, f) # <<>>
    BY <1>1, EmptySeq
  <1>3. QED
    BY <1>1, <1>2 DEF TopKind, Top

(* The three ways a step changes the recursion keep its type.               *)
LEMMA StackType ==
  ASSUME NEW s \in Seq(IFrame), NEW f \in IFrame, NEW g \in IFrame
  PROVE  /\ Append(s, f) \in Seq(IFrame)
         /\ Push2(s, f, g) \in Seq(IFrame)
         /\ s # <<>> => /\ Pop(s) \in Seq(IFrame)
                        /\ Push2(Pop(s), f, g) \in Seq(IFrame)
                        /\ SetTop(s, f) \in Seq(IFrame)
                        /\ Append(SetTop(s, f), g) \in Seq(IFrame)
  <1>1. /\ Append(s, f) \in Seq(IFrame)
        /\ Push2(s, f, g) \in Seq(IFrame)
    BY AppendProperties DEF Push2
  <1>2. ASSUME s # <<>>
        PROVE  /\ Pop(s) \in Seq(IFrame)
               /\ SetTop(s, f) \in Seq(IFrame)
    BY <1>2, PopFacts, SetTopFacts
  <1>3. QED
    BY <1>1, <1>2, AppendProperties DEF Push2

-----------------------------------------------------------------------------
(***************************************************************************)
(* Type correctness.                                                       *)
(***************************************************************************)

(* Every step that only rearranges the recursion keeps the types: the steps *)
(* that leave every flag alone.                                             *)
LEMMA GotoType ==
  ASSUME ITypeOK, NEW s \in Seq(IFrame), IGoto(s)
  PROVE  ITypeOK'
  BY DEF ITypeOK, IGoto, OutValue, Value

(* Every exit that only changes the flags keeps the types.                  *)
LEMMA ExitType ==
  ASSUME ITypeOK, NEW fl \in Flags, IExit(fl)
  PROVE  ITypeOK'
  BY DEF ITypeOK, IExit, OutValue, Value

(* The statements of a program keep the types.                              *)
LEMMA StatementType ==
  ASSUME ITypeOK, IStatement
  PROVE  ITypeOK'
  <1> USE DEF IAt
  <1>k. /\ "block" \in IKinds /\ "loop" \in IKinds /\ "arm" \in IKinds
        /\ "operand" \in IKinds /\ "argument" \in IKinds /\ "with" \in IKinds
    BY DEF IKinds
  <1>o. /\ IOpen("block") \in IFrame /\ IOpen("loop") \in IFrame
        /\ IOpen("arm") \in IFrame /\ IOpen("operand") \in IFrame
        /\ IOpen("argument") \in IFrame /\ IOpen("with") \in IFrame
    BY <1>k, OpenType
  <1>s. ist \in Seq(IFrame)
    BY DEF ITypeOK
  <1>u. Unit \in Value /\ Unit \in OutValue /\ Called \in OutValue
    BY DEF Value, OutValue
  <1>t. ist # <<>> => Top(ist) \in IFrame
    BY <1>s, TopKindFacts
  <1>e. TopKind(ist) # "end" => ist # <<>>
    BY <1>s, TopKindFacts
  <1>1. CASE ICallFunc
    <2>1. <<IOpen("block")>> \in Seq(IFrame)
      BY <1>o
    <2>2. ifl' \in Flags
      BY <1>1 DEF ICallFunc, ITypeOK, Flags
    <2>3. QED
      BY <1>1, <1>u, <2>1, <2>2 DEF ICallFunc, ITypeOK
  <1>2. CASE IBlock
    BY <1>2, <1>o, <1>s, StackType, GotoType DEF IBlock
  <1>3. CASE IIterate
    BY <1>3, <1>o, <1>s, StackType, GotoType DEF IIterate
  <1>4. CASE ILoopDone
    BY <1>4, <1>o, <1>s, <1>e, StackType, GotoType DEF ILoopDone
  <1>5. CASE IMatch
    BY <1>5, <1>o, <1>s, StackType, GotoType DEF IMatch
  <1>6. CASE ICatch
    BY <1>6, <1>o, <1>s, StackType, GotoType DEF ICatch
  <1>7. CASE IArgument
    BY <1>7, <1>o, <1>s, StackType, GotoType DEF IArgument
  <1>8. CASE IOperandDone
    BY <1>8, <1>o, <1>s, <1>e, StackType, GotoType DEF IOperandDone
  <1>9. CASE IArgumentDone
    BY <1>9, <1>o, <1>s, <1>e, <1>u, StackType DEF IArgumentDone, ITypeOK
  <1>10. CASE ICall
    BY <1>10, <1>u, CallLeavesType DEF ICall, ITypeOK
  <1>11. CASE IEndBlock
    <2>1. ist # <<>>
      BY <1>11, <1>e DEF IEndBlock
    <2>2. EndOfBlock(Top(ist), ifl) \in IFrame
      BY <1>t, <2>1, FrameType DEF ITypeOK
    <2>3. QED
      BY <1>11, <1>s, <2>1, <2>2, StackType, GotoType DEF IEndBlock
  <1>12. CASE IRunDeferred
    <2>1. ist # <<>> /\ Top(ist).ds # <<>>
      BY <1>12, <1>e DEF IRunDeferred, IQuiet, IRunnable
    <2>2. [Top(ist) EXCEPT !.ds = Pop(@)] \in IFrame
      BY <1>t, <2>1, FrameType
    <2>3. IDropped \in Seq(IFrame) /\ Append(IDropped, IOpen("block")) \in Seq(IFrame)
      BY <1>o, <1>s, <2>1, <2>2, StackType DEF IDropped
    <2>4. Aside(ifl) \in Flags
      BY DEF ITypeOK, Aside, Flags
    <2>5. ifl' \in Flags
      BY <1>12, <2>4, CallLeavesType DEF IRunDeferred
    <2>6. QED
      BY <1>12, <1>u, <2>3, <2>5 DEF IRunDeferred, ITypeOK
  <1>13. CASE ITrap
    <2>1. [ifl EXCEPT !.trapped = TRUE] \in Flags
      BY DEF ITypeOK, Flags
    <2>2. QED
      BY <1>13, <2>1, ExitType DEF ITrap
  <1>14. ASSUME NEW l \in Label, ILoop(l)
         PROVE  ITypeOK'
    <2>1. [IOpen("loop") EXCEPT !.lab = l] \in IFrame
      BY <1>o DEF IFrame
    <2>2. QED
      BY <1>14, <1>s, <2>1, StackType, GotoType DEF ILoop
  <1>15. ASSUME NEW l \in Label, IBreak(l) \/ IContinue(l)
         PROVE  ITypeOK'
    <2>1. /\ [ifl EXCEPT !.breaking = TRUE, !.jump = l] \in Flags
          /\ [ifl EXCEPT !.continuing = TRUE, !.jump = l] \in Flags
      BY DEF ITypeOK, Flags
    <2>2. QED
      BY <1>15, <2>1, ExitType DEF IBreak, IContinue
  <1>16. ASSUME NEW a \in Allocs, IWith(a)
         PROVE  ITypeOK'
    <2>1. [IOpen("with") EXCEPT !.al = ialloc] \in IFrame
      BY <1>o DEF ITypeOK, IFrame
    <2>2. Push2(ist, [IOpen("with") EXCEPT !.al = ialloc], IOpen("block"))
            \in Seq(IFrame)
      BY <1>o, <1>s, <2>1, StackType
    <2>3. QED
      BY <1>16, <1>u, <2>2 DEF IWith, ITypeOK
  <1>17. ASSUME NEW d \in Deferred, IDefer(d)
         PROVE  ITypeOK'
    <2>1. ist # <<>>
      BY <1>17, <1>e DEF IDefer
    <2>2. [Top(ist) EXCEPT !.ds = Append(@, d)] \in IFrame
      BY <1>t, <2>1, FrameType
    <2>3. QED
      BY <1>17, <1>s, <2>1, <2>2, StackType, GotoType DEF IDefer
  <1>18. ASSUME NEW v \in Vals, IReturn(v) \/ IRaise(v) \/ IRecover(v)
         PROVE  ITypeOK'
    <2>1. v \in Value
      BY DEF Value
    <2>2. [ifl EXCEPT !.returning = TRUE, !.failed = FALSE, !.val = v] \in Flags
      BY <2>1 DEF ITypeOK, Flags
    <2>3. [ifl EXCEPT !.returning = TRUE, !.failed = TRUE, !.val = v] \in Flags
      BY <2>1 DEF ITypeOK, Flags
    <2>4. [ifl EXCEPT !.rec = v, !.failed = FALSE, !.val = Unit,
                      !.recovered = TRUE, !.returning = TRUE] \in Flags
      BY <1>u, <2>1 DEF ITypeOK, Flags
    <2>5. QED
      BY <1>18, <2>2, <2>3, <2>4, ExitType DEF IReturn, IRaise, IRecover
  <1>19. QED
    BY <1>1, <1>2, <1>3, <1>4, <1>5, <1>6, <1>7, <1>8, <1>9, <1>10, <1>11,
       <1>12, <1>13, <1>14, <1>15, <1>16, <1>17, <1>18 DEF IStatement

(* The way out keeps the types.                                             *)
LEMMA StepType ==
  ASSUME ITypeOK, IStep
  PROVE  ITypeOK'
  <1>s. ist \in Seq(IFrame) /\ ifl \in Flags /\ ialloc \in Allocs /\ iout \in OutValue
    BY DEF ITypeOK
  <1>o. IOpen("block") \in IFrame /\ IOpen("handler") \in IFrame
    BY OpenType DEF IKinds
  <1>e. TopKind(ist) # "end" => ist # <<>> /\ Top(ist) \in IFrame
    BY <1>s, TopKindFacts
  <1>p. TopKind(ist) # "end" => Pop(ist) \in Seq(IFrame)
    BY <1>s, <1>e, PopFacts
  <1>1. CASE IStopBlock
    <2>1. ist # <<>> /\ EndOfBlock(Top(ist), ifl) \in IFrame
      BY <1>1, <1>s, <1>e, FrameType DEF IStopBlock
    <2>2. ist' \in Seq(IFrame)
      BY <1>1, <1>s, <2>1, StackType DEF IStopBlock
    <2>3. QED
      BY <1>1, <1>s, <2>2 DEF IStopBlock, ITypeOK
  <1>2. CASE ISkipErrdefer
    <2>1. ist # <<>> /\ [Top(ist) EXCEPT !.ds = Pop(@)] \in IFrame
      BY <1>2, <1>e, FrameType DEF ISkipErrdefer
    <2>2. ist' \in Seq(IFrame)
      BY <1>2, <1>s, <2>1, StackType DEF ISkipErrdefer, IDropped
    <2>3. QED
      BY <1>2, <1>s, <2>2 DEF ISkipErrdefer, ITypeOK
  <1>3. CASE IEndCleanup
    <2>1. Top(ist).fl \in Flags
      BY <1>3, <1>e DEF IEndCleanup, IFrame
    <2>2. [Top(ist).fl EXCEPT !.trapped = ifl.trapped] \in Flags
      BY <1>s, <2>1 DEF Flags
    <2>3. QED
      BY <1>3, <1>s, <1>p, <2>2 DEF IEndCleanup, ITypeOK
  <1>4. CASE ILeaveLoop
    <2>1. ist' \in Seq(IFrame)
      BY <1>4, <1>s, <1>p DEF ILeaveLoop
    <2>2. /\ [ifl EXCEPT !.breaking = ~IAimedHere] \in Flags
          /\ [ifl EXCEPT !.continuing = @ /\ ~IAimedHere] \in Flags
      BY <1>s DEF Flags
    <2>3. QED
      BY <1>4, <1>s, <2>1, <2>2 DEF ILeaveLoop, ITypeOK
  <1>5. CASE IEndWith
    <2>1. Top(ist).al \in Allocs
      BY <1>5, <1>e DEF IEndWith, IFrame
    <2>2. QED
      BY <1>5, <1>s, <1>p, <2>1 DEF IEndWith, ITypeOK
  <1>6. CASE IEndArm
    BY <1>6, <1>s, <1>p DEF IEndArm, ITypeOK
  <1>7. CASE IEndOperand
    <2>1. Pop(ist) \in Seq(IFrame)
      BY <1>7, <1>p DEF IEndOperand
    <2>2. Push2(Pop(ist), IOpen("handler"), IOpen("block")) \in Seq(IFrame)
      BY <1>o, <2>1, StackType
    <2>3. [ifl EXCEPT !.returning = FALSE, !.rec = Unit, !.recovered = FALSE]
            \in Flags
      BY <1>s DEF Flags, Value
    <2>4. ifl.val \in OutValue
      BY <1>s DEF Flags, OutValue
    <2>5. QED
      BY <1>7, <1>s, <2>1, <2>2, <2>3, <2>4 DEF IEndOperand, ITypeOK
  <1>8. CASE IEndHandler
    <2>1. [ifl EXCEPT !.returning = FALSE, !.recovered = FALSE] \in Flags
      BY <1>s DEF Flags
    <2>2. ifl.rec \in OutValue
      BY <1>s DEF Flags, OutValue
    <2>3. QED
      BY <1>8, <1>s, <1>p, <2>1, <2>2 DEF IEndHandler, ITypeOK
  <1>9. CASE IEndArgument
    <2>1. iout' \in OutValue
      BY <1>9, <1>s DEF IEndArgument, OutValue
    <2>2. QED
      BY <1>9, <1>s, <1>p, <2>1 DEF IEndArgument, ITypeOK
  <1>10. CASE ITrapped
    BY <1>10, <1>s, <1>p DEF ITrapped, ITypeOK
  <1>11. QED
    BY <1>1, <1>2, <1>3, <1>4, <1>5, <1>6, <1>7, <1>8, <1>9, <1>10 DEF IStep

(* The oracle is type correct: its recursion, flags, allocator and output   *)
(* have the declared types after any statements of any program.             *)
THEOREM TypeCorrect == ISpec => []ITypeOK
  <1>1. IInit => ITypeOK
    <2>1. <<>> \in Seq(IFrame)
      BY EmptySeq
    <2>2. QED
      BY <2>1, OpenType, ConstructsAssumption DEF IInit, ITypeOK, OutValue, Value
  <1>2. ITypeOK /\ [INext]_ivars => ITypeOK'
    <2>1. ITypeOK /\ UNCHANGED ivars => ITypeOK'
      BY DEF ITypeOK, ivars
    <2>2. QED
      BY <2>1, StatementType, StepType DEF INext
  <1>3. QED
    BY <1>1, <1>2, PTL DEF ISpec

-----------------------------------------------------------------------------
(***************************************************************************)
(* The stack part of the invariant under the changes a step makes.         *)
(***************************************************************************)

(* A jump's loop is found in any stack with the same kinds and labels.      *)
LEMMA TargetPrefix ==
  ASSUME NEW s, NEW t, NEW n \in Nat, NEW l, Target(s, n, l),
         \A i \in 1 .. n : t[i].k = s[i].k /\ t[i].lab = s[i].lab
  PROVE  Target(t, n, l)
  BY DEF Target

(* A jump that does not end in the frame on top ends below it.              *)
LEMMA TargetBelow ==
  ASSUME NEW s, NEW n \in Nat \ {0}, NEW l, Target(s, n, l),
         ~(s[n].k = "loop" /\ (l = NoLabel \/ s[n].lab = l))
  PROVE  Target(s, n - 1, l)
  BY DEF Target

(* A frame that saves nothing.                                              *)
Plain(f) == f.k \notin {"cleanup", "with"} /\ f.ds = <<>>

(* Opening a construct that saves nothing.                                  *)
LEMMA PushPlain ==
  ASSUME NEW s \in Seq(IFrame), NEW f \in IFrame, Plain(f), StackInv(s)
  PROVE  /\ StackInv(Append(s, f))
         /\ \A a : OutsideWith(s, a) => OutsideWith(Append(s, f), a)
  <1> DEFINE t == Append(s, f)
  <1>1. /\ Len(s) \in Nat
        /\ Len(t) = Len(s) + 1
        /\ \A i \in 1 .. Len(s) : t[i] = s[i]
        /\ t[Len(s) + 1] = f
    BY PushFacts, LenProperties
  <1> HIDE DEF t
  <1>2. CallsInBlocks(t)
    BY <1>1 DEF StackInv, CallsInBlocks, Plain
  <1>3. SavedJumpsAimed(t)
    <2> SUFFICES ASSUME NEW c \in 1 .. Len(t), t[c].k = "cleanup"
                 PROVE  /\ ~(t[c].fl.breaking /\ t[c].fl.continuing)
                        /\ t[c].fl.breaking \/ t[c].fl.continuing
                             => Target(t, c - 1, t[c].fl.jump)
      BY DEF SavedJumpsAimed
    <2>1. c \in 1 .. Len(s) /\ t[c] = s[c] /\ c - 1 \in Nat
      BY <1>1 DEF Plain
    <2>2. \A i \in 1 .. c - 1 : t[i].k = s[i].k /\ t[i].lab = s[i].lab
      BY <1>1, <2>1
    <2>3. QED
      BY <2>1, <2>2, TargetPrefix DEF StackInv, SavedJumpsAimed
  <1>4. FirstWithSaved(t)
    BY <1>1 DEF StackInv, FirstWithSaved, Plain
  <1>5. \A a : OutsideWith(s, a) => OutsideWith(t, a)
    BY <1>1 DEF OutsideWith
  <1>6. QED
    BY <1>2, <1>3, <1>4, <1>5 DEF StackInv, t

(* Opening a `with`, which saves the allocator that is current.             *)
LEMMA PushWith ==
  ASSUME NEW s \in Seq(IFrame), NEW f \in IFrame, StackInv(s),
         f.k = "with", f.ds = <<>>, OutsideWith(s, f.al)
  PROVE  /\ StackInv(Append(s, f))
         /\ \A a : OutsideWith(Append(s, f), a)
  <1> DEFINE t == Append(s, f)
  <1>1. /\ Len(s) \in Nat
        /\ Len(t) = Len(s) + 1
        /\ \A i \in 1 .. Len(s) : t[i] = s[i]
        /\ t[Len(s) + 1] = f
    BY PushFacts, LenProperties
  <1> HIDE DEF t
  <1>2. CallsInBlocks(t)
    BY <1>1 DEF StackInv, CallsInBlocks
  <1>3. SavedJumpsAimed(t)
    <2> SUFFICES ASSUME NEW c \in 1 .. Len(t), t[c].k = "cleanup"
                 PROVE  /\ ~(t[c].fl.breaking /\ t[c].fl.continuing)
                        /\ t[c].fl.breaking \/ t[c].fl.continuing
                             => Target(t, c - 1, t[c].fl.jump)
      BY DEF SavedJumpsAimed
    <2>1. c \in 1 .. Len(s) /\ t[c] = s[c] /\ c - 1 \in Nat
      BY <1>1
    <2>2. \A i \in 1 .. c - 1 : t[i].k = s[i].k /\ t[i].lab = s[i].lab
      BY <1>1, <2>1
    <2>3. QED
      BY <2>1, <2>2, TargetPrefix DEF StackInv, SavedJumpsAimed
  <1>4. FirstWithSaved(t)
    BY <1>1 DEF StackInv, FirstWithSaved, OutsideWith
  <1>5. \A a : OutsideWith(t, a)
    BY <1>1 DEF OutsideWith
  <1>6. QED
    BY <1>2, <1>3, <1>4, <1>5 DEF StackInv, t

(* Leaving a construct.                                                     *)
LEMMA PopStack ==
  ASSUME NEW s \in Seq(IFrame), s # <<>>, StackInv(s)
  PROVE  /\ StackInv(Pop(s))
         /\ Top(s).k # "with" =>
              \A a : OutsideWith(s, a) => OutsideWith(Pop(s), a)
         /\ Top(s).k = "with" => OutsideWith(Pop(s), Top(s).al)
  <1> DEFINE t == Pop(s)
  <1>1. /\ Len(s) \in Nat \ {0}
        /\ Len(t) = Len(s) - 1
        /\ \A i \in 1 .. Len(s) - 1 : t[i] = s[i]
        /\ Top(s) = s[Len(s)]
    BY PopFacts, TopFacts
  <1> HIDE DEF t
  <1>2. CallsInBlocks(t)
    BY <1>1 DEF StackInv, CallsInBlocks
  <1>3. SavedJumpsAimed(t)
    <2> SUFFICES ASSUME NEW c \in 1 .. Len(t), t[c].k = "cleanup"
                 PROVE  /\ ~(t[c].fl.breaking /\ t[c].fl.continuing)
                        /\ t[c].fl.breaking \/ t[c].fl.continuing
                             => Target(t, c - 1, t[c].fl.jump)
      BY DEF SavedJumpsAimed
    <2>1. c \in 1 .. Len(s) /\ t[c] = s[c] /\ c - 1 \in Nat
      BY <1>1
    <2>2. \A i \in 1 .. c - 1 : t[i].k = s[i].k /\ t[i].lab = s[i].lab
      BY <1>1, <2>1
    <2>3. QED
      BY <2>1, <2>2, TargetPrefix DEF StackInv, SavedJumpsAimed
  <1>4. FirstWithSaved(t)
    BY <1>1 DEF StackInv, FirstWithSaved
  <1>5. Top(s).k # "with" => \A a : OutsideWith(s, a) => OutsideWith(t, a)
    BY <1>1 DEF OutsideWith
  <1>6. Top(s).k = "with" => OutsideWith(t, Top(s).al)
    BY <1>1 DEF OutsideWith, StackInv, FirstWithSaved
  <1>7. QED
    BY <1>2, <1>3, <1>4, <1>5, <1>6 DEF StackInv, t

(* Changing the block or cleanup on top: a jump it sets aside has its loop. *)
LEMMA SetTopStack ==
  ASSUME NEW s \in Seq(IFrame), s # <<>>, StackInv(s), NEW f \in IFrame,
         Top(s).k \in {"block", "cleanup"}, f.k \in {"block", "cleanup"},
         f.k = "cleanup" =>
           /\ ~(f.fl.breaking /\ f.fl.continuing)
           /\ f.fl.breaking \/ f.fl.continuing
                => Target(s, Len(s) - 1, f.fl.jump)
  PROVE  /\ StackInv(SetTop(s, f))
         /\ \A a : OutsideWith(s, a) => OutsideWith(SetTop(s, f), a)
  <1> DEFINE t == SetTop(s, f)
  <1>1. /\ Len(s) \in Nat \ {0}
        /\ Len(t) = Len(s)
        /\ \A i \in 1 .. Len(s) - 1 : t[i] = s[i]
        /\ t[Len(s)] = f
        /\ Top(s) = s[Len(s)]
    BY SetTopFacts, TopFacts
  <1> HIDE DEF t
  <1>2. CallsInBlocks(t)
    BY <1>1 DEF StackInv, CallsInBlocks
  <1>3. SavedJumpsAimed(t)
    <2> SUFFICES ASSUME NEW c \in 1 .. Len(t), t[c].k = "cleanup"
                 PROVE  /\ ~(t[c].fl.breaking /\ t[c].fl.continuing)
                        /\ t[c].fl.breaking \/ t[c].fl.continuing
                             => Target(t, c - 1, t[c].fl.jump)
      BY DEF SavedJumpsAimed
    <2>1. c \in 1 .. Len(s) /\ c - 1 \in Nat
      BY <1>1
    <2>2. \A i \in 1 .. c - 1 : t[i].k = s[i].k /\ t[i].lab = s[i].lab
      BY <1>1, <2>1
    <2>3. /\ ~(t[c].fl.breaking /\ t[c].fl.continuing)
          /\ t[c].fl.breaking \/ t[c].fl.continuing
               => Target(s, c - 1, t[c].fl.jump)
      <3>1. CASE c = Len(s)
        BY <1>1, <3>1
      <3>2. CASE c # Len(s)
        <4>1. t[c] = s[c]
          BY <1>1, <2>1, <3>2
        <4>2. QED
          BY <2>1, <4>1 DEF StackInv, SavedJumpsAimed
      <3>3. QED
        BY <3>1, <3>2
    <2>4. QED
      BY <2>1, <2>2, <2>3, TargetPrefix
  <1>4. FirstWithSaved(t)
    BY <1>1 DEF StackInv, FirstWithSaved
  <1>5. \A a : OutsideWith(s, a) => OutsideWith(t, a)
    BY <1>1 DEF OutsideWith
  <1>6. QED
    BY <1>2, <1>3, <1>4, <1>5 DEF StackInv, t

-----------------------------------------------------------------------------
(***************************************************************************)
(* The invariant is inductive.                                             *)
(***************************************************************************)

(* What the invariant says of a frame that is opened, and of a pair.        *)
LEMMA OpenPlain ==
  ASSUME NEW s \in Seq(IFrame), StackInv(s),
         NEW f \in IFrame, NEW g \in IFrame, Plain(f), Plain(g)
  PROVE  /\ StackInv(Append(s, f)) /\ StackInv(Push2(s, f, g))
         /\ \A a : OutsideWith(s, a) => /\ OutsideWith(Append(s, f), a)
                                       /\ OutsideWith(Push2(s, f, g), a)
  <1>1. Append(s, f) \in Seq(IFrame)
    BY AppendProperties
  <1>2. /\ StackInv(Append(s, f))
        /\ \A a : OutsideWith(s, a) => OutsideWith(Append(s, f), a)
    BY PushPlain
  <1>3. /\ StackInv(Append(Append(s, f), g))
        /\ \A a : OutsideWith(Append(s, f), a)
                   => OutsideWith(Append(Append(s, f), g), a)
    BY <1>1, <1>2, PushPlain
  <1>4. QED
    BY <1>2, <1>3 DEF Push2

(* A statement that changes no flag while none is in flight.                *)
LEMMA GotoInv ==
  ASSUME IInv, ITypeOK', ist # <<>>, IQuiet, TopKind(ist) # "cleanup",
         ifl' = ifl, StackInv(ist)', OutsideWith(ist, ialloc)'
  PROVE  IInv'
  <1>1. ~InFlight
    BY DEF IQuiet
  <1>2. JumpAimed'
    BY <1>1 DEF InFlight, JumpAimed
  <1>3. QED
    BY <1>2 DEF IInv

(* An exit that leaves the recursion as it is, with the jump, if it is one, *)
(* inside the loop it names.                                                *)
LEMMA ExitInv ==
  ASSUME IInv, ITypeOK', ist' = ist, ialloc' = ialloc, JumpAimed'
  PROVE  IInv'
  BY DEF IInv

(* A loop the checker finds for a jump is one the jump can reach.           *)
LEMMA LoopInScope ==
  ASSUME NEW s \in Seq(IFrame), NEW l \in Label, LoopsInScope(s, l) # {}
  PROVE  Target(s, Len(s), l)
  BY DEF LoopsInScope, Of, Target

(* The statements of a program preserve the invariant.                      *)
LEMMA StatementInv ==
  ASSUME IInv, IStatement
  PROVE  IInv'
  <1> USE DEF IAt
  <1>s. /\ ITypeOK /\ ist \in Seq(IFrame) /\ ifl \in Flags
        /\ StackInv(ist) /\ OutsideWith(ist, ialloc) /\ JumpAimed
    BY DEF IInv, ITypeOK
  <1>t. ITypeOK'
    BY <1>s, StatementType
  <1>o. /\ IOpen("block") \in IFrame /\ IOpen("loop") \in IFrame
        /\ IOpen("arm") \in IFrame /\ IOpen("operand") \in IFrame
        /\ IOpen("argument") \in IFrame /\ IOpen("with") \in IFrame
    BY OpenType DEF IKinds
  <1>p. /\ Plain(IOpen("block")) /\ Plain(IOpen("loop")) /\ Plain(IOpen("arm"))
        /\ Plain(IOpen("operand")) /\ Plain(IOpen("argument"))
    BY DEF Plain, IOpen
  <1>e. TopKind(ist) # "end" =>
          /\ ist # <<>> /\ Top(ist) \in IFrame /\ TopKind(ist) = Top(ist).k
    BY <1>s, TopKindFacts
  <1>1. CASE ICallFunc
    <2>1. ist = <<>> /\ Len(ist) = 0 /\ ~ifl.trapped
      BY <1>1, <1>s, TopKindFacts, EmptySeq DEF ICallFunc
    <2>2. ~ifl.breaking /\ ~ifl.continuing
      BY <1>s, <2>1 DEF JumpAimed, Target, TopKind
    <2>3. JumpAimed'
      BY <1>1, <1>s, <2>2 DEF ICallFunc, JumpAimed, Flags
    <2>4. ist' = Append(ist, IOpen("block"))
      BY <1>1, <2>1 DEF ICallFunc
    <2>5. StackInv(ist)' /\ OutsideWith(ist, ialloc)'
      BY <1>1, <1>s, <1>o, <1>p, <2>4, PushPlain DEF ICallFunc
    <2>6. QED
      BY <1>t, <2>3, <2>5 DEF IInv
  <1>2. CASE IBlock \/ IIterate
    <2>1. ist' = Append(ist, IOpen("block"))
      BY <1>2 DEF IBlock, IIterate, IGoto
    <2>2. StackInv(ist)' /\ OutsideWith(ist, ialloc)'
      BY <1>2, <1>s, <1>o, <1>p, <2>1, PushPlain DEF IBlock, IIterate, IGoto
    <2>3. QED
      BY <1>2, <1>t, <1>e, <2>2, GotoInv DEF IBlock, IIterate, IGoto
  <1>3. CASE ILoopDone \/ IOperandDone \/ IArgumentDone
    <2>1. ist # <<>> /\ Top(ist).k \notin {"with", "cleanup"}
      BY <1>3, <1>e DEF ILoopDone, IOperandDone, IArgumentDone
    <2>2. ist' = Pop(ist) /\ ifl' = ifl /\ ialloc' = ialloc
      BY <1>3 DEF ILoopDone, IOperandDone, IArgumentDone, IGoto
    <2>3. StackInv(ist)' /\ OutsideWith(ist, ialloc)'
      BY <1>s, <2>1, <2>2, PopStack
    <2>4. QED
      BY <1>3, <1>t, <2>1, <2>2, <2>3, GotoInv
         DEF ILoopDone, IOperandDone, IArgumentDone, TopKind
  <1>4. CASE IMatch
    <2>1. StackInv(ist)' /\ OutsideWith(ist, ialloc)'
      BY <1>4, <1>s, <1>o, <1>p, OpenPlain DEF IMatch, IGoto
    <2>2. QED
      BY <1>4, <1>t, <1>e, <2>1, GotoInv DEF IMatch, IGoto
  <1>5. CASE ICatch
    <2>1. StackInv(ist)' /\ OutsideWith(ist, ialloc)'
      BY <1>5, <1>s, <1>o, <1>p, OpenPlain DEF ICatch, IGoto
    <2>2. QED
      BY <1>5, <1>t, <1>e, <2>1, GotoInv DEF ICatch, IGoto
  <1>6. CASE IArgument
    <2>1. StackInv(ist)' /\ OutsideWith(ist, ialloc)'
      BY <1>6, <1>s, <1>o, <1>p, OpenPlain DEF IArgument, IGoto
    <2>2. QED
      BY <1>6, <1>t, <1>e, <2>1, GotoInv DEF IArgument, IGoto
  <1>7. CASE ICall
    <2>1. ~ifl.breaking /\ ~ifl.continuing
      BY <1>7, <1>e DEF ICall, IQuiet, InFlight
    <2>2. ~ifl'.breaking /\ ~ifl'.continuing
      BY <1>7, <1>s, <2>1, CallLeavesType DEF ICall
    <2>3. JumpAimed'
      BY <2>2 DEF JumpAimed
    <2>4. QED
      BY <1>7, <1>t, <2>3, ExitInv DEF ICall
  <1>8. CASE IEndBlock
    <2>1. ist # <<>> /\ Top(ist) \in IFrame /\ Top(ist).k = "block" /\ ~InFlight
      BY <1>8, <1>e DEF IEndBlock, IQuiet
    <2> DEFINE f == EndOfBlock(Top(ist), ifl)
    <2>2. f \in IFrame /\ f.k = "cleanup" /\ f.fl = ifl
      BY <1>s, <2>1, FrameType DEF EndOfBlock, IFrame
    <2>3. ist' = SetTop(ist, f) /\ ifl' = ifl /\ ialloc' = ialloc
      BY <1>8 DEF IEndBlock, IGoto
    <2> HIDE DEF f
    <2>4. StackInv(ist)' /\ OutsideWith(ist, ialloc)'
      BY <1>s, <2>1, <2>2, <2>3, SetTopStack DEF InFlight
    <2>5. QED
      BY <1>8, <1>t, <2>1, <2>3, <2>4, GotoInv DEF IEndBlock
  <1>9. CASE IRunDeferred
    <2>1. ist # <<>> /\ Top(ist) \in IFrame /\ Top(ist).k = "cleanup"
          /\ Top(ist).ds # <<>>
      BY <1>9, <1>e DEF IRunDeferred, IQuiet, IRunnable
    <2> DEFINE f == [Top(ist) EXCEPT !.ds = Pop(@)]
    <2>2. f \in IFrame /\ f.k = "cleanup" /\ f.fl = Top(ist).fl
      BY <2>1, FrameType DEF IFrame
    <2> HIDE DEF f
    <2>3. /\ ~(f.fl.breaking /\ f.fl.continuing)
          /\ f.fl.breaking \/ f.fl.continuing
               => Target(ist, Len(ist) - 1, f.fl.jump)
      BY <1>s, <2>1, <2>2, TopFacts DEF StackInv, SavedJumpsAimed
    <2>4. /\ StackInv(SetTop(ist, f)) /\ OutsideWith(SetTop(ist, f), ialloc)
          /\ SetTop(ist, f) \in Seq(IFrame)
      BY <1>s, <2>1, <2>2, <2>3, SetTopStack, SetTopFacts
    <2>5. /\ StackInv(Append(SetTop(ist, f), IOpen("block")))
          /\ OutsideWith(Append(SetTop(ist, f), IOpen("block")), ialloc)
      BY <1>o, <1>p, <2>4, PushPlain
    <2>6. StackInv(ist)' /\ OutsideWith(ist, ialloc)'
      BY <1>9, <2>4, <2>5 DEF IRunDeferred, IDropped, f
    <2>7. Aside(ifl) \in Flags /\ ~Aside(ifl).breaking /\ ~Aside(ifl).continuing
      BY <1>s DEF Aside, Flags
    <2>8. ~ifl'.breaking /\ ~ifl'.continuing
      BY <1>9, <2>7, CallLeavesType DEF IRunDeferred
    <2>9. QED
      BY <1>t, <2>6, <2>8 DEF IInv, JumpAimed
  <1>10. CASE ITrap
    <2>1. ifl'.trapped
      BY <1>10, <1>s DEF ITrap, IExit, Flags
    <2>2. QED
      BY <1>10, <1>t, <2>1, ExitInv DEF ITrap, IExit, JumpAimed
  <1>11. ASSUME NEW l \in Label, ILoop(l)
         PROVE  IInv'
    <2> DEFINE f == [IOpen("loop") EXCEPT !.lab = l]
    <2>1. f \in IFrame /\ Plain(f)
      BY <1>o DEF IFrame, Plain, IOpen
    <2> HIDE DEF f
    <2>2. StackInv(ist)' /\ OutsideWith(ist, ialloc)'
      BY <1>11, <1>s, <2>1, PushPlain DEF ILoop, IGoto, f
    <2>3. QED
      BY <1>11, <1>t, <1>e, <2>2, GotoInv DEF ILoop, IGoto
  <1>12. ASSUME NEW l \in Label, IBreak(l) \/ IContinue(l)
         PROVE  IInv'
    <2>1. /\ Target(ist, Len(ist), l) /\ ~ifl.breaking /\ ~ifl.continuing
      BY <1>12, <1>s, <1>e, LoopInScope DEF IBreak, IContinue, IQuiet, InFlight
    <2>2. ist' = ist /\ ialloc' = ialloc /\ ifl'.jump = l
      BY <1>12, <1>s DEF IBreak, IContinue, IExit, Flags
    <2>3. ~(ifl'.breaking /\ ifl'.continuing)
      BY <1>12, <1>s, <2>1 DEF IBreak, IContinue, IExit, Flags
    <2>4. JumpAimed'
      BY <2>1, <2>2, <2>3 DEF JumpAimed
    <2>5. QED
      BY <1>t, <2>2, <2>4, ExitInv
  <1>13. ASSUME NEW a \in Allocs, IWith(a)
         PROVE  IInv'
    <2> DEFINE f == [IOpen("with") EXCEPT !.al = ialloc]
               s == Append(ist, f)
    <2>1. f \in IFrame /\ f.k = "with" /\ f.ds = <<>> /\ f.al = ialloc
      BY <1>s, <1>o DEF ITypeOK, IFrame, IOpen
    <2>2. ist' = Append(s, IOpen("block")) /\ ifl' = ifl
      BY <1>13 DEF IWith, Push2
    <2> HIDE DEF f
    <2>3. s \in Seq(IFrame) /\ StackInv(s) /\ OutsideWith(s, a)
      BY <1>s, <2>1, PushWith, AppendProperties
    <2> HIDE DEF s
    <2>4. StackInv(ist)' /\ OutsideWith(ist, ialloc)'
      BY <1>13, <1>o, <1>p, <2>2, <2>3, PushPlain DEF IWith
    <2>5. QED
      BY <1>13, <1>t, <1>e, <2>2, <2>4, GotoInv DEF IWith
  <1>14. ASSUME NEW d \in Deferred, IDefer(d)
         PROVE  IInv'
    <2>1. ist # <<>> /\ Top(ist) \in IFrame /\ Top(ist).k = "block"
      BY <1>14, <1>e DEF IDefer
    <2> DEFINE f == [Top(ist) EXCEPT !.ds = Append(@, d)]
    <2>2. f \in IFrame /\ f.k = "block"
      BY <2>1, FrameType DEF IFrame
    <2>3. ist' = SetTop(ist, f) /\ ifl' = ifl /\ ialloc' = ialloc
      BY <1>14 DEF IDefer, IGoto
    <2> HIDE DEF f
    <2>4. StackInv(ist)' /\ OutsideWith(ist, ialloc)'
      BY <1>s, <2>1, <2>2, <2>3, SetTopStack
    <2>5. QED
      BY <1>14, <1>t, <2>1, <2>3, <2>4, GotoInv DEF IDefer
  <1>15. ASSUME NEW v \in Vals, IReturn(v) \/ IRaise(v) \/ IRecover(v)
         PROVE  IInv'
    <2>1. ~ifl.breaking /\ ~ifl.continuing
      BY <1>15, <1>e DEF IReturn, IRaise, IRecover, IQuiet, InFlight
    <2>2. ist' = ist /\ ialloc' = ialloc
      BY <1>15 DEF IReturn, IRaise, IRecover, IExit
    <2>3. ~ifl'.breaking /\ ~ifl'.continuing
      BY <1>15, <1>s, <2>1 DEF IReturn, IRaise, IRecover, IExit, Flags
    <2>4. QED
      BY <1>t, <2>2, <2>3, ExitInv DEF JumpAimed
  <1>16. QED
    BY <1>1, <1>2, <1>3, <1>4, <1>5, <1>6, <1>7, <1>8, <1>9, <1>10, <1>11,
       <1>12, <1>13, <1>14, <1>15 DEF IStatement

(* Leaving a level that no jump ends in and that saved nothing.             *)
LEMMA PopInv ==
  ASSUME IInv, ITypeOK', ist # <<>>, Top(ist).k \notin {"loop", "cleanup", "with"},
         ist' = Pop(ist), ialloc' = ialloc,
         ifl'.trapped = ifl.trapped, ifl'.breaking = ifl.breaking,
         ifl'.continuing = ifl.continuing, ifl'.jump = ifl.jump
  PROVE  IInv'
  <1>1. /\ ist \in Seq(IFrame) /\ Len(ist) \in Nat \ {0} /\ Len(ist) - 1 \in Nat
        /\ Top(ist) = ist[Len(ist)]
        /\ Len(Pop(ist)) = Len(ist) - 1
        /\ \A i \in 1 .. Len(ist) - 1 : Pop(ist)[i] = ist[i]
    BY PopFacts, TopFacts DEF IInv, ITypeOK
  <1>2. StackInv(ist)' /\ OutsideWith(ist, ialloc)'
    BY <1>1, PopStack DEF IInv
  <1>3. ASSUME ~ifl.trapped, ifl.breaking \/ ifl.continuing
        PROVE  Target(ist', Len(ist'), ifl'.jump)
    <2>1. Target(ist, Len(ist), ifl.jump)
      BY <1>3 DEF IInv, JumpAimed, TopKind
    <2>2. Target(ist, Len(ist) - 1, ifl.jump)
      BY <1>1, <2>1, TargetBelow
    <2>3. QED
      BY <1>1, <2>2, TargetPrefix
  <1>4. JumpAimed'
    BY <1>3 DEF IInv, JumpAimed
  <1>5. QED
    BY <1>2, <1>4 DEF IInv

(* The way out preserves the invariant.                                     *)
LEMMA StepInv ==
  ASSUME IInv, IStep
  PROVE  IInv'
  <1>s. /\ ITypeOK /\ ist \in Seq(IFrame) /\ ifl \in Flags
        /\ StackInv(ist) /\ OutsideWith(ist, ialloc) /\ JumpAimed
    BY DEF IInv, ITypeOK
  <1>t. ITypeOK'
    BY <1>s, StepType
  <1>e. TopKind(ist) # "end" =>
          /\ ist # <<>> /\ Top(ist) \in IFrame /\ TopKind(ist) = Top(ist).k
          /\ Top(ist) = ist[Len(ist)] /\ Len(ist) \in 1 .. Len(ist)
    BY <1>s, TopKindFacts
  <1>p. TopKind(ist) # "end" =>
          /\ Len(ist) \in Nat \ {0} /\ Len(ist) - 1 \in Nat
          /\ Len(Pop(ist)) = Len(ist) - 1
          /\ \A i \in 1 .. Len(ist) - 1 : Pop(ist)[i] = ist[i]
    BY <1>s, <1>e, PopFacts
  <1>1. CASE IStopBlock
    <2>1. ist # <<>> /\ Top(ist) \in IFrame /\ Top(ist).k = "block" /\ ~ifl.trapped
      BY <1>1, <1>e DEF IStopBlock
    <2> DEFINE f == EndOfBlock(Top(ist), ifl)
    <2>2. f \in IFrame /\ f.k = "cleanup" /\ f.fl = ifl
      BY <1>s, <2>1, FrameType DEF EndOfBlock, IFrame
    <2>3. ist' = SetTop(ist, f) /\ ifl' = ifl /\ ialloc' = ialloc
      BY <1>1 DEF IStopBlock
    <2> HIDE DEF f
    <2>4. ifl.breaking \/ ifl.continuing => Target(ist, Len(ist) - 1, ifl.jump)
      <3>1. ifl.breaking \/ ifl.continuing => Target(ist, Len(ist), ifl.jump)
        BY <1>1, <1>s, <2>1 DEF IStopBlock, JumpAimed
      <3>2. QED
        BY <1>1, <1>e, <1>p, <2>1, <3>1, TargetBelow DEF IStopBlock
    <2>5. ~(ifl.breaking /\ ifl.continuing)
      BY <1>s, <2>1 DEF JumpAimed
    <2>6. StackInv(ist)' /\ OutsideWith(ist, ialloc)'
      BY <1>s, <2>1, <2>2, <2>3, <2>4, <2>5, SetTopStack
    <2>7. TopKind(ist') = "cleanup"
      BY <1>s, <2>1, <2>2, <2>3, SetTopKind
    <2>8. JumpAimed'
      BY <2>3, <2>5, <2>7 DEF JumpAimed
    <2>9. QED
      BY <1>t, <2>6, <2>8 DEF IInv
  <1>2. CASE ISkipErrdefer
    <2>1. ist # <<>> /\ Top(ist) \in IFrame /\ Top(ist).k = "cleanup"
          /\ Top(ist).ds # <<>> /\ ~ifl.trapped
      BY <1>2, <1>e DEF ISkipErrdefer
    <2> DEFINE f == [Top(ist) EXCEPT !.ds = Pop(@)]
    <2>2. f \in IFrame /\ f.k = "cleanup" /\ f.fl = Top(ist).fl
      BY <2>1, FrameType DEF IFrame
    <2>3. ist' = SetTop(ist, f) /\ ifl' = ifl /\ ialloc' = ialloc
      BY <1>2 DEF ISkipErrdefer, IDropped
    <2> HIDE DEF f
    <2>4. /\ ~(f.fl.breaking /\ f.fl.continuing)
          /\ f.fl.breaking \/ f.fl.continuing
               => Target(ist, Len(ist) - 1, f.fl.jump)
      BY <1>s, <2>1, <2>2, TopFacts DEF StackInv, SavedJumpsAimed
    <2>5. StackInv(ist)' /\ OutsideWith(ist, ialloc)'
      BY <1>s, <2>1, <2>2, <2>3, <2>4, SetTopStack
    <2>6. TopKind(ist') = "cleanup"
      BY <1>s, <2>1, <2>2, <2>3, SetTopKind
    <2>7. JumpAimed'
      BY <1>s, <2>1, <2>3, <2>6 DEF JumpAimed
    <2>8. QED
      BY <1>t, <2>5, <2>7 DEF IInv
  <1>3. CASE IEndCleanup
    <2>1. ist # <<>> /\ Top(ist) \in IFrame /\ Top(ist).k = "cleanup"
      BY <1>3, <1>e DEF IEndCleanup
    <2> DEFINE fl == Top(ist).fl
    <2>2. /\ fl \in Flags
          /\ ~(fl.breaking /\ fl.continuing)
          /\ fl.breaking \/ fl.continuing => Target(ist, Len(ist) - 1, fl.jump)
      BY <1>s, <1>3, <1>e, <2>1
         DEF IEndCleanup, StackInv, SavedJumpsAimed, IFrame
    <2>3. /\ ist' = Pop(ist) /\ ialloc' = ialloc
          /\ ifl'.breaking = fl.breaking /\ ifl'.continuing = fl.continuing
          /\ ifl'.jump = fl.jump
      BY <1>3, <2>2 DEF IEndCleanup, Flags
    <2>4. StackInv(ist)' /\ OutsideWith(ist, ialloc)'
      BY <1>s, <2>1, <2>3, PopStack
    <2> HIDE DEF fl
    <2>5. ASSUME fl.breaking \/ fl.continuing
          PROVE  Target(ist', Len(ist'), fl.jump)
      <3>1. /\ Len(ist) - 1 \in Nat /\ Len(ist') = Len(ist) - 1
            /\ \A i \in 1 .. Len(ist) - 1 : ist'[i] = ist[i]
        BY <1>3, <1>p, <2>3 DEF IEndCleanup
      <3>2. Target(ist, Len(ist) - 1, fl.jump)
        BY <2>2, <2>5
      <3>3. QED
        BY <3>1, <3>2, TargetPrefix
    <2>6. JumpAimed'
      BY <2>2, <2>3, <2>5 DEF JumpAimed
    <2>7. QED
      BY <1>t, <2>4, <2>6 DEF IInv
  <1>4. CASE ILeaveLoop
    <2>1. ist # <<>> /\ Top(ist).k = "loop" /\ ~ifl.trapped /\ ialloc' = ialloc
      BY <1>4, <1>e DEF ILeaveLoop
    <2>2. ~(ifl.breaking /\ ifl.continuing)
      BY <1>s, <2>1 DEF JumpAimed
    <2>3. /\ ifl'.breaking = (ifl.breaking /\ ~IAimedHere)
          /\ ifl'.continuing = (ifl.continuing /\ ~IAimedHere)
          /\ ifl'.jump = ifl.jump
      BY <1>4, <1>s, <2>2 DEF ILeaveLoop, Flags
    <2>4. StackInv(ist)' /\ OutsideWith(ist, ialloc)'
      BY <1>4, <1>s, <2>1, PopStack DEF ILeaveLoop
    <2>5. ASSUME ifl'.breaking \/ ifl'.continuing
          PROVE  Target(ist', Len(ist'), ifl'.jump)
      <3>1. ~IAimedHere /\ ist' = Pop(ist)
        BY <1>4, <2>3, <2>5 DEF ILeaveLoop
      <3>2. Target(ist, Len(ist), ifl.jump)
        BY <1>s, <1>e, <1>4, <2>1, <2>3, <2>5 DEF JumpAimed, ILeaveLoop
      <3>3. Target(ist, Len(ist) - 1, ifl.jump)
        BY <1>4, <1>e, <1>p, <3>1, <3>2, TargetBelow DEF ILeaveLoop, IAimedHere
      <3>4. QED
        BY <1>4, <1>p, <2>3, <3>1, <3>3, TargetPrefix DEF ILeaveLoop
    <2>6. JumpAimed'
      BY <2>2, <2>3, <2>5 DEF JumpAimed
    <2>7. QED
      BY <1>t, <2>4, <2>6 DEF IInv
  <1>5. CASE IEndWith
    <2>1. ist # <<>> /\ Top(ist).k = "with" /\ ist' = Pop(ist)
          /\ ialloc' = Top(ist).al /\ ifl' = ifl
      BY <1>5, <1>e DEF IEndWith
    <2>2. StackInv(ist)' /\ OutsideWith(ist, ialloc)'
      BY <1>s, <2>1, PopStack
    <2>3. ASSUME ~ifl.trapped, ifl.breaking \/ ifl.continuing
          PROVE  Target(ist', Len(ist'), ifl.jump)
      <3>1. Target(ist, Len(ist), ifl.jump)
        BY <1>5, <1>s, <2>3 DEF JumpAimed, IEndWith
      <3>2. Target(ist, Len(ist) - 1, ifl.jump)
        BY <1>5, <1>e, <1>p, <3>1, TargetBelow DEF IEndWith
      <3>3. QED
        BY <1>5, <1>p, <2>1, <3>2, TargetPrefix DEF IEndWith
    <2>4. JumpAimed'
      BY <1>s, <2>1, <2>3 DEF JumpAimed
    <2>5. QED
      BY <1>t, <2>2, <2>4 DEF IInv
  <1>6. CASE IEndArm
    BY <1>6, <1>t, <1>e, PopInv DEF IEndArm
  <1>7. CASE IEndOperand
    <2>1. CASE ~(ifl.returning /\ ifl.failed)
      BY <1>7, <1>t, <1>e, <2>1, PopInv DEF IEndOperand
    <2>2. CASE ifl.returning /\ ifl.failed
      <3> DEFINE f == IOpen("handler")
                 g == IOpen("block")
                 s == Pop(ist)
      <3>1. f \in IFrame /\ g \in IFrame /\ Plain(f) /\ Plain(g)
        BY OpenType DEF IKinds, Plain, IOpen
      <3>2. s \in Seq(IFrame) /\ StackInv(s) /\ OutsideWith(s, ialloc)
        BY <1>7, <1>s, <1>e, PopFacts, PopStack DEF IEndOperand
      <3>3. ist' = Push2(s, f, g) /\ ialloc' = ialloc
        BY <1>7, <2>2 DEF IEndOperand
      <3>4. /\ ifl'.breaking = ifl.breaking /\ ifl'.continuing = ifl.continuing
            /\ ifl'.jump = ifl.jump
        BY <1>7, <1>s, <2>2 DEF IEndOperand, Flags
      <3> HIDE DEF f, g, s
      <3>5. StackInv(ist)' /\ OutsideWith(ist, ialloc)'
        BY <3>1, <3>2, <3>3, OpenPlain
      <3>6. ASSUME ifl.breaking \/ ifl.continuing
            PROVE  Target(ist', Len(ist'), ifl.jump)
        <4>1. Target(ist, Len(ist), ifl.jump)
          BY <1>7, <1>s, <3>6 DEF JumpAimed, IEndOperand
        <4>2. Target(ist, Len(ist) - 1, ifl.jump)
          BY <1>7, <1>e, <1>p, <4>1, TargetBelow DEF IEndOperand
        <4>3. /\ Append(s, f) \in Seq(IFrame)
              /\ Len(s) = Len(ist) - 1 /\ Len(s) \in Nat
              /\ Len(ist') = Len(s) + 2
              /\ \A i \in 1 .. Len(s) : ist'[i] = ist[i]
              /\ ist'[Len(s) + 1] = f /\ ist'[Len(s) + 2] = g
          <5>1. /\ Append(s, f) \in Seq(IFrame)
                /\ Len(Append(s, f)) = Len(s) + 1
                /\ \A i \in 1 .. Len(s) : Append(s, f)[i] = s[i]
                /\ Append(s, f)[Len(s) + 1] = f
            BY <3>1, <3>2, PushFacts
          <5>2. /\ Len(ist') = Len(Append(s, f)) + 1
                /\ \A i \in 1 .. Len(s) + 1 : ist'[i] = Append(s, f)[i]
                /\ ist'[Len(Append(s, f)) + 1] = g
            BY <3>1, <3>3, <5>1, PushFacts DEF Push2
          <5>3. Len(s) = Len(ist) - 1 /\ Len(s) \in Nat
                /\ \A i \in 1 .. Len(s) : s[i] = ist[i]
            BY <1>7, <1>p DEF IEndOperand, s
          <5>4. QED
            BY <5>1, <5>2, <5>3
        <4>4. Target(ist, Len(s), ifl.jump) /\ f.k # "cleanup" /\ g.k # "cleanup"
          BY <3>1, <4>2, <4>3 DEF Plain
        <4>5. PICK i \in 1 .. Len(s) :
                /\ ist[i].k = "loop" /\ (ifl.jump = NoLabel \/ ist[i].lab = ifl.jump)
                /\ \A j \in i .. Len(s) : ist[j].k # "cleanup"
          BY <4>4 DEF Target
        <4>6. i \in 1 .. Len(ist') /\ ist'[i] = ist[i]
          BY <4>3
        <4>7. \A j \in i .. Len(ist') : ist'[j].k # "cleanup"
          <5>1. \A j \in i .. Len(s) : ist'[j].k # "cleanup"
            BY <4>3, <4>5
          <5>2. ist'[Len(s) + 1].k # "cleanup" /\ ist'[Len(s) + 2].k # "cleanup"
            BY <4>3, <4>4
          <5>3. Len(s) \in Nat /\ Len(ist') = Len(s) + 2
            BY <4>3
          <5>4. \A j \in i .. Len(ist') :
                  j \in i .. Len(s) \/ j = Len(s) + 1 \/ j = Len(s) + 2
            BY <5>3
          <5>5. QED
            BY <5>1, <5>2, <5>4
        <4>8. QED
          BY <4>5, <4>6, <4>7 DEF Target
      <3>7. JumpAimed'
        BY <1>7, <1>s, <3>4, <3>6 DEF JumpAimed, IEndOperand
      <3>8. QED
        BY <1>t, <3>5, <3>7 DEF IInv
    <2>3. QED
      BY <2>1, <2>2
  <1>8. CASE IEndHandler
    <2>1. /\ ifl'.trapped = ifl.trapped /\ ifl'.breaking = ifl.breaking
          /\ ifl'.continuing = ifl.continuing /\ ifl'.jump = ifl.jump
      BY <1>8, <1>s DEF IEndHandler, Flags
    <2>2. QED
      BY <1>8, <1>t, <1>e, <2>1, PopInv DEF IEndHandler
  <1>9. CASE IEndArgument
    BY <1>9, <1>t, <1>e, PopInv DEF IEndArgument
  <1>10. CASE ITrapped
    <2>1. ist # <<>> /\ Top(ist).k # "with" /\ ist' = Pop(ist)
          /\ ialloc' = ialloc /\ ifl' = ifl /\ ifl.trapped
      BY <1>10, <1>e DEF ITrapped
    <2>2. StackInv(ist)' /\ OutsideWith(ist, ialloc)'
      BY <1>s, <2>1, PopStack
    <2>3. QED
      BY <1>t, <2>1, <2>2 DEF IInv, JumpAimed
  <1>11. QED
    BY <1>1, <1>2, <1>3, <1>4, <1>5, <1>6, <1>7, <1>8, <1>9, <1>10 DEF IStep

(* The invariant holds at the start.                                        *)
LEMMA InitInv ==
  ASSUME IInit
  PROVE  IInv
  <1>1. ITypeOK
    BY OpenType, EmptySeq, ConstructsAssumption
       DEF IInit, ITypeOK, OutValue, Value
  <1>2. Len(ist) = 0 /\ 1 .. Len(ist) = {}
    BY EmptySeq DEF IInit
  <1>3. StackInv(ist) /\ OutsideWith(ist, ialloc)
    BY <1>2 DEF IInit, StackInv, CallsInBlocks, SavedJumpsAimed,
                FirstWithSaved, OutsideWith
  <1>4. JumpAimed
    BY DEF IInit, JumpAimed, NoFlags
  <1>5. QED
    BY <1>1, <1>3, <1>4 DEF IInv

(* Every statement and every step keeps it.                                 *)
LEMMA KeepsInv ==
  ASSUME IInv, [INext]_ivars
  PROVE  IInv'
  <1>1. UNCHANGED ivars => IInv'
    BY DEF IInv, ITypeOK, JumpAimed, ivars
  <1>2. QED
    BY <1>1, StatementInv, StepInv DEF INext

(* It holds of every behaviour of the oracle.                               *)
THEOREM InvariantHolds == ISpec => []IInv
  <1>1. IInit => IInv
    BY InitInv
  <1>2. IInv /\ [INext]_ivars => IInv'
    BY KeepsInv
  <1>3. QED
    BY <1>1, <1>2, PTL DEF ISpec

-----------------------------------------------------------------------------
(***************************************************************************)
(* The properties.                                                         *)
(***************************************************************************)

(* No `break` or `continue` outlives the function it was written in: every  *)
(* jump that exec puts in flight is ended by a loop of the same activation, *)
(* through any number of cleanups, handlers and arguments.                  *)
THEOREM JumpsStayInside == ISpec => []NoStrayJump
  <1>1. IInv => NoStrayJump
    <2> SUFFICES ASSUME IInv, ist = <<>>, ~ifl.trapped
                 PROVE  ~ifl.breaking /\ ~ifl.continuing
      BY DEF NoStrayJump
    <2>1. TopKind(ist) # "cleanup" /\ Len(ist) = 0
      BY EmptySeq DEF TopKind
    <2>2. ~Target(ist, Len(ist), ifl.jump)
      BY <2>1 DEF Target
    <2>3. QED
      BY <2>1, <2>2 DEF IInv, JumpAimed
  <1>2. QED
    BY <1>1, InvariantHolds, PTL

(* However its `with` scopes are left, exec puts the first allocator back.  *)
THEOREM WithRestores == ISpec => []AllocatorRestored
  <1>1. IInv => AllocatorRestored
    BY DEF IInv, AllocatorRestored, OutsideWith, Of
  <1>2. QED
    BY <1>1, InvariantHolds, PTL

(* What opening, leaving and changing a level does to the calls owed.       *)
LEMMA KeptFacts ==
  ASSUME NEW s \in Seq(IFrame), NEW f \in IFrame, NEW g \in IFrame
  PROVE  /\ CallsKept(s, s)
         /\ CallsKept(s, Append(s, f))
         /\ CallsKept(s, Push2(s, f, g))
         /\ s # <<>> /\ Top(s).ds = <<>> =>
              CallsKept(s, Pop(s)) /\ CallsKept(s, Push2(Pop(s), f, g))
         /\ /\ s # <<>>
            /\ Len(f.ds) >= Len(Top(s).ds) \/ f.ds = Pop(Top(s).ds)
            => CallsKept(s, SetTop(s, f)) /\ CallsKept(s, Append(SetTop(s, f), g))
  <1>n. Len(s) \in Nat
    BY LenProperties
  <1>d. \A i \in 1 .. Len(s) : Len(s[i].ds) \in Nat
    BY ElementOfSeq, LenProperties DEF IFrame
  <1>1. CallsKept(s, s)
    BY <1>n, <1>d DEF CallsKept
  <1>2. ASSUME NEW t \in Seq(IFrame), NEW h \in IFrame, CallsKept(s, t)
        PROVE  CallsKept(s, Append(t, h))
    <2>1. /\ Len(t) \in Nat /\ Len(Append(t, h)) = Len(t) + 1
          /\ \A i \in 1 .. Len(t) : Append(t, h)[i] = t[i]
      BY PushFacts, LenProperties
    <2>2. QED
      BY <1>2, <1>n, <2>1 DEF CallsKept
  <1>3. CallsKept(s, Append(s, f)) /\ CallsKept(s, Push2(s, f, g))
    BY <1>1, <1>2, AppendProperties DEF Push2
  <1>4. ASSUME s # <<>>, Top(s).ds = <<>>
        PROVE  CallsKept(s, Pop(s)) /\ CallsKept(s, Push2(Pop(s), f, g))
    <2>1. /\ Pop(s) \in Seq(IFrame) /\ Len(Pop(s)) = Len(s) - 1
          /\ \A i \in 1 .. Len(s) - 1 : Pop(s)[i] = s[i]
          /\ Top(s) = s[Len(s)]
      BY <1>4, PopFacts, TopFacts
    <2>2. CallsKept(s, Pop(s))
      BY <1>4, <1>n, <1>d, <2>1 DEF CallsKept
    <2>3. QED
      BY <1>2, <2>1, <2>2, AppendProperties DEF Push2
  <1>5. ASSUME s # <<>>, Len(f.ds) >= Len(Top(s).ds) \/ f.ds = Pop(Top(s).ds)
        PROVE  /\ CallsKept(s, SetTop(s, f))
               /\ CallsKept(s, Append(SetTop(s, f), g))
    <2>1. /\ SetTop(s, f) \in Seq(IFrame) /\ Len(SetTop(s, f)) = Len(s)
          /\ \A i \in 1 .. Len(s) - 1 : SetTop(s, f)[i] = s[i]
          /\ SetTop(s, f)[Len(s)] = f
          /\ Top(s) = s[Len(s)]
      BY <1>5, SetTopFacts, TopFacts
    <2>2. CallsKept(s, SetTop(s, f))
      BY <1>5, <1>n, <1>d, <2>1 DEF CallsKept
    <2>3. QED
      BY <1>2, <2>1, <2>2
  <1>6. QED
    BY <1>1, <1>3, <1>4, <1>5

(* Every step of the oracle keeps the calls that are owed, or the program   *)
(* has trapped.                                                             *)
LEMMA StepKeepsCalls ==
  ASSUME IInv, INext, ~ifl.trapped
  PROVE  CallsKept(ist, ist')
  <1> USE DEF IAt
  <1>s. ist \in Seq(IFrame) /\ CallsInBlocks(ist)
    BY DEF IInv, ITypeOK, StackInv
  <1>o. \A kind \in IKinds : IOpen(kind) \in IFrame
    BY OpenType
  <1>e. TopKind(ist) # "end" =>
          /\ ist # <<>> /\ Top(ist) \in IFrame /\ TopKind(ist) = Top(ist).k
          /\ Top(ist).k \in {"block", "cleanup"} \/ Top(ist).ds = <<>>
    BY <1>s, TopKindFacts DEF CallsInBlocks
  <1>1. CASE ist' = ist
    BY <1>1, <1>s, <1>o, KeptFacts DEF IKinds
  <1>2. ASSUME NEW f \in IFrame, NEW g \in IFrame,
               ist' = Append(ist, f) \/ ist' = Push2(ist, f, g)
        PROVE  CallsKept(ist, ist')
    BY <1>2, <1>s, KeptFacts
  <1>3. ASSUME NEW f \in IFrame, NEW g \in IFrame,
               TopKind(ist) \notin {"end", "block"}, Top(ist).ds = <<>>,
               ist' = Pop(ist) \/ ist' = Push2(Pop(ist), f, g)
        PROVE  CallsKept(ist, ist')
    BY <1>3, <1>s, <1>e, KeptFacts
  <1>4. ASSUME NEW f \in IFrame, NEW g \in IFrame, ist # <<>>,
               Len(f.ds) >= Len(Top(ist).ds) \/ f.ds = Pop(Top(ist).ds),
               ist' = SetTop(ist, f) \/ ist' = Append(SetTop(ist, f), g)
        PROVE  CallsKept(ist, ist')
    BY <1>4, <1>s, KeptFacts
  <1>b. /\ IOpen("block") \in IFrame /\ IOpen("arm") \in IFrame
        /\ IOpen("operand") \in IFrame /\ IOpen("argument") \in IFrame
        /\ IOpen("handler") \in IFrame /\ IOpen("loop") \in IFrame
        /\ IOpen("with") \in IFrame
    BY <1>o DEF IKinds
  <1>5. CASE ICallFunc
    <2>1. ist = <<>> /\ Len(ist) = 0
      BY <1>5, <1>s, TopKindFacts, EmptySeq DEF ICallFunc
    <2>2. QED
      BY <2>1 DEF CallsKept
  <1>6. CASE \/ IBlock \/ IIterate \/ IMatch \/ ICatch \/ IArgument
    BY <1>6, <1>b, <1>2 DEF IBlock, IIterate, IMatch, ICatch, IArgument, IGoto
  <1>7. ASSUME NEW l \in Label, ILoop(l)
        PROVE  CallsKept(ist, ist')
    <2>1. [IOpen("loop") EXCEPT !.lab = l] \in IFrame
      BY <1>b DEF IFrame
    <2>2. QED
      BY <1>7, <1>b, <1>2, <2>1 DEF ILoop, IGoto
  <1>8. ASSUME NEW a \in Allocs, IWith(a)
        PROVE  CallsKept(ist, ist')
    <2>1. [IOpen("with") EXCEPT !.al = ialloc] \in IFrame
      BY <1>b DEF IFrame, IInv, ITypeOK
    <2>2. QED
      BY <1>8, <1>b, <1>2, <2>1 DEF IWith
  <1>9. CASE ILoopDone \/ IOperandDone \/ IArgumentDone
    BY <1>9, <1>b, <1>e, <1>3 DEF ILoopDone, IOperandDone, IArgumentDone, IGoto
  <1>10. CASE \/ ICall \/ ITrap
              \/ \E l \in Label : IBreak(l) \/ IContinue(l)
              \/ \E v \in Vals : IReturn(v) \/ IRaise(v) \/ IRecover(v)
    BY <1>10, <1>1 DEF ICall, ITrap, IBreak, IContinue, IReturn, IRaise,
                       IRecover, IExit
  <1>11. CASE IEndBlock \/ IStopBlock
    <2>1. ist # <<>> /\ Top(ist) \in IFrame /\ ifl \in Flags
      BY <1>11, <1>e DEF IEndBlock, IStopBlock, IInv, ITypeOK
    <2>2. /\ EndOfBlock(Top(ist), ifl) \in IFrame
          /\ EndOfBlock(Top(ist), ifl).ds = Top(ist).ds
      BY <2>1, FrameType DEF EndOfBlock, IFrame
    <2>3. Len(EndOfBlock(Top(ist), ifl).ds) >= Len(Top(ist).ds)
      BY <2>1, <2>2, LenProperties DEF IFrame
    <2>4. QED
      BY <1>11, <1>4, <1>b, <2>1, <2>2, <2>3 DEF IEndBlock, IStopBlock, IGoto
  <1>12. CASE IRunDeferred \/ ISkipErrdefer
    <2>1. ist # <<>> /\ Top(ist) \in IFrame /\ Top(ist).ds # <<>>
      BY <1>12, <1>e DEF IRunDeferred, ISkipErrdefer, IQuiet, IRunnable
    <2> DEFINE f == [Top(ist) EXCEPT !.ds = Pop(@)]
    <2>2. f \in IFrame /\ f.ds = Pop(Top(ist).ds)
      BY <2>1, FrameType DEF IFrame
    <2>3. ist' = SetTop(ist, f) \/ ist' = Append(SetTop(ist, f), IOpen("block"))
      BY <1>12 DEF IRunDeferred, ISkipErrdefer, IDropped
    <2> HIDE DEF f
    <2>4. QED
      BY <1>4, <1>b, <2>1, <2>2, <2>3
  <1>13. ASSUME NEW d \in Deferred, IDefer(d)
         PROVE  CallsKept(ist, ist')
    <2>1. ist # <<>> /\ Top(ist) \in IFrame
      BY <1>13, <1>e DEF IDefer
    <2> DEFINE f == [Top(ist) EXCEPT !.ds = Append(@, d)]
    <2>2. f \in IFrame /\ f.ds = Append(Top(ist).ds, d) /\ Top(ist).ds \in Seq(Deferred)
      BY <2>1, FrameType DEF IFrame
    <2>3. ist' = SetTop(ist, f)
      BY <1>13 DEF IDefer, IGoto
    <2> HIDE DEF f
    <2>4. Len(f.ds) >= Len(Top(ist).ds)
      BY <2>2, PushFacts, LenProperties
    <2>5. QED
      BY <1>4, <2>1, <2>2, <2>3, <2>4
  <1>14. CASE \/ IEndCleanup \/ IEndWith \/ IEndArm \/ IEndOperand
              \/ IEndHandler \/ IEndArgument
    BY <1>14, <1>b, <1>e, <1>3
       DEF IEndCleanup, IEndWith, IEndArm, IEndOperand, IEndHandler, IEndArgument
  <1>15. CASE ILeaveLoop
    BY <1>15, <1>b, <1>e, <1>1, <1>3 DEF ILeaveLoop
  <1>16. CASE ITrapped
    BY <1>16 DEF ITrapped
  <1>17. QED
    BY <1>5, <1>6, <1>7, <1>8, <1>9, <1>10, <1>11, <1>12, <1>13, <1>14, <1>15,
       <1>16 DEF INext, IStatement, IStep

(* No registered call is lost: exec leaves no level of its recursion while  *)
(* a call registered in it is owed, and takes the calls last first.         *)
THEOREM CallsAreNotLost == ISpec => NoCallLost
  <1>1. IInv /\ [INext]_ivars => [ifl.trapped \/ CallsKept(ist, ist')]_ivars
    BY StepKeepsCalls
  <1>2. QED
    BY <1>1, InvariantHolds, PTL DEF ISpec, NoCallLost

-----------------------------------------------------------------------------
(***************************************************************************)
(* The two executions: what holds between the recursion and the C nesting. *)
(***************************************************************************)

(* What a frame of the recursion has in common with the C statement it is.  *)
Alike(f, h) ==
  /\ f.k = h.k /\ f.ds = h.ds /\ f.failing = h.failing
  /\ f.k = "loop" => f.lab = h.lab
  /\ f.k = "with" => f.al = h.al

(* The loops that a jump labelled l ends in.                                *)
Fits(h, l) == h.k = "loop" /\ (l = NoLabel \/ h.lab = l)

(* The cleanup h, inlined at position c, ends in a jump that leaves the     *)
(* scopes from position p on, and no cleanup around it.                     *)
Aimed(t, c, h, p) ==
  /\ p \in 1 .. c
  /\ \A i \in p .. c - 1 : t[i].k # "cleanup"
  /\ h.jump = "fall" => p = c - 1
  /\ h.jump = "return" => p = 1
  /\ h.jump = "fail" => /\ \A i \in p .. c - 1 : t[i].k # "operand"
                        /\ p = 1 \/ t[p - 1].k = "operand"
  /\ h.jump = "recover" => /\ \A i \in p .. c - 1 : t[i].k # "handler"
                           /\ p > 1 /\ t[p - 1].k = "handler"
  /\ h.jump \in {"break", "continue"} =>
       /\ Fits(t[p], h.lab)
       /\ \A i \in p + 1 .. c - 1 : ~Fits(t[i], h.lab)
       /\ \A i \in p .. c - 1 : t[i].k # "argument"
  /\ h.jump = "break" /\ h.lab = NoLabel => \A i \in p .. c - 1 : t[i].k # "arm"

(* The flags that the oracle carries where the binary has that jump to do.  *)
Carries(fl, h) ==
  /\ fl.returning <=> h.jump \in {"return", "fail", "recover"}
  /\ fl.breaking <=> h.jump = "break"
  /\ fl.continuing <=> h.jump = "continue"
  /\ fl.returning => (fl.failed <=> h.jump = "fail")
  /\ h.jump \in {"return", "fail"} => fl.val = h.val
  /\ h.jump = "recover" => fl.recovered /\ fl.rec = h.val
  /\ h.jump \in {"break", "continue"} => fl.jump = h.lab

(* No handler among the first n levels, up to the last cleanup, has         *)
(* recovered.                                                               *)
Unrecovered(s, n, fl) ==
  (\E i \in 1 .. n : s[i].k = "handler" /\ \A j \in i .. n : s[j].k # "cleanup")
    => ~fl.recovered

(* Level i of the recursion is the cleanup at position c, which has reached *)
(* the block at position q.                                                 *)
Unwinding(s, i, t, c, q) ==
  /\ q < c /\ t[c].at = q /\ t[c].to \in 1 .. q
  /\ t[q].k = "block"
  /\ Aimed(t, c, t[c], t[c].to)
  /\ Carries(s[i].fl, t[c])
  /\ t[c].failing <=> t[c].jump = "fail"
  /\ t[c].jump = "recover" \/ Unrecovered(s, i - 1, s[i].fl)

(* Level i of the recursion s is at position g[i] of the C nesting t.       *)
Placed(s, t, g) ==
  /\ g \in [0 .. Len(s) -> Nat]
  /\ g[0] = 0 /\ g[Len(s)] <= Len(t)
  /\ \A i \in 1 .. Len(s) :
       /\ g[i - 1] < g[i]
       /\ Alike(s[i], t[g[i]])
       /\ s[i].k # "cleanup" => g[i] = g[i - 1] + 1
       /\ s[i].k = "cleanup" => Unwinding(s, i, t, g[i], g[i - 1] + 1)

(* What the caller sees of the flags.                                       *)
ResultOf(fl) ==
  IF fl.trapped THEN <<"trapped", Unit>>
  ELSE IF ~fl.returning THEN <<"value", Unit>>
  ELSE <<IF fl.failed THEN "failed" ELSE "value", fl.val>>

(* The kinds of the levels at which the next statement is the program's.    *)
Resting == {"end", "block", "loop", "operand", "argument"}

(* No exit is under way: the two are at the same place.                     *)
Settled(s, fl, o, t, r, g) ==
  /\ Placed(s, t, g) /\ g[Len(s)] = Len(t)
  /\ ~fl.trapped
  /\ TopKind(s) \in Resting \/ o = Unit
  /\ s = <<>> => r = ResultOf(fl)
  /\ s # <<>> =>
       /\ r = <<"value", Unit>>
       /\ Top(s).k # "cleanup" =>
            /\ ~fl.returning /\ ~fl.breaking /\ ~fl.continuing
            /\ Unrecovered(s, Len(s), fl)

(* An exit to the scopes from p on is under way.  The levels of s are still *)
(* open; h is the cleanup that the binary is in.                            *)
Bound(s, fl, o, t, r, g, p) ==
  LET h == t[Len(t)] IN
  /\ Placed(s, t, g) /\ g[Len(s)] < Len(t)
  /\ h.k = "cleanup" /\ h.jump # "fall"
  /\ Aimed(t, Len(t), h, p)
  /\ Carries(fl, h)
  /\ h.jump = "recover" \/ Unrecovered(s, Len(s), fl)
  /\ ~fl.trapped /\ o = Unit /\ r = <<"value", Unit>>

(* It cleans up: the binary has reached the scope that the oracle is in.    *)
Leaving(s, fl, o, t, r, g, p) ==
  LET h == t[Len(t)] IN
  /\ Bound(s, fl, o, t, r, g, p)
  /\ s # <<>> /\ Top(s).k # "cleanup"
  /\ h.to = p /\ h.at = g[Len(s)]
  /\ h.at >= p \/ (h.at = p - 1 /\ h.jump \in {"fail", "recover"})
  /\ h.ds = IF h.at >= p THEN t[h.at].ds ELSE <<>>
  /\ h.failing <=> h.jump = "fail"

(* It is a bare C jump, that cleans up nothing: nothing is owed.            *)
Bare(s, fl, o, t, r, g, p) ==
  LET h == t[Len(t)] IN
  /\ Bound(s, fl, o, t, r, g, p)
  /\ h.to = Len(t) /\ h.at = Len(t) - 1 /\ h.ds = <<>>
  /\ h.jump \in {"return", "break", "continue"}
  /\ \A i \in 1 .. Len(s) : g[i] >= p => s[i].ds = <<>> /\ s[i].k # "with"

(* The oracle is in a level, or in the cleanup of one, that owes nothing.   *)
BareLevel(s, fl, o, t, r, g, p) ==
  /\ Bare(s, fl, o, t, r, g, p)
  /\ s # <<>> /\ Top(s).k # "cleanup" /\ g[Len(s)] >= p

(* The same, with a cleanup on top that has no call left to make.           *)
BareCleanup(s, fl, o, t, r, g, p) ==
  /\ s # <<>> /\ Top(s).k = "cleanup" /\ Top(s).ds = <<>> /\ Top(s).fl = fl
  /\ Bare(Pop(s), fl, o, t, r, g, p)
  /\ g[Len(s) - 1] >= p - 1 /\ t[g[Len(s) - 1] + 1].k = "block"

(* The program has trapped: the binary has stopped.                         *)
Dead(fl, o, t, r) == fl.trapped /\ o = Unit /\ t = <<>> /\ r = <<"trapped", Unit>>

(* The binary's state, and its next one while it works its way out.         *)
State(t, a, r, o) == [st |-> t, al |-> a, ret |-> r, out |-> o]

(* The top of the C nesting writes a statement, not a step of an exit.      *)
Quiet(t) ==
  IF TopKind(t) = "cleanup"
  THEN Top(t).ds # <<>> /\ (Top(Top(t).ds).errOnly => Top(t).failing)
  ELSE TopKind(t) \in Resting

(* The loops that a jump out of an exit looks for.                          *)
Loops(t, l) == {i \in Of(Pop(t), {"loop"}) : Fits(t[i], l)}

(* The jump of an exit whose cleanups are written.                          *)
JumpDone(e) ==
  LET t == e.st
      h == Top(t)
      Inner(K) == Innermost(Of(Pop(t), K))
      To(u) == State(u, e.al, e.ret, e.out)
  IN  CASE h.jump = "fall" -> To(Cut(t, Len(t) - 2))
        [] h.jump = "return" -> State(<<>>, e.al, <<"value", h.val>>, e.out)
        [] h.jump = "fail" /\ Inner({"operand"}) = 0 ->
             State(<<>>, e.al, <<"failed", h.val>>, e.out)
        [] h.jump = "fail" /\ Inner({"operand"}) # 0 ->
             State(Push2(Cut(t, Inner({"operand"}) - 1), EOpen("handler"), EOpen("block")),
                   e.al, e.ret, h.val)
        [] h.jump = "break" /\ h.lab = NoLabel -> To(Cut(t, Inner({"loop", "arm"}) - 1))
        [] h.jump = "break" /\ h.lab # NoLabel -> To(Cut(t, Innermost(Loops(t, h.lab)) - 1))
        [] h.jump = "continue" -> To(Cut(t, Innermost(Loops(t, h.lab))))
        [] h.jump = "recover" ->
             State(Cut(t, Inner({"handler"}) - 1), e.al, e.ret, h.val)

(* The cleanup h, gone on to the next scope out.                            *)
Outer(t, h) ==
  [h EXCEPT !.at = @ - 1, !.ds = IF h.at > h.to THEN t[h.at - 1].ds ELSE <<>>]

(* One step of the binary on its way out, as a function.                    *)
After(e) ==
  LET t == e.st
      h == Top(t)
      To(u) == State(u, e.al, e.ret, e.out)
  IN  CASE TopKind(t) = "with" -> State(Pop(t), h.al, e.ret, e.out)
        [] TopKind(t) = "arm" -> To(Pop(t))
        [] TopKind(t) = "handler" -> State(Pop(t), e.al, e.ret, Unit)
        [] TopKind(t) = "cleanup" /\ h.ds # <<>> ->
             To(SetTop(t, [h EXCEPT !.ds = Pop(@)]))
        [] TopKind(t) = "cleanup" /\ h.ds = <<>> /\ h.at >= h.to ->
             State(SetTop(t, Outer(t, h)), IF t[h.at].k = "with" THEN t[h.at].al ELSE e.al,
                   e.ret, e.out)
        [] TopKind(t) = "cleanup" /\ h.ds = <<>> /\ h.at < h.to -> JumpDone(e)

(* The C statements.                                                        *)
Jumps == {"fall", "return", "fail", "break", "continue", "recover"}

(* A level of the C nesting.                                                *)
EFrame ==
  [k : IKinds, lab : Label, ds : Seq(Deferred), al : Allocs, failing : BOOLEAN,
   at : Int, to : Int, jump : Jumps, val : Value]

(* A finite run of the binary on its way out, from e to f.                  *)
Reaches(e, f) ==
  \E n \in Nat : \E p :
    /\ p[0] = e /\ p[n] = f
    /\ \A i \in 0 .. n : p[i].st \in Seq(EFrame)
    /\ \A i \in 0 .. n - 1 : ~Quiet(p[i].st) /\ p[i + 1] = After(p[i])

(* What an operand, a handler and an argument are written in.               *)
Shape(s) ==
  \A i \in 1 .. Len(s) :
    s[i].k \in {"operand", "handler", "argument"} =>
      i > 1 /\ s[i - 1].k \in {"block", "operand", "argument"}

(* The oracle and a binary with the C nesting t are at the same place, or   *)
(* on the same way out.                                                     *)
Follows(s, fl, o, t, r) ==
  \/ Dead(fl, o, t, r)
  \/ \E g : Settled(s, fl, o, t, r, g)
  \/ \E g, p : \/ Leaving(s, fl, o, t, r, g, p)
              \/ BareLevel(s, fl, o, t, r, g, p)
              \/ BareCleanup(s, fl, o, t, r, g, p)

-----------------------------------------------------------------------------
(***************************************************************************)
(* Positions.                                                              *)
(***************************************************************************)

(* Some member of a set of numbers is the least.                            *)
LEMMA LeastOf ==
  ASSUME NEW P \in SUBSET Nat, P # {}
  PROVE  \E m \in P : \A q \in P : m <= q
  <1> DEFINE R == {ss \in Nat \X Nat : ss[1] < ss[2]}
  <1>1. IsWellFoundedOn(R, Nat)
    BY NatLessThanWellFounded DEF OpToRel
  <1> HIDE DEF R
  <1>2. PICK x \in P : \A y \in P : ~(<<y, x>> \in R)
    BY <1>1, WFMin, Zenon
  <1>3. \A y \in P : ~(y < x)
    BY <1>2 DEF R
  <1>4. QED
    BY <1>3

(* Some position of a set of positions is the innermost.                    *)
LEMMA GreatestOf ==
  ASSUME NEW n \in Nat, NEW P \in SUBSET (1 .. n), P # {}
  PROVE  \E m \in P : \A q \in P : q <= m
  <1> DEFINE D == {n - i : i \in P}
  <1>1. D \in SUBSET Nat /\ D # {}
    <2>1. \A i \in P : n - i \in Nat
      OBVIOUS
    <2>2. D \subseteq Nat
      BY <2>1, Zenon
    <2>3. QED
      BY <2>2
  <1>2. PICK d \in D : \A e \in D : d <= e
    BY <1>1, LeastOf
  <1>3. PICK m \in P : d = n - m
    BY <1>2
  <1>4. \A q \in P : d <= n - q
    BY <1>2
  <1>5. QED
    BY <1>3, <1>4

(* Innermost picks the position that no other of the set is above.          *)
LEMMA InnermostIs ==
  ASSUME NEW P \in SUBSET Int, NEW m \in P, \A q \in P : q <= m
  PROVE  Innermost(P) = m
  <1>1. \A x \in P : (\A q \in P : q <= x) => x = m
    OBVIOUS
  <1>2. QED
    BY <1>1 DEF Innermost

(* What Innermost is of any set of positions.                               *)
LEMMA InnermostOf ==
  ASSUME NEW n \in Nat, NEW P \in SUBSET (1 .. n)
  PROVE  /\ Innermost(P) \in 0 .. n
         /\ P = {} <=> Innermost(P) = 0
         /\ P # {} => Innermost(P) \in P /\ \A q \in P : q <= Innermost(P)
  <1>1. CASE P = {}
    BY <1>1 DEF Innermost
  <1>2. CASE P # {}
    <2>1. PICK m \in P : \A q \in P : q <= m
      BY <1>2, GreatestOf
    <2>2. Innermost(P) = m
      BY <2>1, InnermostIs
    <2>3. QED
      BY <1>2, <2>1, <2>2
  <1>3. QED
    BY <1>1, <1>2

(* What cutting a stack leaves of it.                                       *)
LEMMA CutFacts ==
  ASSUME NEW S, NEW s \in Seq(S), NEW n \in 0 .. Len(s)
  PROVE  /\ Cut(s, n) \in Seq(S)
         /\ Len(Cut(s, n)) = n
         /\ \A i \in 1 .. n : Cut(s, n)[i] = s[i]
  <1>1. \A i \in 1 .. n : s[i] \in S
    BY ElementOfSeq, LenProperties
  <1>2. /\ SubSeq(s, 1, n) \in Seq(S)
        /\ Len(SubSeq(s, 1, n)) = IF 1 <= n THEN n - 1 + 1 ELSE 0
        /\ \A i \in 1 .. n - 1 + 1 : SubSeq(s, 1, n)[i] = s[1 + i - 1]
    BY <1>1, LenProperties, SubSeqProperties
  <1>3. QED
    BY <1>2 DEF Cut

(* Pushing two frames.                                                      *)
LEMMA PushTwoFacts ==
  ASSUME NEW S, NEW s \in Seq(S), NEW f \in S, NEW h \in S
  PROVE  /\ Push2(s, f, h) \in Seq(S)
         /\ Len(Push2(s, f, h)) = Len(s) + 2
         /\ \A i \in 1 .. Len(s) : Push2(s, f, h)[i] = s[i]
         /\ Push2(s, f, h)[Len(s) + 1] = f
         /\ Push2(s, f, h)[Len(s) + 2] = h
  <1>1. /\ Append(s, f) \in Seq(S)
        /\ Len(Append(s, f)) = Len(s) + 1
        /\ \A i \in 1 .. Len(s) : Append(s, f)[i] = s[i]
        /\ Append(s, f)[Len(s) + 1] = f
    BY PushFacts
  <1> DEFINE u == Append(s, f)
  <1>2. u \in Seq(S)
    BY <1>1
  <1> HIDE DEF u
  <1>3. /\ Append(u, h) \in Seq(S)
        /\ Len(Append(u, h)) = Len(u) + 1
        /\ \A i \in 1 .. Len(u) : Append(u, h)[i] = u[i]
        /\ Append(u, h)[Len(u) + 1] = h
    BY <1>2, PushFacts
  <1>4. Push2(s, f, h) = Append(u, h) /\ Len(s) \in Nat
    BY LenProperties DEF Push2, u
  <1>5. QED
    BY <1>1, <1>3, <1>4 DEF u

(* Two stacks that hold the same frames are the same.                       *)
LEMMA SameStack ==
  ASSUME NEW S, NEW s \in Seq(S), NEW u \in Seq(S), Len(s) = Len(u),
         \A i \in 1 .. Len(s) : s[i] = u[i]
  PROVE  s = u
  BY SeqEqual

-----------------------------------------------------------------------------
(***************************************************************************)
(* The levels of the recursion and their positions in the C nesting.       *)
(***************************************************************************)

(* A level further in is at a position further in.                          *)
LEMMA Increasing ==
  ASSUME NEW s \in Seq(IFrame), NEW t, NEW g, Placed(s, t, g),
         NEW i \in 0 .. Len(s), NEW j \in 0 .. Len(s), i < j
  PROVE  g[i] < g[j]
  <1>1. Len(s) \in Nat /\ \A k \in 0 .. Len(s) : g[k] \in Nat
    BY LenProperties DEF Placed
  <1>2. \A k \in 1 .. Len(s) : g[k - 1] < g[k]
    BY DEF Placed
  <1> DEFINE P == {k \in 0 .. Len(s) : i < k /\ g[k] <= g[i]}
  <1>3. CASE P # {}
    <2>1. PICK m \in P : \A q \in P : m <= q
      <3>1. P \in SUBSET Nat
        BY <1>1
      <3> HIDE DEF P
      <3>2. QED
        BY <1>3, <3>1, LeastOf
    <2>2. m \in 1 .. Len(s) /\ i < m /\ g[m] <= g[i] /\ m - 1 \in 0 .. Len(s)
      BY <1>1, <2>1
    <2>3. g[m - 1] < g[m]
      BY <1>2, <2>2
    <2>4. m - 1 \notin P
      BY <2>1, <2>2
    <2>5. m - 1 = i \/ g[i] < g[m - 1]
      BY <1>1, <2>2, <2>4
    <2>6. QED
      BY <1>1, <2>2, <2>3, <2>5
  <1>4. CASE P = {}
    BY <1>1, <1>4
  <1>5. QED
    BY <1>3, <1>4

(* Levels with no cleanup among them are at consecutive positions.          *)
LEMMA Straight ==
  ASSUME NEW s \in Seq(IFrame), NEW t, NEW g, Placed(s, t, g),
         NEW i \in 0 .. Len(s), NEW j \in 0 .. Len(s), i <= j,
         \A k \in i + 1 .. j : s[k].k # "cleanup"
  PROVE  g[j] = g[i] + (j - i)
  <1>1. Len(s) \in Nat /\ \A k \in 0 .. Len(s) : g[k] \in Nat
    BY LenProperties DEF Placed
  <1>2. \A k \in 1 .. Len(s) : s[k].k # "cleanup" => g[k] = g[k - 1] + 1
    BY DEF Placed
  <1> DEFINE P == {k \in 0 .. Len(s) : i <= k /\ k <= j /\ g[k] # g[i] + (k - i)}
  <1>3. CASE P # {}
    <2>1. PICK m \in P : \A q \in P : m <= q
      <3>1. P \in SUBSET Nat
        BY <1>1
      <3> HIDE DEF P
      <3>2. QED
        BY <1>3, <3>1, LeastOf
    <2>2. i < m /\ m <= j /\ m \in 1 .. Len(s) /\ m - 1 \in 0 .. Len(s) /\ m \in i + 1 .. j
      BY <1>1, <2>1
    <2>3. g[m] = g[m - 1] + 1
      BY <1>2, <2>2
    <2>4. m - 1 \notin P
      BY <2>1, <2>2
    <2>5. g[m - 1] = g[i] + (m - 1 - i)
      BY <1>1, <2>2, <2>4
    <2>6. QED
      BY <1>1, <2>1, <2>2, <2>3, <2>5
  <1>4. CASE P = {}
    BY <1>1, <1>4
  <1>5. QED
    BY <1>3, <1>4

(* The first levels of s are placed as they were, however s and t go on.    *)
LEMMA PlacedFirst ==
  ASSUME NEW s \in Seq(IFrame), NEW t, NEW g, Placed(s, t, g),
         NEW n \in 0 .. Len(s), NEW u \in Seq(IFrame), Len(u) = n,
         \A i \in 1 .. n : u[i] = s[i],
         NEW v, Len(v) \in Nat, g[n] <= Len(v), \A i \in 1 .. g[n] : v[i] = t[i]
  PROVE  Placed(u, v, [i \in 0 .. n |-> g[i]])
  <1> DEFINE f == [i \in 0 .. n |-> g[i]]
  <1>1. /\ Len(s) \in Nat /\ n \in Nat /\ g \in [0 .. Len(s) -> Nat] /\ g[0] = 0
        /\ \A i \in 1 .. Len(s) :
             /\ g[i - 1] < g[i] /\ Alike(s[i], t[g[i]])
             /\ s[i].k # "cleanup" => g[i] = g[i - 1] + 1
             /\ s[i].k = "cleanup" => Unwinding(s, i, t, g[i], g[i - 1] + 1)
    BY LenProperties DEF Placed
  <1>2. f \in [0 .. n -> Nat] /\ f[0] = 0 /\ f[n] <= Len(v)
    BY <1>1
  <1>3. \A i \in 1 .. n : g[i] \in Nat /\ g[i] <= g[n]
    <2> SUFFICES ASSUME NEW i \in 1 .. n PROVE g[i] \in Nat /\ g[i] <= g[n]
      OBVIOUS
    <2>1. i \in 0 .. Len(s) /\ n \in 0 .. Len(s) /\ (i = n \/ i < n)
      BY <1>1
    <2>2. i < n => g[i] < g[n]
      BY <2>1, Increasing
    <2>3. g[i] \in Nat /\ g[n] \in Nat
      BY <1>1, <2>1
    <2>4. QED
      BY <2>1, <2>2, <2>3
  <1>4. ASSUME NEW i \in 1 .. n, s[i].k = "cleanup"
        PROVE  Unwinding(u, i, v, g[i], g[i - 1] + 1)
    <2> DEFINE c == g[i]
               q == g[i - 1] + 1
    <2>1. i \in 1 .. Len(s) /\ c \in Nat /\ q \in Nat /\ 1 <= q /\ c <= g[n]
      <3>1. i \in 1 .. Len(s) /\ i - 1 \in 0 .. Len(s)
        BY <1>1
      <3>2. g[i - 1] \in Nat /\ g[i] \in Nat /\ g[i] <= g[n]
        BY <1>1, <1>3, <3>1
      <3>3. QED
        BY <3>1, <3>2
    <2>2. Unwinding(s, i, t, c, q)
      BY <1>1, <1>4, <2>1
    <2> HIDE DEF c, q
    <2>3. q < c /\ \A x \in 1 .. c : v[x] = t[x]
      <3>1. q < c
        BY <2>2 DEF Unwinding
      <3>2. g[n] \in Nat
        BY <1>1
      <3>3. \A x \in 1 .. c : x \in 1 .. g[n]
        BY <2>1, <3>2
      <3>4. QED
        BY <3>1, <3>3
    <2>4. v[c] = t[c] /\ v[q] = t[q] /\ u[i] = s[i]
      BY <2>1, <2>3
    <2>5. Aimed(v, c, v[c], v[c].to)
      <3>1. Aimed(t, c, t[c], t[c].to)
        BY <2>2 DEF Unwinding
      <3>2. t[c].to \in 1 .. c
        BY <3>1 DEF Aimed
      <3>3. v[t[c].to] = t[t[c].to] /\ (t[c].to > 1 => v[t[c].to - 1] = t[t[c].to - 1])
        BY <2>1, <2>3, <3>2
      <3>4. \A x \in t[c].to .. c - 1 : v[x] = t[x]
        BY <2>1, <2>3, <3>2
      <3>5. Aimed(v, c, t[c], t[c].to)
        <4> DEFINE h == t[c]
                   p == t[c].to
        <4>1. Aimed(t, c, h, p) /\ p \in 1 .. c
          BY <3>1, <3>2
        <4>2. /\ v[p] = t[p] /\ (p > 1 => v[p - 1] = t[p - 1])
              /\ \A x \in p .. c - 1 : v[x] = t[x]
          BY <3>3, <3>4
        <4>3. \A x \in p + 1 .. c - 1 : x \in p .. c - 1
          BY <2>1, <4>1
        <4>4. p = 1 \/ p > 1
          BY <2>1, <4>1
        <4> HIDE DEF h, p
        <4>5. Aimed(v, c, h, p)
          BY <4>1, <4>2, <4>3, <4>4 DEF Aimed
        <4>6. QED
          BY <4>5 DEF h, p
      <3>6. QED
        BY <2>4, <3>5
    <2>6. Unrecovered(s, i - 1, s[i].fl) => Unrecovered(u, i - 1, u[i].fl)
      <3>1. \A j \in 1 .. i - 1 : u[j] = s[j]
        BY <1>1
      <3>2. ASSUME Unrecovered(s, i - 1, s[i].fl), NEW j \in 1 .. i - 1, u[j].k = "handler",
                   \A x \in j .. i - 1 : u[x].k # "cleanup"
            PROVE  ~u[i].fl.recovered
        <4>1. \A x \in j .. i - 1 : x \in 1 .. i - 1
          BY ONLY j \in 1 .. i - 1, i \in 1 .. n, <1>1
        <4>2. s[j].k = "handler" /\ \A x \in j .. i - 1 : s[x].k # "cleanup"
          BY ONLY <3>1, <3>2, <4>1
        <4>3. QED
          BY ONLY <2>4, <3>2, <4>2 DEF Unrecovered
      <3>3. QED
        BY ONLY <3>2 DEF Unrecovered
    <2>7. Unwinding(u, i, v, c, q)
      BY <2>2, <2>3, <2>4, <2>5, <2>6 DEF Unwinding
    <2>8. QED
      BY <2>7 DEF c, q
  <1>5. \A i \in 1 .. n : u[i] = s[i] /\ v[g[i]] = t[g[i]] /\ f[i] = g[i] /\ f[i - 1] = g[i - 1]
    <2>1. \A i \in 1 .. n : g[i] \in 1 .. g[n]
      BY <1>1, <1>3
    <2>2. QED
      BY <1>1, <2>1
  <1> HIDE DEF f
  <1>6. Placed(u, v, f)
    <2>1. f \in [0 .. Len(u) -> Nat] /\ f[0] = 0 /\ f[Len(u)] <= Len(v)
      BY <1>2
    <2>2. ASSUME NEW i \in 1 .. Len(u)
          PROVE  /\ f[i - 1] < f[i] /\ Alike(u[i], v[f[i]])
                 /\ u[i].k # "cleanup" => f[i] = f[i - 1] + 1
                 /\ u[i].k = "cleanup" => Unwinding(u, i, v, f[i], f[i - 1] + 1)
      <3>1. i \in 1 .. n /\ i \in 1 .. Len(s)
        BY <1>1
      <3>2. QED
        BY <1>1, <1>4, <1>5, <3>1
    <2>3. QED
      BY <2>1, <2>2 DEF Placed
  <1>7. QED
    BY <1>6 DEF f

(* One more level, further in.                                              *)
LEMMA PlacedNext ==
  ASSUME NEW s \in Seq(IFrame), NEW t, Len(t) \in Nat, NEW g, Placed(s, t, g),
         NEW u \in Seq(IFrame), Len(u) = Len(s) + 1,
         \A i \in 1 .. Len(s) : u[i] = s[i],
         NEW c \in 1 .. Len(t), g[Len(s)] < c, Alike(u[Len(u)], t[c]),
         u[Len(u)].k # "cleanup" => c = g[Len(s)] + 1,
         u[Len(u)].k = "cleanup" => Unwinding(u, Len(u), t, c, g[Len(s)] + 1)
  PROVE  Placed(u, t, [i \in 0 .. Len(u) |-> IF i = Len(u) THEN c ELSE g[i]])
  <1> DEFINE f == [i \in 0 .. Len(u) |-> IF i = Len(u) THEN c ELSE g[i]]
  <1>1. /\ Len(s) \in Nat /\ g \in [0 .. Len(s) -> Nat] /\ g[0] = 0
        /\ \A i \in 1 .. Len(s) :
             /\ g[i - 1] < g[i] /\ Alike(s[i], t[g[i]])
             /\ s[i].k # "cleanup" => g[i] = g[i - 1] + 1
             /\ s[i].k = "cleanup" => Unwinding(s, i, t, g[i], g[i - 1] + 1)
    BY LenProperties DEF Placed
  <1>2. /\ f \in [0 .. Len(u) -> Nat] /\ f[0] = 0 /\ f[Len(u)] = c
        /\ \A i \in 0 .. Len(s) : f[i] = g[i]
    BY <1>1
  <1> HIDE DEF f
  <1>3. ASSUME NEW i \in 1 .. Len(s)
        PROVE  /\ f[i - 1] < f[i] /\ Alike(u[i], t[f[i]])
               /\ u[i].k # "cleanup" => f[i] = f[i - 1] + 1
               /\ u[i].k = "cleanup" => Unwinding(u, i, t, f[i], f[i - 1] + 1)
    <2>1. /\ u[i] = s[i] /\ f[i] = g[i] /\ f[i - 1] = g[i - 1]
          /\ \A j \in 1 .. i : u[j] = s[j]
      BY <1>1, <1>2
    <2>2. Unrecovered(s, i - 1, s[i].fl) => Unrecovered(u, i - 1, s[i].fl)
      <3>1. \A j \in 1 .. i - 1 : u[j] = s[j]
        BY <1>1, <2>1
      <3>2. \A j \in 1 .. i - 1 : \A k \in j .. i - 1 : k \in 1 .. i - 1
        BY <1>1
      <3>3. ASSUME Unrecovered(s, i - 1, s[i].fl), NEW m \in 1 .. i - 1, u[m].k = "handler",
                   \A k \in m .. i - 1 : u[k].k # "cleanup"
            PROVE  ~s[i].fl.recovered
        <4>1. s[m].k = "handler" /\ \A k \in m .. i - 1 : s[k].k # "cleanup"
          BY <3>1, <3>2, <3>3
        <4>2. QED
          BY <3>3, <4>1 DEF Unrecovered
      <3>4. QED
        BY <3>3 DEF Unrecovered
    <2>3. Unwinding(s, i, t, g[i], g[i - 1] + 1) => Unwinding(u, i, t, g[i], g[i - 1] + 1)
      BY <2>1, <2>2 DEF Unwinding
    <2>4. QED
      BY <1>1, <2>1, <2>3
  <1>4. /\ f[Len(u) - 1] < f[Len(u)] /\ Alike(u[Len(u)], t[f[Len(u)]])
        /\ u[Len(u)].k # "cleanup" => f[Len(u)] = f[Len(u) - 1] + 1
        /\ u[Len(u)].k = "cleanup" => Unwinding(u, Len(u), t, f[Len(u)], f[Len(u) - 1] + 1)
    <2>1. f[Len(u)] = c /\ f[Len(u) - 1] = g[Len(s)]
      BY <1>1, <1>2
    <2>2. QED
      BY <2>1
  <1>5. \A i \in 1 .. Len(u) : i \in 1 .. Len(s) \/ i = Len(u)
    BY <1>1
  <1>6. Placed(u, t, f)
    BY <1>2, <1>3, <1>4, <1>5 DEF Placed
  <1>7. QED
    BY <1>6 DEF f

(* Where the C nesting is free of cleanups down to position p, its positions*)
(* are the levels of the recursion, one by one.                             *)
LEMMA Region ==
  ASSUME NEW s \in Seq(IFrame), NEW t, NEW g, Placed(s, t, g),
         NEW p \in Nat \ {0}, p <= g[Len(s)] + 1,
         \A x \in p .. g[Len(s)] : t[x].k # "cleanup"
  PROVE  /\ \A x \in p - 1 .. g[Len(s)] :
              /\ Len(s) - (g[Len(s)] - x) \in 0 .. Len(s)
              /\ g[Len(s) - (g[Len(s)] - x)] = x
         /\ \A x \in p .. g[Len(s)] :
              /\ Len(s) - (g[Len(s)] - x) \in 1 .. Len(s)
              /\ Alike(s[Len(s) - (g[Len(s)] - x)], t[x])
  <1> DEFINE n == Len(s)
             B == {i \in 1 .. n : s[i].k = "cleanup"}
  <1>1. /\ n \in Nat /\ g \in [0 .. n -> Nat] /\ g[0] = 0
        /\ \A i \in 1 .. n : Alike(s[i], t[g[i]])
    BY LenProperties DEF Placed
  <1>2. PICK b \in 0 .. n : /\ b = 0 \/ b \in B
                            /\ \A i \in b + 1 .. n : s[i].k # "cleanup"
    <2>1. CASE B = {}
      BY <1>1, <2>1
    <2>2. CASE B # {}
      <3>1. PICK m \in B : \A q \in B : q <= m
        BY <1>1, <2>2, GreatestOf
      <3>2. QED
        BY <1>1, <3>1
    <2>3. QED
      BY <2>1, <2>2
  <1>3. ASSUME NEW i \in b .. n
        PROVE  g[i] = g[b] + (i - b)
    <2>1. i \in 0 .. Len(s) /\ b \in 0 .. Len(s) /\ b <= i
      BY <1>1
    <2>2. \A k \in b + 1 .. i : s[k].k # "cleanup"
      BY <1>1, <1>2
    <2>3. QED
      BY <2>1, <2>2, Straight
  <1>5. g[n] = g[b] + (n - b) /\ g[b] \in Nat /\ g[n] \in Nat
    BY <1>1, <1>2, <1>3
  <1>a. p \in Nat \ {0} /\ b \in Nat /\ n \in Nat /\ b <= n
    BY <1>1
  <1>4. g[b] < p
    <2>1. CASE b = 0
      BY <1>1, <2>1
    <2>2. CASE b \in B
      <3>1. t[g[b]].k = "cleanup" /\ b \in 1 .. n /\ g[b] \in Nat
        BY <1>1, <2>2 DEF Alike
      <3>2. g[b] <= g[n]
        BY <1>5, <1>a
      <3>3. QED
        BY <1>1, <3>1, <3>2
    <2>3. QED
      BY <1>2, <2>1, <2>2
  <1>6. ASSUME NEW x \in p - 1 .. g[n]
        PROVE  /\ n - (g[n] - x) \in b .. n
               /\ g[n - (g[n] - x)] = x
               /\ x >= p => n - (g[n] - x) \in 1 .. n /\ Alike(s[n - (g[n] - x)], t[x])
    <2>1. x \in Int /\ g[b] <= x /\ x <= g[n] /\ (x >= p => g[b] < x)
      BY <1>4, <1>5
    <2>2. n - (g[n] - x) \in b .. n
      BY ONLY <1>a, <1>5, <2>1
    <2> DEFINE y == n - (g[n] - x)
    <2>3. g[y] = x
      <3>1. y \in b .. n /\ y = x - g[b] + b
        BY ONLY <1>a, <1>5, <2>1, <2>2
      <3> HIDE DEF y, n
      <3>2. g[y] = g[b] + (y - b)
        BY <1>3, <3>1
      <3>3. QED
        <4> DEFINE z == g[b]
        <4>1. /\ z \in Nat /\ b \in Nat /\ x \in Int /\ y \in Int
              /\ y = x - z + b /\ g[y] = z + (y - b)
          BY ONLY <1>a, <1>5, <2>1, <3>1, <3>2
        <4> HIDE DEF z
        <4>2. QED
          BY ONLY <4>1
    <2>4. x >= p => y \in 1 .. n
      <3>1. y \in b .. n /\ y = x - g[b] + b
        BY ONLY <1>a, <1>5, <2>1, <2>2
      <3>2. x >= p => g[b] < x
        BY <2>1
      <3> HIDE DEF y, n
      <3>3. QED
        BY <1>a, <1>5, <2>1, <3>1, <3>2
    <2>5. QED
      BY <1>1, <2>2, <2>3, <2>4
  <1>7. \A x \in p .. g[n] : x \in p - 1 .. g[n] /\ x >= p
    BY <1>5
  <1>8. b .. n \subseteq 0 .. n
    BY <1>1, <1>2
  <1>9. QED
    BY <1>6, <1>7, <1>8

-----------------------------------------------------------------------------
(***************************************************************************)
(* The binary on its way out.                                              *)
(***************************************************************************)

(* A run of no step.                                                        *)
LEMMA ReachSelf ==
  ASSUME NEW e, e.st \in Seq(EFrame)
  PROVE  Reaches(e, e)
  <1> DEFINE p == [i \in 0 .. 0 |-> e]
  <1>1. /\ p[0] = e /\ \A i \in 0 .. 0 : p[i].st \in Seq(EFrame)
        /\ \A i \in 0 .. 0 - 1 : ~Quiet(p[i].st) /\ p[i + 1] = After(p[i])
    OBVIOUS
  <1> HIDE DEF p
  <1>2. QED
    BY <1>1 DEF Reaches

(* A run goes on where the binary does not wait.                            *)
LEMMA ReachOn ==
  ASSUME NEW e, NEW f, Reaches(e, f), ~Quiet(f.st), After(f).st \in Seq(EFrame)
  PROVE  Reaches(e, After(f))
  <1>1. PICK n \in Nat : \E p :
          /\ p[0] = e /\ p[n] = f
          /\ \A i \in 0 .. n : p[i].st \in Seq(EFrame)
          /\ \A i \in 0 .. n - 1 : ~Quiet(p[i].st) /\ p[i + 1] = After(p[i])
    BY DEF Reaches
  <1>2. PICK p :
          /\ p[0] = e /\ p[n] = f
          /\ \A i \in 0 .. n : p[i].st \in Seq(EFrame)
          /\ \A i \in 0 .. n - 1 : ~Quiet(p[i].st) /\ p[i + 1] = After(p[i])
    BY <1>1
  <1> DEFINE q == [i \in 0 .. n + 1 |-> IF i = n + 1 THEN After(f) ELSE p[i]]
  <1>3. q[0] = e /\ q[n + 1] = After(f) /\ \A i \in 0 .. n : q[i] = p[i]
    BY <1>2
  <1> HIDE DEF q
  <1>4. ASSUME NEW i \in 0 .. n + 1 - 1
        PROVE  ~Quiet(q[i].st) /\ q[i + 1] = After(q[i])
    <2>1. CASE i = n
      BY <1>2, <1>3, <2>1
    <2>2. CASE i # n
      <3>1. i \in 0 .. n - 1 /\ i \in 0 .. n /\ i + 1 \in 0 .. n
        BY <2>2
      <3>2. QED
        BY <1>2, <1>3, <3>1
    <2>3. QED
      BY <2>1, <2>2
  <1>5. n + 1 \in Nat
    OBVIOUS
  <1>6. ASSUME NEW i \in 0 .. n + 1
        PROVE  q[i].st \in Seq(EFrame)
    <2>1. i \in 0 .. n \/ i = n + 1
      OBVIOUS
    <2>2. QED
      BY <1>2, <1>3, <2>1
  <1>7. QED
    <2> HIDE DEF Reaches
    <2>1. \E m \in Nat : \E x :
            /\ x[0] = e /\ x[m] = After(f)
            /\ \A i \in 0 .. m : x[i].st \in Seq(EFrame)
            /\ \A i \in 0 .. m - 1 : ~Quiet(x[i].st) /\ x[i + 1] = After(x[i])
      BY ONLY <1>3, <1>4, <1>5, <1>6
    <2>2. QED
      BY ONLY <2>1 DEF Reaches

(* A run is over where the binary waits, and else begins with its next step.*)
LEMMA ReachFrom ==
  ASSUME NEW e, NEW f, Reaches(e, f), e # f
  PROVE  ~Quiet(e.st) /\ Reaches(After(e), f) /\ e.st \in Seq(EFrame)
  <1>1. PICK n \in Nat : \E p :
          /\ p[0] = e /\ p[n] = f
          /\ \A i \in 0 .. n : p[i].st \in Seq(EFrame)
          /\ \A i \in 0 .. n - 1 : ~Quiet(p[i].st) /\ p[i + 1] = After(p[i])
    BY DEF Reaches
  <1>2. PICK p :
          /\ p[0] = e /\ p[n] = f
          /\ \A i \in 0 .. n : p[i].st \in Seq(EFrame)
          /\ \A i \in 0 .. n - 1 : ~Quiet(p[i].st) /\ p[i + 1] = After(p[i])
    BY <1>1
  <1>3. n # 0 /\ n - 1 \in Nat /\ 0 \in 0 .. n - 1
    BY <1>2
  <1> DEFINE q == [i \in 0 .. n - 1 |-> p[i + 1]]
  <1>4. q[0] = After(e) /\ q[n - 1] = f /\ ~Quiet(e.st) /\ e.st \in Seq(EFrame)
    BY <1>2, <1>3
  <1>5. ASSUME NEW i \in 0 .. n - 1 - 1
        PROVE  ~Quiet(q[i].st) /\ q[i + 1] = After(q[i])
    <2>1. i + 1 \in 0 .. n - 1 /\ q[i] = p[i + 1] /\ q[i + 1] = p[i + 1 + 1]
      BY <1>3
    <2> HIDE DEF q
    <2>2. QED
      BY <1>2, <2>1
  <1>6. ASSUME NEW i \in 0 .. n - 1
        PROVE  q[i].st \in Seq(EFrame)
    <2>1. i + 1 \in 0 .. n /\ q[i] = p[i + 1]
      BY <1>3
    <2> HIDE DEF q
    <2>2. QED
      BY <1>2, <2>1
  <1> HIDE DEF q
  <1>7. QED
    BY <1>3, <1>4, <1>5, <1>6 DEF Reaches

(* One step.                                                                *)
LEMMA ReachOne ==
  ASSUME NEW e, e.st \in Seq(EFrame), ~Quiet(e.st), After(e).st \in Seq(EFrame)
  PROVE  Reaches(e, After(e))
  BY ReachSelf, ReachOn

(* The fields of a state of the binary.                                     *)
LEMMA StateFields ==
  ASSUME NEW t, NEW a, NEW r, NEW o
  PROVE  /\ State(t, a, r, o).st = t /\ State(t, a, r, o).al = a
         /\ State(t, a, r, o).ret = r /\ State(t, a, r, o).out = o
  BY DEF State

(* What is on top of a C nesting.                                           *)
LEMMA TopOf ==
  ASSUME NEW t \in Seq(EFrame)
  PROVE  /\ Len(t) \in Nat
         /\ t = <<>> <=> Len(t) = 0
         /\ t = <<>> => TopKind(t) = "end"
         /\ t # <<>> => /\ TopKind(t) = t[Len(t)].k /\ Top(t) = t[Len(t)]
                        /\ t[Len(t)] \in EFrame
                        /\ t[Len(t)].k \in IKinds
  <1>1. Len(t) \in Nat /\ (t = <<>> <=> Len(t) = 0)
    BY EmptySeq, LenProperties
  <1>2. t # <<>> => Top(t) = t[Len(t)] /\ t[Len(t)] \in EFrame
    BY TopFacts
  <1>3. QED
    BY <1>1, <1>2 DEF TopKind, EFrame

(* The closing brace of a `with`, of an arm, and of a handler.              *)
LEMMA AfterBrace ==
  ASSUME NEW t, NEW a, NEW r, NEW o
  PROVE  /\ TopKind(t) = "with" =>
              ~Quiet(t) /\ After(State(t, a, r, o)) = State(Pop(t), Top(t).al, r, o)
         /\ TopKind(t) = "arm" =>
              ~Quiet(t) /\ After(State(t, a, r, o)) = State(Pop(t), a, r, o)
         /\ TopKind(t) = "handler" =>
              ~Quiet(t) /\ After(State(t, a, r, o)) = State(Pop(t), a, r, Unit)
  <1>1. TopKind(t) \in {"with", "arm", "handler"} => ~Quiet(t)
    BY DEF Quiet, Resting
  <1> DEFINE e == State(t, a, r, o)
  <1>2. e.st = t /\ e.al = a /\ e.ret = r /\ e.out = o
    BY StateFields
  <1> HIDE DEF e
  <1>3. TopKind(t) = "with" => After(e) = State(Pop(t), Top(t).al, r, o)
    BY ONLY <1>2 DEF After
  <1>4. TopKind(t) = "arm" => After(e) = State(Pop(t), a, r, o)
    BY ONLY <1>2 DEF After
  <1>5. TopKind(t) = "handler" => After(e) = State(Pop(t), a, r, Unit)
    BY ONLY <1>2 DEF After
  <1>6. QED
    BY ONLY <1>1, <1>3, <1>4, <1>5 DEF e

(* The cleanup on top skips an errdefer.                                    *)
LEMMA AfterSkip ==
  ASSUME NEW t, NEW a, NEW r, NEW o, TopKind(t) = "cleanup", Top(t).ds # <<>>
  PROVE  After(State(t, a, r, o)) = State(SetTop(t, [Top(t) EXCEPT !.ds = Pop(@)]), a, r, o)
  BY StateFields DEF After

(* The cleanup on top goes on to the next scope out.                        *)
LEMMA AfterScope ==
  ASSUME NEW t, NEW a, NEW r, NEW o, TopKind(t) = "cleanup", Top(t).ds = <<>>,
         Top(t).at \in Int, Top(t).to \in Int, Top(t).at >= Top(t).to
  PROVE  /\ ~Quiet(t)
         /\ After(State(t, a, r, o)) =
              State(SetTop(t, Outer(t, Top(t))),
                    IF t[Top(t).at].k = "with" THEN t[Top(t).at].al ELSE a, r, o)
  <1>1. ~Quiet(t)
    BY DEF Quiet
  <1>2. Top(t).ds = <<>> /\ Top(t).at >= Top(t).to =>
          After(State(t, a, r, o)) =
            State(SetTop(t, Outer(t, Top(t))),
                  IF t[Top(t).at].k = "with" THEN t[Top(t).at].al ELSE a, r, o)
    BY StateFields DEF After
  <1>3. QED
    BY <1>1, <1>2

(* The cleanup on top is done: its jump is due.                             *)
LEMMA AfterLast ==
  ASSUME NEW t, NEW a, NEW r, NEW o, TopKind(t) = "cleanup", Top(t).ds = <<>>,
         Top(t).at \in Int, Top(t).to \in Int, Top(t).at < Top(t).to
  PROVE  ~Quiet(t) /\ After(State(t, a, r, o)) = JumpDone(State(t, a, r, o))
  <1>1. ~Quiet(t)
    BY DEF Quiet
  <1>2. Top(t).ds = <<>> /\ Top(t).at < Top(t).to =>
          After(State(t, a, r, o)) = JumpDone(State(t, a, r, o))
    BY StateFields DEF After
  <1>3. QED
    BY <1>1, <1>2

-----------------------------------------------------------------------------
(***************************************************************************)
(* Where the jump after a cleanup lands.                                   *)
(***************************************************************************)

(* The C statements around the cleanup on top.                              *)
LEMMA AroundTop ==
  ASSUME NEW t \in Seq(EFrame), t # <<>>
  PROVE  /\ Len(t) \in Nat \ {0} /\ Len(Pop(t)) = Len(t) - 1
         /\ \A K : Of(Pop(t), K) = {i \in 1 .. Len(t) - 1 : t[i].k \in K}
         /\ \A l : Loops(t, l) = {i \in 1 .. Len(t) - 1 : Fits(t[i], l)}
  <1>1. /\ Len(t) \in Nat \ {0} /\ Len(Pop(t)) = Len(t) - 1
        /\ \A i \in 1 .. Len(t) - 1 : Pop(t)[i] = t[i]
    BY PopFacts
  <1>2. \A K : Of(Pop(t), K) = {i \in 1 .. Len(t) - 1 : t[i].k \in K}
    BY <1>1 DEF Of
  <1>3. QED
    BY <1>1, <1>2 DEF Loops, Fits

(* A jump is due: the cleanup on top is done.                               *)
Due(t, p) ==
  /\ t \in Seq(EFrame) /\ t # <<>>
  /\ t[Len(t)].k = "cleanup" /\ t[Len(t)].ds = <<>> /\ t[Len(t)].at < t[Len(t)].to
  /\ Aimed(t, Len(t), t[Len(t)], p)

(* What is due is done next.                                                *)
LEMMA JumpNext ==
  ASSUME NEW t, NEW p, Due(t, p), NEW a, NEW r, NEW o
  PROVE  /\ ~Quiet(t)
         /\ After(State(t, a, r, o)) = JumpDone(State(t, a, r, o))
         /\ Top(t) = t[Len(t)]
         /\ Len(t) \in Nat \ {0}
         /\ p \in 1 .. Len(t)
  <1>1. t \in Seq(EFrame) /\ t # <<>> /\ p \in 1 .. Len(t)
    BY DEF Due, Aimed
  <1>2. /\ TopKind(t) = "cleanup" /\ Top(t) = t[Len(t)] /\ t[Len(t)] \in EFrame
        /\ Len(t) \in Nat \ {0}
    BY <1>1, TopOf DEF Due
  <1>3. Top(t).at \in Int /\ Top(t).to \in Int
    BY <1>2 DEF EFrame
  <1>4. Top(t).ds = <<>> /\ Top(t).at < Top(t).to
    BY <1>2 DEF Due
  <1>a. TopKind(t) = "cleanup"
    BY <1>2
  <1>5. ~Quiet(t) /\ After(State(t, a, r, o)) = JumpDone(State(t, a, r, o))
    <2> HIDE DEF Due
    <2>1. QED
      BY <1>a, <1>3, <1>4, AfterLast, Zenon
  <1>6. QED
    BY <1>1, <1>2, <1>5

(* A block is left.                                                         *)
LEMMA LandFall ==
  ASSUME NEW t, NEW p, Due(t, p), NEW a, NEW r, NEW o, t[Len(t)].jump = "fall"
  PROVE  After(State(t, a, r, o)) = State(Cut(t, Len(t) - 2), a, r, o)
  <1>1. /\ After(State(t, a, r, o)) = JumpDone(State(t, a, r, o))
        /\ Top(t) = t[Len(t)] /\ Len(t) \in Nat \ {0}
        /\ t \in Seq(EFrame) /\ t # <<>>
    BY JumpNext DEF Due
  <1>2. JumpDone(State(t, a, r, o)) = State(Cut(t, Len(t) - 2), a, r, o)
    BY <1>1, StateFields DEF JumpDone
  <1>3. QED
    BY <1>1, <1>2

(* A return leaves the function.                                            *)
LEMMA LandReturn ==
  ASSUME NEW t, NEW p, Due(t, p), NEW a, NEW r, NEW o, t[Len(t)].jump = "return"
  PROVE  After(State(t, a, r, o)) = State(<<>>, a, <<"value", t[Len(t)].val>>, o)
  <1>1. /\ After(State(t, a, r, o)) = JumpDone(State(t, a, r, o))
        /\ Top(t) = t[Len(t)] /\ Len(t) \in Nat \ {0}
        /\ t \in Seq(EFrame) /\ t # <<>>
    BY JumpNext DEF Due
  <1>2. JumpDone(State(t, a, r, o)) = State(<<>>, a, <<"value", t[Len(t)].val>>, o)
    BY <1>1, StateFields DEF JumpDone
  <1>3. QED
    BY <1>1, <1>2

(* So does a failure that no operand is around.                             *)
LEMMA LandFailure ==
  ASSUME NEW t, NEW p, Due(t, p), NEW a, NEW r, NEW o, t[Len(t)].jump = "fail",
         \A i \in 1 .. Len(t) - 1 : t[i].k # "operand"
  PROVE  After(State(t, a, r, o)) = State(<<>>, a, <<"failed", t[Len(t)].val>>, o)
  <1>1. /\ After(State(t, a, r, o)) = JumpDone(State(t, a, r, o))
        /\ Top(t) = t[Len(t)] /\ Len(t) \in Nat \ {0}
        /\ t \in Seq(EFrame) /\ t # <<>>
    BY JumpNext DEF Due
  <1>2. Innermost(Of(Pop(t), {"operand"})) = 0
    <2>1. Of(Pop(t), {"operand"}) = {}
      BY <1>1, AroundTop
    <2>2. QED
      BY <2>1 DEF Innermost
  <1>3. JumpDone(State(t, a, r, o)) = State(<<>>, a, <<"failed", t[Len(t)].val>>, o)
    BY <1>1, <1>2, StateFields DEF JumpDone
  <1>4. QED
    BY <1>1, <1>3

(* A failure goes to the handler of the operand it is in.                   *)
LEMMA LandFail ==
  ASSUME NEW t, NEW p, Due(t, p), NEW a, NEW r, NEW o, t[Len(t)].jump = "fail", p > 1
  PROVE  After(State(t, a, r, o)) =
           State(Push2(Cut(t, p - 2), EOpen("handler"), EOpen("block")), a, r, t[Len(t)].val)
  <1>1. /\ After(State(t, a, r, o)) = JumpDone(State(t, a, r, o))
        /\ Top(t) = t[Len(t)] /\ Len(t) \in Nat \ {0} /\ p \in 1 .. Len(t)
        /\ t \in Seq(EFrame) /\ t # <<>>
    BY JumpNext DEF Due
  <1> DEFINE P == Of(Pop(t), {"operand"})
  <1>2. P = {i \in 1 .. Len(t) - 1 : t[i].k = "operand"}
    BY <1>1, AroundTop
  <1>3. t[p - 1].k = "operand" /\ \A i \in p .. Len(t) - 1 : t[i].k # "operand"
    BY DEF Due, Aimed
  <1>4. p - 1 \in P /\ P \in SUBSET Int /\ \A q \in P : q <= p - 1
    BY <1>1, <1>2, <1>3
  <1> HIDE DEF P
  <1>5. Innermost(P) = p - 1 /\ p - 1 # 0 /\ p - 1 - 1 = p - 2
    BY <1>1, <1>4, InnermostIs
  <1>6. JumpDone(State(t, a, r, o)) =
          State(Push2(Cut(t, Innermost(P) - 1), EOpen("handler"), EOpen("block")), a, r, t[Len(t)].val)
    BY <1>1, <1>5, StateFields DEF JumpDone, P
  <1>7. QED
    BY <1>1, <1>5, <1>6

(* A recover ends the innermost handler.                                    *)
LEMMA LandRecover ==
  ASSUME NEW t, NEW p, Due(t, p), NEW a, NEW r, NEW o, t[Len(t)].jump = "recover"
  PROVE  After(State(t, a, r, o)) = State(Cut(t, p - 2), a, r, t[Len(t)].val)
  <1>1. /\ After(State(t, a, r, o)) = JumpDone(State(t, a, r, o))
        /\ Top(t) = t[Len(t)] /\ Len(t) \in Nat \ {0} /\ p \in 1 .. Len(t)
        /\ t \in Seq(EFrame) /\ t # <<>>
    BY JumpNext DEF Due
  <1> DEFINE P == Of(Pop(t), {"handler"})
  <1>2. P = {i \in 1 .. Len(t) - 1 : t[i].k = "handler"}
    BY <1>1, AroundTop
  <1>3. p > 1 /\ t[p - 1].k = "handler" /\ \A i \in p .. Len(t) - 1 : t[i].k # "handler"
    BY DEF Due, Aimed
  <1>4. p - 1 \in P /\ P \in SUBSET Int /\ \A q \in P : q <= p - 1
    BY <1>1, <1>2, <1>3
  <1> HIDE DEF P
  <1>5. Innermost(P) = p - 1 /\ p - 1 - 1 = p - 2
    BY <1>1, <1>4, InnermostIs
  <1>6. JumpDone(State(t, a, r, o)) = State(Cut(t, Innermost(P) - 1), a, r, t[Len(t)].val)
    BY <1>1, StateFields DEF JumpDone, P
  <1>7. QED
    BY <1>1, <1>5, <1>6

(* A jump ends in the loop it is aimed at.                                  *)
LEMMA LandJump ==
  ASSUME NEW t, NEW p, Due(t, p), NEW a, NEW r, NEW o, t[Len(t)].jump \in {"break", "continue"}
  PROVE  After(State(t, a, r, o)) =
           State(Cut(t, IF t[Len(t)].jump = "break" THEN p - 1 ELSE p), a, r, o)
  <1>1. /\ After(State(t, a, r, o)) = JumpDone(State(t, a, r, o))
        /\ Top(t) = t[Len(t)] /\ Len(t) \in Nat \ {0} /\ p \in 1 .. Len(t)
        /\ t \in Seq(EFrame) /\ t # <<>> /\ t[Len(t)].k = "cleanup"
    BY JumpNext DEF Due
  <1> DEFINE n == Len(t)
             l == t[n].lab
             P == Loops(t, l)
             Q == Of(Pop(t), {"loop", "arm"})
  <1>2. /\ Fits(t[p], l)
        /\ \A i \in p + 1 .. n - 1 : ~Fits(t[i], l)
        /\ t[n].jump = "break" /\ l = NoLabel => \A i \in p .. n - 1 : t[i].k # "arm"
    BY DEF Due, Aimed
  <1>3. /\ P = {i \in 1 .. n - 1 : Fits(t[i], l)}
        /\ Q = {i \in 1 .. n - 1 : t[i].k \in {"loop", "arm"}}
    BY <1>1, AroundTop
  <1>4. p \in 1 .. n - 1 /\ t[p].k = "loop"
    BY <1>1, <1>2 DEF Fits
  <1>5. Innermost(P) = p
    <2>1. p \in P /\ P \in SUBSET Int /\ \A q \in P : q <= p
      BY <1>1, <1>2, <1>3, <1>4
    <2> HIDE DEF P
    <2>2. QED
      BY <2>1, InnermostIs
  <1>6. t[n].jump = "break" /\ l = NoLabel => Innermost(Q) = p
    <2> SUFFICES ASSUME t[n].jump = "break", l = NoLabel
                 PROVE  Innermost(Q) = p
      OBVIOUS
    <2>1. \A i \in p + 1 .. n - 1 : t[i].k # "loop" /\ t[i].k # "arm"
      BY <1>1, <1>2, <1>4 DEF Fits
    <2>2. p \in Q /\ Q \in SUBSET Int /\ \A q \in Q : q <= p
      BY <1>1, <1>3, <1>4, <2>1
    <2> HIDE DEF Q
    <2>3. QED
      BY <2>2, InnermostIs
  <1>7. /\ t[n].jump = "break" /\ l = NoLabel =>
             JumpDone(State(t, a, r, o)) = State(Cut(t, Innermost(Q) - 1), a, r, o)
        /\ t[n].jump = "break" /\ l # NoLabel =>
             JumpDone(State(t, a, r, o)) = State(Cut(t, Innermost(P) - 1), a, r, o)
        /\ t[n].jump = "continue" =>
             JumpDone(State(t, a, r, o)) = State(Cut(t, Innermost(P)), a, r, o)
    <2> DEFINE e == State(t, a, r, o)
    <2>1. e.st = t /\ e.al = a /\ e.ret = r /\ e.out = o /\ l = Top(e.st).lab /\ t[n] = Top(e.st)
      BY <1>1, StateFields
    <2> HIDE DEF e, P, Q, n, l
    <2>2. /\ t[n].jump = "break" /\ l = NoLabel =>
               JumpDone(e) = State(Cut(t, Innermost(Q) - 1), a, r, o)
          /\ t[n].jump = "break" /\ l # NoLabel =>
               JumpDone(e) = State(Cut(t, Innermost(P) - 1), a, r, o)
          /\ t[n].jump = "continue" =>
               JumpDone(e) = State(Cut(t, Innermost(P)), a, r, o)
      BY ONLY <2>1 DEF JumpDone, P, Q
    <2>3. QED
      BY ONLY <2>2 DEF e
  <1>8. QED
    BY <1>1, <1>5, <1>6, <1>7

-----------------------------------------------------------------------------
(***************************************************************************)
(* The actions of the binary, and its next state as a function.            *)
(***************************************************************************)
Now == State(est, ealloc, eret, eout)

(* The binary waits as EQuiet says.                                         *)
LEMMA QuietIs == EQuiet <=> Quiet(est)
  BY DEF EQuiet, ERunnable, Quiet, Resting

(* Every step of EStep is the step that After says.                         *)
LEMMA StepIsAfter ==
  ASSUME est \in Seq(EFrame), EStep
  PROVE  Now' = After(Now)
  <1> DEFINE h == Top(est)
  <1>n. Now' = State(est', ealloc', eret', eout')
    BY DEF Now, State
  <1>t. est # <<>> => /\ h = est[Len(est)] /\ TopKind(est) = h.k /\ h \in EFrame
    BY TopOf
  <1>k. TopKind(est) \in {"with", "arm", "handler", "cleanup"} => est # <<>>
    BY TopOf
  <1>i. TopKind(est) = "cleanup" => h.at \in Int /\ h.to \in Int
    BY <1>t, <1>k DEF EFrame
  <1>1. CASE EEndWith
    BY <1>1, <1>n, AfterBrace DEF EEndWith, Now
  <1>2. CASE EEndArm
    BY <1>2, <1>n, AfterBrace DEF EEndArm, Now
  <1>3. CASE EEndHandler
    BY <1>3, <1>n, AfterBrace DEF EEndHandler, Now
  <1>4. CASE ESkipErrdefer
    BY <1>4, <1>n, AfterSkip DEF ESkipErrdefer, EDropped, Now
  <1>5. CASE ENextScope
    <2>1. /\ TopKind(est) = "cleanup" /\ h.ds = <<>> /\ h.at >= h.to
          /\ ealloc' = (IF est[h.at].k = "with" THEN est[h.at].al ELSE ealloc)
          /\ est' = SetTop(est, Outer(est, h))
          /\ eret' = eret /\ eout' = eout
      BY <1>5 DEF ENextScope, Outer
    <2>2. After(Now) =
            State(SetTop(est, Outer(est, h)),
                  IF est[h.at].k = "with" THEN est[h.at].al ELSE ealloc, eret, eout)
      BY <1>i, <2>1, AfterScope DEF Now
    <2>3. QED
      BY <1>n, <2>1, <2>2
  <1>6. ASSUME NEW j, EUnwound(j)
        PROVE  /\ After(Now) = JumpDone(Now) /\ h.jump = j /\ est # <<>>
               /\ Now.st = est /\ Now.al = ealloc /\ Now.ret = eret /\ Now.out = eout
    <2>1. TopKind(est) = "cleanup" /\ h.ds = <<>> /\ h.at < h.to /\ h.jump = j
      BY <1>6 DEF EUnwound
    <2>2. After(Now) = JumpDone(Now)
      BY <1>i, <2>1, AfterLast DEF Now
    <2>3. QED
      BY <1>k, <2>1, <2>2, StateFields DEF Now
  <1>7. CASE EFall
    <2>1. After(Now) = JumpDone(Now) /\ h.jump = "fall"
      BY <1>6, <1>7 DEF EFall
    <2>2. JumpDone(Now) = State(Cut(est, Len(est) - 2), ealloc, eret, eout)
      BY <1>6, <1>7, <2>1 DEF JumpDone, EFall
    <2>3. QED
      BY <1>7, <1>n, <2>1, <2>2 DEF EFall
  <1>8. CASE EDoReturn
    <2>1. After(Now) = JumpDone(Now) /\ h.jump = "return"
      BY <1>6, <1>8 DEF EDoReturn
    <2>2. JumpDone(Now) = State(<<>>, ealloc, <<"value", h.val>>, eout)
      BY <1>6, <1>8, <2>1 DEF JumpDone, EDoReturn
    <2>3. QED
      BY <1>8, <1>n, <2>1, <2>2 DEF EDoReturn
  <1>9. CASE EDoFail
    <2> DEFINE p == Innermost(Of(Pop(est), {"operand"}))
    <2>1. After(Now) = JumpDone(Now) /\ h.jump = "fail"
      BY <1>6, <1>9 DEF EDoFail
    <2>2. /\ p = 0 => JumpDone(Now) = State(<<>>, ealloc, <<"failed", h.val>>, eout)
          /\ p # 0 => JumpDone(Now) =
                        State(Push2(Cut(est, p - 1), EOpen("handler"), EOpen("block")),
                              ealloc, eret, h.val)
      BY <1>6, <1>9, <2>1 DEF JumpDone, EDoFail
    <2>3. /\ p = 0 => est' = <<>> /\ eret' = <<"failed", h.val>> /\ eout' = eout
          /\ p # 0 => /\ est' = Push2(Cut(est, p - 1), EOpen("handler"), EOpen("block"))
                      /\ eret' = eret /\ eout' = h.val
          /\ ealloc' = ealloc
      BY <1>9 DEF EDoFail, EAround
    <2>4. QED
      BY <1>n, <2>1, <2>2, <2>3
  <1>10. CASE EDoBreak
    <2> DEFINE l == h.lab
               p == Innermost(Of(Pop(est), {"loop", "arm"}))
    <2>1. After(Now) = JumpDone(Now) /\ h.jump = "break" /\ est # <<>>
      BY <1>6, <1>10 DEF EDoBreak
    <2>2. /\ l = NoLabel => JumpDone(Now) = State(Cut(est, p - 1), ealloc, eret, eout)
          /\ l # NoLabel => JumpDone(Now) = State(Cut(est, Innermost(Loops(est, l)) - 1), ealloc, eret, eout)
      BY <1>6, <1>10, <2>1 DEF JumpDone, EDoBreak
    <2>3. l # NoLabel => {i \in Of(Pop(est), {"loop"}) : est[i].lab = l} = Loops(est, l)
      BY <2>1, AroundTop DEF Fits
    <2>4. /\ l = NoLabel => est' = Cut(est, p - 1)
          /\ l # NoLabel => est' = Cut(est, Innermost({i \in Of(Pop(est), {"loop"}) : est[i].lab = l}) - 1)
          /\ ealloc' = ealloc /\ eret' = eret /\ eout' = eout
      BY <1>10 DEF EDoBreak, EAround
    <2>5. QED
      BY <1>n, <2>1, <2>2, <2>3, <2>4
  <1>11. CASE EDoContinue
    <2> DEFINE l == h.lab
    <2>1. After(Now) = JumpDone(Now) /\ h.jump = "continue" /\ est # <<>>
      BY <1>6, <1>11 DEF EDoContinue
    <2>2. JumpDone(Now) = State(Cut(est, Innermost(Loops(est, l))), ealloc, eret, eout)
      BY <1>6, <1>11, <2>1 DEF JumpDone, EDoContinue
    <2>3. {i \in Of(Pop(est), {"loop"}) : l = NoLabel \/ est[i].lab = l} = Loops(est, l)
      BY <2>1, AroundTop DEF Fits
    <2>4. /\ est' = Cut(est, Innermost({i \in Of(Pop(est), {"loop"}) : l = NoLabel \/ est[i].lab = l}))
          /\ ealloc' = ealloc /\ eret' = eret /\ eout' = eout
      BY <1>11 DEF EDoContinue, EAround
    <2>5. QED
      BY <1>n, <2>1, <2>2, <2>3, <2>4
  <1>12. CASE EDoRecover
    <2>1. After(Now) = JumpDone(Now) /\ h.jump = "recover"
      BY <1>6, <1>12 DEF EDoRecover
    <2>2. JumpDone(Now) = State(Cut(est, Innermost(Of(Pop(est), {"handler"})) - 1), ealloc, eret, h.val)
      BY <1>6, <1>12, <2>1 DEF JumpDone, EDoRecover
    <2>3. QED
      BY <1>12, <1>n, <2>1, <2>2 DEF EDoRecover, EAround
  <1>13. QED
    BY <1>1, <1>2, <1>3, <1>4, <1>5, <1>7, <1>8, <1>9, <1>10, <1>11, <1>12 DEF EStep

-----------------------------------------------------------------------------
(***************************************************************************)
(* How a step changes where the levels are.                                *)
(***************************************************************************)

(* The levels stay as they are.                                             *)
LEMMA UnrecoveredSame ==
  ASSUME NEW s, NEW n \in Nat, NEW fl, Unrecovered(s, n, fl),
         NEW u, \A i \in 1 .. n : u[i].k = s[i].k,
         NEW fm, fm.recovered => fl.recovered
  PROVE  Unrecovered(u, n, fm)
  <1> SUFFICES ASSUME NEW i \in 1 .. n, u[i].k = "handler",
                      \A j \in i .. n : u[j].k # "cleanup"
               PROVE  ~fm.recovered
    BY DEF Unrecovered
  <1>1. \A j \in i .. n : j \in 1 .. n
    OBVIOUS
  <1>2. s[i].k = "handler" /\ \A j \in i .. n : s[j].k # "cleanup"
    BY <1>1
  <1>3. QED
    BY <1>2 DEF Unrecovered

(* What is on top of the recursion.                                         *)
LEMMA LevelOf ==
  ASSUME NEW s \in Seq(IFrame), NEW t, NEW g, Placed(s, t, g)
  PROVE  /\ Len(s) \in Nat /\ g \in [0 .. Len(s) -> Nat] /\ g[0] = 0 /\ g[Len(s)] <= Len(t)
         /\ s = <<>> <=> Len(s) = 0
         /\ s = <<>> => g[Len(s)] = 0 /\ TopKind(s) = "end"
         /\ s # <<>> => /\ Len(s) \in 1 .. Len(s) /\ Len(s) - 1 \in 0 .. Len(s)
                        /\ Top(s) = s[Len(s)] /\ TopKind(s) = s[Len(s)].k
                        /\ s[Len(s)] \in IFrame /\ s[Len(s)].k \in IKinds
                        /\ g[Len(s) - 1] \in Nat /\ g[Len(s)] \in Nat \ {0}
                        /\ g[Len(s) - 1] < g[Len(s)]
                        /\ Alike(s[Len(s)], t[g[Len(s)]])
                        /\ s[Len(s)].k # "cleanup" => g[Len(s)] = g[Len(s) - 1] + 1
                        /\ s[Len(s)].k = "cleanup" =>
                             Unwinding(s, Len(s), t, g[Len(s)], g[Len(s) - 1] + 1)
  <1>1. Len(s) \in Nat /\ (s = <<>> <=> Len(s) = 0)
    BY EmptySeq, LenProperties
  <1>2. /\ s = <<>> => TopKind(s) = "end"
        /\ s # <<>> => Top(s) = s[Len(s)] /\ TopKind(s) = s[Len(s)].k /\ s[Len(s)] \in IFrame
    BY TopKindFacts
  <1>3. s # <<>> => Len(s) \in 1 .. Len(s) /\ Len(s) - 1 \in 0 .. Len(s) /\ Len(s) \in 0 .. Len(s)
    BY <1>1
  <1>4. s # <<>> => s[Len(s)].k \in IKinds
    BY <1>2 DEF IFrame
  <1>5. /\ g \in [0 .. Len(s) -> Nat] /\ g[0] = 0 /\ g[Len(s)] <= Len(t)
        /\ s # <<>> =>
             /\ g[Len(s) - 1] < g[Len(s)]
             /\ Alike(s[Len(s)], t[g[Len(s)]])
             /\ s[Len(s)].k # "cleanup" => g[Len(s)] = g[Len(s) - 1] + 1
             /\ s[Len(s)].k = "cleanup" =>
                  Unwinding(s, Len(s), t, g[Len(s)], g[Len(s) - 1] + 1)
    BY <1>3 DEF Placed
  <1>6. s # <<>> => g[Len(s) - 1] \in Nat /\ g[Len(s)] \in Nat \ {0}
    BY <1>3, <1>5
  <1>7. QED
    BY <1>1, <1>2, <1>3, <1>4, <1>5, <1>6

(* The innermost level is left; the C nesting may have changed inside the   *)
(* levels that remain.                                                      *)
LEMMA PlacedPop ==
  ASSUME NEW s \in Seq(IFrame), s # <<>>, NEW t, NEW g, Placed(s, t, g),
         NEW v, Len(v) \in Nat, g[Len(s) - 1] <= Len(v),
         \A i \in 1 .. g[Len(s) - 1] : v[i] = t[i]
  PROVE  /\ Pop(s) \in Seq(IFrame) /\ Len(Pop(s)) = Len(s) - 1
         /\ \A i \in 1 .. Len(s) - 1 : Pop(s)[i] = s[i]
         /\ \E f : /\ Placed(Pop(s), v, f)
                   /\ \A i \in 0 .. Len(s) - 1 : f[i] = g[i]
                   /\ f[Len(Pop(s))] = g[Len(s) - 1]
  <1>1. /\ Pop(s) \in Seq(IFrame) /\ Len(s) \in Nat \ {0} /\ Len(Pop(s)) = Len(s) - 1
        /\ \A i \in 1 .. Len(s) - 1 : Pop(s)[i] = s[i]
    BY PopFacts
  <1> DEFINE n == Len(s) - 1
             f == [i \in 0 .. n |-> g[i]]
  <1>2. n \in 0 .. Len(s)
    BY <1>1
  <1>3. Placed(Pop(s), v, f)
    BY <1>1, <1>2, PlacedFirst
  <1>4. /\ \A i \in 0 .. Len(s) - 1 : f[i] = g[i]
        /\ f[Len(Pop(s))] = g[Len(s) - 1]
    BY <1>1
  <1> HIDE DEF f, n
  <1>5. QED
    BY <1>1, <1>3, <1>4

(* The C nesting changes inside the levels that are open.                   *)
LEMMA PlacedSame ==
  ASSUME NEW s \in Seq(IFrame), NEW t, NEW g, Placed(s, t, g),
         NEW v, Len(v) \in Nat, g[Len(s)] <= Len(v), \A i \in 1 .. g[Len(s)] : v[i] = t[i]
  PROVE  Placed(s, v, g)
  <1> DEFINE f == [i \in 0 .. Len(s) |-> g[i]]
  <1>1. Len(s) \in Nat /\ Len(s) \in 0 .. Len(s)
    BY LenProperties
  <1>2. g = f
    BY DEF Placed
  <1>3. Placed(s, v, f)
    BY <1>1, PlacedFirst
  <1> HIDE DEF f
  <1>4. QED
    BY <1>2, <1>3

(* u has one level more than s, at a position c further in.                 *)
OneMore(s, t, g, u, c) ==
  /\ Len(u) = Len(s) + 1 /\ \A i \in 1 .. Len(s) : u[i] = s[i]
  /\ c \in 1 .. Len(t) /\ g[Len(s)] < c /\ Alike(u[Len(u)], t[c])
  /\ u[Len(u)].k # "cleanup" => c = g[Len(s)] + 1
  /\ u[Len(u)].k = "cleanup" => Unwinding(u, Len(u), t, c, g[Len(s)] + 1)

(* Such a level is placed.                                                  *)
LEMMA PlacedMore ==
  ASSUME NEW s \in Seq(IFrame), NEW t, Len(t) \in Nat, NEW g, Placed(s, t, g),
         NEW u \in Seq(IFrame), NEW c, OneMore(s, t, g, u, c)
  PROVE  \E e : /\ Placed(u, t, e) /\ e[Len(u)] = c
               /\ \A i \in 0 .. Len(s) : e[i] = g[i]
  <1> DEFINE e == [i \in 0 .. Len(u) |-> IF i = Len(u) THEN c ELSE g[i]]
  <1>1. Placed(u, t, e)
    <2>1. /\ Len(u) = Len(s) + 1 /\ \A i \in 1 .. Len(s) : u[i] = s[i]
          /\ c \in 1 .. Len(t) /\ g[Len(s)] < c /\ Alike(u[Len(u)], t[c])
          /\ u[Len(u)].k # "cleanup" => c = g[Len(s)] + 1
          /\ u[Len(u)].k = "cleanup" => Unwinding(u, Len(u), t, c, g[Len(s)] + 1)
      BY DEF OneMore
    <2>2. /\ s \in Seq(IFrame) /\ u \in Seq(IFrame)
          /\ Len(t) \in Nat /\ Placed(s, t, g)
      OBVIOUS
    <2> HIDE DEF Placed, Alike, Unwinding
    <2>3. Placed(u, t, [i \in 0 .. Len(u) |-> IF i = Len(u) THEN c ELSE g[i]])
      BY ONLY <2>1, <2>2, PlacedNext, SMTT(20)
    <2>4. QED
      BY ONLY <2>3
  <1>2. Len(s) \in Nat
    BY LenProperties
  <1>3. e[Len(u)] = c /\ \A i \in 0 .. Len(s) : e[i] = g[i]
    BY <1>2 DEF OneMore
  <1> HIDE DEF e
  <1>4. QED
    BY <1>1, <1>3

(* A jump is aimed where it was when only what is inside its cleanup, or    *)
(* what that cleanup has still to do, changes.                              *)
LEMMA AimedSame ==
  ASSUME NEW t, NEW c \in Nat, NEW h, NEW p, Aimed(t, c, h, p),
         NEW v, \A i \in 1 .. c - 1 : v[i] = t[i],
         v[c].k = t[c].k, v[c].lab = t[c].lab,
         NEW k, k.jump = h.jump, k.lab = h.lab
  PROVE  Aimed(v, c, k, p)
  <1>1. p \in 1 .. c
    BY DEF Aimed
  <1>2. \A i \in p .. c - 1 : v[i] = t[i]
    BY <1>1
  <1>3. p > 1 => v[p - 1] = t[p - 1]
    BY <1>1
  <1>4. \A l : /\ Fits(v[p], l) <=> Fits(t[p], l)
              /\ \A i \in p + 1 .. c - 1 : Fits(v[i], l) <=> Fits(t[i], l)
    <2>1. v[p].k = t[p].k /\ v[p].lab = t[p].lab
      <3>1. p = c \/ p \in 1 .. c - 1
        BY <1>1
      <3>2. QED
        BY <3>1
    <2>2. \A i \in p + 1 .. c - 1 : v[i] = t[i]
      BY <1>1
    <2>3. QED
      BY <2>1, <2>2 DEF Fits
  <1>5. p = 1 \/ p > 1
    BY <1>1
  <1>6. QED
    BY <1>1, <1>2, <1>3, <1>4, <1>5 DEF Aimed

(* A level is opened, and the C statement it is.                            *)
LEMMA PlacedPush ==
  ASSUME NEW s \in Seq(IFrame), NEW t \in Seq(EFrame), NEW g, Placed(s, t, g),
         g[Len(s)] = Len(t),
         NEW f \in IFrame, NEW h \in EFrame, Alike(f, h), f.k # "cleanup"
  PROVE  /\ Append(s, f) \in Seq(IFrame) /\ Append(t, h) \in Seq(EFrame)
         /\ \E e : Placed(Append(s, f), Append(t, h), e) /\ e[Len(Append(s, f))] = Len(Append(t, h))
  <1>1. /\ Append(s, f) \in Seq(IFrame) /\ Len(Append(s, f)) = Len(s) + 1
        /\ \A i \in 1 .. Len(s) : Append(s, f)[i] = s[i]
        /\ Append(s, f)[Len(s) + 1] = f
    BY PushFacts
  <1>2. /\ Append(t, h) \in Seq(EFrame) /\ Len(Append(t, h)) = Len(t) + 1
        /\ \A i \in 1 .. Len(t) : Append(t, h)[i] = t[i]
        /\ Append(t, h)[Len(t) + 1] = h
    BY PushFacts
  <1> DEFINE u == Append(s, f)
             v == Append(t, h)
  <1>3. Len(t) \in Nat /\ Len(s) \in Nat
    BY LenProperties
  <1>4. /\ u \in Seq(IFrame) /\ Len(u) = Len(s) + 1 /\ u[Len(u)] = f
        /\ \A i \in 1 .. Len(s) : u[i] = s[i]
        /\ Len(v) \in Nat /\ Len(v) \in 1 .. Len(v) /\ Len(v) = Len(t) + 1 /\ v[Len(v)] = h
        /\ \A i \in 1 .. Len(t) : v[i] = t[i]
    BY <1>1, <1>2, <1>3
  <1> HIDE DEF u, v
  <1>5. Placed(s, v, g)
    <2>1. g[Len(s)] <= Len(v) /\ \A i \in 1 .. g[Len(s)] : v[i] = t[i]
      BY <1>3, <1>4
    <2>2. QED
      BY <1>4, <2>1, PlacedSame
  <1>6. \E e : Placed(u, v, e) /\ e[Len(u)] = Len(v)
    <2>1. g[Len(s)] < Len(v) /\ Len(v) = g[Len(s)] + 1
      BY <1>3, <1>4
    <2>2. Alike(u[Len(u)], v[Len(v)]) /\ u[Len(u)].k # "cleanup"
      BY <1>4
    <2>3. u[Len(u)].k = "cleanup" => Unwinding(u, Len(u), v, Len(v), g[Len(s)] + 1)
      BY <2>2
    <2>4. OneMore(s, v, g, u, Len(v))
      BY <1>4, <2>1, <2>2, <2>3 DEF OneMore
    <2>5. QED
      BY <1>4, <1>5, <2>4, PlacedMore
  <1>7. QED
    BY <1>1, <1>2, <1>6 DEF u, v

(* The frame of the innermost level changes, and the C statement it is; a   *)
(* cleanup stays the cleanup it is.                                         *)
LEMMA PlacedTop ==
  ASSUME NEW s \in Seq(IFrame), s # <<>>, NEW t \in Seq(EFrame), NEW g, Placed(s, t, g),
         g[Len(s)] = Len(t),
         NEW f \in IFrame, NEW h \in EFrame, Alike(f, h), f.k = Top(s).k,
         f.k = "cleanup" =>
           /\ f.fl = Top(s).fl
           /\ h.jump = Top(t).jump /\ h.lab = Top(t).lab /\ h.val = Top(t).val
           /\ h.at = Top(t).at /\ h.to = Top(t).to /\ h.failing = Top(t).failing
  PROVE  /\ SetTop(s, f) \in Seq(IFrame) /\ SetTop(t, h) \in Seq(EFrame)
         /\ \E e : /\ Placed(SetTop(s, f), SetTop(t, h), e)
                   /\ e[Len(SetTop(s, f))] = Len(SetTop(t, h))
  <1> DEFINE u == SetTop(s, f)
             v == SetTop(t, h)
             n == Len(s)
             c == Len(t)
  <1>1. /\ n \in Nat \ {0} /\ c \in Nat \ {0} /\ g[n - 1] \in Nat /\ g[n - 1] < c
        /\ Top(s) = s[n] /\ s[n] \in IFrame
        /\ s[n].k # "cleanup" => c = g[n - 1] + 1
        /\ s[n].k = "cleanup" => Unwinding(s, n, t, c, g[n - 1] + 1)
    BY LevelOf
  <1>2. t # <<>> /\ Top(t) = t[c]
    BY <1>1, TopOf
  <1>3. /\ u \in Seq(IFrame) /\ Len(u) = n
        /\ \A i \in 1 .. n - 1 : u[i] = s[i]
        /\ u[n] = f
    BY SetTopFacts
  <1>4. /\ v \in Seq(EFrame) /\ Len(v) = c
        /\ \A i \in 1 .. c - 1 : v[i] = t[i]
        /\ v[c] = h
    BY <1>2, SetTopFacts
  <1>5. PICK d : /\ Placed(Pop(s), v, d) /\ d[Len(Pop(s))] = g[n - 1]
                 /\ Pop(s) \in Seq(IFrame) /\ Len(Pop(s)) = n - 1
                 /\ \A i \in 1 .. n - 1 : Pop(s)[i] = s[i]
    <2>1. Len(v) \in Nat /\ g[n - 1] <= Len(v) /\ \A i \in 1 .. g[n - 1] : v[i] = t[i]
      BY <1>1, <1>4
    <2> HIDE DEF v
    <2>2. QED
      BY <2>1, PlacedPop
  <1>6. f.k = "cleanup" => Unwinding(u, n, v, c, g[n - 1] + 1)
    <2> SUFFICES ASSUME f.k = "cleanup"
                 PROVE  Unwinding(u, n, v, c, g[n - 1] + 1)
      OBVIOUS
    <2> DEFINE q == g[n - 1] + 1
               k == t[c]
    <2>1. Unwinding(s, n, t, c, q)
      BY <1>1
    <2>2. /\ q < c /\ k.at = q /\ k.to \in 1 .. q /\ t[q].k = "block"
          /\ Aimed(t, c, k, k.to) /\ Carries(s[n].fl, k)
          /\ k.failing <=> k.jump = "fail"
          /\ k.jump = "recover" \/ Unrecovered(s, n - 1, s[n].fl)
      BY <2>1 DEF Unwinding
    <2>3. /\ h.jump = k.jump /\ h.lab = k.lab /\ h.val = k.val /\ h.at = k.at /\ h.to = k.to
          /\ h.failing = k.failing
          /\ f.fl = s[n].fl /\ f = u[n] /\ h = v[c]
      BY <1>1, <1>2, <1>3, <1>4
    <2>4. q \in 1 .. c - 1
      BY <1>1, <2>2
    <2>5. v[q] = t[q]
      BY <1>4, <2>4
    <2>6. Carries(f.fl, h)
      BY <2>2, <2>3 DEF Carries
    <2>7. Aimed(v, c, h, h.to)
      <3>1. c \in Nat /\ \A i \in 1 .. c - 1 : v[i] = t[i]
        BY <1>1, <1>4
      <3>2. v[c].k = t[c].k /\ v[c].lab = t[c].lab
        <4>1. t[c].k = "cleanup" /\ h.k = "cleanup"
          <5>1. Alike(s[n], t[c]) /\ s[n].k = f.k
            BY LevelOf
          <5>2. QED
            BY <5>1 DEF Alike
        <4>2. QED
          BY <2>3, <4>1
      <3> HIDE DEF v, c, q
      <3>3. QED
        BY <2>2, <2>3, <3>1, <3>2, AimedSame
    <2>8. Unrecovered(s, n - 1, s[n].fl) => Unrecovered(u, n - 1, f.fl)
      <3>1. n - 1 \in Nat /\ f.fl = s[n].fl /\ \A i \in 1 .. n - 1 : u[i].k = s[i].k
        BY <1>1, <1>3, <2>3
      <3> HIDE DEF u, n
      <3>2. QED
        BY <3>1, UnrecoveredSame
    <2> HIDE DEF u, v, n, c, q, k
    <2>9. Unwinding(u, n, v, c, q)
      BY <2>2, <2>3, <2>5, <2>6, <2>7, <2>8 DEF Unwinding
    <2>10. QED
      BY <2>9 DEF q
  <1>7. \E e : Placed(u, v, e) /\ e[Len(u)] = Len(v)
    <2> DEFINE w == Pop(s)
    <2>1. /\ w \in Seq(IFrame) /\ Placed(w, v, d) /\ Len(v) \in Nat /\ Len(u) = Len(w) + 1
          /\ \A i \in 1 .. Len(w) : u[i] = w[i]
          /\ c \in 1 .. Len(v) /\ c = Len(v) /\ u \in Seq(IFrame)
          /\ d[Len(w)] < c
          /\ Alike(u[Len(u)], v[c]) /\ u[Len(u)] = f
          /\ f.k # "cleanup" => c = d[Len(w)] + 1
          /\ f.k = "cleanup" => Unwinding(u, Len(u), v, c, d[Len(w)] + 1)
      BY <1>1, <1>3, <1>4, <1>5, <1>6
    <2>2. /\ u[Len(u)].k # "cleanup" => c = d[Len(w)] + 1
          /\ u[Len(u)].k = "cleanup" => Unwinding(u, Len(u), v, c, d[Len(w)] + 1)
      BY <2>1
    <2> HIDE DEF u, v, n, c, w
    <2>3. OneMore(w, v, d, u, c)
      BY <2>1, <2>2 DEF OneMore
    <2>4. QED
      BY <2>1, <2>3, PlacedMore
  <1>8. QED
    BY <1>3, <1>4, <1>7

-----------------------------------------------------------------------------
(***************************************************************************)
(* Arriving somewhere.                                                     *)
(***************************************************************************)

(* A run of the binary from e leads to where the oracle is.                 *)
Tracked(e, s, fl, al, o) ==
  \E t \in Seq(EFrame) : \E a, r :
    /\ Reaches(e, State(t, a, r, o))
    /\ fl.trapped \/ a = al
    /\ Follows(s, fl, o, t, r)

(* The recovery of no handler that is open any more is forgotten.           *)
LEMMA UnrecoveredLess ==
  ASSUME NEW s, NEW n \in Nat \ {0}, NEW fl, Unrecovered(s, n, fl), s[n].k # "cleanup",
         NEW u, \A i \in 1 .. n - 1 : u[i] = s[i],
         NEW fm, fm.recovered => fl.recovered
  PROVE  Unrecovered(u, n - 1, fm)
  <1> SUFFICES ASSUME NEW i \in 1 .. n - 1, u[i].k = "handler",
                      \A j \in i .. n - 1 : u[j].k # "cleanup"
               PROVE  ~fm.recovered
    BY DEF Unrecovered
  <1>1. \A j \in i .. n - 1 : s[j].k # "cleanup"
    <2>1. \A j \in i .. n - 1 : j \in 1 .. n - 1
      OBVIOUS
    <2>2. QED
      BY <2>1
  <1>2. \A j \in i .. n : j = n \/ j \in i .. n - 1
    OBVIOUS
  <1>3. i \in 1 .. n /\ s[i].k = "handler" /\ \A j \in i .. n : s[j].k # "cleanup"
    BY <1>1, <1>2
  <1>4. ~fl.recovered
    BY <1>3 DEF Unrecovered
  <1>5. QED
    BY <1>4

(* Opening what is no handler recovers nothing.                             *)
LEMMA UnrecoveredMore ==
  ASSUME NEW s, NEW n \in Nat, NEW fl, Unrecovered(s, n, fl),
         NEW u, \A i \in 1 .. n : u[i] = s[i], u[n + 1].k # "handler",
         NEW fm, fm.recovered => fl.recovered
  PROVE  Unrecovered(u, n + 1, fm)
  <1> SUFFICES ASSUME NEW i \in 1 .. n + 1, u[i].k = "handler",
                      \A j \in i .. n + 1 : u[j].k # "cleanup"
               PROVE  ~fm.recovered
    BY DEF Unrecovered
  <1>1. i \in 1 .. n /\ \A j \in i .. n : j \in i .. n + 1 /\ j \in 1 .. n
    OBVIOUS
  <1>2. s[i].k = "handler" /\ \A j \in i .. n : s[j].k # "cleanup"
    BY <1>1
  <1>3. ~fl.recovered
    BY <1>1, <1>2 DEF Unrecovered
  <1>4. QED
    BY <1>3

(* No exit is in flight.                                                    *)
NoExit(fl) == ~fl.trapped /\ ~fl.returning /\ ~fl.breaking /\ ~fl.continuing

(* The two have arrived at the same place, with no exit in flight.          *)
LEMMA Arrived ==
  ASSUME NEW s, NEW fl, NEW o, NEW t, NEW g,
         Placed(s, t, g), g[Len(s)] = Len(t), NoExit(fl),
         TopKind(s) = "cleanup" \/ Unrecovered(s, Len(s), fl),
         TopKind(s) \in Resting \/ o = Unit
  PROVE  Follows(s, fl, o, t, <<"value", Unit>>)
  <1>1. ResultOf(fl) = <<"value", Unit>>
    BY DEF ResultOf, NoExit
  <1>2. s # <<>> => TopKind(s) = Top(s).k
    BY DEF TopKind
  <1>3. Settled(s, fl, o, t, <<"value", Unit>>, g)
    BY <1>1, <1>2 DEF Settled, NoExit
  <1>4. QED
    BY <1>3 DEF Follows

(* The function is over.                                                    *)
LEMMA Returned ==
  ASSUME NEW s \in Seq(IFrame), NEW fl, NEW o, NEW t, NEW g, Placed(s, t, g),
         s = <<>>, ~fl.trapped
  PROVE  Follows(s, fl, o, <<>>, ResultOf(fl))
  <1>1. Len(s) = 0 /\ g[0] = 0 /\ TopKind(s) = "end"
    BY EmptySeq DEF Placed, TopKind
  <1> DEFINE v == <<>>
  <1>2. Len(v) = 0 /\ Len(v) \in Nat
    BY EmptySeq
  <1> HIDE DEF v
  <1>3. Placed(s, v, g)
    <2>1. g[Len(s)] <= Len(v) /\ \A i \in 1 .. g[Len(s)] : v[i] = t[i]
      BY <1>1, <1>2
    <2>2. QED
      BY <1>2, <2>1, PlacedSame
  <1>4. Settled(s, fl, o, v, ResultOf(fl), g)
    BY <1>1, <1>2, <1>3 DEF Settled, Resting
  <1>5. QED
    BY <1>4 DEF Follows, v

(* A cleanup that has come further.                                         *)
LEMMA CleanupMoved ==
  ASSUME NEW h \in EFrame, NEW d \in Seq(Deferred), NEW m \in Int
  PROVE  [h EXCEPT !.at = m, !.ds = d] \in EFrame
  BY DEF EFrame

(* A cleanup that has a call less to make.                                  *)
LEMMA CleanupShorter ==
  ASSUME NEW h \in EFrame, NEW d \in Seq(Deferred)
  PROVE  [h EXCEPT !.ds = d] \in EFrame
  BY DEF EFrame

(* The cleanup on its way to the next scope out.                            *)
LEMMA OuterFields ==
  ASSUME NEW t \in Seq(EFrame), t # <<>>, NEW h, h = t[Len(t)],
         h.k = "cleanup", h.to \in 1 .. Len(t), h.at >= h.to, h.at < Len(t)
  PROVE  /\ Outer(t, h) \in EFrame
         /\ Outer(t, h).k = "cleanup" /\ Outer(t, h).at = h.at - 1 /\ Outer(t, h).to = h.to
         /\ Outer(t, h).jump = h.jump /\ Outer(t, h).lab = h.lab /\ Outer(t, h).val = h.val
         /\ Outer(t, h).failing = h.failing
         /\ Outer(t, h).ds = IF h.at > h.to THEN t[h.at - 1].ds ELSE <<>>
  <1>1. Len(t) \in Nat \ {0} /\ h \in EFrame
    BY TopOf
  <1>2. h.at \in Int /\ h.to \in Int
    BY <1>1 DEF EFrame
  <1>3. h.at > h.to => h.at - 1 \in 1 .. Len(t)
    BY <1>1, <1>2
  <1>4. \A i \in 1 .. Len(t) : t[i] \in EFrame
    BY ElementOfSeq
  <1> DEFINE d == IF h.at > h.to THEN t[h.at - 1].ds ELSE <<>>
  <1>5. d \in Seq(Deferred)
    <2>1. <<>> \in Seq(Deferred)
      BY EmptySeq
    <2>2. h.at > h.to => t[h.at - 1].ds \in Seq(Deferred)
      BY <1>3, <1>4 DEF EFrame
    <2>3. QED
      BY <2>1, <2>2
  <1>6. Outer(t, h) = [h EXCEPT !.at = h.at - 1, !.ds = d]
    BY <1>1 DEF Outer, EFrame
  <1> HIDE DEF d
  <1>7. /\ Outer(t, h) \in EFrame
        /\ Outer(t, h).k = h.k /\ Outer(t, h).at = h.at - 1 /\ Outer(t, h).to = h.to
        /\ Outer(t, h).jump = h.jump /\ Outer(t, h).lab = h.lab /\ Outer(t, h).val = h.val
        /\ Outer(t, h).failing = h.failing /\ Outer(t, h).ds = d
    <2> DEFINE m == h.at - 1
               k == Outer(t, h)
    <2>1. m \in Int /\ k = [h EXCEPT !.at = m, !.ds = d]
      BY <1>2, <1>6
    <2> HIDE DEF m, k
    <2>a. h \in EFrame
      BY <1>1
    <2>2. k \in EFrame
      BY <1>5, <2>a, <2>1, CleanupMoved
    <2>3. k.k = h.k /\ k.to = h.to /\ k.jump = h.jump /\ k.lab = h.lab /\ k.at = m
      BY <2>a, <2>1 DEF EFrame
    <2>4. k.val = h.val /\ k.failing = h.failing /\ k.ds = d
      BY <2>a, <2>1 DEF EFrame
    <2>5. QED
      BY <2>2, <2>3, <2>4 DEF m, k
  <1>8. QED
    BY <1>7 DEF d

-----------------------------------------------------------------------------
(***************************************************************************)
(* One scope further out.                                                  *)
(***************************************************************************)

(* A run of the binary goes on, from one state to the next.                 *)
LEMMA Further ==
  ASSUME NEW e, NEW t, NEW a, NEW r, NEW o, NEW u \in Seq(EFrame), NEW b, NEW x, NEW y,
         Reaches(e, State(t, a, r, o)), ~Quiet(t),
         After(State(t, a, r, o)) = State(u, b, x, y)
  PROVE  Reaches(e, State(u, b, x, y))
  <1> DEFINE f == State(t, a, r, o)
  <1>1. f.st = t /\ After(f) = State(u, b, x, y) /\ After(f).st = u
    BY StateFields
  <1> HIDE DEF f
  <1>2. Reaches(e, f)
    BY DEF f
  <1>3. Reaches(e, After(f))
    BY <1>1, <1>2, ReachOn
  <1>4. QED
    BY <1>1, <1>3

(* The jump after a cleanup that leaves the function.                       *)
LEMMA LeftFunction ==
  ASSUME NEW e, NEW s \in Seq(IFrame), s = <<>>, NEW fl, NEW t, NEW a, NEW r, NEW o, NEW g,
         Bound(s, fl, o, t, r, g, 1), Due(t, 1),
         t[Len(t)].jump \in {"return", "fail"},
         Reaches(e, State(t, a, r, o))
  PROVE  \E v \in Seq(EFrame) : \E x : Reaches(e, State(v, a, x, o)) /\ Follows(s, fl, o, v, x)
  <1> DEFINE h == t[Len(t)]
             x == <<IF h.jump = "return" THEN "value" ELSE "failed", h.val>>
  <1>1. ~Quiet(t)
    BY JumpNext
  <1>2. After(State(t, a, r, o)) = State(<<>>, a, x, o)
    <2>1. CASE h.jump = "return"
      <3>1. x = <<"value", h.val>>
        BY <2>1
      <3>2. After(State(t, a, r, o)) = State(<<>>, a, <<"value", t[Len(t)].val>>, o)
        BY <2>1, LandReturn
      <3>3. QED
        BY <3>1, <3>2
    <2>2. CASE h.jump = "fail"
      <3>1. x = <<"failed", h.val>>
        BY <2>2
      <3>2. \A i \in 1 .. Len(t) - 1 : t[i].k # "operand"
        BY <2>2 DEF Due, Aimed
      <3>3. After(State(t, a, r, o)) = State(<<>>, a, <<"failed", t[Len(t)].val>>, o)
        BY <2>2, <3>2, LandFailure
      <3>4. QED
        BY <3>1, <3>3
    <2>3. QED
      BY <2>1, <2>2
  <1>3. <<>> \in Seq(EFrame)
    BY EmptySeq
  <1>4. Placed(s, t, g) /\ Carries(fl, h) /\ ~fl.trapped
    BY DEF Bound
  <1>5. x = ResultOf(fl)
    BY <1>4 DEF Carries, ResultOf
  <1> HIDE DEF x
  <1>6. Reaches(e, State(<<>>, a, x, o))
    BY <1>1, <1>2, <1>3, Further
  <1>7. Follows(s, fl, o, <<>>, x)
    BY <1>4, <1>5, Returned
  <1>8. QED
    BY <1>3, <1>6, <1>7

(* The cleanup on top is done with the scope it has reached.                *)
ScopeDone(t) ==
  LET h == t[Len(t)] IN h.ds = <<>> /\ h.at >= h.to /\ h.at < Len(t)

(* The binary, in the state it had with the C nesting t, is at w.           *)
NextScope(t, w) ==
  /\ Len(w) = Len(t) /\ w[Len(t)] = Outer(t, t[Len(t)])
  /\ \A i \in 1 .. Len(t) - 1 : w[i] = t[i]

(* The allocator after a scope that the cleanup on top is done with.        *)
PutBack(t, a) == IF t[t[Len(t)].at].k = "with" THEN t[t[Len(t)].at].al ELSE a

(* The binary goes on to the next scope out; its jump is aimed where it was.*)
LEMMA ScopeMove ==
  ASSUME NEW e, NEW t \in Seq(EFrame), t # <<>>, NEW a, NEW r, NEW o, NEW h, h = t[Len(t)],
         h.k = "cleanup", ScopeDone(t), Aimed(t, Len(t), h, h.to),
         Reaches(e, State(t, a, r, o))
  PROVE  \E w \in Seq(EFrame) :
           /\ NextScope(t, w)
           /\ Reaches(e, State(w, PutBack(t, a), r, o))
           /\ Aimed(w, Len(w), w[Len(w)], h.to)
  <1> DEFINE b == PutBack(t, a)
             c == Len(t)
             p == h.to
             k == Outer(t, h)
             w == SetTop(t, k)
  <1>2. h.ds = <<>> /\ h.at >= p /\ h.at < c
    BY DEF ScopeDone
  <1>4. TopKind(t) = "cleanup" /\ Top(t) = h /\ h \in EFrame /\ h.at \in Int /\ p \in Int
        /\ c \in Nat \ {0}
    <2>1. TopKind(t) = h.k /\ Top(t) = h /\ h \in EFrame /\ c \in Nat /\ c # 0
      BY TopOf
    <2>2. QED
      BY <2>1 DEF EFrame
  <1>5. p \in 1 .. c
    BY DEF Aimed
  <1>6. /\ k \in EFrame
        /\ k.k = "cleanup" /\ k.at = h.at - 1 /\ k.to = p
        /\ k.jump = h.jump /\ k.lab = h.lab /\ k.val = h.val /\ k.failing = h.failing
        /\ k.ds = IF h.at > p THEN t[h.at - 1].ds ELSE <<>>
    BY <1>2, <1>5, OuterFields
  <1>7. /\ w \in Seq(EFrame) /\ Len(w) = c
        /\ \A i \in 1 .. c - 1 : w[i] = t[i]
        /\ w[c] = k
    <2>1. k \in EFrame
      BY <1>6
    <2> HIDE DEF k
    <2>2. QED
      BY <1>4, <2>1, SetTopFacts
  <1>8. Reaches(e, State(w, b, r, o))
    <2>1. ~Quiet(t) /\ After(State(t, a, r, o)) = State(w, b, r, o)
      <3>1. Top(t).ds = <<>> /\ Top(t).at \in Int /\ Top(t).to \in Int /\ Top(t).at >= Top(t).to
        BY <1>2, <1>4
      <3>2. QED
        BY <1>4, <3>1, AfterScope DEF PutBack
    <2>2. w \in Seq(EFrame)
      BY <1>7
    <2> HIDE DEF w
    <2>3. QED
      BY <2>1, <2>2, Further
  <1> HIDE DEF k, w
  <1>9. Aimed(w, c, k, p)
    <2>1. c \in Nat /\ \A i \in 1 .. c - 1 : w[i] = t[i]
      BY <1>4, <1>7
    <2>2. w[c].k = t[c].k /\ w[c].lab = t[c].lab
      BY <1>6, <1>7
    <2>3. k.jump = h.jump /\ k.lab = h.lab
      BY <1>6
    <2> HIDE DEF c, p
    <2>4. Aimed(t, c, h, p)
      BY DEF c, p
    <2>5. QED
      BY <2>1, <2>2, <2>3, <2>4, AimedSame
  <1>10. h = t[Len(t)]
    OBVIOUS
  <1>11. NextScope(t, w)
    BY <1>7, <1>10 DEF k, NextScope
  <1>12. Aimed(w, Len(w), w[Len(w)], p)
    BY <1>7, <1>9
  <1>13. QED
    BY <1>7, <1>8, <1>11, <1>12

(* So does the exit that is under way.                                      *)
LEMMA ScopeStep ==
  ASSUME NEW e, NEW s \in Seq(IFrame), NEW fl, NEW t \in Seq(EFrame), NEW a, NEW r, NEW o, NEW g,
         Bound(s, fl, o, t, r, g, t[Len(t)].to), ScopeDone(t),
         Reaches(e, State(t, a, r, o))
  PROVE  \E w \in Seq(EFrame) :
           /\ NextScope(t, w)
           /\ Reaches(e, State(w, PutBack(t, a), r, o))
           /\ Bound(s, fl, o, w, r, g, t[Len(t)].to)
  <1> DEFINE b == PutBack(t, a)
             c == Len(t)
             h == t[c]
             p == h.to
             k == Outer(t, h)
             n == Len(s)
  <1>1. /\ Placed(s, t, g) /\ g[n] < c
        /\ h.k = "cleanup" /\ h.jump # "fall"
        /\ Aimed(t, c, h, p)
        /\ Carries(fl, h)
        /\ h.jump = "recover" \/ Unrecovered(s, n, fl)
        /\ ~fl.trapped /\ o = Unit /\ r = <<"value", Unit>>
    BY DEF Bound
  <1>2. h.ds = <<>> /\ h.at >= p /\ h.at < c
    BY DEF ScopeDone
  <1>3. /\ n \in Nat /\ g[n] \in Nat /\ c \in Nat \ {0} /\ t # <<>>
    <2>1. n \in Nat /\ g \in [0 .. n -> Nat]
      BY <1>1, LevelOf
    <2>2. c \in Nat /\ (t = <<>> <=> c = 0)
      BY TopOf
    <2>3. g[n] \in Nat
      BY <2>1
    <2>4. QED
      BY <1>1, <2>1, <2>2, <2>3
  <1>4. TopKind(t) = "cleanup" /\ Top(t) = h /\ h \in EFrame /\ h.at \in Int /\ p \in Int
    <2>1. TopKind(t) = h.k /\ Top(t) = h /\ h \in EFrame
      BY <1>3, TopOf
    <2>2. QED
      BY <1>1, <2>1 DEF EFrame
  <1>5. p \in 1 .. c
    BY <1>1 DEF Aimed
  <1>6. /\ k \in EFrame
        /\ k.k = "cleanup" /\ k.at = h.at - 1 /\ k.to = p
        /\ k.jump = h.jump /\ k.lab = h.lab /\ k.val = h.val /\ k.failing = h.failing
        /\ k.ds = IF h.at > p THEN t[h.at - 1].ds ELSE <<>>
    BY <1>1, <1>2, <1>3, <1>5, OuterFields
  <1>7. PICK w \in Seq(EFrame) :
          /\ NextScope(t, w)
          /\ Reaches(e, State(w, b, r, o))
          /\ Aimed(w, Len(w), w[Len(w)], p)
    BY <1>1, <1>3, ScopeMove
  <1>8. Len(w) = c /\ w[c] = k /\ \A i \in 1 .. c - 1 : w[i] = t[i]
    BY <1>7 DEF NextScope
  <1> HIDE DEF k, b
  <1>9. Bound(s, fl, o, w, r, g, p)
    <2>1. Placed(s, w, g)
      <3>1. Len(w) \in Nat /\ g[n] <= Len(w) /\ \A i \in 1 .. g[n] : w[i] = t[i]
        BY <1>1, <1>3, <1>8
      <3>2. QED
        BY <1>1, <3>1, PlacedSame
    <2>2. Aimed(w, c, k, p)
      BY <1>7, <1>8
    <2>3. Carries(fl, k)
      BY <1>1, <1>6 DEF Carries
    <2>4. QED
      BY <1>1, <1>6, <1>8, <2>1, <2>2, <2>3 DEF Bound
  <1>10. QED
    BY <1>7, <1>9 DEF b

(* The scope above the level that is now innermost is done with, and the    *)
(* jump does not end there.                                                 *)
Crossing(t, s, g) ==
  LET h == t[Len(t)] IN
  /\ ScopeDone(t) /\ h.at = g[Len(s)] + 1
  /\ h.failing <=> h.jump = "fail"
  /\ h.jump \in {"break", "continue"} => h.at > h.to

(* The binary leaves one scope.                                             *)
LEMMA OneScopeOut ==
  ASSUME NEW e, NEW s \in Seq(IFrame), NEW fl, NEW t \in Seq(EFrame), NEW a, NEW r, NEW o, NEW g,
         Bound(s, fl, o, t, r, g, t[Len(t)].to), Crossing(t, s, g),
         Reaches(e, State(t, a, r, o))
  PROVE  \E v \in Seq(EFrame) : \E x :
           Reaches(e, State(v, PutBack(t, a), x, o)) /\ Follows(s, fl, o, v, x)
  <1> DEFINE b == PutBack(t, a)
             c == Len(t)
             h == t[c]
             p == h.to
             k == Outer(t, h)
             n == Len(s)
  <1>1. /\ Placed(s, t, g) /\ g[n] < c
        /\ h.k = "cleanup" /\ h.jump # "fall"
        /\ Aimed(t, c, h, p)
        /\ Carries(fl, h)
        /\ h.jump = "recover" \/ Unrecovered(s, n, fl)
        /\ ~fl.trapped /\ o = Unit /\ r = <<"value", Unit>>
    BY DEF Bound
  <1>2. /\ h.ds = <<>> /\ h.at = g[n] + 1 /\ h.at >= p /\ h.at < c
        /\ h.failing <=> h.jump = "fail"
        /\ h.jump \in {"break", "continue"} => h.at > p
    BY DEF Crossing, ScopeDone
  <1>3. /\ n \in Nat /\ g[n] \in Nat /\ c \in Nat \ {0} /\ t # <<>>
    <2>1. n \in Nat /\ g \in [0 .. n -> Nat]
      BY <1>1, LevelOf
    <2>2. c \in Nat /\ (t = <<>> <=> c = 0)
      BY TopOf
    <2>3. g[n] \in Nat
      BY <2>1
    <2>4. QED
      BY <1>1, <2>1, <2>2, <2>3
  <1>4. TopKind(t) = "cleanup" /\ Top(t) = h /\ h \in EFrame /\ h.at \in Int /\ p \in Int
    <2>1. TopKind(t) = h.k /\ Top(t) = h /\ h \in EFrame
      BY <1>3, TopOf
    <2>2. QED
      BY <1>1, <2>1 DEF EFrame
  <1>5. p \in 1 .. c
    BY <1>1 DEF Aimed
  <1>6. /\ k \in EFrame
        /\ k.k = "cleanup" /\ k.at = h.at - 1 /\ k.to = p
        /\ k.jump = h.jump /\ k.lab = h.lab /\ k.val = h.val /\ k.failing = h.failing
        /\ k.ds = IF h.at > p THEN t[h.at - 1].ds ELSE <<>>
    BY <1>1, <1>2, <1>3, <1>5, OuterFields
  <1>7. PICK w \in Seq(EFrame) :
          /\ NextScope(t, w)
          /\ Reaches(e, State(w, b, r, o))
          /\ Bound(s, fl, o, w, r, g, p)
    <2>1. ScopeDone(t)
      BY DEF Crossing
    <2>2. QED
      BY <2>1, ScopeStep
  <1>a. Len(w) = c /\ w[c] = k /\ \A i \in 1 .. c - 1 : w[i] = t[i]
    BY <1>7 DEF NextScope
  <1> HIDE DEF k, b
  <1>8. CASE s = <<>>
    <2>1. g[n] = 0 /\ h.at = 1 /\ p = 1
      <3>1. g[n] = 0
        BY <1>1, <1>8, LevelOf
      <3>2. QED
        BY <1>2, <1>4, <1>5, <3>1
    <2>2. h.jump \in {"return", "fail"}
      <3>1. h.jump \in Jumps
        BY <1>4 DEF EFrame
      <3>2. h.jump # "recover"
        BY <1>1, <2>1 DEF Aimed
      <3>3. QED
        BY <1>1, <1>2, <2>1, <3>1, <3>2 DEF Jumps
    <2>3. Due(w, 1)
      <3>1. Aimed(w, c, k, 1)
        BY <1>7, <1>a, <2>1 DEF Bound
      <3>2. w # <<>>
        BY <1>3, <1>7, <1>a, EmptySeq
      <3>3. k.ds = <<>> /\ k.at < k.to
        BY <1>6, <2>1
      <3>4. QED
        BY <1>6, <1>7, <1>a, <3>1, <3>2, <3>3 DEF Due
    <2>4. Bound(s, fl, o, w, r, g, 1) /\ w[Len(w)].jump \in {"return", "fail"}
      BY <1>6, <1>7, <1>a, <2>1, <2>2
    <2>5. s \in Seq(IFrame)
      OBVIOUS
    <2> HIDE DEF c, h, p, n
    <2>6. QED
      BY <1>7, <1>a, <1>8, <2>3, <2>4, <2>5, LeftFunction DEF b
  <1>9. CASE s # <<>>
    <2>1. g[n] \in Nat \ {0} /\ Alike(s[n], t[g[n]]) /\ Top(s) = s[n]
      BY <1>1, <1>9, LevelOf
    <2>2. h.at > p => Top(s).k # "cleanup"
      <3>1. SUFFICES ASSUME h.at > p PROVE t[g[n]].k # "cleanup"
        BY <2>1 DEF Alike
      <3>2. g[n] \in p .. c - 1
        BY <1>2, <1>3, <1>4, <1>5, <3>1
      <3>3. QED
        BY <1>1, <3>2 DEF Aimed
    <2>3. h.at = p => h.jump \in {"fail", "recover"} /\ Top(s).k # "cleanup"
      <3>1. SUFFICES ASSUME h.at = p
                     PROVE  h.jump \in {"fail", "recover"} /\ t[g[n]].k # "cleanup"
        BY <2>1 DEF Alike
      <3>2. p # 1 /\ p - 1 = g[n]
        <4>1. p - 1 = g[n]
          BY <1>2, <1>3, <1>4, <3>1
        <4>2. QED
          BY ONLY <1>4, <2>1, <4>1
      <3>3. h.jump \in Jumps
        BY <1>4 DEF EFrame
      <3>4. h.jump \notin {"break", "continue"}
        BY <1>2, <1>4, <3>1
      <3>5. h.jump # "return"
        BY <1>1, <3>2 DEF Aimed
      <3>6. h.jump \in {"fail", "recover"}
        BY <1>1, <3>3, <3>4, <3>5 DEF Jumps
      <3>7. t[p - 1].k \in {"operand", "handler"}
        BY <1>1, <3>2, <3>6 DEF Aimed
      <3>8. QED
        BY <3>2, <3>6, <3>7
    <2>4. h.at > p \/ h.at = p
      BY <1>2, <1>4
    <2>5. /\ k.at = g[n] /\ k.to = p
          /\ k.at >= p \/ (k.at = p - 1 /\ k.jump \in {"fail", "recover"})
      BY <1>2, <1>3, <1>4, <1>6, <2>3, <2>4
    <2>6. k.ds = IF k.at >= p THEN w[k.at].ds ELSE <<>>
      <3>1. k.at = h.at - 1 /\ (k.at >= p <=> h.at > p)
        BY <1>4, <1>6
      <3>2. k.at \in 1 .. c - 1
        BY <1>3, <1>1, <2>1, <2>5
      <3>3. w[k.at] = t[h.at - 1]
        BY <1>7, <1>a, <3>1, <3>2
      <3>4. QED
        BY <1>6, <3>1, <3>3
    <2>7. k.failing <=> k.jump = "fail"
      BY <1>2, <1>6
    <2>8. Leaving(s, fl, o, w, r, g, p)
      BY <1>7, <1>a, <1>9, <2>2, <2>3, <2>4, <2>5, <2>6, <2>7 DEF Leaving
    <2>9. Follows(s, fl, o, w, r)
      BY <2>8 DEF Follows
    <2>10. QED
      BY <1>7, <1>a, <2>9 DEF b
  <1>10. QED
    BY <1>8, <1>9

-----------------------------------------------------------------------------
(***************************************************************************)
(* Where a jump ends, in both executions.                                  *)
(***************************************************************************)

(* A construct is opened alike.                                             *)
LEMMA OpenAlike ==
  ASSUME NEW kind \in IKinds
  PROVE  /\ EOpen(kind) \in EFrame /\ IOpen(kind) \in IFrame
         /\ Alike(IOpen(kind), EOpen(kind))
         /\ IOpen(kind).k = kind /\ EOpen(kind).k = kind
  <1>1. <<>> \in Seq(Deferred) /\ HeapAlloc \in Allocs
    BY EmptySeq, ConstructsAssumption
  <1>2. EOpen(kind) \in EFrame
    BY <1>1 DEF EOpen, EFrame, Jumps, Label, Value
  <1>3. IOpen(kind) \in IFrame
    BY OpenType
  <1>4. Alike(IOpen(kind), EOpen(kind)) /\ IOpen(kind).k = kind /\ EOpen(kind).k = kind
    BY DEF Alike, IOpen, EOpen
  <1>5. QED
    BY <1>2, <1>3, <1>4

(* A jump is due and the oracle is in the level that it ends in.            *)
JumpHere(s, fl, o, t, r, g, p) ==
  /\ Bound(s, fl, o, t, r, g, p) /\ Due(t, p) /\ s # <<>>

(* The flags of an exit that has ended.                                     *)
Ended(fl, fm) == NoExit(fm) /\ (fm.recovered => fl.recovered)

(* A `break` or a `continue` is due in the loop it is aimed at; u is the    *)
(* recursion after it.                                                      *)
LoopHere(s, fl, o, t, r, g, p, fm, u) ==
  /\ JumpHere(s, fl, o, t, r, g, p) /\ g[Len(s)] = p /\ Top(s).k = "loop"
  /\ t[Len(t)].jump \in {"break", "continue"}
  /\ Ended(fl, fm)
  /\ u = IF t[Len(t)].jump = "break" THEN Pop(s) ELSE s

(* It ends there in both.                                                   *)
LEMMA LoopLeft ==
  ASSUME NEW e, NEW s \in Seq(IFrame), NEW fl, NEW t, NEW a, NEW r, NEW o, NEW g, NEW p,
         NEW fm, NEW u, LoopHere(s, fl, o, t, r, g, p, fm, u),
         Reaches(e, State(t, a, r, o))
  PROVE  \E v \in Seq(EFrame) : \E x : Reaches(e, State(v, a, x, o)) /\ Follows(u, fm, o, v, x)
  <1> DEFINE n == Len(s)
             h == t[Len(t)]
             m == IF h.jump = "break" THEN p - 1 ELSE p
             v == Cut(t, m)
  <1> /\ JumpHere(s, fl, o, t, r, g, p) /\ g[Len(s)] = p /\ Top(s).k = "loop"
      /\ t[Len(t)].jump \in {"break", "continue"}
      /\ Ended(fl, fm)
      /\ u = IF t[Len(t)].jump = "break" THEN Pop(s) ELSE s
    BY DEF LoopHere
  <1>1. /\ Placed(s, t, g) /\ p < Len(t) /\ o = Unit /\ r = <<"value", Unit>>
        /\ Unrecovered(s, n, fl) /\ t \in Seq(EFrame) /\ s # <<>>
    BY DEF JumpHere, Bound, Due
  <1>2. /\ Len(t) \in Nat \ {0} /\ p \in 1 .. Len(t) /\ ~Quiet(t)
        /\ After(State(t, a, r, o)) = State(v, a, r, o)
    <2>1. Due(t, p)
      BY DEF JumpHere
    <2>2. /\ Len(t) \in Nat \ {0} /\ p \in 1 .. Len(t) /\ ~Quiet(t)
      BY <2>1, JumpNext
    <2>3. After(State(t, a, r, o)) = State(v, a, r, o)
      BY <2>1, LandJump
    <2>4. QED
      BY <2>2, <2>3
  <1>3. m \in 0 .. Len(t) /\ m \in Nat
    BY <1>1, <1>2
  <1>4. v \in Seq(EFrame) /\ Len(v) = m /\ \A i \in 1 .. m : v[i] = t[i]
    BY <1>1, <1>3, CutFacts
  <1>5. Reaches(e, State(v, a, r, o))
    <2> HIDE DEF v
    <2>1. QED
      BY <1>2, <1>4, Further
  <1>6. /\ n \in Nat \ {0} /\ s[n].k = "loop" /\ TopKind(s) = "loop"
        /\ g[n - 1] = p - 1
    <2>1. /\ n \in Nat \ {0} /\ s[n].k = "loop" /\ TopKind(s) = "loop"
          /\ g[n - 1] \in Nat /\ g[n] = g[n - 1] + 1
      BY <1>1, LevelOf
    <2>2. QED
      BY <1>2, <2>1
  <1>7. NoExit(fm) /\ (fm.recovered => fl.recovered)
    BY DEF Ended
  <1> HIDE DEF v
  <1>8. CASE h.jump = "break"
    <2>1. m = p - 1 /\ u = Pop(s)
      BY <1>8
    <2>2. PICK f : /\ Placed(u, v, f) /\ f[Len(u)] = p - 1
                   /\ Len(u) = n - 1 /\ \A i \in 1 .. n - 1 : u[i] = s[i]
      <3>1. Len(v) \in Nat /\ g[n - 1] <= Len(v) /\ \A i \in 1 .. g[n - 1] : v[i] = t[i]
        BY <1>2, <1>3, <1>4, <1>6, <2>1
      <3>2. \E f : Placed(Pop(s), v, f) /\ f[Len(Pop(s))] = g[n - 1]
        BY <1>1, <3>1, PlacedPop
      <3>3. Len(Pop(s)) = n - 1 /\ \A i \in 1 .. n - 1 : Pop(s)[i] = s[i]
        BY <1>1, PopFacts
      <3>4. QED
        BY <1>6, <2>1, <3>2, <3>3
    <2>3. Unrecovered(u, n - 1, fm)
      BY <1>1, <1>6, <1>7, <2>2, UnrecoveredLess
    <2>4. Follows(u, fm, o, v, <<"value", Unit>>)
      BY <1>1, <1>4, <1>7, <2>1, <2>2, <2>3, Arrived
    <2>5. QED
      BY <1>1, <1>4, <1>5, <2>4
  <1>9. CASE h.jump = "continue"
    <2>1. m = p /\ u = s
      BY <1>9
    <2>2. Placed(s, v, g)
      <3>1. Len(v) \in Nat /\ g[n] <= Len(v) /\ \A i \in 1 .. g[n] : v[i] = t[i]
        BY <1>2, <1>3, <1>4, <2>1
      <3>2. QED
        BY <1>1, <3>1, PlacedSame
    <2>3. Unrecovered(s, n, fm)
      BY <1>1, <1>6, <1>7, UnrecoveredSame
    <2>4. Follows(s, fm, o, v, <<"value", Unit>>)
      BY <1>1, <1>4, <1>7, <2>1, <2>2, <2>3, Arrived
    <2>5. QED
      BY <1>1, <1>4, <1>5, <2>1, <2>4
  <1>10. QED
    BY <1>8, <1>9

(* A failure in the operand that catches it.                                *)
LEMMA FailureCaught ==
  ASSUME NEW e, NEW s \in Seq(IFrame), NEW fl, NEW t, NEW a, NEW r, NEW o, NEW g, NEW p,
         JumpHere(s, fl, o, t, r, g, p), g[Len(s)] = p - 1, Top(s).k = "operand",
         t[Len(t)].jump = "fail",
         NEW fm, NoExit(fm), ~fm.recovered,
         NEW u, u = Push2(Pop(s), IOpen("handler"), IOpen("block")),
         Reaches(e, State(t, a, r, o))
  PROVE  \E v \in Seq(EFrame) : \E x :
           Reaches(e, State(v, a, x, fl.val)) /\ Follows(u, fm, fl.val, v, x)
  <1> DEFINE n == Len(s)
             h == t[Len(t)]
             w == Cut(t, p - 2)
             y == Append(w, EOpen("handler"))
             v == Push2(w, EOpen("handler"), EOpen("block"))
  <1>1. /\ Placed(s, t, g) /\ r = <<"value", Unit>> /\ h.val = fl.val
        /\ t \in Seq(EFrame) /\ s # <<>>
    BY DEF JumpHere, Bound, Due, Carries
  <1>2. /\ n \in Nat \ {0} /\ s[n].k = "operand"
        /\ g[n] \in Nat \ {0} /\ g[n - 1] = p - 2 /\ g[n - 1] \in Nat /\ p \in Int
    <2>1. Due(t, p)
      BY DEF JumpHere
    <2>2. p \in 1 .. Len(t) /\ Len(t) \in Nat \ {0}
      BY <2>1, JumpNext
    <2>3. /\ n \in Nat \ {0} /\ s[n].k = "operand" /\ g[n] \in Nat \ {0} /\ g[n - 1] \in Nat
          /\ g[n] = g[n - 1] + 1
      BY <1>1, LevelOf
    <2>4. QED
      BY <2>2, <2>3
  <1>3. /\ Len(t) \in Nat \ {0} /\ p \in 1 .. Len(t) /\ ~Quiet(t) /\ p > 1
        /\ After(State(t, a, r, o)) = State(v, a, r, fl.val)
    <2>1. Due(t, p)
      BY DEF JumpHere
    <2>2. /\ Len(t) \in Nat \ {0} /\ p \in 1 .. Len(t) /\ ~Quiet(t)
      BY <2>1, JumpNext
    <2>3. p > 1
      BY <1>2
    <2>4. After(State(t, a, r, o)) = State(v, a, r, h.val)
      BY <2>1, <2>3, LandFail
    <2>5. QED
      BY <1>1, <2>2, <2>3, <2>4
  <1>4. p - 2 \in 0 .. Len(t)
    BY <1>2, <1>3
  <1>5. w \in Seq(EFrame) /\ Len(w) = p - 2 /\ \A i \in 1 .. p - 2 : w[i] = t[i]
    BY <1>1, <1>4, CutFacts
  <1> HIDE DEF w
  <1>6. /\ EOpen("handler") \in EFrame /\ EOpen("block") \in EFrame
        /\ IOpen("handler") \in IFrame /\ IOpen("block") \in IFrame
        /\ Alike(IOpen("handler"), EOpen("handler")) /\ Alike(IOpen("block"), EOpen("block"))
        /\ IOpen("handler").k # "cleanup" /\ IOpen("block").k = "block"
    BY OpenAlike DEF IKinds
  <1>7. PICK f : /\ Pop(s) \in Seq(IFrame) /\ Placed(Pop(s), w, f) /\ f[Len(Pop(s))] = Len(w)
    <2>1. Len(w) \in Nat /\ g[n - 1] <= Len(w) /\ \A i \in 1 .. g[n - 1] : w[i] = t[i]
      BY <1>2, <1>5
    <2>2. PICK f : /\ Pop(s) \in Seq(IFrame) /\ Placed(Pop(s), w, f)
                   /\ f[Len(Pop(s))] = g[n - 1]
      BY <1>1, <2>1, PlacedPop
    <2>3. g[n - 1] = Len(w)
      BY <1>2, <1>5
    <2>4. QED
      BY <2>2, <2>3
  <1>8. PICK f1 : /\ Append(Pop(s), IOpen("handler")) \in Seq(IFrame) /\ y \in Seq(EFrame)
                  /\ Placed(Append(Pop(s), IOpen("handler")), y, f1)
                  /\ f1[Len(Append(Pop(s), IOpen("handler")))] = Len(y)
    BY <1>5, <1>6, <1>7, PlacedPush
  <1> DEFINE z == Append(Pop(s), IOpen("handler"))
  <1> HIDE DEF y, z
  <1>9. u = Append(z, IOpen("block")) /\ v = Append(y, EOpen("block"))
    BY DEF Push2, y, z
  <1>10. PICK f2 : /\ u \in Seq(IFrame) /\ v \in Seq(EFrame)
                   /\ Placed(u, v, f2) /\ f2[Len(u)] = Len(v)
    <2>1. z \in Seq(IFrame) /\ y \in Seq(EFrame) /\ Placed(z, y, f1) /\ f1[Len(z)] = Len(y)
      BY <1>8 DEF z
    <2>2. IOpen("block").k # "cleanup"
      BY <1>6
    <2>3. /\ Append(z, IOpen("block")) \in Seq(IFrame) /\ Append(y, EOpen("block")) \in Seq(EFrame)
          /\ \E f2 : /\ Placed(Append(z, IOpen("block")), Append(y, EOpen("block")), f2)
                     /\ f2[Len(Append(z, IOpen("block")))] = Len(Append(y, EOpen("block")))
      BY <1>6, <2>1, <2>2, PlacedPush
    <2>4. QED
      BY <1>9, <2>3
  <1>11. TopKind(u) = "block"
    <2>1. z \in Seq(IFrame)
      BY <1>8 DEF z
    <2>2. Len(u) = Len(z) + 1 /\ u[Len(z) + 1] = IOpen("block") /\ u \in Seq(IFrame) /\ Len(z) \in Nat
      BY <1>6, <1>9, <1>10, <2>1, PushFacts, LenProperties
    <2>3. u # <<>>
      BY <2>2, EmptySeq
    <2>4. QED
      BY <1>6, <2>2, <2>3 DEF TopKind, Top
  <1>12. Unrecovered(u, Len(u), fm)
    BY DEF Unrecovered
  <1>13. Follows(u, fm, fl.val, v, <<"value", Unit>>)
    BY <1>10, <1>11, <1>12, Arrived DEF Resting
  <1>14. Reaches(e, State(v, a, r, fl.val))
    <2> HIDE DEF v
    <2>1. QED
      BY <1>3, <1>10, Further
  <1>15. QED
    BY <1>1, <1>10, <1>13, <1>14

(* A `recover` in its handler, which is written where a value may be.       *)
LEMMA HandlerLeft ==
  ASSUME NEW e, NEW s \in Seq(IFrame), NEW fl, NEW t, NEW a, NEW r, NEW o, NEW g, NEW p,
         JumpHere(s, fl, o, t, r, g, p), g[Len(s)] = p - 1, Top(s).k = "handler",
         t[Len(t)].jump = "recover", Shape(s),
         NEW fm, NoExit(fm), ~fm.recovered,
         Reaches(e, State(t, a, r, o))
  PROVE  \E v \in Seq(EFrame) : \E x :
           Reaches(e, State(v, a, x, fl.rec)) /\ Follows(Pop(s), fm, fl.rec, v, x)
  <1> DEFINE n == Len(s)
             h == t[Len(t)]
             u == Pop(s)
             v == Cut(t, p - 2)
  <1>1. /\ Placed(s, t, g) /\ r = <<"value", Unit>> /\ h.val = fl.rec
        /\ t \in Seq(EFrame) /\ s # <<>>
    BY DEF JumpHere, Bound, Due, Carries
  <1>2. /\ n \in Nat \ {0} /\ s[n].k = "handler"
        /\ g[n - 1] = p - 2 /\ g[n - 1] \in Nat /\ p \in Int
        /\ Len(t) \in Nat \ {0} /\ p \in 1 .. Len(t) /\ ~Quiet(t)
        /\ After(State(t, a, r, o)) = State(v, a, r, fl.rec)
    <2>1. Due(t, p)
      BY DEF JumpHere
    <2>2. p \in 1 .. Len(t) /\ Len(t) \in Nat \ {0} /\ ~Quiet(t)
      BY <2>1, JumpNext
    <2>3. /\ n \in Nat \ {0} /\ s[n].k = "handler" /\ g[n] \in Nat \ {0} /\ g[n - 1] \in Nat
          /\ g[n] = g[n - 1] + 1
      BY <1>1, LevelOf
    <2>4. After(State(t, a, r, o)) = State(v, a, r, h.val)
      BY <2>1, LandRecover
    <2>5. QED
      BY <1>1, <2>2, <2>3, <2>4
  <1>3. v \in Seq(EFrame) /\ Len(v) = p - 2 /\ \A i \in 1 .. p - 2 : v[i] = t[i]
    <2>1. p - 2 \in 0 .. Len(t)
      BY <1>2
    <2>2. QED
      BY <1>1, <2>1, CutFacts
  <1> HIDE DEF v
  <1>4. PICK f : /\ u \in Seq(IFrame) /\ Len(u) = n - 1 /\ Placed(u, v, f)
                 /\ f[Len(u)] = g[n - 1] /\ \A i \in 1 .. n - 1 : u[i] = s[i]
    <2>1. Len(v) \in Nat /\ g[n - 1] <= Len(v) /\ \A i \in 1 .. g[n - 1] : v[i] = t[i]
      BY <1>2, <1>3
    <2>2. QED
      <3>1. s \in Seq(IFrame) /\ s # <<>> /\ Placed(s, t, g)
        BY <1>1
      <3>2. /\ u \in Seq(IFrame) /\ Len(u) = n - 1 /\ \A i \in 1 .. n - 1 : u[i] = s[i]
            /\ \E f : Placed(u, v, f) /\ f[Len(u)] = g[n - 1]
        BY ONLY <2>1, <3>1, PlacedPop
      <3>3. QED
        BY ONLY <3>2
  <1>5. TopKind(u) \in Resting
    <2>1. n > 1 /\ s[n - 1].k \in {"block", "operand", "argument"}
      BY <1>2 DEF Shape
    <2>2. u # <<>> /\ Top(u) = s[n - 1]
      BY <1>2, <1>4, <2>1, EmptySeq DEF Top
    <2>3. QED
      BY <2>1, <2>2 DEF TopKind, Resting
  <1>6. Unrecovered(u, Len(u), fm)
    BY DEF Unrecovered
  <1>7. f[Len(u)] = Len(v)
    BY <1>2, <1>3, <1>4
  <1> HIDE DEF u
  <1>8. Follows(u, fm, fl.rec, v, <<"value", Unit>>)
    BY <1>4, <1>5, <1>6, <1>7, Arrived
  <1>9. Reaches(e, State(v, a, r, fl.rec))
    BY <1>2, <1>3, Further
  <1>10. QED
    BY <1>1, <1>3, <1>8, <1>9 DEF u

(* The oracle has gone one scope out, on its way to where the binary is     *)
(* about to jump to.                                                        *)
LEMMA BareOut ==
  ASSUME NEW e, NEW s \in Seq(IFrame), NEW fl, NEW t \in Seq(EFrame), NEW a, NEW r, NEW o,
         NEW g, NEW p, Bare(s, fl, o, t, r, g, p), g[Len(s)] >= p - 1,
         t[Len(t)].jump \in {"break", "continue"} => g[Len(s)] >= p,
         Reaches(e, State(t, a, r, o))
  PROVE  \E v \in Seq(EFrame) : \E x : Reaches(e, State(v, a, x, o)) /\ Follows(s, fl, o, v, x)
  <1> DEFINE n == Len(s)
             c == Len(t)
             h == t[c]
  <1>1. /\ Placed(s, t, g) /\ g[n] < c /\ h.k = "cleanup" /\ Aimed(t, c, h, p)
        /\ Bound(s, fl, o, t, r, g, p)
    BY DEF Bare, Bound
  <1>2. /\ h.to = c /\ h.at = c - 1 /\ h.ds = <<>>
        /\ h.jump \in {"return", "break", "continue"}
    BY DEF Bare
  <1>3. /\ n \in Nat /\ g[n] \in Nat /\ c \in Nat /\ p \in 1 .. c
    <2>1. n \in Nat /\ g \in [0 .. n -> Nat]
      BY <1>1, LevelOf
    <2>2. c \in Nat
      BY TopOf
    <2>3. g[n] \in Nat
      BY <2>1
    <2>4. QED
      BY <1>1, <2>1, <2>2, <2>3 DEF Aimed
  <1>4. h.jump = "return" => p = 1
    BY <1>1 DEF Aimed
  <1>5. CASE s = <<>>
    <2>1. g[n] = 0
      BY <1>1, <1>5, LevelOf
    <2>2. h.jump = "return" /\ p = 1
      BY <1>2, <1>3, <1>4, <2>1
    <2>3. Due(t, p)
      <3>1. t # <<>>
        BY <1>1, <1>3, EmptySeq
      <3>2. h.at < h.to
        BY <1>2, <1>3
      <3>3. QED
        BY <1>1, <1>2, <3>1, <3>2 DEF Due
    <2>4. Due(t, 1) /\ Bound(s, fl, o, t, r, g, 1) /\ t[Len(t)].jump \in {"return", "fail"}
      BY <1>1, <2>2, <2>3
    <2> HIDE DEF n, c, h
    <2>5. QED
      BY <1>5, <2>4, LeftFunction
  <1>6. CASE s # <<>>
    <2>1. g[n] \in Nat \ {0} /\ Alike(s[n], t[g[n]]) /\ Top(s) = s[n]
      BY <1>1, <1>6, LevelOf
    <2>2. g[n] >= p
      BY <1>2, <1>4, <2>1
    <2>3. t[g[n]].k # "cleanup"
      <3>1. g[n] \in p .. c - 1
        BY <1>1, <1>3, <2>2
      <3>2. QED
        BY <1>1, <3>1 DEF Aimed
    <2>4. Top(s).k # "cleanup"
      BY <2>1, <2>3 DEF Alike
    <2>5. BareLevel(s, fl, o, t, r, g, p)
      BY <1>6, <2>2, <2>4 DEF BareLevel
    <2>6. Follows(s, fl, o, t, r)
      BY <2>5 DEF Follows
    <2>7. QED
      BY <2>6
  <1>7. QED
    BY <1>5, <1>6

-----------------------------------------------------------------------------
(***************************************************************************)
(* The oracle's way out, where the binary is at the same place.            *)
(***************************************************************************)

(* What is on top of the C nesting is what is on top of the recursion.      *)
LEMMA SameTop ==
  ASSUME NEW s \in Seq(IFrame), NEW t \in Seq(EFrame), NEW g, Placed(s, t, g), g[Len(s)] = Len(t)
  PROVE  /\ TopKind(t) = TopKind(s) /\ (t = <<>> <=> s = <<>>)
         /\ s # <<>> => /\ Alike(Top(s), Top(t)) /\ Top(t) \in EFrame /\ Top(s) \in IFrame
                        /\ Top(s).k = TopKind(s) /\ Top(t).k = TopKind(t)
  <1>1. CASE s = <<>>
    <2>1. Len(t) = 0 /\ TopKind(s) = "end"
      BY <1>1, LevelOf
    <2>2. t = <<>> /\ TopKind(t) = "end"
      BY <2>1, TopOf
    <2>3. QED
      BY <1>1, <2>1, <2>2
  <1>2. CASE s # <<>>
    <2>1. /\ Alike(s[Len(s)], t[Len(t)]) /\ Len(t) \in Nat \ {0} /\ Top(s) = s[Len(s)]
          /\ TopKind(s) = s[Len(s)].k /\ s[Len(s)] \in IFrame
      BY <1>2, LevelOf
    <2>2. t # <<>> /\ TopKind(t) = t[Len(t)].k /\ Top(t) = t[Len(t)] /\ t[Len(t)] \in EFrame
      BY <2>1, TopOf
    <2>3. s[Len(s)].k = t[Len(t)].k
      BY <2>1 DEF Alike
    <2>4. QED
      BY <1>2, <2>1, <2>2, <2>3
  <1>3. QED
    BY <1>1, <1>2

(* Both leave the construct on top.                                         *)
LEMMA SettledPop ==
  ASSUME NEW s \in Seq(IFrame), s # <<>>, NEW fl, NEW o, NEW t \in Seq(EFrame), NEW r, NEW g,
         Settled(s, fl, o, t, r, g), Top(s).k # "cleanup",
         NEW y, TopKind(Pop(s)) \in Resting \/ y = Unit
  PROVE  Pop(t) \in Seq(EFrame) /\ Follows(Pop(s), fl, y, Pop(t), r)
  <1> DEFINE n == Len(s)
             u == Pop(s)
             v == Pop(t)
  <1>1. /\ Placed(s, t, g) /\ g[n] = Len(t) /\ NoExit(fl) /\ Unrecovered(s, n, fl)
        /\ r = <<"value", Unit>>
    BY DEF Settled, NoExit
  <1>2. /\ n \in Nat \ {0} /\ s[n].k # "cleanup" /\ Len(t) \in Nat \ {0}
        /\ g[n - 1] \in Nat /\ g[n - 1] = Len(t) - 1
    <2>1. /\ n \in Nat \ {0} /\ Top(s) = s[n] /\ g[n - 1] \in Nat /\ g[n] \in Nat \ {0}
          /\ s[n].k # "cleanup" => g[n] = g[n - 1] + 1
      BY <1>1, LevelOf
    <2>2. QED
      BY <1>1, <2>1
  <1>3. v \in Seq(EFrame) /\ Len(v) = Len(t) - 1 /\ \A i \in 1 .. Len(t) - 1 : v[i] = t[i]
    <2>1. t # <<>>
      BY <1>2, TopOf
    <2>2. QED
      BY <2>1, PopFacts
  <1> HIDE DEF v
  <1>4. PICK f : /\ Placed(u, v, f) /\ f[Len(u)] = g[n - 1]
                 /\ Len(u) = n - 1 /\ \A i \in 1 .. n - 1 : u[i] = s[i]
    <2>1. Len(v) \in Nat /\ g[n - 1] <= Len(v) /\ \A i \in 1 .. g[n - 1] : v[i] = t[i]
      BY <1>2, <1>3
    <2>2. QED
      <3>1. s \in Seq(IFrame) /\ s # <<>> /\ Placed(s, t, g)
        BY <1>1, <1>2, LevelOf
      <3>2. /\ Len(u) = n - 1 /\ \A i \in 1 .. n - 1 : u[i] = s[i]
            /\ \E f : Placed(u, v, f) /\ f[Len(u)] = g[n - 1]
        BY ONLY <2>1, <3>1, PlacedPop
      <3>3. QED
        BY ONLY <3>2
  <1>5. Unrecovered(u, Len(u), fl)
    BY <1>1, <1>2, <1>4, UnrecoveredLess
  <1>6. f[Len(u)] = Len(v)
    BY <1>2, <1>3, <1>4
  <1> HIDE DEF u
  <1>7. TopKind(u) \in Resting \/ y = Unit
    BY DEF u
  <1>8. Follows(u, fl, y, v, r)
    BY <1>1, <1>4, <1>5, <1>6, <1>7, Arrived
  <1>9. QED
    BY <1>3, <1>8 DEF u, v

(* One registered call less in the cleanup on top.                          *)
Dropped(s) == SetTop(s, [Top(s) EXCEPT !.ds = Pop(@)])

(* Both drop a registered call.                                             *)
LEMMA PlacedDrop ==
  ASSUME NEW s \in Seq(IFrame), s # <<>>, NEW t \in Seq(EFrame), NEW g,
         Placed(s, t, g), g[Len(s)] = Len(t), Top(s).k = "cleanup", Top(s).ds # <<>>
  PROVE  /\ Dropped(s) \in Seq(IFrame) /\ Dropped(t) \in Seq(EFrame)
         /\ TopKind(Dropped(s)) = "cleanup"
         /\ \E e : Placed(Dropped(s), Dropped(t), e) /\ e[Len(Dropped(s))] = Len(Dropped(t))
  <1> DEFINE f == [Top(s) EXCEPT !.ds = Pop(@)]
             h == [Top(t) EXCEPT !.ds = Pop(@)]
  <1>1. /\ Alike(Top(s), Top(t)) /\ Top(t) \in EFrame /\ Top(s) \in IFrame
        /\ t # <<>>
    BY SameTop
  <1>2. f \in IFrame
    BY <1>1, FrameType
  <1>3. f.k = Top(s).k /\ f.fl = Top(s).fl /\ f.failing = Top(s).failing /\ f.ds = Pop(Top(s).ds)
    BY <1>1 DEF IFrame
  <1>4. Top(t).ds = Top(s).ds /\ Top(s).ds \in Seq(Deferred) /\ Top(t).k = "cleanup"
        /\ Top(t).failing = Top(s).failing
    BY <1>1 DEF IFrame, Alike
  <1>5. Pop(Top(t).ds) \in Seq(Deferred)
    BY <1>4, PopFacts
  <1>6. h \in EFrame
    BY <1>1, <1>5, CleanupShorter
  <1>7. /\ h.k = Top(t).k /\ h.failing = Top(t).failing /\ h.ds = Pop(Top(t).ds)
        /\ h.jump = Top(t).jump /\ h.lab = Top(t).lab /\ h.val = Top(t).val
        /\ h.at = Top(t).at /\ h.to = Top(t).to
    BY <1>1 DEF EFrame
  <1>8. Alike(f, h)
    BY <1>3, <1>4, <1>7 DEF Alike
  <1>9. Dropped(s) = SetTop(s, f) /\ Dropped(t) = SetTop(t, h)
    BY DEF Dropped
  <1>10. TopKind(SetTop(s, f)) = "cleanup"
    BY <1>2, <1>3, SetTopKind
  <1> HIDE DEF f, h
  <1>11. /\ SetTop(s, f) \in Seq(IFrame) /\ SetTop(t, h) \in Seq(EFrame)
         /\ \E e : Placed(SetTop(s, f), SetTop(t, h), e) /\ e[Len(SetTop(s, f))] = Len(SetTop(t, h))
    BY <1>2, <1>3, <1>6, <1>7, <1>8, PlacedTop
  <1>12. QED
    BY <1>9, <1>10, <1>11

(* The cleanup on top has calls left, or is to be asked whether it has.     *)
LEMMA StillCleaning ==
  ASSUME NEW s, NEW fl, NEW t, NEW g, Placed(s, t, g), g[Len(s)] = Len(t),
         TopKind(s) = "cleanup", ~fl.trapped
  PROVE  Follows(s, fl, Unit, t, <<"value", Unit>>)
  <1>1. s # <<>> /\ Top(s).k = "cleanup"
    BY DEF TopKind
  <1>2. Settled(s, fl, Unit, t, <<"value", Unit>>, g)
    BY <1>1 DEF Settled
  <1>3. QED
    BY <1>2 DEF Follows

(* The flags that were set aside are put back.                              *)
LEMMA PutBackFlags ==
  ASSUME NEW fl \in Flags, NEW b \in BOOLEAN, NEW fm, fm = [fl EXCEPT !.trapped = b]
  PROVE  /\ fm.trapped = b /\ fm.recovered = fl.recovered
         /\ \A h : Carries(fl, h) => Carries(fm, h)
  <1>1. /\ fm.trapped = b /\ fm.returning = fl.returning /\ fm.breaking = fl.breaking
        /\ fm.continuing = fl.continuing /\ fm.recovered = fl.recovered
        /\ fm.failed = fl.failed /\ fm.val = fl.val /\ fm.rec = fl.rec /\ fm.jump = fl.jump
    BY DEF Flags
  <1>2. QED
    BY <1>1 DEF Carries

(* A cleanup is over in both: the exit that it held up goes on.             *)
LEMMA CleanupEnds ==
  ASSUME NEW e, NEW s \in Seq(IFrame), s # <<>>, NEW t \in Seq(EFrame), NEW a, NEW r, NEW g,
         Placed(s, t, g), g[Len(s)] = Len(t), Top(s).k = "cleanup", Top(s).ds = <<>>,
         r = <<"value", Unit>>, Reaches(e, State(t, a, r, Unit)),
         NEW fm, fm = [Top(s).fl EXCEPT !.trapped = FALSE]
  PROVE  \E v \in Seq(EFrame) : \E x :
           Reaches(e, State(v, a, x, Unit)) /\ Follows(Pop(s), fm, Unit, v, x)
  <1> DEFINE n == Len(s)
             c == Len(t)
             h == t[c]
             q == g[n - 1] + 1
             u == Pop(s)
  <1>1. /\ n \in Nat \ {0} /\ c \in Nat \ {0} /\ g[n - 1] \in Nat /\ g[n - 1] < c
        /\ Top(s) = s[n] /\ Unwinding(s, n, t, c, q) /\ Alike(s[n], h) /\ s[n] \in IFrame
    BY LevelOf
  <1>2. /\ q < c /\ h.at = q /\ h.to \in 1 .. q /\ t[q].k = "block"
        /\ Aimed(t, c, h, h.to) /\ Carries(s[n].fl, h)
        /\ h.failing <=> h.jump = "fail"
        /\ h.jump = "recover" \/ Unrecovered(s, n - 1, s[n].fl)
    BY <1>1 DEF Unwinding
  <1>3. h.k = "cleanup" /\ h.ds = <<>> /\ t # <<>>
    <2>1. h.k = "cleanup" /\ h.ds = <<>>
      BY <1>1 DEF Alike
    <2>2. QED
      BY <1>1, <2>1, TopOf
  <1>4. /\ fm.trapped = FALSE /\ fm.recovered = s[n].fl.recovered /\ Carries(fm, h)
    <2>1. s[n].fl \in Flags
      BY <1>1 DEF IFrame
    <2>2. fm = [s[n].fl EXCEPT !.trapped = FALSE]
      BY <1>1
    <2>3. fm.trapped = FALSE /\ fm.recovered = s[n].fl.recovered
      BY ONLY <2>1, <2>2, PutBackFlags
    <2>4. Carries(fm, h)
      BY <1>2, <2>1, <2>2, PutBackFlags
    <2>5. QED
      BY <2>3, <2>4
  <1>5. ScopeDone(t) /\ PutBack(t, a) = a
    BY <1>1, <1>2, <1>3 DEF ScopeDone, PutBack
  <1>6. h.jump = "recover" \/ Unrecovered(u, n - 1, fm)
    <2>1. \A i \in 1 .. n - 1 : u[i].k = s[i].k
      BY <1>1, PopFacts
    <2>2. n - 1 \in Nat
      BY <1>1
    <2>3. fm.recovered => s[n].fl.recovered
      BY <1>4
    <2>4. Unrecovered(s, n - 1, s[n].fl) => Unrecovered(u, n - 1, fm)
      <3> HIDE DEF u, n
      <3>1. QED
        BY ONLY <2>1, <2>2, <2>3, UnrecoveredSame
    <2>5. QED
      BY <1>2, <2>4
  <1>7. CASE h.jump = "fall"
    <2>1. PICK w \in Seq(EFrame) :
            /\ NextScope(t, w)
            /\ Reaches(e, State(w, PutBack(t, a), r, Unit))
            /\ Aimed(w, Len(w), w[Len(w)], h.to)
      BY <1>2, <1>3, <1>5, ScopeMove
    <2> DEFINE k == w[c]
               v == Cut(w, c - 2)
    <2>2. /\ Len(w) = c /\ k = Outer(t, h) /\ \A i \in 1 .. c - 1 : w[i] = t[i]
      BY <2>1 DEF NextScope
    <2>3. h.to \in 1 .. c /\ h.at >= h.to /\ h.at < c /\ h.to = c - 1 /\ q = c - 1
      <3>1. h.to = c - 1
        BY <1>2, <1>7 DEF Aimed
      <3>2. QED
        BY <1>1, <1>2, <3>1
    <2>4. /\ k \in EFrame /\ k.k = "cleanup" /\ k.at = h.at - 1 /\ k.to = h.to /\ k.jump = "fall"
          /\ k.ds = <<>>
      <3>1. /\ Outer(t, h) \in EFrame /\ Outer(t, h).k = "cleanup" /\ Outer(t, h).at = h.at - 1
            /\ Outer(t, h).to = h.to /\ Outer(t, h).jump = h.jump
            /\ Outer(t, h).ds = IF h.at > h.to THEN t[h.at - 1].ds ELSE <<>>
        <4>1. h.k = "cleanup" /\ t # <<>> /\ t \in Seq(EFrame)
          BY <1>3
        <4>2. h.to \in 1 .. Len(t) /\ h.at >= h.to /\ h.at < Len(t)
          BY <2>3
        <4> HIDE DEF h
        <4>3. h = t[Len(t)]
          BY DEF h
        <4>4. QED
          BY ONLY <4>1, <4>2, <4>3, OuterFields
      <3>2. ~(h.at > h.to)
        BY <1>1, <1>2, <2>3
      <3>3. QED
        BY <1>7, <2>2, <3>1, <3>2
    <2>5. w # <<>>
      BY <1>1, <2>2, EmptySeq
    <2>6. Due(w, h.to)
      <3>1. k.at < k.to
        BY <1>1, <1>2, <2>3, <2>4
      <3>2. QED
        BY <2>1, <2>2, <2>4, <2>5, <3>1 DEF Due
    <2>7. ~Quiet(w) /\ After(State(w, a, r, Unit)) = State(v, a, r, Unit)
      <3>1. ~Quiet(w)
        BY <2>6, JumpNext
      <3>2. w[Len(w)].jump = "fall"
        BY <2>2, <2>4
      <3>3. After(State(w, a, r, Unit)) = State(Cut(w, Len(w) - 2), a, r, Unit)
        BY <2>6, <3>2, LandFall
      <3>4. QED
        BY <2>2, <3>1, <3>3
    <2>8. v \in Seq(EFrame) /\ Len(v) = c - 2 /\ \A i \in 1 .. c - 2 : v[i] = t[i]
      <3>1. c - 2 \in 0 .. Len(w)
        BY <1>1, <2>2, <2>3
      <3>2. v \in Seq(EFrame) /\ Len(v) = c - 2 /\ \A i \in 1 .. c - 2 : v[i] = w[i]
        BY <3>1, CutFacts
      <3>3. QED
        BY <1>1, <2>2, <3>2
    <2> HIDE DEF k, v
    <2>9. Reaches(e, State(v, a, r, Unit))
      BY <1>5, <2>1, <2>7, <2>8, Further
    <2>10. PICK f : /\ Placed(u, v, f) /\ f[Len(u)] = g[n - 1] /\ Len(u) = n - 1
      <3>1. Len(v) \in Nat /\ g[n - 1] <= Len(v) /\ \A i \in 1 .. g[n - 1] : v[i] = t[i]
        BY <1>1, <2>3, <2>8
      <3>2. /\ Len(u) = n - 1
            /\ \E f : /\ Placed(u, v, f)
                     /\ \A i \in 0 .. n - 1 : f[i] = g[i]
                     /\ f[Len(u)] = g[n - 1]
        <4>1. s # <<>> /\ s \in Seq(IFrame) /\ Placed(s, t, g)
          OBVIOUS
        <4>2. QED
          BY <3>1, <4>1, PlacedPop
      <3>3. QED
        BY ONLY <3>2
    <2>11. NoExit(fm)
      BY <1>4, <1>7 DEF NoExit, Carries
    <2>12. f[Len(u)] = Len(v) /\ Unrecovered(u, Len(u), fm)
      BY <1>1, <1>6, <1>7, <2>3, <2>8, <2>10
    <2> HIDE DEF u
    <2>13. Follows(u, fm, Unit, v, r)
      BY <2>10, <2>11, <2>12, Arrived
    <2>14. QED
      BY <2>8, <2>9, <2>13 DEF u
  <1>8. CASE h.jump # "fall"
    <2>1. PICK f : /\ u \in Seq(IFrame) /\ Placed(u, t, f) /\ f[Len(u)] = g[n - 1] /\ Len(u) = n - 1
      <3>1. Len(t) \in Nat /\ g[n - 1] <= Len(t) /\ \A i \in 1 .. g[n - 1] : t[i] = t[i]
        BY <1>1
      <3>2. QED
        BY <3>1, PlacedPop
    <2>2. Bound(u, fm, Unit, t, r, f, h.to)
      BY <1>1, <1>2, <1>3, <1>4, <1>6, <1>8, <2>1 DEF Bound
    <2>3. h.jump \in {"break", "continue"} => h.at > h.to
      <3>1. h.jump \in {"break", "continue"} => t[h.to].k = "loop"
        BY <1>2 DEF Aimed, Fits
      <3>2. h.to = q => t[h.to].k = "block"
        BY <1>2
      <3>3. QED
        BY <1>1, <1>2, <3>1, <3>2
    <2>4. Crossing(t, u, f)
      BY <1>1, <1>2, <1>5, <2>1, <2>3 DEF Crossing
    <2> HIDE DEF u
    <2>5. \E v \in Seq(EFrame) : \E x :
            Reaches(e, State(v, PutBack(t, a), x, Unit)) /\ Follows(u, fm, Unit, v, x)
      BY <2>1, <2>2, <2>4, OneScopeOut
    <2>6. QED
      BY <1>5, <2>5 DEF u
  <1>9. QED
    BY <1>7, <1>8

(* A run that leads where the oracle is tracks it.                          *)
LEMMA Tracks ==
  ASSUME NEW e, NEW s, NEW fl, NEW al, NEW o, NEW v \in Seq(EFrame), NEW a, NEW x,
         Reaches(e, State(v, a, x, o)), fl.trapped \/ a = al, Follows(s, fl, o, v, x)
  PROVE  Tracked(e, s, fl, al, o)
  BY DEF Tracked

(* What a step on the way out is taken in.                                  *)
LEMMA StepTop ==
  ASSUME ITypeOK, IStep
  PROVE  ist \in Seq(IFrame) /\ ist # <<>> /\ TopKind(ist) = Top(ist).k /\ ifl \in Flags
  <1>1. TopKind(ist) # "end"
    BY DEF IStep, IStopBlock, ISkipErrdefer, IEndCleanup, ILeaveLoop, IEndWith, IEndArm,
           IEndOperand, IEndHandler, IEndArgument, ITrapped
  <1>2. QED
    BY <1>1, TopKindFacts DEF ITypeOK

(* The oracle's steps out of a place that both are at.                      *)
LEMMA SettledStep ==
  ASSUME IInv, IStep, NEW e, NEW t \in Seq(EFrame), NEW a, a = ialloc, NEW r, NEW g,
         Settled(ist, ifl, iout, t, r, g), Reaches(e, State(t, a, r, iout))
  PROVE  Tracked(e, ist', ifl', ialloc', iout')
  <1>1. /\ ist \in Seq(IFrame) /\ ist # <<>> /\ TopKind(ist) = Top(ist).k /\ ifl \in Flags
    BY StepTop DEF IInv
  <1>2. /\ Placed(ist, t, g) /\ g[Len(ist)] = Len(t) /\ ~ifl.trapped
        /\ TopKind(ist) \in Resting \/ iout = Unit
        /\ r = <<"value", Unit>>
        /\ TopKind(ist) # "cleanup" =>
             ~InFlight /\ Unrecovered(ist, Len(ist), ifl)
    BY <1>1 DEF Settled, InFlight
  <1>3. /\ TopKind(t) = TopKind(ist) /\ t # <<>>
        /\ Alike(Top(ist), Top(t)) /\ Top(t) \in EFrame
    BY <1>1, <1>2, SameTop
  <1>p. ASSUME TopKind(ist) \notin Resting, TopKind(ist) # "cleanup", ist' = Pop(ist),
               NEW b, ~Quiet(t), After(State(t, a, r, Unit)) = State(Pop(t), b, r, Unit),
               ifl' = ifl, iout' = iout, ialloc' = b
        PROVE  Tracked(e, ist', ifl', ialloc', iout')
    <2>1. iout = Unit /\ Top(ist).k # "cleanup"
      BY <1>1, <1>2, <1>p
    <2>2. Pop(t) \in Seq(EFrame) /\ Follows(Pop(ist), ifl, Unit, Pop(t), r)
      BY <1>1, <2>1, SettledPop
    <2>3. Reaches(e, State(Pop(t), b, r, Unit))
      BY <1>p, <2>1, <2>2, Further
    <2> DEFINE v == Pop(t)
               u == Pop(ist)
    <2>4. v \in Seq(EFrame) /\ Reaches(e, State(v, b, r, iout')) /\ Follows(u, ifl', iout', v, r)
      BY <1>p, <2>1, <2>2, <2>3
    <2> HIDE DEF v, u
    <2>5. Tracked(e, u, ifl', ialloc', iout')
      BY <1>p, <2>4, Tracks
    <2>6. QED
      BY <1>p, <2>5 DEF u
  <1>4. CASE IStopBlock
    BY <1>2, <1>4 DEF IStopBlock
  <1>5. CASE ISkipErrdefer
    <2>1. /\ TopKind(ist) = "cleanup" /\ Top(ist).k = "cleanup" /\ iout = Unit
      BY <1>1, <1>2, <1>5 DEF ISkipErrdefer, Resting
    <2>2. Top(ist).ds # <<>> /\ ~IRunnable /\ ist' = Dropped(ist)
          /\ ifl' = ifl /\ ialloc' = ialloc /\ iout' = iout
      BY <1>5 DEF ISkipErrdefer, IDropped, Dropped
    <2>3. /\ Dropped(ist) \in Seq(IFrame) /\ Dropped(t) \in Seq(EFrame)
          /\ TopKind(Dropped(ist)) = "cleanup"
          /\ \E f : Placed(Dropped(ist), Dropped(t), f) /\ f[Len(Dropped(ist))] = Len(Dropped(t))
      BY <1>1, <1>2, <2>1, <2>2, PlacedDrop
    <2>4. Top(t).ds = Top(ist).ds /\ (Top(t).failing <=> Top(ist).failing) /\ TopKind(t) = "cleanup"
      BY <1>3, <2>1 DEF Alike
    <2>5. ~Quiet(t)
      BY <2>2, <2>4 DEF IRunnable, Quiet
    <2>6. After(State(t, a, r, Unit)) = State(Dropped(t), a, r, Unit)
      BY <2>2, <2>4, AfterSkip DEF Dropped
    <2> DEFINE v == Dropped(t)
               u == Dropped(ist)
    <2>7. v \in Seq(EFrame) /\ TopKind(u) = "cleanup"
          /\ \E f : Placed(u, v, f) /\ f[Len(u)] = Len(v)
      BY <2>3
    <2>8. ~Quiet(t) /\ After(State(t, a, r, Unit)) = State(v, a, r, Unit)
      BY <2>5, <2>6
    <2> HIDE DEF v, u
    <2>9. Reaches(e, State(v, a, r, Unit))
      BY <2>1, <2>7, <2>8, Further
    <2>10. Follows(u, ifl, Unit, v, r)
      BY <1>2, <2>7, StillCleaning
    <2>11. Tracked(e, u, ifl, ialloc, Unit)
      BY <2>7, <2>9, <2>10, Tracks
    <2>12. QED
      BY <2>1, <2>2, <2>11 DEF u
  <1>6. CASE IEndCleanup
    <2> DEFINE fm == [Top(ist).fl EXCEPT !.trapped = FALSE]
    <2>1. /\ Top(ist).k = "cleanup" /\ Top(ist).ds = <<>> /\ iout = Unit
          /\ ifl' = fm /\ ist' = Pop(ist) /\ ialloc' = ialloc /\ iout' = iout
      <3>1. ifl.trapped = FALSE
        BY <1>1, <1>2 DEF Flags
      <3>2. QED
        BY <1>1, <1>2, <1>6, <3>1 DEF IEndCleanup, Resting
    <2>2. \E v \in Seq(EFrame) : \E x :
            Reaches(e, State(v, a, x, Unit)) /\ Follows(Pop(ist), fm, Unit, v, x)
      BY <1>1, <1>2, <2>1, CleanupEnds
    <2>3. Tracked(e, Pop(ist), fm, ialloc, Unit)
      <3> HIDE DEF fm
      <3>1. QED
        BY <2>2, Tracks
    <2>4. QED
      BY <2>1, <2>3
  <1>7. CASE ILeaveLoop
    BY <1>2, <1>7 DEF ILeaveLoop
  <1>8. CASE IEndWith
    <2>1. /\ TopKind(ist) = "with" /\ ialloc' = Top(ist).al /\ ist' = Pop(ist)
          /\ ifl' = ifl /\ iout' = iout
      BY <1>8 DEF IEndWith
    <2>2. Top(ist).al = Top(t).al
      BY <1>1, <1>3, <2>1 DEF Alike
    <2>3. ~Quiet(t) /\ After(State(t, a, r, Unit)) = State(Pop(t), Top(t).al, r, Unit)
      BY <1>3, <2>1, AfterBrace
    <2>4. TopKind(ist) \notin Resting /\ TopKind(ist) # "cleanup"
      BY <2>1 DEF Resting
    <2>5. QED
      BY <1>p, <2>1, <2>2, <2>3, <2>4
  <1>9. CASE IEndArm
    <2>1. /\ TopKind(ist) = "arm" /\ ialloc' = ialloc /\ ist' = Pop(ist)
          /\ ifl' = ifl /\ iout' = iout
      BY <1>9 DEF IEndArm
    <2>3. ~Quiet(t) /\ After(State(t, a, r, Unit)) = State(Pop(t), a, r, Unit)
      BY <1>3, <2>1, AfterBrace
    <2>4. TopKind(ist) \notin Resting /\ TopKind(ist) # "cleanup"
      BY <2>1 DEF Resting
    <2>5. QED
      BY <1>p, <2>1, <2>3, <2>4
  <1>10. CASE IEndOperand
    BY <1>2, <1>10 DEF IEndOperand
  <1>11. CASE IEndHandler
    <2>1. TopKind(ist) = "handler" /\ ist' = Pop(ist) /\ ialloc' = ialloc
      BY <1>11 DEF IEndHandler
    <2>2. ~ifl.recovered
      <3>1. Len(ist) \in 1 .. Len(ist) /\ ist[Len(ist)].k = "handler" /\ Len(ist) \in Nat
        BY <1>1, <2>1, TopKindFacts, LenProperties
      <3>2. \A j \in Len(ist) .. Len(ist) : ist[j].k # "cleanup"
        BY <3>1
      <3>3. QED
        BY <1>2, <2>1, <3>1, <3>2 DEF Unrecovered
    <2>3. ifl' = ifl /\ iout' = iout
      BY <1>11, <2>2 DEF IEndHandler
    <2>4. ~Quiet(t) /\ After(State(t, a, r, Unit)) = State(Pop(t), a, r, Unit)
      BY <1>3, <2>1, AfterBrace
    <2>5. TopKind(ist) \notin Resting /\ TopKind(ist) # "cleanup"
      BY <2>1 DEF Resting
    <2>6. QED
      BY <1>p, <2>1, <2>3, <2>4, <2>5
  <1>12. CASE IEndArgument
    BY <1>2, <1>12 DEF IEndArgument
  <1>13. CASE ITrapped
    BY <1>2, <1>13 DEF ITrapped
  <1>14. QED
    BY <1>4, <1>5, <1>6, <1>7, <1>8, <1>9, <1>10, <1>11, <1>12, <1>13 DEF IStep

-----------------------------------------------------------------------------
(***************************************************************************)
(* The oracle's way out, where the binary cleans up the same scope.        *)
(***************************************************************************)

(* The level that the oracle is in, and the scope that the binary is at.    *)
AtScope(s, fl, o, t, r, g, p) ==
  /\ s # <<>> /\ Placed(s, t, g) /\ t # <<>> /\ Len(s) \in Nat \ {0} /\ Len(t) \in Nat \ {0}
  /\ t[Len(t)] \in EFrame /\ t[Len(t)].k = "cleanup"
  /\ t[Len(t)].at = g[Len(s)] /\ t[Len(t)].to = p
  /\ g[Len(s)] = g[Len(s) - 1] + 1 /\ g[Len(s) - 1] \in Nat /\ g[Len(s)] < Len(t)
  /\ p \in 1 .. Len(t)
  /\ g[Len(s)] >= p \/ (g[Len(s)] = p - 1 /\ t[Len(t)].jump \in {"fail", "recover"})
  /\ Alike(Top(s), t[g[Len(s)]]) /\ Top(s) = s[Len(s)] /\ Top(s).k # "cleanup"
  /\ Aimed(t, Len(t), t[Len(t)], p) /\ Carries(fl, t[Len(t)])
  /\ ~fl.trapped /\ o = Unit /\ r = <<"value", Unit>>

(* They are the same.                                                       *)
LEMMA LeavingAt ==
  ASSUME NEW s \in Seq(IFrame), NEW fl, NEW t \in Seq(EFrame), NEW r, NEW o, NEW g, NEW p,
         Leaving(s, fl, o, t, r, g, p)
  PROVE  AtScope(s, fl, o, t, r, g, p)
  <1>1. /\ Bound(s, fl, o, t, r, g, p) /\ s # <<>> /\ Top(s).k # "cleanup"
        /\ t[Len(t)].to = p /\ t[Len(t)].at = g[Len(s)]
        /\ t[Len(t)].at >= p \/ (t[Len(t)].at = p - 1 /\ t[Len(t)].jump \in {"fail", "recover"})
    BY DEF Leaving
  <1>2. /\ Placed(s, t, g) /\ g[Len(s)] < Len(t) /\ t[Len(t)].k = "cleanup"
        /\ Aimed(t, Len(t), t[Len(t)], p) /\ Carries(fl, t[Len(t)])
        /\ ~fl.trapped /\ o = Unit /\ r = <<"value", Unit>>
    BY <1>1 DEF Bound
  <1>3. /\ Len(s) \in 1 .. Len(s) /\ Len(s) \in Nat /\ Top(s) = s[Len(s)]
        /\ g[Len(s) - 1] \in Nat /\ g[Len(s)] = g[Len(s) - 1] + 1
        /\ Alike(s[Len(s)], t[g[Len(s)]])
    BY <1>1, <1>2, LevelOf
  <1>4. Len(t) \in Nat /\ Len(t) # 0 /\ t # <<>> /\ t[Len(t)] \in EFrame
    <2>1. Len(t) \in Nat /\ (t = <<>> <=> Len(t) = 0)
      BY TopOf
    <2>2. Len(t) # 0
      BY <1>2, <1>3, <2>1
    <2>3. QED
      BY <2>1, <2>2, TopOf
  <1>5. p \in 1 .. Len(t)
    BY <1>2 DEF Aimed
  <1>6. QED
    BY <1>1, <1>2, <1>3, <1>4, <1>5 DEF AtScope

(* The oracle leaves a construct that the jump does not end in, and the     *)
(* binary its scope.                                                        *)
LEMMA LeavingPop ==
  ASSUME NEW e, NEW s \in Seq(IFrame), CallsInBlocks(s), NEW fl, NEW t \in Seq(EFrame),
         NEW a, NEW r, NEW o, NEW g, NEW p, Leaving(s, fl, o, t, r, g, p),
         Top(s).k # "block", g[Len(s)] >= p,
         t[Len(t)].jump \in {"break", "continue"} => g[Len(s)] > p,
         Reaches(e, State(t, a, r, o))
  PROVE  \E v \in Seq(EFrame) : \E x :
           Reaches(e, State(v, PutBack(t, a), x, o)) /\ Follows(Pop(s), fl, o, v, x)
  <1>1. /\ s # <<>> /\ Placed(s, t, g) /\ t # <<>> /\ Len(s) \in Nat \ {0} /\ Len(t) \in Nat \ {0}
        /\ t[Len(t)].at = g[Len(s)] /\ t[Len(t)].to = p
        /\ g[Len(s)] = g[Len(s) - 1] + 1 /\ g[Len(s) - 1] \in Nat /\ g[Len(s)] < Len(t)
        /\ Alike(Top(s), t[g[Len(s)]]) /\ Top(s) = s[Len(s)] /\ Top(s).k # "cleanup"
    <2>1. AtScope(s, fl, o, t, r, g, p)
      BY LeavingAt
    <2>2. QED
      BY <2>1 DEF AtScope
  <1>2. t[Len(t)].ds = <<>> /\ (t[Len(t)].failing <=> t[Len(t)].jump = "fail")
    <2>1. Len(s) \in 1 .. Len(s) /\ s[Len(s)].ds = <<>>
      BY <1>1 DEF CallsInBlocks
    <2>2. t[g[Len(s)]].ds = <<>>
      BY <1>1, <2>1 DEF Alike
    <2>3. QED
      BY <1>1, <2>2 DEF Leaving
  <1> DEFINE u == Pop(s)
  <1>3. u \in Seq(IFrame) /\ Len(u) = Len(s) - 1 /\ \A i \in 1 .. Len(s) - 1 : u[i] = s[i]
    BY <1>1, PopFacts
  <1>4. \E f : Placed(u, t, f) /\ f[Len(u)] = g[Len(s) - 1]
    <2>1. Len(t) \in Nat /\ g[Len(s) - 1] <= Len(t) /\ \A i \in 1 .. g[Len(s) - 1] : t[i] = t[i]
      BY <1>1
    <2>2. QED
      BY <1>1, <2>1, PlacedPop
  <1>5. PICK f : Placed(u, t, f) /\ f[Len(u)] = g[Len(s) - 1]
    BY <1>4
  <1>6. t[Len(t)].jump = "recover" \/ Unrecovered(u, Len(u), fl)
    <2>1. t[Len(t)].jump = "recover" \/ Unrecovered(s, Len(s), fl)
      BY DEF Leaving, Bound
    <2>2. ASSUME Unrecovered(s, Len(s), fl)
          PROVE  Unrecovered(u, Len(u), fl)
      <3> HIDE DEF u
      <3>1. Unrecovered(u, Len(s) - 1, fl)
        BY <1>1, <1>3, <2>2, UnrecoveredLess
      <3>2. QED
        BY <1>3, <3>1
    <2>3. QED
      BY <2>1, <2>2
  <1> HIDE DEF u
  <1>7. Bound(u, fl, o, t, r, f, p)
    <2>1. Bound(s, fl, o, t, r, g, p)
      BY DEF Leaving
    <2>2. f[Len(u)] < Len(t)
      BY <1>1, <1>5
    <2>3. QED
      BY <1>5, <1>6, <2>1, <2>2 DEF Bound
  <1>8. Crossing(t, u, f)
    BY <1>1, <1>2, <1>5 DEF Crossing, ScopeDone
  <1>9. \E v \in Seq(EFrame) : \E x :
           Reaches(e, State(v, PutBack(t, a), x, o)) /\ Follows(u, fl, o, v, x)
    <2>1. Bound(u, fl, o, t, r, f, t[Len(t)].to)
      BY <1>1, <1>7
    <2>2. QED
      BY <1>3, <1>8, <2>1, OneScopeOut
  <1>10. QED
    BY <1>9 DEF u

(* The rest of a block is skipped: its calls are due in both.               *)
LEMMA LeavingBlock ==
  ASSUME NEW s \in Seq(IFrame), NEW fl \in Flags, NEW t \in Seq(EFrame), NEW r, NEW o, NEW g, NEW p,
         Leaving(s, fl, o, t, r, g, p), Top(s).k = "block"
  PROVE  Follows(SetTop(s, EndOfBlock(Top(s), fl)), fl, o, t, r)
  <1>1. AtScope(s, fl, o, t, r, g, p)
    BY LeavingAt
  <1> DEFINE n == Len(s)
             c == Len(t)
             f == EndOfBlock(Top(s), fl)
             w == Pop(s)
             u == SetTop(s, f)
  <1>2. /\ s # <<>> /\ Placed(s, t, g) /\ n \in Nat \ {0} /\ c \in Nat \ {0}
        /\ t[c].k = "cleanup" /\ t[c].at = g[n] /\ t[c].to = p
        /\ g[n] = g[n - 1] + 1 /\ g[n - 1] \in Nat /\ g[n] < c /\ p \in 1 .. c
        /\ g[n] >= p \/ (g[n] = p - 1 /\ t[c].jump \in {"fail", "recover"})
        /\ Alike(Top(s), t[g[n]]) /\ Top(s) = s[n]
        /\ Aimed(t, c, t[c], p) /\ Carries(fl, t[c])
        /\ ~fl.trapped /\ o = Unit /\ r = <<"value", Unit>>
    BY <1>1 DEF AtScope
  <1>3. s[n] \in IFrame
    BY <1>2, TopFacts
  <1>4. f \in IFrame /\ f.k = "cleanup" /\ f.fl = fl /\ f.ds = s[n].ds
        /\ (f.failing <=> fl.returning /\ fl.failed)
    <2>1. f \in IFrame
      BY <1>2, <1>3, FrameType
    <2>2. f.k = "cleanup" /\ f.fl = fl /\ f.ds = s[n].ds
          /\ f.failing = (fl.returning /\ fl.failed)
      BY <1>2, <1>3 DEF EndOfBlock, IFrame
    <2>3. QED
      BY <2>1, <2>2
  <1>5. t[g[n]].k = "block" /\ t[g[n]].ds = s[n].ds
    BY <1>2 DEF Alike
  <1>6. g[n] >= p
    <2>1. ASSUME g[n] = p - 1, t[c].jump = "fail"
          PROVE  t[g[n]].k = "operand"
      BY <1>2, <2>1 DEF Aimed
    <2>2. ASSUME g[n] = p - 1, t[c].jump = "recover"
          PROVE  t[g[n]].k = "handler"
      BY <1>2, <2>2 DEF Aimed
    <2>3. QED
      BY <1>2, <1>5, <2>1, <2>2
  <1>7. t[c].ds = s[n].ds /\ (t[c].failing <=> t[c].jump = "fail")
    BY <1>2, <1>5, <1>6 DEF Leaving
  <1>8. Alike(f, t[c])
    <2>1. f.failing <=> t[c].jump = "fail"
      BY <1>2, <1>4 DEF Carries
    <2>2. f.failing \in BOOLEAN /\ t[c].failing \in BOOLEAN
      <3>1. t[c] \in EFrame
        BY <1>1 DEF AtScope
      <3>2. QED
        BY <1>4, <3>1 DEF IFrame, EFrame
    <2>3. f.failing = t[c].failing
      BY <1>7, <2>1, <2>2
    <2>4. QED
      BY <1>2, <1>4, <1>7, <2>3 DEF Alike
  <1>9. /\ w \in Seq(IFrame) /\ Len(w) = n - 1 /\ \A i \in 1 .. n - 1 : w[i] = s[i]
    BY <1>2, PopFacts
  <1>10. \E e : Placed(w, t, e) /\ e[Len(w)] = g[n - 1]
    <2>1. Len(t) \in Nat /\ g[n - 1] <= Len(t) /\ \A i \in 1 .. g[n - 1] : t[i] = t[i]
      BY <1>2
    <2>2. QED
      BY <1>2, <2>1, PlacedPop
  <1>11. PICK e : Placed(w, t, e) /\ e[Len(w)] = g[n - 1]
    BY <1>10
  <1>12. /\ u \in Seq(IFrame) /\ Len(u) = n /\ u[n] = f
         /\ \A i \in 1 .. n - 1 : u[i] = s[i]
    <2> HIDE DEF f
    <2>1. QED
      BY <1>2, <1>4, SetTopFacts
  <1>13. t[c].jump = "recover" \/ Unrecovered(u, n - 1, fl)
    <2>1. t[c].jump = "recover" \/ Unrecovered(s, n, fl)
      BY DEF Leaving, Bound
    <2>2. ASSUME Unrecovered(s, n, fl)
          PROVE  Unrecovered(u, n - 1, fl)
      <3>1. s[n].k = "block"
        BY <1>2
      <3> HIDE DEF u, n
      <3>2. QED
        BY <1>2, <1>12, <2>2, <3>1, UnrecoveredLess
    <2>3. QED
      BY <2>1, <2>2
  <1>14. Unwinding(u, n, t, c, g[n - 1] + 1)
    <2>1. g[n - 1] + 1 = g[n] /\ p \in 1 .. g[n]
      BY <1>2, <1>6
    <2> HIDE DEF u, n, c, f
    <2>2. u[n].fl = fl
      BY <1>4, <1>12
    <2>3. QED
      BY <1>2, <1>5, <1>7, <1>13, <2>1, <2>2 DEF Unwinding
  <1>15. OneMore(w, t, e, u, c)
    <2>1. \A i \in 1 .. Len(w) : u[i] = w[i]
      BY <1>9, <1>12
    <2>2. c \in 1 .. Len(t) /\ e[Len(w)] < c /\ Len(u) = Len(w) + 1
      BY <1>2, <1>9, <1>11, <1>12
    <2> HIDE DEF u, n, w, f
    <2>3. u[Len(u)].k = "cleanup" /\ Alike(u[Len(u)], t[c])
      BY <1>4, <1>8, <1>12
    <2>4. Unwinding(u, Len(u), t, c, e[Len(w)] + 1)
      BY <1>11, <1>12, <1>14
    <2>5. QED
      BY <2>1, <2>2, <2>3, <2>4 DEF OneMore
  <1> HIDE DEF u, w, n, f
  <1>16. \E y : Placed(u, t, y) /\ y[Len(u)] = c
    <2>1. Len(t) \in Nat
      BY <1>2
    <2>2. QED
      BY <1>9, <1>11, <1>12, <1>15, <2>1, PlacedMore
  <1>17. TopKind(u) = "cleanup"
    <2>1. u # <<>>
      BY <1>2, <1>12, EmptySeq
    <2>2. QED
      BY <1>4, <1>12, <2>1 DEF TopKind, Top
  <1>18. Follows(u, fl, Unit, t, <<"value", Unit>>)
    BY <1>2, <1>16, <1>17, StillCleaning
  <1>19. QED
    BY <1>2, <1>18 DEF u, f

(* The construct that a jump leaves a scope of, or ends in.                 *)
LEMMA LeavingJump ==
  ASSUME NEW s \in Seq(IFrame), NEW fl, NEW t \in Seq(EFrame), NEW r, NEW o, NEW g, NEW p,
         Leaving(s, fl, o, t, r, g, p), t[Len(t)].jump \in {"break", "continue"}
  PROVE  /\ g[Len(s)] >= p
         /\ Top(s).k # "argument"
         /\ g[Len(s)] = p <=> Fits(t[g[Len(s)]], t[Len(t)].lab)
  <1>1. AtScope(s, fl, o, t, r, g, p)
    BY LeavingAt
  <1>2. /\ g[Len(s)] >= p \/ (g[Len(s)] = p - 1 /\ t[Len(t)].jump \in {"fail", "recover"})
        /\ g[Len(s)] = g[Len(s) - 1] + 1 /\ g[Len(s) - 1] \in Nat /\ g[Len(s)] < Len(t)
        /\ p \in 1 .. Len(t) /\ Alike(Top(s), t[g[Len(s)]])
        /\ Aimed(t, Len(t), t[Len(t)], p) /\ Len(t) \in Nat
    BY <1>1 DEF AtScope
  <1>3. g[Len(s)] >= p
    BY <1>2
  <1>4. /\ Fits(t[p], t[Len(t)].lab)
        /\ \A i \in p + 1 .. Len(t) - 1 : ~Fits(t[i], t[Len(t)].lab)
        /\ \A i \in p .. Len(t) - 1 : t[i].k # "argument"
    BY <1>2 DEF Aimed
  <1>5. g[Len(s)] \in p .. Len(t) - 1 /\ (g[Len(s)] # p => g[Len(s)] \in p + 1 .. Len(t) - 1)
    BY <1>2, <1>3
  <1>6. Top(s).k # "argument"
    BY <1>2, <1>4, <1>5 DEF Alike
  <1>7. QED
    BY <1>3, <1>4, <1>5, <1>6

(* The binary's cleanup is done with the loop, and its jump is due there.   *)
LEMMA LeavingLoop ==
  ASSUME NEW e, NEW s \in Seq(IFrame), CallsInBlocks(s), NEW fl, NEW t \in Seq(EFrame),
         NEW a, NEW r, NEW o, NEW g, NEW p, Leaving(s, fl, o, t, r, g, p),
         Top(s).k = "loop", g[Len(s)] = p, t[Len(t)].jump \in {"break", "continue"},
         NEW fm, Ended(fl, fm),
         NEW u, u = (IF t[Len(t)].jump = "break" THEN Pop(s) ELSE s),
         Reaches(e, State(t, a, r, o))
  PROVE  \E v \in Seq(EFrame) : \E x : Reaches(e, State(v, a, x, o)) /\ Follows(u, fm, o, v, x)
  <1>1. AtScope(s, fl, o, t, r, g, p)
    BY LeavingAt
  <1> DEFINE c == Len(t)
             h == t[c]
  <1>2. /\ s # <<>> /\ Placed(s, t, g) /\ c \in Nat \ {0} /\ t # <<>>
        /\ h.k = "cleanup" /\ h.at = p /\ h.to = p
        /\ p < c /\ p \in 1 .. c
        /\ Alike(Top(s), t[p]) /\ Top(s) = s[Len(s)] /\ Len(s) \in Nat \ {0}
        /\ o = Unit /\ r = <<"value", Unit>>
    BY <1>1 DEF AtScope
  <1>3. h.ds = <<>>
    <2>1. s[Len(s)].ds = <<>>
      BY <1>2 DEF CallsInBlocks
    <2>2. t[p].ds = <<>>
      BY <1>2, <2>1 DEF Alike
    <2>3. QED
      BY <1>2, <2>2 DEF Leaving
  <1>4. ScopeDone(t) /\ Bound(s, fl, o, t, r, g, t[Len(t)].to)
    BY <1>2, <1>3 DEF ScopeDone, Leaving
  <1>5. PICK w \in Seq(EFrame) : /\ NextScope(t, w)
                                 /\ Reaches(e, State(w, PutBack(t, a), r, o))
                                 /\ Bound(s, fl, o, w, r, g, t[Len(t)].to)
    BY <1>4, ScopeStep
  <1>6. PutBack(t, a) = a
    <2>1. t[p].k = "loop"
      BY <1>2 DEF Alike
    <2>2. QED
      BY <1>2, <2>1 DEF PutBack
  <1>7. Len(w) = c /\ w[c] = Outer(t, h)
    BY <1>5 DEF NextScope
  <1>8. w[c].k = "cleanup" /\ w[c].at = p - 1 /\ w[c].to = p /\ w[c].ds = <<>>
        /\ w[c].jump = h.jump
    <2> DEFINE y == Outer(t, h)
    <2>1. h.to \in 1 .. Len(t) /\ h.at >= h.to /\ h.at < Len(t)
      BY <1>2
    <2>2. h = t[Len(t)]
      OBVIOUS
    <2> HIDE DEF h, c
    <2>3. y.k = "cleanup" /\ y.at = h.at - 1 /\ y.to = h.to /\ y.jump = h.jump
          /\ y.ds = IF h.at > h.to THEN t[h.at - 1].ds ELSE <<>>
      BY <1>2, <2>1, <2>2, OuterFields
    <2> HIDE DEF y
    <2>4. y.k = "cleanup" /\ y.at = p - 1 /\ y.to = p /\ y.ds = <<>> /\ y.jump = h.jump
      BY <1>2, <2>3
    <2>5. w[c] = y
      BY <1>7 DEF y
    <2>6. QED
      BY <2>4, <2>5
  <1>9. Due(w, p) /\ Bound(s, fl, o, w, r, g, p)
    <2>1. Bound(s, fl, o, w, r, g, p)
      BY <1>2, <1>5
    <2>2. Aimed(w, Len(w), w[Len(w)], p)
      BY <2>1 DEF Bound
    <2>3. w # <<>>
      BY <1>2, <1>7, EmptySeq
    <2> HIDE DEF h, c
    <2>4. w[Len(w)].at < w[Len(w)].to
      BY <1>2, <1>7, <1>8
    <2>5. QED
      BY <1>7, <1>8, <2>1, <2>2, <2>3, <2>4 DEF Due
  <1>10. JumpHere(s, fl, o, w, r, g, p)
    BY <1>2, <1>9 DEF JumpHere
  <1>11. w[Len(w)].jump = t[Len(t)].jump
    BY <1>7, <1>8
  <1>12. Reaches(e, State(w, a, r, o))
    BY <1>5, <1>6
  <1>13. u = (IF w[Len(w)].jump = "break" THEN Pop(s) ELSE s) /\ w[Len(w)].jump \in {"break", "continue"}
    BY <1>11
  <1> HIDE DEF c, h
  <1>14. QED
    <2>1. LoopHere(s, fl, o, w, r, g, p, fm, u)
      BY <1>10, <1>13 DEF LoopHere
    <2>2. QED
      BY <1>12, <2>1, LoopLeft

(* Setting a flag to what it is changes no flags.                           *)
LEMMA FlagsKept ==
  ASSUME NEW fl \in Flags
  PROVE  /\ [fl EXCEPT !.breaking = fl.breaking] = fl
         /\ [fl EXCEPT !.continuing = fl.continuing] = fl
  BY DEF Flags

(* A jump that ends leaves no exit in flight.                               *)
LEMMA JumpEnded ==
  ASSUME NEW fl \in Flags, ~fl.trapped, ~fl.returning, NEW fm,
         \/ ~fl.continuing /\ fm = [fl EXCEPT !.breaking = FALSE]
         \/ ~fl.breaking /\ fm = [fl EXCEPT !.continuing = FALSE]
  PROVE  Ended(fl, fm)
  BY DEF Flags, Ended, NoExit

(* What leave_loop makes of the flags, where the binary has the jump of h   *)
(* to do.                                                                   *)
LEMMA LoopFlags ==
  ASSUME ITypeOK, ILeaveLoop, NEW h, Carries(ifl, h), h.lab \in Label, NEW f, Alike(Top(ist), f)
  PROVE  /\ ialloc' = ialloc /\ iout' = iout
         /\ h.jump \notin {"break", "continue"} \/ ~Fits(f, h.lab) =>
              ifl' = ifl /\ ist' = Pop(ist)
         /\ h.jump \in {"break", "continue"} /\ Fits(f, h.lab) =>
              /\ Ended(ifl, ifl')
              /\ ist' = IF h.jump = "break" THEN Pop(ist) ELSE ist
  <1>1. /\ Top(ist).k = "loop" /\ ~ifl.trapped /\ ifl \in Flags
        /\ ialloc' = ialloc /\ iout' = iout
        /\ ist' = IF ~ifl.breaking /\ ifl.continuing /\ IAimedHere THEN ist ELSE Pop(ist)
        /\ ifl' = IF ifl.breaking
                  THEN [ifl EXCEPT !.breaking = ~IAimedHere]
                  ELSE [ifl EXCEPT !.continuing = ifl.continuing /\ ~IAimedHere]
    <2>1. TopKind(ist) = "loop" /\ ist \in Seq(IFrame)
      BY DEF ILeaveLoop, ITypeOK
    <2>2. Top(ist).k = "loop"
      BY <2>1, TopKindFacts
    <2>3. QED
      BY <2>2 DEF ILeaveLoop, ITypeOK
  <1>2. f.k = "loop" /\ f.lab = Top(ist).lab
    BY <1>1 DEF Alike
  <1>3. /\ ifl.breaking <=> h.jump = "break"
        /\ ifl.continuing <=> h.jump = "continue"
        /\ ifl.returning <=> h.jump \in {"return", "fail", "recover"}
        /\ h.jump \in {"break", "continue"} => ifl.jump = h.lab
    BY DEF Carries
  <1>4. h.jump \in {"break", "continue"} => (IAimedHere <=> Fits(f, h.lab))
    BY <1>2, <1>3 DEF IAimedHere, Fits
  <1>5. /\ ifl.breaking \in BOOLEAN /\ ifl.continuing \in BOOLEAN /\ IAimedHere \in BOOLEAN
    BY <1>1 DEF Flags, IAimedHere
  <1>6. CASE h.jump \notin {"break", "continue"}
    <2>1. ifl.breaking = FALSE /\ ifl.continuing = FALSE
      BY <1>3, <1>5, <1>6
    <2>2. ifl' = [ifl EXCEPT !.continuing = FALSE]
      BY <1>1, <2>1
    <2>3. QED
      BY <1>1, <1>6, <2>1, <2>2, FlagsKept
  <1>7. CASE h.jump \in {"break", "continue"} /\ ~Fits(f, h.lab)
    <2>1. ~IAimedHere
      BY <1>4, <1>7
    <2>2. ifl.breaking = TRUE \/ ifl.breaking = FALSE
      BY <1>5
    <2>3. ifl.breaking = TRUE => ifl' = [ifl EXCEPT !.breaking = TRUE]
      BY <1>1, <2>1
    <2>4. ifl.breaking = FALSE => ifl' = [ifl EXCEPT !.continuing = ifl.continuing]
      <3>1. (ifl.continuing /\ ~IAimedHere) = ifl.continuing
        BY <1>5, <2>1
      <3>2. QED
        BY <1>1, <3>1
    <2>5. ifl' = ifl
      <3>1. [ifl EXCEPT !.breaking = ifl.breaking] = ifl /\ [ifl EXCEPT !.continuing = ifl.continuing] = ifl
        BY <1>1, FlagsKept
      <3>2. QED
        BY <2>2, <2>3, <2>4, <3>1
    <2>6. QED
      BY <1>1, <1>7, <2>1, <2>5
  <1>8. CASE h.jump = "break" /\ Fits(f, h.lab)
    <2>1. IAimedHere /\ ifl.breaking /\ ~ifl.continuing /\ ~ifl.returning
      BY <1>3, <1>4, <1>8
    <2>2. ifl' = [ifl EXCEPT !.breaking = FALSE] /\ ist' = Pop(ist)
      BY <1>1, <2>1
    <2>3. Ended(ifl, ifl')
      BY <1>1, <2>1, <2>2, JumpEnded
    <2>4. QED
      BY <1>1, <1>8, <2>2, <2>3
  <1>9. CASE h.jump = "continue" /\ Fits(f, h.lab)
    <2>1. IAimedHere /\ ~ifl.breaking /\ ifl.continuing /\ ~ifl.returning
      BY <1>3, <1>4, <1>9
    <2>2. ifl' = [ifl EXCEPT !.continuing = FALSE] /\ ist' = ist
      BY <1>1, <2>1
    <2>3. Ended(ifl, ifl')
      BY <1>1, <2>1, <2>2, JumpEnded
    <2>4. QED
      BY <1>1, <1>9, <2>2, <2>3
  <1>10. QED
    BY <1>6, <1>7, <1>8, <1>9

(* The flags in the handler that a `recover` ends, and after a failure has  *)
(* been caught.                                                             *)
LEMMA ReturnEnded ==
  ASSUME NEW fl \in Flags, ~fl.trapped, ~fl.breaking, ~fl.continuing
  PROVE  /\ NoExit([fl EXCEPT !.returning = FALSE, !.recovered = FALSE])
         /\ ~[fl EXCEPT !.returning = FALSE, !.recovered = FALSE].recovered
         /\ NoExit([fl EXCEPT !.returning = FALSE, !.rec = Unit, !.recovered = FALSE])
         /\ ~[fl EXCEPT !.returning = FALSE, !.rec = Unit, !.recovered = FALSE].recovered
  BY DEF Flags, NoExit

(* The oracle's steps while the binary cleans up the scope it is in.        *)
LEMMA LeavingStep ==
  ASSUME IInv, Shape(ist), IStep, NEW e, NEW t \in Seq(EFrame), NEW a, a = ialloc, NEW r,
         NEW g, NEW p, Leaving(ist, ifl, iout, t, r, g, p), Reaches(e, State(t, a, r, iout))
  PROVE  Tracked(e, ist', ifl', ialloc', iout')
  <1> DEFINE h == t[Len(t)]
             q == g[Len(ist)]
  <1>1. /\ ist \in Seq(IFrame) /\ ist # <<>> /\ TopKind(ist) = Top(ist).k /\ ifl \in Flags
        /\ CallsInBlocks(ist) /\ ITypeOK
    BY StepTop DEF IInv, StackInv
  <1>2. AtScope(ist, ifl, iout, t, r, g, p)
    BY <1>1, LeavingAt
  <1>3. /\ q >= p \/ (q = p - 1 /\ h.jump \in {"fail", "recover"})
        /\ Alike(Top(ist), t[q]) /\ h.at = q /\ q \in Nat /\ q < Len(t) /\ p \in 1 .. Len(t)
        /\ Aimed(t, Len(t), h, p) /\ Carries(ifl, h) /\ h \in EFrame
        /\ ~ifl.trapped /\ iout = Unit /\ r = <<"value", Unit>> /\ Top(ist).k # "cleanup"
        /\ Len(t) \in Nat
    BY <1>2 DEF AtScope
  <1>4. /\ h.jump \in Jumps /\ h.lab \in Label
        /\ ifl.breaking <=> h.jump = "break"
        /\ ifl.continuing <=> h.jump = "continue"
        /\ ifl.returning <=> h.jump \in {"return", "fail", "recover"}
        /\ ifl.returning => (ifl.failed <=> h.jump = "fail")
        /\ h.jump = "fail" => ifl.val = h.val
    BY <1>3 DEF Carries, EFrame
  <1>5. /\ q = p - 1 /\ h.jump = "fail" => Top(ist).k = "operand"
        /\ q = p - 1 /\ h.jump = "recover" => Top(ist).k = "handler"
        /\ q >= p /\ h.jump = "fail" => Top(ist).k # "operand"
        /\ q >= p /\ h.jump = "recover" => Top(ist).k # "handler"
    <2>1. q \in p .. Len(t) - 1 \/ q = p - 1
      BY <1>3
    <2>2. t[q].k = Top(ist).k /\ q > 0
      <3>1. g[Len(ist)] = g[Len(ist) - 1] + 1 /\ g[Len(ist) - 1] \in Nat
        BY <1>2 DEF AtScope
      <3>2. QED
        BY <1>3, <3>1 DEF Alike
    <2> HIDE DEF q, h
    <2>3. QED
      BY <1>3, <2>1, <2>2 DEF Aimed
  <1>6. h.jump \in {"break", "continue"} =>
          /\ q >= p /\ Top(ist).k # "argument" /\ (q = p <=> Fits(t[q], h.lab))
    BY <1>1, LeavingJump
  <1>7. h.jump \in {"break", "continue"} /\ Top(ist).k # "loop" => q > p
    BY <1>3, <1>6 DEF Fits, Alike
  <1>p. ASSUME Top(ist).k # "block", q >= p, h.jump \in {"break", "continue"} => q > p,
               ist' = Pop(ist), ifl' = ifl, iout' = iout, ialloc' = PutBack(t, a)
        PROVE  Tracked(e, ist', ifl', ialloc', iout')
    <2>1. \E v \in Seq(EFrame) : \E x :
             Reaches(e, State(v, PutBack(t, a), x, iout)) /\ Follows(Pop(ist), ifl, iout, v, x)
      BY <1>1, <1>p, LeavingPop
    <2> DEFINE u == Pop(ist)
               b == PutBack(t, a)
    <2>2. PICK v \in Seq(EFrame) : \E x : Reaches(e, State(v, b, x, iout)) /\ Follows(u, ifl, iout, v, x)
      BY <2>1
    <2>3. PICK x : Reaches(e, State(v, b, x, iout)) /\ Follows(u, ifl, iout, v, x)
      BY <2>2
    <2>4. ist' = u /\ ialloc' = b /\ ifl' = ifl /\ iout' = iout
      BY <1>p
    <2> HIDE DEF u, b
    <2>5. Tracked(e, u, ifl, b, iout)
      BY <2>3, Tracks
    <2>6. QED
      BY <2>4, <2>5
  <1>b. PutBack(t, a) = IF Top(ist).k = "with" THEN Top(ist).al ELSE a
    BY <1>3 DEF PutBack, Alike
  <1>l. ASSUME NEW u, NEW fm, NEW y, ist' = u, ifl' = fm, iout' = y, ialloc' = ialloc,
               \E v \in Seq(EFrame) : \E x : Reaches(e, State(v, a, x, y)) /\ Follows(u, fm, y, v, x)
        PROVE  Tracked(e, ist', ifl', ialloc', iout')
    <2>1. PICK v \in Seq(EFrame) : \E x : Reaches(e, State(v, a, x, y)) /\ Follows(u, fm, y, v, x)
      BY <1>l
    <2>2. PICK x : Reaches(e, State(v, a, x, y)) /\ Follows(u, fm, y, v, x)
      BY <2>1
    <2>3. Tracked(e, u, fm, ialloc, y)
      BY <2>2, Tracks
    <2>4. QED
      BY <1>l, <2>3
  <1>8. CASE IStopBlock
    <2>1. /\ Top(ist).k = "block" /\ ist' = SetTop(ist, EndOfBlock(Top(ist), ifl))
          /\ ifl' = ifl /\ ialloc' = ialloc /\ iout' = iout
      BY <1>1, <1>8 DEF IStopBlock
    <2> DEFINE u == SetTop(ist, EndOfBlock(Top(ist), ifl))
    <2>2. Follows(u, ifl, iout, t, r)
      BY <1>1, <2>1, LeavingBlock
    <2> HIDE DEF u
    <2>3. Tracked(e, u, ifl, ialloc, iout)
      BY <2>2, Tracks
    <2>4. QED
      BY <2>1, <2>3 DEF u
  <1>9. CASE ILeaveLoop
    <2>1. /\ ialloc' = ialloc /\ iout' = iout /\ Top(ist).k = "loop"
          /\ h.jump \notin {"break", "continue"} \/ ~Fits(t[q], h.lab) =>
               ifl' = ifl /\ ist' = Pop(ist)
          /\ h.jump \in {"break", "continue"} /\ Fits(t[q], h.lab) =>
               /\ Ended(ifl, ifl')
               /\ ist' = IF h.jump = "break" THEN Pop(ist) ELSE ist
      <3>1. Top(ist).k = "loop"
        BY <1>1, <1>9 DEF ILeaveLoop
      <3> DEFINE f == t[q]
      <3>2. Alike(Top(ist), f) /\ Carries(ifl, h) /\ h.lab \in Label
        BY <1>3, <1>4
      <3> HIDE DEF h, q, f
      <3>3. QED
        BY <1>1, <1>9, <3>1, <3>2, LoopFlags DEF f
    <2>2. CASE h.jump \in {"break", "continue"} /\ Fits(t[q], h.lab)
      <3> DEFINE u == IF h.jump = "break" THEN Pop(ist) ELSE ist
                 fm == ifl'
      <3>1. Ended(ifl, fm) /\ ist' = u /\ q = p
        BY <1>6, <2>1, <2>2
      <3>2. \E v \in Seq(EFrame) : \E x : Reaches(e, State(v, a, x, iout)) /\ Follows(u, fm, iout, v, x)
        <4> HIDE DEF fm
        <4>1. QED
          BY <1>1, <2>1, <2>2, <3>1, LeavingLoop
      <3>3. QED
        BY <1>l, <2>1, <3>1, <3>2
    <2>3. CASE h.jump \notin {"break", "continue"} \/ ~Fits(t[q], h.lab)
      <3>1. q >= p /\ (h.jump \in {"break", "continue"} => q > p)
        BY <1>3, <1>5, <1>6, <2>1, <2>3
      <3>2. ialloc' = PutBack(t, a)
        BY <1>b, <2>1
      <3>3. ifl' = ifl /\ ist' = Pop(ist) /\ Top(ist).k # "block"
        BY <2>1, <2>3
      <3>4. QED
        BY <1>p, <2>1, <3>1, <3>2, <3>3
    <2>4. QED
      BY <2>2, <2>3
  <1>10. CASE IEndWith
    <2>1. /\ Top(ist).k = "with" /\ ialloc' = Top(ist).al /\ ist' = Pop(ist)
          /\ ifl' = ifl /\ iout' = iout
      BY <1>1, <1>10 DEF IEndWith
    <2>2. q >= p /\ (h.jump \in {"break", "continue"} => q > p)
      BY <1>3, <1>5, <1>7, <2>1
    <2>3. QED
      BY <1>p, <1>b, <2>1, <2>2
  <1>11. CASE IEndArm
    <2>1. /\ Top(ist).k = "arm" /\ ialloc' = ialloc /\ ist' = Pop(ist)
          /\ ifl' = ifl /\ iout' = iout
      BY <1>1, <1>11 DEF IEndArm
    <2>2. q >= p /\ (h.jump \in {"break", "continue"} => q > p)
      BY <1>3, <1>5, <1>7, <2>1
    <2>3. QED
      BY <1>p, <1>b, <2>1, <2>2
  <1>12. CASE IEndOperand
    <2>1. Top(ist).k = "operand" /\ ialloc' = ialloc
      BY <1>1, <1>12 DEF IEndOperand
    <2>2. CASE h.jump = "fail"
      <3>1. q = p - 1 /\ ifl.returning /\ ifl.failed /\ ifl.val = h.val
        BY <1>3, <1>4, <1>5, <2>1, <2>2
      <3> DEFINE fm == [ifl EXCEPT !.returning = FALSE, !.rec = Unit, !.recovered = FALSE]
                 u == Push2(Pop(ist), IOpen("handler"), IOpen("block"))
      <3>2. ist' = u /\ ifl' = fm /\ iout' = ifl.val
        BY <1>12, <3>1 DEF IEndOperand
      <3>3. NoExit(fm) /\ ~fm.recovered
        <4>1. ~ifl.breaking /\ ~ifl.continuing
          BY <1>4, <2>2
        <4>2. QED
          BY <1>1, <1>3, <4>1, ReturnEnded
      <3>4. JumpHere(ist, ifl, iout, t, r, g, p)
        <4>1. Bound(ist, ifl, iout, t, r, g, p) /\ h.ds = <<>> /\ h.to = p /\ t # <<>> /\ h.k = "cleanup"
          BY <1>2, <1>3, <3>1 DEF Leaving, AtScope
        <4>2. Due(t, p)
          BY <1>3, <3>1, <4>1 DEF Due
        <4>3. QED
          BY <1>1, <4>1, <4>2 DEF JumpHere
      <3> HIDE DEF fm
      <3>5. \E v \in Seq(EFrame) : \E x : Reaches(e, State(v, a, x, ifl.val)) /\ Follows(u, fm, ifl.val, v, x)
        BY <1>1, <2>1, <2>2, <3>1, <3>3, <3>4, FailureCaught
      <3> HIDE DEF u
      <3>6. QED
        BY <1>l, <2>1, <3>2, <3>5
    <2>3. CASE h.jump # "fail"
      <3>1. q >= p /\ (h.jump \in {"break", "continue"} => q > p)
        BY <1>3, <1>5, <1>7, <2>1, <2>3
      <3>2. ~(ifl.returning /\ ifl.failed)
        BY <1>4, <2>3
      <3>3. ist' = Pop(ist) /\ ifl' = ifl /\ iout' = iout
        BY <1>12, <3>2 DEF IEndOperand
      <3>4. QED
        BY <1>p, <1>b, <2>1, <3>1, <3>3
    <2>4. QED
      BY <2>2, <2>3
  <1>13. CASE IEndHandler
    <2>1. Top(ist).k = "handler" /\ ialloc' = ialloc /\ ist' = Pop(ist)
      BY <1>1, <1>13 DEF IEndHandler
    <2>2. CASE h.jump = "recover"
      <3>1. q = p - 1 /\ ifl.recovered /\ ifl.rec = h.val
        BY <1>3, <1>5, <2>1, <2>2 DEF Carries
      <3> DEFINE fm == [ifl EXCEPT !.returning = FALSE, !.recovered = FALSE]
                 u == Pop(ist)
      <3>2. ist' = u /\ ifl' = fm /\ iout' = ifl.rec
        BY <1>13, <3>1 DEF IEndHandler
      <3>3. NoExit(fm) /\ ~fm.recovered
        <4>1. ~ifl.breaking /\ ~ifl.continuing
          BY <1>4, <2>2
        <4>2. QED
          BY <1>1, <1>3, <4>1, ReturnEnded
      <3>4. JumpHere(ist, ifl, iout, t, r, g, p)
        <4>1. Bound(ist, ifl, iout, t, r, g, p) /\ h.ds = <<>> /\ h.to = p /\ t # <<>> /\ h.k = "cleanup"
          BY <1>2, <1>3, <3>1 DEF Leaving, AtScope
        <4>2. Due(t, p)
          BY <1>3, <3>1, <4>1 DEF Due
        <4>3. QED
          BY <1>1, <4>1, <4>2 DEF JumpHere
      <3> HIDE DEF fm
      <3>5. \E v \in Seq(EFrame) : \E x : Reaches(e, State(v, a, x, ifl.rec)) /\ Follows(u, fm, ifl.rec, v, x)
        BY <1>1, <2>1, <2>2, <3>1, <3>3, <3>4, HandlerLeft
      <3> HIDE DEF u
      <3>6. QED
        BY <1>l, <2>1, <3>2, <3>5
    <2>3. CASE h.jump # "recover"
      <3>1. q >= p /\ (h.jump \in {"break", "continue"} => q > p)
        BY <1>3, <1>5, <1>7, <2>1, <2>3
      <3>2. ~ifl.recovered
        <4>1. Unrecovered(ist, Len(ist), ifl)
          BY <2>3 DEF Leaving, Bound
        <4>2. Len(ist) \in 1 .. Len(ist) /\ ist[Len(ist)].k = "handler" /\ Len(ist) \in Nat
          BY <1>1, <2>1, TopFacts, LenProperties
        <4>3. \A j \in Len(ist) .. Len(ist) : ist[j].k # "cleanup"
          BY <4>2
        <4>4. QED
          BY <4>1, <4>2, <4>3 DEF Unrecovered
      <3>3. ifl' = ifl /\ iout' = iout
        BY <1>13, <3>2 DEF IEndHandler
      <3>4. QED
        BY <1>p, <1>b, <2>1, <3>1, <3>3
    <2>4. QED
      BY <2>2, <2>3
  <1>14. CASE IEndArgument
    <2>1. Top(ist).k = "argument" /\ ialloc' = ialloc /\ ist' = Pop(ist) /\ ifl' = ifl
          /\ iout' = (IF ifl.returning THEN iout ELSE Called) /\ InFlight
      BY <1>1, <1>14 DEF IEndArgument
    <2>2. h.jump \notin {"break", "continue"}
      BY <1>6, <2>1
    <2>3. ifl.returning
      BY <1>4, <2>1, <2>2 DEF InFlight
    <2>4. q >= p
      BY <1>3, <1>5, <2>1
    <2>5. QED
      BY <1>p, <1>b, <2>1, <2>2, <2>3, <2>4
  <1>15. CASE ISkipErrdefer \/ IEndCleanup \/ ITrapped
    BY <1>1, <1>3, <1>15 DEF ISkipErrdefer, IEndCleanup, ITrapped
  <1>16. QED
    BY <1>8, <1>9, <1>10, <1>11, <1>12, <1>13, <1>14, <1>15 DEF IStep

-----------------------------------------------------------------------------
(***************************************************************************)
(* The oracle's way out, where the binary makes a bare jump.               *)
(***************************************************************************)

(* A bare jump stays one when a level inside the ones it leaves is left.    *)
LEMMA BarePop ==
  ASSUME NEW s \in Seq(IFrame), s # <<>>, NEW fl, NEW t \in Seq(EFrame), NEW o, NEW r, NEW g,
         NEW p, Bare(s, fl, o, t, r, g, p), Top(s).k # "cleanup",
         NEW w \in Seq(IFrame), Len(w) = Len(s) - 1, \A i \in 1 .. Len(s) - 1 : w[i] = s[i]
  PROVE  \E f : Bare(w, fl, o, t, r, f, p) /\ f[Len(w)] = g[Len(s)] - 1
  <1> DEFINE n == Len(s)
             f == [i \in 0 .. n - 1 |-> g[i]]
  <1>1. Bound(s, fl, o, t, r, g, p) /\ Placed(s, t, g)
    BY DEF Bare, Bound
  <1>2. /\ n \in Nat \ {0} /\ n - 1 \in 0 .. n /\ g[n - 1] \in Nat /\ g[n] = g[n - 1] + 1
        /\ s[n].k # "cleanup"
    BY <1>1, LevelOf
  <1>3. Len(t) \in Nat /\ g[n - 1] <= Len(t) /\ g[n - 1] < Len(t)
    BY <1>1, <1>2, TopOf DEF Bound
  <1>4. Placed(w, t, f)
    <2>1. \A i \in 1 .. g[n - 1] : t[i] = t[i]
      OBVIOUS
    <2> DEFINE m == n - 1
    <2>2. m \in 0 .. Len(s) /\ Len(w) = m /\ \A i \in 1 .. m : w[i] = s[i]
      BY <1>2
    <2>3. g[m] <= Len(t) /\ \A i \in 1 .. g[m] : t[i] = t[i]
      BY <1>3, <2>1
    <2>4. f = [i \in 0 .. m |-> g[i]]
      OBVIOUS
    <2> HIDE DEF m, n, f
    <2>5. QED
      BY <1>1, <1>3, <2>2, <2>3, <2>4, PlacedFirst
  <1>5. Len(w) = n - 1 /\ f[n - 1] = g[n - 1] /\ f[Len(w)] = g[n - 1]
        /\ \A i \in 1 .. n - 1 : f[i] = g[i]
    BY <1>2
  <1> HIDE DEF f
  <1>6. Unrecovered(w, Len(w), fl)
    <2>1. Unrecovered(s, n, fl)
      BY DEF Bare, Bound
    <2> HIDE DEF n
    <2>2. Unrecovered(w, n - 1, fl)
      <3>1. \A i \in 1 .. n - 1 : w[i] = s[i]
        BY DEF n
      <3>2. QED
        BY <1>2, <2>1, <3>1, UnrecoveredLess
    <2>3. QED
      BY <1>5, <2>2
  <1>7. Bound(w, fl, o, t, r, f, p)
    <2>1. f[Len(w)] < Len(t)
      BY <1>3, <1>5
    <2>2. QED
      BY <1>1, <1>4, <1>6, <2>1 DEF Bound
  <1>8. \A i \in 1 .. Len(w) : f[i] >= p => w[i].ds = <<>> /\ w[i].k # "with"
    <2>1. \A i \in 1 .. n : g[i] >= p => s[i].ds = <<>> /\ s[i].k # "with"
      BY DEF Bare
    <2>2. \A i \in 1 .. n - 1 : i \in 1 .. n /\ f[i] = g[i] /\ w[i] = s[i]
      BY <1>2, <1>5
    <2>3. QED
      BY ONLY <1>5, <2>1, <2>2
  <1>9. Bare(w, fl, o, t, r, f, p)
    BY <1>7, <1>8 DEF Bare
  <1>10. f[Len(w)] = g[n] - 1
    BY <1>2, <1>5
  <1>11. QED
    BY <1>9, <1>10

(* What the level that the oracle is in says of a bare jump.                *)
BareAt(s, fl, o, t, r, g, p) ==
  /\ Bound(s, fl, o, t, r, g, p) /\ Due(t, p) /\ t \in Seq(EFrame)
  /\ t[Len(t)].jump \in {"return", "break", "continue"} /\ t[Len(t)].lab \in Label
  /\ Carries(fl, t[Len(t)]) /\ Alike(Top(s), t[g[Len(s)]])
  /\ ~fl.trapped /\ o = Unit /\ r = <<"value", Unit>>
  /\ g[Len(s)] \in Nat \ {0} /\ p \in Nat \ {0}
  /\ Top(s).ds = <<>> /\ Top(s).k # "with" /\ ~(Top(s).k = "handler" /\ fl.recovered)
  /\ t[Len(t)].jump \in {"break", "continue"} =>
       Top(s).k # "argument" /\ (g[Len(s)] = p <=> Fits(t[g[Len(s)]], t[Len(t)].lab))
  /\ t[Len(t)].jump = "return" => p = 1

(* That is where it is.                                                     *)
LEMMA BareIs ==
  ASSUME NEW s \in Seq(IFrame), NEW fl, NEW t \in Seq(EFrame), NEW o, NEW r, NEW g, NEW p,
         BareLevel(s, fl, o, t, r, g, p)
  PROVE  BareAt(s, fl, o, t, r, g, p)
  <1> DEFINE n == Len(s)
             h == t[Len(t)]
  <1>1. /\ Bare(s, fl, o, t, r, g, p) /\ Bound(s, fl, o, t, r, g, p) /\ Placed(s, t, g)
        /\ s # <<>> /\ Top(s).k # "cleanup" /\ g[n] >= p
    BY DEF BareLevel, Bare, Bound
  <1>2. /\ g[n] < Len(t) /\ h.k = "cleanup" /\ Aimed(t, Len(t), h, p) /\ Carries(fl, h)
        /\ ~fl.trapped /\ o = Unit /\ r = <<"value", Unit>>
        /\ h.jump = "recover" \/ Unrecovered(s, n, fl)
    BY <1>1 DEF Bound
  <1>3. /\ h.to = Len(t) /\ h.at = Len(t) - 1 /\ h.ds = <<>>
        /\ h.jump \in {"return", "break", "continue"}
        /\ \A i \in 1 .. Len(s) : g[i] >= p => s[i].ds = <<>> /\ s[i].k # "with"
    BY <1>1 DEF Bare
  <1>4. /\ n \in 1 .. n /\ n \in Nat /\ Top(s) = s[n] /\ g[n] \in Nat \ {0} /\ Alike(s[n], t[g[n]])
    BY <1>1, LevelOf
  <1>5. Len(t) \in Nat /\ t # <<>> /\ h \in EFrame
    <2>1. Len(t) \in Nat /\ (t = <<>> <=> Len(t) = 0)
      BY TopOf
    <2>2. QED
      BY <1>2, <1>4, <2>1, TopOf
  <1>6. Due(t, p)
    BY <1>2, <1>3, <1>5 DEF Due
  <1>7. p \in 1 .. Len(t) /\ (h.jump = "return" => p = 1)
    BY <1>2 DEF Aimed
  <1>8. Top(s).ds = <<>> /\ Top(s).k # "with"
    BY <1>1, <1>3, <1>4
  <1>9. ~(Top(s).k = "handler" /\ fl.recovered)
    <2>1. Unrecovered(s, n, fl)
      BY <1>2, <1>3
    <2>2. \A j \in n .. n : s[j].k # "cleanup"
      BY <1>1, <1>4
    <2>3. QED
      BY <1>4, <2>1, <2>2 DEF Unrecovered
  <1>10. h.jump \in {"break", "continue"} =>
           Top(s).k # "argument" /\ (g[n] = p <=> Fits(t[g[n]], h.lab))
    <2>1. g[n] \in p .. Len(t) - 1 /\ (g[n] # p => g[n] \in p + 1 .. Len(t) - 1)
      BY <1>1, <1>2, <1>4, <1>5, <1>7
    <2>2. t[g[n]].k = Top(s).k
      BY <1>4 DEF Alike
    <2> HIDE DEF n, h
    <2>3. QED
      BY <1>2, <2>1, <2>2 DEF Aimed
  <1>11. h.lab \in Label
    BY <1>5 DEF EFrame
  <1>12. QED
    BY <1>1, <1>2, <1>3, <1>4, <1>6, <1>7, <1>8, <1>9, <1>10, <1>11 DEF BareAt

(* The oracle's steps while the binary is about to jump.                    *)
LEMMA BareLevelStep ==
  ASSUME IInv, IStep, NEW e, NEW t \in Seq(EFrame), NEW a, a = ialloc, NEW r,
         NEW g, NEW p, BareLevel(ist, ifl, iout, t, r, g, p), Reaches(e, State(t, a, r, iout))
  PROVE  Tracked(e, ist', ifl', ialloc', iout')
  <1> DEFINE h == t[Len(t)]
             q == g[Len(ist)]
  <1>1. /\ ist \in Seq(IFrame) /\ ist # <<>> /\ TopKind(ist) = Top(ist).k /\ ifl \in Flags
        /\ ITypeOK /\ Top(ist).k # "cleanup" /\ q >= p /\ Bare(ist, ifl, iout, t, r, g, p)
    BY StepTop DEF IInv, BareLevel
  <1>2. BareAt(ist, ifl, iout, t, r, g, p)
    BY <1>1, BareIs
  <1>3. /\ Bound(ist, ifl, iout, t, r, g, p) /\ Due(t, p)
        /\ h.jump \in {"return", "break", "continue"} /\ h.lab \in Label
        /\ Carries(ifl, h) /\ Alike(Top(ist), t[q])
        /\ ~ifl.trapped /\ iout = Unit /\ r = <<"value", Unit>>
        /\ q \in Nat \ {0} /\ p \in Nat \ {0}
        /\ Top(ist).ds = <<>> /\ Top(ist).k # "with" /\ ~(Top(ist).k = "handler" /\ ifl.recovered)
        /\ h.jump \in {"break", "continue"} =>
             Top(ist).k # "argument" /\ (q = p <=> Fits(t[q], h.lab))
        /\ h.jump = "return" => p = 1
    BY <1>2 DEF BareAt
  <1>4. /\ ifl.returning <=> h.jump = "return"
        /\ ~(ifl.returning /\ ifl.failed)
    BY <1>3 DEF Carries
  <1>l. ASSUME NEW u, NEW fm, ist' = u, ifl' = fm, iout' = iout, ialloc' = ialloc,
               \E v \in Seq(EFrame) : \E x : Reaches(e, State(v, a, x, iout)) /\ Follows(u, fm, iout, v, x)
        PROVE  Tracked(e, ist', ifl', ialloc', iout')
    <2>1. PICK v \in Seq(EFrame) : \E x : Reaches(e, State(v, a, x, iout)) /\ Follows(u, fm, iout, v, x)
      BY <1>l
    <2>2. PICK x : Reaches(e, State(v, a, x, iout)) /\ Follows(u, fm, iout, v, x)
      BY <2>1
    <2>3. Tracked(e, u, fm, ialloc, iout)
      BY <2>2, Tracks
    <2>4. QED
      BY <1>l, <2>3
  <1>p. ASSUME h.jump \in {"break", "continue"} => q # p,
               ist' = Pop(ist), ifl' = ifl, iout' = iout, ialloc' = ialloc
        PROVE  Tracked(e, ist', ifl', ialloc', iout')
    <2> DEFINE u == Pop(ist)
    <2>1. /\ u \in Seq(IFrame) /\ Len(u) = Len(ist) - 1 /\ \A i \in 1 .. Len(ist) - 1 : u[i] = ist[i]
      BY <1>1, PopFacts
    <2>2. ist' = u
      BY <1>p
    <2> HIDE DEF u
    <2>3. PICK f : Bare(u, ifl, iout, t, r, f, p) /\ f[Len(u)] = q - 1
      BY <1>1, <2>1, BarePop
    <2>4. f[Len(u)] >= p - 1 /\ (h.jump \in {"break", "continue"} => f[Len(u)] >= p)
      BY <1>1, <1>3, <1>p, <2>3
    <2>5. \E v \in Seq(EFrame) : \E x : Reaches(e, State(v, a, x, iout)) /\ Follows(u, ifl, iout, v, x)
      BY <2>1, <2>3, <2>4, BareOut
    <2>6. QED
      BY <1>l, <1>p, <2>2, <2>5
  <1>7. h.jump \in {"break", "continue"} /\ Top(ist).k # "loop" => q # p
    BY <1>3 DEF Fits, Alike
  <1>8. CASE IStopBlock
    <2> DEFINE f == EndOfBlock(Top(ist), ifl)
               u == SetTop(ist, f)
               w == Pop(u)
    <2>1. /\ Top(ist).k = "block" /\ ist' = u
          /\ ifl' = ifl /\ ialloc' = ialloc /\ iout' = iout
      BY <1>1, <1>8 DEF IStopBlock
    <2>2. Top(ist) \in IFrame /\ Len(ist) \in Nat \ {0}
      BY <1>1, TopFacts
    <2>3. f \in IFrame /\ f.k = "cleanup" /\ f.fl = ifl /\ f.ds = <<>>
      <3>1. f \in IFrame
        BY <1>1, <2>2, FrameType
      <3>2. f.k = "cleanup" /\ f.fl = ifl /\ f.ds = Top(ist).ds
        BY <2>2 DEF EndOfBlock, IFrame
      <3>3. QED
        BY <1>3, <3>1, <3>2
    <2> HIDE DEF f
    <2>4. /\ u \in Seq(IFrame) /\ Len(u) = Len(ist) /\ u[Len(u)] = f /\ u # <<>>
          /\ \A i \in 1 .. Len(ist) - 1 : u[i] = ist[i]
      <3>1. /\ u \in Seq(IFrame) /\ Len(u) = Len(ist) /\ u[Len(ist)] = f
            /\ \A i \in 1 .. Len(ist) - 1 : u[i] = ist[i]
        BY <1>1, <2>3, SetTopFacts
      <3>2. u # <<>>
        BY <2>2, <3>1, EmptySeq
      <3>3. QED
        BY <3>1, <3>2
    <2> HIDE DEF u
    <2>5. /\ w \in Seq(IFrame) /\ Len(w) = Len(ist) - 1
          /\ \A i \in 1 .. Len(ist) - 1 : w[i] = ist[i]
      <3>1. /\ w \in Seq(IFrame) /\ Len(w) = Len(u) - 1 /\ \A i \in 1 .. Len(u) - 1 : w[i] = u[i]
        BY <2>4, PopFacts
      <3>2. QED
        BY <2>4, <3>1
    <2> HIDE DEF w
    <2>6. PICK y : Bare(w, ifl, iout, t, r, y, p) /\ y[Len(w)] = q - 1
      BY <1>1, <2>5, BarePop
    <2>7. BareCleanup(u, ifl, iout, t, r, y, p)
      <3>1. Top(u) = f
        BY <2>4 DEF Top
      <3>2. Bare(Pop(u), ifl, iout, t, r, y, p)
        BY <2>6 DEF w
      <3>3. y[Len(u) - 1] = q - 1 /\ y[Len(u) - 1] >= p - 1 /\ y[Len(u) - 1] + 1 = q
        <4>1. Len(u) - 1 = Len(w)
          BY <2>4, <2>5
        <4>2. y[Len(w)] = q - 1 /\ q - 1 >= p - 1 /\ q - 1 + 1 = q
          BY <1>1, <1>3, <2>6
        <4>3. QED
          BY <4>1, <4>2
      <3>4. t[q].k = "block"
        BY <1>3, <2>1 DEF Alike
      <3>5. QED
        BY <2>3, <2>4, <3>1, <3>2, <3>3, <3>4 DEF BareCleanup
    <2>8. Follows(u, ifl, iout, t, r)
      BY <2>7 DEF Follows
    <2>9. Tracked(e, u, ifl, ialloc, iout)
      BY <2>8, Tracks
    <2>10. QED
      BY <2>1, <2>9
  <1>9. CASE ILeaveLoop
    <2>1. /\ ialloc' = ialloc /\ iout' = iout /\ Top(ist).k = "loop"
          /\ h.jump \notin {"break", "continue"} \/ ~Fits(t[q], h.lab) =>
               ifl' = ifl /\ ist' = Pop(ist)
          /\ h.jump \in {"break", "continue"} /\ Fits(t[q], h.lab) =>
               /\ Ended(ifl, ifl')
               /\ ist' = IF h.jump = "break" THEN Pop(ist) ELSE ist
      <3>1. Top(ist).k = "loop"
        BY <1>1, <1>9 DEF ILeaveLoop
      <3> DEFINE f == t[q]
      <3>2. Alike(Top(ist), f) /\ Carries(ifl, h) /\ h.lab \in Label
        BY <1>3
      <3> HIDE DEF h, q, f
      <3>3. QED
        BY <1>1, <1>9, <3>1, <3>2, LoopFlags DEF f
    <2>2. CASE h.jump \in {"break", "continue"} /\ Fits(t[q], h.lab)
      <3> DEFINE u == IF h.jump = "break" THEN Pop(ist) ELSE ist
                 fm == ifl'
      <3>1. Ended(ifl, fm) /\ ist' = u /\ q = p
        BY <1>3, <2>1, <2>2
      <3>2. LoopHere(ist, ifl, iout, t, r, g, p, fm, u)
        BY <1>1, <1>3, <2>1, <2>2, <3>1 DEF LoopHere, JumpHere
      <3>3. \E v \in Seq(EFrame) : \E x : Reaches(e, State(v, a, x, iout)) /\ Follows(u, fm, iout, v, x)
        <4> HIDE DEF fm, u
        <4>1. QED
          BY <1>1, <3>2, LoopLeft
      <3>4. QED
        BY <1>l, <2>1, <3>1, <3>3
    <2>3. CASE h.jump \notin {"break", "continue"} \/ ~Fits(t[q], h.lab)
      <3>1. h.jump \in {"break", "continue"} => q # p
        BY <1>3, <2>3
      <3>2. QED
        BY <1>p, <2>1, <2>3, <3>1
    <2>4. QED
      BY <2>2, <2>3
  <1>10. CASE IEndArm
    <2>1. /\ Top(ist).k = "arm" /\ ialloc' = ialloc /\ ist' = Pop(ist)
          /\ ifl' = ifl /\ iout' = iout
      BY <1>1, <1>10 DEF IEndArm
    <2>2. QED
      BY <1>p, <1>7, <2>1
  <1>11. CASE IEndOperand
    <2>1. /\ Top(ist).k = "operand" /\ ialloc' = ialloc /\ ist' = Pop(ist)
          /\ ifl' = ifl /\ iout' = iout
      BY <1>1, <1>4, <1>11 DEF IEndOperand
    <2>2. QED
      BY <1>p, <1>7, <2>1
  <1>12. CASE IEndHandler
    <2>1. Top(ist).k = "handler"
      BY <1>1, <1>12 DEF IEndHandler
    <2>2. /\ ialloc' = ialloc /\ ist' = Pop(ist) /\ ifl' = ifl /\ iout' = iout
      BY <1>3, <1>12, <2>1 DEF IEndHandler
    <2>3. QED
      BY <1>p, <1>7, <2>1, <2>2
  <1>13. CASE IEndArgument
    <2>1. Top(ist).k = "argument" /\ ialloc' = ialloc /\ ist' = Pop(ist) /\ ifl' = ifl
          /\ iout' = (IF ifl.returning THEN iout ELSE Called) /\ InFlight
      BY <1>1, <1>13 DEF IEndArgument
    <2>2. h.jump = "return" /\ ifl.returning
      BY <1>3, <1>4, <2>1
    <2>3. QED
      BY <1>p, <2>1, <2>2
  <1>14. CASE IEndWith \/ ISkipErrdefer \/ IEndCleanup \/ ITrapped
    BY <1>1, <1>3, <1>14 DEF IEndWith, ISkipErrdefer, IEndCleanup, ITrapped
  <1>15. QED
    BY <1>8, <1>9, <1>10, <1>11, <1>12, <1>13, <1>14 DEF IStep

(* The cleanup of a block that owed nothing ends.                           *)
LEMMA BareCleanupStep ==
  ASSUME IInv, IStep, NEW e, NEW t \in Seq(EFrame), NEW a, a = ialloc, NEW r,
         NEW g, NEW p, BareCleanup(ist, ifl, iout, t, r, g, p), Reaches(e, State(t, a, r, iout))
  PROVE  Tracked(e, ist', ifl', ialloc', iout')
  <1> DEFINE h == t[Len(t)]
             u == Pop(ist)
             m == g[Len(ist) - 1]
  <1>1. /\ ist \in Seq(IFrame) /\ ist # <<>> /\ TopKind(ist) = Top(ist).k /\ ifl \in Flags
    BY StepTop DEF IInv
  <1>2. /\ Top(ist).k = "cleanup" /\ Top(ist).ds = <<>> /\ Top(ist).fl = ifl
        /\ Bare(u, ifl, iout, t, r, g, p) /\ m >= p - 1 /\ t[m + 1].k = "block"
    BY DEF BareCleanup
  <1>3. u \in Seq(IFrame) /\ Len(u) = Len(ist) - 1
    BY <1>1, PopFacts
  <1> HIDE DEF u
  <1>4. /\ Bound(u, ifl, iout, t, r, g, p) /\ h.jump \in {"return", "break", "continue"}
        /\ Aimed(t, Len(t), h, p) /\ ~ifl.trapped /\ Placed(u, t, g)
    BY <1>2 DEF Bare, Bound
  <1>5. ifl' = ifl /\ ist' = u /\ ialloc' = ialloc /\ iout' = iout
    <2>1. IEndCleanup
      BY <1>1, <1>2, <1>4
        DEF IStep, IStopBlock, ISkipErrdefer, ILeaveLoop, IEndWith, IEndArm, IEndOperand,
            IEndHandler, IEndArgument, ITrapped
    <2>2. [ifl EXCEPT !.trapped = ifl.trapped] = ifl
      BY <1>1 DEF Flags
    <2>3. QED
      BY <1>2, <2>1, <2>2 DEF IEndCleanup, u
  <1>6. m = g[Len(u)] /\ m \in Nat /\ p \in Nat
    <2>1. g \in [0 .. Len(u) -> Nat] /\ Len(u) \in Nat
      BY <1>3, <1>4, LevelOf
    <2>2. Len(t) \in Nat /\ p \in 1 .. Len(t)
      BY <1>4, TopOf DEF Aimed
    <2>3. QED
      BY <1>3, <2>1, <2>2
  <1>7. h.jump \in {"break", "continue"} => m >= p
    <2>1. h.jump \in {"break", "continue"} => Fits(t[p], h.lab)
      BY <1>4 DEF Aimed
    <2>2. h.jump \in {"break", "continue"} => m + 1 # p
      BY <1>2, <2>1 DEF Fits
    <2>3. QED
      BY <1>2, <1>6, <2>2
  <1>8. \E v \in Seq(EFrame) : \E x : Reaches(e, State(v, a, x, iout)) /\ Follows(u, ifl, iout, v, x)
    <2>1. g[Len(u)] >= p - 1 /\ (h.jump \in {"break", "continue"} => g[Len(u)] >= p)
      BY <1>2, <1>6, <1>7
    <2>2. QED
      BY <1>2, <1>3, <2>1, BareOut
  <1>9. Tracked(e, u, ifl, ialloc, iout)
    BY <1>8, Tracks
  <1>10. QED
    BY <1>5, <1>9

-----------------------------------------------------------------------------
(***************************************************************************)
(* Wherever the two are, the binary goes where the oracle goes.            *)
(***************************************************************************)

(* After a trap the oracle only leaves its levels.                          *)
LEMMA DeadStep ==
  ASSUME IInv, IStep, NEW e, NEW t \in Seq(EFrame), NEW a, NEW r, Dead(ifl, iout, t, r),
         Reaches(e, State(t, a, r, iout))
  PROVE  Tracked(e, ist', ifl', ialloc', iout')
  <1>1. /\ ist \in Seq(IFrame) /\ ist # <<>> /\ TopKind(ist) = Top(ist).k /\ ifl \in Flags
    BY StepTop DEF IInv
  <1>2. /\ ifl.trapped /\ iout = Unit /\ t = <<>> /\ r = <<"trapped", Unit>>
    BY DEF Dead
  <1>3. Top(ist).fl \in Flags
    <2>1. Top(ist) \in IFrame
      BY <1>1, TopFacts
    <2>2. QED
      BY <2>1 DEF IFrame
  <1>4. ifl'.trapped /\ iout' = iout
    <2>1. CASE IEndCleanup
      <3>1. ifl' = [Top(ist).fl EXCEPT !.trapped = ifl.trapped] /\ iout' = iout
        BY <2>1 DEF IEndCleanup
      <3>2. QED
        BY <1>2, <1>3, <3>1 DEF Flags
    <2>2. CASE ~IEndCleanup
      BY <1>2, <2>2 DEF IStep, IStopBlock, ISkipErrdefer, ILeaveLoop, IEndWith, IEndArm,
                        IEndOperand, IEndHandler, IEndArgument, ITrapped
    <2>3. QED
      BY <2>1, <2>2
  <1>5. Follows(ist', ifl', iout', t, r)
    BY <1>2, <1>4 DEF Follows, Dead
  <1>6. Reaches(e, State(t, a, r, iout'))
    BY <1>4
  <1>7. QED
    BY <1>4, <1>5, <1>6 DEF Tracked

(* The oracle's way out is the binary's.                                    *)
LEMMA OracleFollowed ==
  ASSUME IInv, Shape(ist), IStep, NEW e, Tracked(e, ist, ifl, ialloc, iout)
  PROVE  Tracked(e, ist', ifl', ialloc', iout')
  <1>1. PICK t \in Seq(EFrame) : \E a, r :
          /\ Reaches(e, State(t, a, r, iout))
          /\ ifl.trapped \/ a = ialloc
          /\ Follows(ist, ifl, iout, t, r)
    BY DEF Tracked
  <1>2. PICK a, r :
          /\ Reaches(e, State(t, a, r, iout))
          /\ ifl.trapped \/ a = ialloc
          /\ Follows(ist, ifl, iout, t, r)
    BY <1>1
  <1>3. CASE Dead(ifl, iout, t, r)
    BY <1>2, <1>3, DeadStep
  <1>4. CASE \E g : Settled(ist, ifl, iout, t, r, g)
    <2>1. PICK g : Settled(ist, ifl, iout, t, r, g)
      BY <1>4
    <2>2. a = ialloc
      BY <1>2, <2>1 DEF Settled
    <2>3. QED
      BY <1>2, <2>1, <2>2, SettledStep
  <1>5. CASE \E g, p : Leaving(ist, ifl, iout, t, r, g, p)
    <2>1. PICK g, p : Leaving(ist, ifl, iout, t, r, g, p)
      BY <1>5
    <2>2. a = ialloc
      BY <1>2, <2>1 DEF Leaving, Bound
    <2>3. QED
      BY <1>2, <2>1, <2>2, LeavingStep
  <1>6. CASE \E g, p : BareLevel(ist, ifl, iout, t, r, g, p)
    <2>1. PICK g, p : BareLevel(ist, ifl, iout, t, r, g, p)
      BY <1>6
    <2>2. a = ialloc
      BY <1>2, <2>1 DEF BareLevel, Bare, Bound
    <2>3. QED
      BY <1>2, <2>1, <2>2, BareLevelStep
  <1>7. CASE \E g, p : BareCleanup(ist, ifl, iout, t, r, g, p)
    <2>1. PICK g, p : BareCleanup(ist, ifl, iout, t, r, g, p)
      BY <1>7
    <2>2. a = ialloc
      BY <1>2, <2>1 DEF BareCleanup, Bare, Bound
    <2>3. QED
      BY <1>2, <2>1, <2>2, BareCleanupStep
  <1>8. QED
    <2>1. Follows(ist, ifl, iout, t, r)
      BY <1>2
    <2>2. \/ Dead(ifl, iout, t, r)
          \/ \E g : Settled(ist, ifl, iout, t, r, g)
          \/ \E g, p : Leaving(ist, ifl, iout, t, r, g, p)
          \/ \E g, p : BareLevel(ist, ifl, iout, t, r, g, p)
          \/ \E g, p : BareCleanup(ist, ifl, iout, t, r, g, p)
      BY <2>1 DEF Follows
    <2>3. QED
      BY <1>3, <1>4, <1>5, <1>6, <1>7, <2>2

-----------------------------------------------------------------------------
(***************************************************************************)
(* Where an operand, a handler and an argument are written.                *)
(***************************************************************************)

(* The kinds of the levels that are written where a value may be.           *)
Within == {"operand", "handler", "argument"}

(* The kinds of the levels that they are written in.                        *)
Outside == {"block", "operand", "argument"}

(* A level is opened.                                                       *)
LEMMA ShapePush ==
  ASSUME NEW s \in Seq(IFrame), Shape(s), NEW f \in IFrame,
         f.k \notin Within \/ TopKind(s) \in Outside
  PROVE  Append(s, f) \in Seq(IFrame) /\ Shape(Append(s, f)) /\ TopKind(Append(s, f)) = f.k
  <1> DEFINE u == Append(s, f)
             n == Len(s)
  <1>1. /\ u \in Seq(IFrame) /\ Len(u) = n + 1 /\ u[n + 1] = f
        /\ n \in Nat /\ \A i \in 1 .. n : u[i] = s[i]
    BY PushFacts, LenProperties
  <1>2. TopKind(u) = f.k
    <2> HIDE DEF u
    <2>1. Len(u) # 0 /\ u # <<>>
      BY <1>1, EmptySeq
    <2>2. QED
      BY <1>1, <2>1, TopKindFacts
  <1>3. TopKind(s) \in Outside => n > 0 /\ s[n].k \in Outside
    <2>1. s # <<>> => TopKind(s) = s[Len(s)].k /\ Len(s) \in 1 .. Len(s)
      BY TopKindFacts
    <2>2. s = <<>> => TopKind(s) \notin Outside
      BY DEF TopKind, Outside
    <2>3. QED
      BY <1>1, <2>1, <2>2
  <1>4. ASSUME NEW i \in 1 .. n + 1, u[i].k \in Within
        PROVE  i > 1 /\ u[i - 1].k \in Outside
    <2>1. CASE i = n + 1
      <3>1. n > 0 /\ s[n].k \in Outside /\ i - 1 = n
        BY <1>1, <1>3, <1>4, <2>1
      <3>2. u[n] = s[n]
        BY <1>1, <3>1
      <3>3. QED
        BY <1>1, <3>1, <3>2
    <2>2. CASE i # n + 1
      <3>1. i \in 1 .. n /\ s[i].k \in Within
        BY <1>1, <1>4, <2>2
      <3>2. i > 1 /\ s[i - 1].k \in Outside
        BY <3>1 DEF Shape, Within, Outside
      <3>3. u[i - 1] = s[i - 1]
        BY <1>1, <3>1, <3>2
      <3>4. QED
        BY <3>2, <3>3
    <2>3. QED
      BY <2>1, <2>2
  <1>5. Shape(u)
    BY <1>1, <1>4 DEF Shape, Within, Outside
  <1>6. QED
    BY <1>1, <1>2, <1>5

(* A level is left.                                                         *)
LEMMA ShapePop ==
  ASSUME NEW s \in Seq(IFrame), s # <<>>, Shape(s)
  PROVE  /\ Pop(s) \in Seq(IFrame) /\ Shape(Pop(s))
         /\ Top(s).k \in Within => TopKind(Pop(s)) \in Outside
  <1> DEFINE u == Pop(s)
             n == Len(s)
  <1>1. /\ u \in Seq(IFrame) /\ n \in Nat \ {0} /\ Len(u) = n - 1
        /\ \A i \in 1 .. n - 1 : u[i] = s[i]
    BY PopFacts
  <1>2. ASSUME NEW i \in 1 .. n - 1, u[i].k \in Within
        PROVE  i > 1 /\ u[i - 1].k \in Outside
    <2>1. i \in 1 .. n /\ s[i].k \in Within
      BY <1>1, <1>2
    <2>2. i > 1 /\ s[i - 1].k \in Outside
      BY <2>1 DEF Shape, Within, Outside
    <2>3. u[i - 1] = s[i - 1]
      BY <1>1, <2>2
    <2>4. QED
      BY <2>2, <2>3
  <1>3. Shape(u)
    BY <1>1, <1>2 DEF Shape, Within, Outside
  <1>4. ASSUME Top(s).k \in Within PROVE TopKind(u) \in Outside
    <2>1. n \in 1 .. n /\ s[n].k \in Within
      BY <1>1, <1>4 DEF Top
    <2>2. n > 1 /\ s[n - 1].k \in Outside
      BY <2>1 DEF Shape, Within, Outside
    <2>3. u[n - 1] = s[n - 1] /\ u # <<>>
      BY <1>1, <2>2, EmptySeq
    <2>4. TopKind(u) = u[Len(u)].k
      BY <1>1, <2>3, TopKindFacts
    <2>5. QED
      BY <1>1, <2>2, <2>3, <2>4
  <1>5. QED
    BY <1>1, <1>3, <1>4

(* The frame on top changes.                                                *)
LEMMA ShapeTop ==
  ASSUME NEW s \in Seq(IFrame), s # <<>>, Shape(s), NEW f \in IFrame, f.k \notin Within
  PROVE  SetTop(s, f) \in Seq(IFrame) /\ Shape(SetTop(s, f))
  <1> DEFINE u == SetTop(s, f)
             n == Len(s)
  <1>1. /\ u \in Seq(IFrame) /\ n \in Nat \ {0} /\ Len(u) = n /\ u[n] = f
        /\ \A i \in 1 .. n - 1 : u[i] = s[i]
    BY SetTopFacts
  <1>2. ASSUME NEW i \in 1 .. n, u[i].k \in Within
        PROVE  i > 1 /\ u[i - 1].k \in Outside
    <2>1. i \in 1 .. n - 1 /\ s[i].k \in Within
      BY <1>1, <1>2
    <2>2. i > 1 /\ s[i - 1].k \in Outside
      BY <2>1 DEF Shape, Within, Outside
    <2>3. u[i - 1] = s[i - 1]
      BY <1>1, <2>1, <2>2
    <2>4. QED
      BY <2>2, <2>3
  <1>3. QED
    BY <1>1, <1>2 DEF Shape, Within, Outside

(* Every step of the oracle leaves them where they are written.             *)
LEMMA ShapeHolds ==
  ASSUME ITypeOK, Shape(ist), [INext]_ivars
  PROVE  Shape(ist)'
  <1>1. ist \in Seq(IFrame) /\ (ist = <<>> <=> TopKind(ist) = "end")
        /\ (ist # <<>> => Top(ist) \in IFrame /\ Top(ist).k = TopKind(ist))
    <2>1. ist \in Seq(IFrame)
      BY DEF ITypeOK
    <2>2. QED
      BY <2>1, TopKindFacts, TopFacts
  <1>2. \A kind \in IKinds : IOpen(kind) \in IFrame /\ IOpen(kind).k = kind
    BY OpenAlike
  <1>3. /\ IOpen("block") \in IFrame /\ IOpen("block").k = "block"
        /\ IOpen("arm") \in IFrame /\ IOpen("arm").k = "arm"
        /\ IOpen("operand") \in IFrame /\ IOpen("operand").k = "operand"
        /\ IOpen("handler") \in IFrame /\ IOpen("handler").k = "handler"
        /\ IOpen("argument") \in IFrame /\ IOpen("argument").k = "argument"
        /\ IOpen("loop") \in IFrame /\ IOpen("loop").k = "loop"
        /\ IOpen("with") \in IFrame /\ IOpen("with").k = "with"
    BY <1>2 DEF IKinds
  <1>pop. ASSUME ist # <<>> PROVE Shape(Pop(ist)) /\ Pop(ist) \in Seq(IFrame)
    BY <1>1, <1>pop, ShapePop
  <1>block. Shape(Append(ist, IOpen("block")))
    BY <1>1, <1>3, ShapePush DEF Within
  <1>two. ASSUME NEW f \in IFrame, f.k \notin Within PROVE Shape(Push2(ist, f, IOpen("block")))
    <2> DEFINE u == Append(ist, f)
    <2>1. u \in Seq(IFrame) /\ Shape(u)
      BY <1>1, <1>two, ShapePush
    <2> HIDE DEF u
    <2>2. Shape(Append(u, IOpen("block")))
      BY <1>3, <2>1, ShapePush DEF Within
    <2>3. QED
      BY <2>2 DEF u, Push2
  <1>end. ASSUME ist # <<>>, NEW fl \in Flags PROVE Shape(SetTop(ist, EndOfBlock(Top(ist), fl)))
    <2> DEFINE f == EndOfBlock(Top(ist), fl)
    <2>1. f \in IFrame
      BY <1>1, <1>end, FrameType
    <2>2. f.k = "cleanup"
      BY <1>1, <1>end DEF EndOfBlock, IFrame
    <2> HIDE DEF f
    <2>3. Shape(SetTop(ist, f))
      BY <1>1, <1>end, <2>1, <2>2, ShapeTop DEF Within
    <2>4. QED
      BY <2>3 DEF f
  <1>drop. ASSUME ist # <<>>, Top(ist).k = "cleanup", Top(ist).ds # <<>>
           PROVE  IDropped \in Seq(IFrame) /\ Shape(IDropped)
    <2> DEFINE f == [Top(ist) EXCEPT !.ds = Pop(@)]
    <2>1. f \in IFrame
      BY <1>1, <1>drop, FrameType
    <2>2. f.k = "cleanup"
      BY <1>1, <1>drop DEF IFrame
    <2> HIDE DEF f
    <2>3. SetTop(ist, f) \in Seq(IFrame) /\ Shape(SetTop(ist, f))
      BY <1>1, <1>drop, <2>1, <2>2, ShapeTop DEF Within
    <2>4. QED
      BY <2>3 DEF f, IDropped
  <1>same. ASSUME ist' = ist PROVE Shape(ist)'
    BY <1>same DEF Shape
  <1>to. ASSUME NEW u, ist' = u, Shape(u) PROVE Shape(ist)'
    BY <1>to DEF Shape
  <1>4. CASE UNCHANGED ivars
    BY <1>4, <1>same DEF ivars
  <1>5. CASE ICallFunc
    <2>1. <<>> \in Seq(IFrame) /\ Shape(<<>>)
      <3>1. <<>> \in Seq(IFrame) /\ Len(<<>>) = 0
        BY EmptySeq
      <3>2. QED
        BY <3>1 DEF Shape
    <2> DEFINE u == <<>>
    <2>2. Shape(Append(u, IOpen("block")))
      <3> HIDE DEF u
      <3>1. u \in Seq(IFrame) /\ Shape(u)
        BY <2>1 DEF u
      <3>2. QED
        BY <1>3, <3>1, ShapePush DEF Within
    <2>3. Append(u, IOpen("block")) = <<IOpen("block")>>
      OBVIOUS
    <2>4. QED
      BY <1>5, <1>to, <2>2, <2>3 DEF ICallFunc
  <1>6. CASE IBlock \/ IIterate
    BY <1>6, <1>to, <1>block DEF IBlock, IIterate, IGoto
  <1>7. ASSUME NEW l \in Label, ILoop(l) PROVE Shape(ist)'
    <2> DEFINE f == [IOpen("loop") EXCEPT !.lab = l]
    <2>1. f \in IFrame /\ f.k = "loop"
      BY <1>3, <1>7 DEF IFrame
    <2>2. ist' = Append(ist, f)
      BY <1>7 DEF ILoop, IGoto
    <2> HIDE DEF f
    <2>3. Shape(Append(ist, f))
      BY <1>1, <2>1, ShapePush DEF Within
    <2>4. QED
      BY <1>to, <2>2, <2>3
  <1>8. CASE ILoopDone \/ IOperandDone \/ IArgumentDone
    <2>1. ist # <<>> /\ ist' = Pop(ist)
      BY <1>1, <1>8 DEF ILoopDone, IOperandDone, IArgumentDone, IAt, IGoto
    <2>2. QED
      BY <1>to, <1>pop, <2>1
  <1>9. CASE IMatch
    BY <1>3, <1>9, <1>two, <1>to DEF IMatch, IGoto, Within
  <1>10. CASE ICatch
    <2>1. TopKind(ist) \in Outside /\ ist' = Append(ist, IOpen("operand"))
      BY <1>10 DEF ICatch, IAt, IGoto, Outside
    <2>2. Shape(Append(ist, IOpen("operand")))
      BY <1>1, <1>3, <2>1, ShapePush
    <2>3. QED
      BY <1>to, <2>1, <2>2
  <1>11. CASE IArgument
    <2> DEFINE u == Append(ist, IOpen("argument"))
    <2>1. TopKind(ist) \in Outside /\ ist' = Append(u, IOpen("operand"))
      BY <1>11 DEF IArgument, IAt, IGoto, Outside, Push2
    <2>2. u \in Seq(IFrame) /\ Shape(u) /\ TopKind(u) = "argument"
      BY <1>1, <1>3, <2>1, ShapePush
    <2> HIDE DEF u
    <2>3. Shape(Append(u, IOpen("operand")))
      BY <1>3, <2>2, ShapePush DEF Outside
    <2>4. QED
      BY <1>to, <2>1, <2>3
  <1>12. ASSUME NEW b \in Allocs, IWith(b) PROVE Shape(ist)'
    <2> DEFINE f == [IOpen("with") EXCEPT !.al = ialloc]
    <2>1. f \in IFrame /\ f.k = "with"
      BY <1>3 DEF IFrame, ITypeOK
    <2>2. ist' = Push2(ist, f, IOpen("block"))
      BY <1>12 DEF IWith
    <2> HIDE DEF f
    <2>3. QED
      BY <1>to, <1>two, <2>1, <2>2 DEF Within
  <1>13. ASSUME NEW d \in Deferred, IDefer(d) PROVE Shape(ist)'
    <2> DEFINE f == [Top(ist) EXCEPT !.ds = Append(@, d)]
    <2>1. ist # <<>> /\ Top(ist).k = "block" /\ ist' = SetTop(ist, f)
      BY <1>1, <1>13 DEF IDefer, IAt, IGoto
    <2>2. f \in IFrame
      BY <1>1, <2>1, FrameType
    <2>3. f.k = "block"
      BY <1>1, <2>1 DEF IFrame
    <2> HIDE DEF f
    <2>4. QED
      BY <1>1, <1>to, <2>1, <2>2, <2>3, ShapeTop DEF Within
  <1>14. CASE ICall \/ ITrap
    BY <1>14, <1>same DEF ICall, ITrap, IExit
  <1>15. ASSUME NEW l \in Label, IBreak(l) \/ IContinue(l) PROVE Shape(ist)'
    BY <1>15, <1>same DEF IBreak, IContinue, IExit
  <1>16. ASSUME NEW v \in Vals, IReturn(v) \/ IRaise(v) \/ IRecover(v) PROVE Shape(ist)'
    BY <1>16, <1>same DEF IReturn, IRaise, IRecover, IExit
  <1>17. CASE IEndBlock \/ IStopBlock
    <2>1. ist # <<>> /\ ist' = SetTop(ist, EndOfBlock(Top(ist), ifl)) /\ ifl \in Flags
      BY <1>1, <1>17 DEF IEndBlock, IStopBlock, IAt, IGoto, ITypeOK
    <2>2. QED
      BY <1>to, <1>end, <2>1
  <1>18. CASE IRunDeferred
    <2>1. ist # <<>> /\ Top(ist).k = "cleanup" /\ Top(ist).ds # <<>>
      BY <1>1, <1>18 DEF IRunDeferred, IAt, IQuiet, IRunnable
    <2>2. IDropped \in Seq(IFrame) /\ Shape(IDropped)
      BY <1>drop, <2>1
    <2> DEFINE u == IDropped
    <2>3. Shape(Append(u, IOpen("block")))
      <3> HIDE DEF u
      <3>1. u \in Seq(IFrame) /\ Shape(u)
        BY <2>2 DEF u
      <3>2. QED
        BY <1>3, <3>1, ShapePush DEF Within
    <2>4. ist' = IDropped \/ ist' = Append(u, IOpen("block"))
      BY <1>18 DEF IRunDeferred
    <2>5. QED
      BY <1>to, <2>2, <2>3, <2>4
  <1>19. CASE ISkipErrdefer
    <2>1. ist # <<>> /\ Top(ist).k = "cleanup" /\ Top(ist).ds # <<>> /\ ist' = IDropped
      BY <1>1, <1>19 DEF ISkipErrdefer
    <2>2. QED
      BY <1>to, <1>drop, <2>1
  <1>20. CASE IEndCleanup \/ ILeaveLoop \/ IEndWith \/ IEndArm \/ IEndHandler \/ IEndArgument \/ ITrapped
    <2>1. ist # <<>> /\ (ist' = Pop(ist) \/ ist' = ist)
      BY <1>1, <1>20 DEF IEndCleanup, ILeaveLoop, IEndWith, IEndArm, IEndHandler, IEndArgument,
                         ITrapped
    <2>2. QED
      BY <1>to, <1>same, <1>pop, <2>1
  <1>21. CASE IEndOperand
    <2> DEFINE w == Pop(ist)
               u == Append(w, IOpen("handler"))
    <2>1. ist # <<>> /\ Top(ist).k = "operand"
      BY <1>1, <1>21 DEF IEndOperand
    <2>2. w \in Seq(IFrame) /\ Shape(w) /\ TopKind(w) \in Outside
      BY <1>1, <2>1, ShapePop DEF Within
    <2>3. ist' = w \/ ist' = Append(u, IOpen("block"))
      BY <1>21 DEF IEndOperand, Push2
    <2> HIDE DEF w
    <2>4. u \in Seq(IFrame) /\ Shape(u)
      BY <1>3, <2>2, ShapePush
    <2> HIDE DEF u
    <2>5. Shape(Append(u, IOpen("block")))
      BY <1>3, <2>4, ShapePush DEF Within
    <2>6. QED
      BY <1>to, <2>2, <2>3, <2>5
  <1>22. QED
    <2>1. CASE IStatement
      BY <1>5, <1>6, <1>7, <1>8, <1>9, <1>10, <1>11, <1>12, <1>13, <1>14, <1>15, <1>16, <1>17,
         <1>18, <2>1 DEF IStatement
    <2>2. CASE IStep
      BY <1>17, <1>19, <1>20, <1>21, <2>2 DEF IStep
    <2>3. QED
      BY <1>4, <2>1, <2>2 DEF INext

-----------------------------------------------------------------------------
(***************************************************************************)
(* Both wait for the program.                                              *)
(***************************************************************************)

(* Where both wait, the binary has arrived where the oracle is.             *)
Together ==
  /\ est \in Seq(EFrame) /\ eout = iout /\ (ifl.trapped \/ ealloc = ialloc)
  /\ \/ \E g : Settled(ist, ifl, iout, est, eret, g)
     \/ ist = <<>> /\ Dead(ifl, iout, est, eret)

(* Where the oracle waits, no exit is under way.                            *)
LEMMA WaitingIs ==
  ASSUME ITypeOK, IQuiet, NEW t \in Seq(EFrame), NEW r, Follows(ist, ifl, iout, t, r)
  PROVE  \/ \E g : Settled(ist, ifl, iout, t, r, g)
         \/ ist = <<>> /\ Dead(ifl, iout, t, r)
  <1>1. /\ ist \in Seq(IFrame) /\ (ist = <<>> <=> TopKind(ist) = "end")
        /\ (ist # <<>> => Top(ist).k = TopKind(ist))
    <2>1. ist \in Seq(IFrame)
      BY DEF ITypeOK
    <2>2. QED
      BY <2>1, TopKindFacts, TopFacts
  <1>2. ASSUME NEW g, NEW p, Leaving(ist, ifl, iout, t, r, g, p) \/ BareLevel(ist, ifl, iout, t, r, g, p)
        PROVE  FALSE
    <2>1. /\ Bound(ist, ifl, iout, t, r, g, p) /\ ist # <<>> /\ Top(ist).k # "cleanup"
      BY <1>2 DEF Leaving, BareLevel, Bare
    <2>2. Carries(ifl, t[Len(t)]) /\ t[Len(t)].jump # "fall" /\ t[Len(t)].k = "cleanup"
          /\ g[Len(ist)] < Len(t) /\ Placed(ist, t, g)
      BY <2>1 DEF Bound
    <2>3. t[Len(t)] \in EFrame
      <3>1. Len(t) \in Nat /\ (t = <<>> <=> Len(t) = 0)
        BY TopOf
      <3>2. g[Len(ist)] \in Nat \ {0}
        BY <1>1, <2>1, <2>2, LevelOf
      <3>3. QED
        BY <2>2, <3>1, <3>2, TopOf
    <2>4. t[Len(t)].jump \in Jumps
      BY <2>3 DEF EFrame
    <2>5. InFlight
      BY <2>2, <2>4 DEF Carries, InFlight, Jumps
    <2>6. ~InFlight
      BY <1>1, <2>1 DEF IQuiet
    <2>7. QED
      BY <2>5, <2>6
  <1>3. ASSUME NEW g, NEW p, BareCleanup(ist, ifl, iout, t, r, g, p)
        PROVE  FALSE
    <2>1. ist # <<>> /\ Top(ist).k = "cleanup" /\ Top(ist).ds = <<>>
      BY <1>3 DEF BareCleanup
    <2>2. IRunnable
      BY <1>1, <2>1 DEF IQuiet
    <2>3. QED
      BY <2>1, <2>2 DEF IRunnable
  <1>4. \/ Dead(ifl, iout, t, r)
        \/ \E g : Settled(ist, ifl, iout, t, r, g)
    BY <1>2, <1>3 DEF Follows
  <1>5. Dead(ifl, iout, t, r) => ist = <<>>
    BY DEF Dead, IQuiet
  <1>6. QED
    BY <1>4, <1>5

(* Where the binary waits too, it has arrived.                              *)
LEMMA ReadyIs ==
  ASSUME ITypeOK, Tracked(Now, ist, ifl, ialloc, iout), IQuiet, EQuiet
  PROVE  Together
  <1>1. PICK t \in Seq(EFrame) : \E a, r :
          /\ Reaches(Now, State(t, a, r, iout))
          /\ ifl.trapped \/ a = ialloc
          /\ Follows(ist, ifl, iout, t, r)
    BY DEF Tracked
  <1>2. PICK a, r :
          /\ Reaches(Now, State(t, a, r, iout))
          /\ ifl.trapped \/ a = ialloc
          /\ Follows(ist, ifl, iout, t, r)
    BY <1>1
  <1>3. Now = State(t, a, r, iout)
    <2>1. Now.st = est
      BY StateFields DEF Now
    <2>2. Quiet(Now.st)
      BY <2>1, QuietIs
    <2> DEFINE e == Now
               f == State(t, a, r, iout)
    <2>3. Reaches(e, f) /\ Quiet(e.st)
      BY <1>2, <2>2
    <2> HIDE DEF e, f
    <2>4. e = f
      BY <2>3, ReachFrom
    <2>5. QED
      BY <2>4 DEF e, f
  <1>4. est = t /\ ealloc = a /\ eret = r /\ eout = iout
    BY <1>3 DEF Now, State
  <1>5. \/ \E g : Settled(ist, ifl, iout, t, r, g)
        \/ ist = <<>> /\ Dead(ifl, iout, t, r)
    BY <1>2, WaitingIs
  <1>6. QED
    BY <1>2, <1>4, <1>5 DEF Together

(* The binary has arrived at a place that the oracle is at.                 *)
LEMMA ArriveAt ==
  ASSUME NEW t \in Seq(EFrame), NEW a, NEW r, NEW o, NEW s, NEW fl, NEW al,
         fl.trapped \/ a = al, Follows(s, fl, o, t, r)
  PROVE  Tracked(State(t, a, r, o), s, fl, al, o)
  <1>1. Reaches(State(t, a, r, o), State(t, a, r, o))
    BY StateFields, ReachSelf
  <1>2. QED
    BY <1>1 DEF Tracked

(* Both are inside the same constructs, and no exit is in flight.           *)
Level(s, fl, t) ==
  /\ s \in Seq(IFrame) /\ t \in Seq(EFrame) /\ NoExit(fl)
  /\ TopKind(s) # "cleanup" /\ Unrecovered(s, Len(s), fl)
  /\ \E g : Placed(s, t, g) /\ g[Len(s)] = Len(t)

(* That is a place to be at.                                                *)
LEMMA LevelFollows ==
  ASSUME NEW s, NEW fl, NEW t, Level(s, fl, t), NEW o, TopKind(s) \in Resting \/ o = Unit
  PROVE  Follows(s, fl, o, t, <<"value", Unit>>)
  <1>1. PICK g : Placed(s, t, g) /\ g[Len(s)] = Len(t)
    BY DEF Level
  <1>2. NoExit(fl) /\ Unrecovered(s, Len(s), fl)
    BY DEF Level
  <1>3. QED
    BY <1>1, <1>2, Arrived

(* Opening a construct alike.                                               *)
LEMMA LevelPush ==
  ASSUME NEW s, NEW fl, NEW t, Level(s, fl, t), NEW f \in IFrame, NEW h \in EFrame, Alike(f, h),
         f.k \notin {"cleanup", "handler"}
  PROVE  Level(Append(s, f), fl, Append(t, h)) /\ TopKind(Append(s, f)) = f.k
  <1> DEFINE u == Append(s, f)
             v == Append(t, h)
             n == Len(s)
  <1>1. s \in Seq(IFrame) /\ t \in Seq(EFrame) /\ NoExit(fl) /\ Unrecovered(s, n, fl)
    BY DEF Level
  <1>2. PICK g : Placed(s, t, g) /\ g[n] = Len(t)
    BY DEF Level
  <1>3. /\ u \in Seq(IFrame) /\ v \in Seq(EFrame)
        /\ \E e : Placed(u, v, e) /\ e[Len(u)] = Len(v)
    BY <1>1, <1>2, PlacedPush
  <1>4. /\ Len(u) = n + 1 /\ u[n + 1] = f /\ n \in Nat /\ \A i \in 1 .. n : u[i] = s[i]
    BY <1>1, PushFacts, LenProperties
  <1> HIDE DEF u, v
  <1>5. TopKind(u) = f.k
    <2>1. Len(u) # 0 /\ u # <<>>
      BY <1>3, <1>4, EmptySeq
    <2>2. QED
      BY <1>3, <1>4, <2>1, TopKindFacts
  <1>6. Unrecovered(u, Len(u), fl)
    <2>1. u[n + 1].k # "handler"
      BY <1>4
    <2> HIDE DEF n
    <2>2. Unrecovered(u, n + 1, fl)
      BY <1>1, <1>4, <2>1, UnrecoveredMore
    <2>3. QED
      BY <1>4, <2>2
  <1>7. Level(u, fl, v)
    BY <1>1, <1>3, <1>5, <1>6 DEF Level
  <1>8. QED
    BY <1>5, <1>7 DEF u, v

(* Opening two.                                                             *)
LEMMA LevelPushTwo ==
  ASSUME NEW s, NEW fl, NEW t, Level(s, fl, t), NEW f \in IFrame, NEW h \in EFrame, Alike(f, h),
         f.k \notin {"cleanup", "handler"}, NEW kind \in {"block", "operand"}
  PROVE  Level(Push2(s, f, IOpen(kind)), fl, Push2(t, h, EOpen(kind)))
  <1> DEFINE u == Append(s, f)
             v == Append(t, h)
             x == IOpen(kind)
             y == EOpen(kind)
  <1>1. Level(u, fl, v)
    BY LevelPush
  <1>2. x \in IFrame /\ y \in EFrame /\ Alike(x, y) /\ x.k = kind
    BY OpenAlike DEF IKinds
  <1>3. Push2(s, f, IOpen(kind)) = Append(u, x) /\ Push2(t, h, EOpen(kind)) = Append(v, y)
    BY DEF Push2
  <1> HIDE DEF u, v, x, y
  <1>4. Level(Append(u, x), fl, Append(v, y))
    BY <1>1, <1>2, LevelPush
  <1>5. QED
    BY <1>3, <1>4

(* The program is inside a construct that both are in.                      *)
Inside ==
  /\ est \in Seq(EFrame) /\ est # <<>> /\ eout = iout /\ ealloc = ialloc
  /\ eret = <<"value", Unit>> /\ ~ifl.trapped
  /\ ist \in Seq(IFrame) /\ Top(ist) \in IFrame /\ Top(est) \in EFrame
  /\ Alike(Top(ist), Top(est)) /\ Top(ist).k = TopKind(ist) /\ Top(est).k = Top(ist).k
  /\ TopKind(ist) # "cleanup" => Level(ist, ifl, est)
  /\ \E g : Settled(ist, ifl, iout, est, eret, g)

(* It is, where it is in one at all.                                        *)
LEMMA TogetherIn ==
  ASSUME ITypeOK, Together, ist # <<>>
  PROVE  Inside
  <1>1. ist \in Seq(IFrame) /\ est \in Seq(EFrame) /\ eout = iout
    BY DEF ITypeOK, Together
  <1>2. PICK g : Settled(ist, ifl, iout, est, eret, g)
    BY DEF Together
  <1>3. /\ Placed(ist, est, g) /\ g[Len(ist)] = Len(est) /\ ~ifl.trapped
        /\ eret = <<"value", Unit>>
        /\ Top(ist).k # "cleanup" =>
             /\ ~ifl.returning /\ ~ifl.breaking /\ ~ifl.continuing
             /\ Unrecovered(ist, Len(ist), ifl)
    BY <1>2 DEF Settled
  <1>4. /\ est # <<>> /\ Alike(Top(ist), Top(est)) /\ Top(est) \in EFrame /\ Top(ist) \in IFrame
        /\ Top(ist).k = TopKind(ist) /\ Top(est).k = TopKind(est) /\ TopKind(est) = TopKind(ist)
    BY <1>1, <1>3, SameTop
  <1>5. TopKind(ist) # "cleanup" => Level(ist, ifl, est)
    BY <1>1, <1>3, <1>4 DEF Level, NoExit
  <1>6. ealloc = ialloc
    BY <1>3 DEF Together
  <1>7. QED
    BY <1>1, <1>2, <1>3, <1>4, <1>5, <1>6 DEF Inside

-----------------------------------------------------------------------------
(***************************************************************************)
(* The statements of the program, in both executions.                      *)
(***************************************************************************)

(* What the binary has still to do before it waits leads where the oracle   *)
(* is.                                                                      *)
Linked == Tracked(Now, ist, ifl, ialloc, iout)

(* A statement that takes both to the same place.                           *)
LEMMA NextLinked ==
  ASSUME est' \in Seq(EFrame), ifl'.trapped \/ ealloc' = ialloc', eout' = iout',
         Follows(ist', ifl', iout', est', eret')
  PROVE  Linked'
  <1>1. Tracked(State(est', ealloc', eret', eout'), ist', ifl', ialloc', iout')
    BY ArriveAt
  <1>2. QED
    BY <1>1 DEF Linked, Now, Tracked, Reaches, Follows, Dead, Settled, Leaving, BareLevel,
                BareCleanup, Bare, Bound, State

(* One that leaves no exit in flight.                                       *)
LEMMA LevelLinked ==
  ASSUME NEW u, NEW v, Level(u, ifl', v), ist' = u, est' = v,
         eret' = <<"value", Unit>>, ealloc' = ialloc', eout' = iout',
         TopKind(u) \in Resting \/ iout' = Unit
  PROVE  Linked'
  <1>1. Follows(u, ifl', iout', v, <<"value", Unit>>)
    BY LevelFollows
  <1>2. v \in Seq(EFrame)
    BY DEF Level
  <1>3. QED
    BY <1>1, <1>2, NextLinked

(* A construct that saves nothing is opened.                                *)
LEMMA BlockFollowed ==
  ASSUME Inside, TopKind(ist) # "cleanup", NEW f, NEW h, f \in IFrame, h \in EFrame, Alike(f, h),
         f.k \notin {"cleanup", "handler"},
         IGoto(Append(ist, f)), EEnter(Append(est, h))
  PROVE  Linked'
  <1> DEFINE u == Append(ist, f)
             v == Append(est, h)
  <1>1. Level(ist, ifl, est) /\ eret = <<"value", Unit>> /\ ealloc = ialloc
    BY DEF Inside
  <1>2. Level(u, ifl, v)
    BY <1>1, LevelPush
  <1>3. /\ ist' = u /\ ifl' = ifl /\ ialloc' = ialloc /\ iout' = Unit
        /\ est' = v /\ ealloc' = ealloc /\ eret' = eret /\ eout' = Unit
    BY DEF IGoto, EEnter
  <1> HIDE DEF u, v
  <1>4. QED
    BY <1>1, <1>2, <1>3, LevelLinked

(* Two are.                                                                 *)
LEMMA TwoFollowed ==
  ASSUME Inside, TopKind(ist) # "cleanup", NEW f, NEW h, f \in IFrame, h \in EFrame, Alike(f, h),
         f.k \notin {"cleanup", "handler"}, NEW kind \in {"block", "operand"},
         ist' = Push2(ist, f, IOpen(kind)), est' = Push2(est, h, EOpen(kind)),
         ifl' = ifl, iout' = Unit, eout' = Unit, ialloc' = ealloc', eret' = eret
  PROVE  Linked'
  <1> DEFINE u == Push2(ist, f, IOpen(kind))
             v == Push2(est, h, EOpen(kind))
  <1>1. Level(ist, ifl, est) /\ eret = <<"value", Unit>>
    BY DEF Inside
  <1>2. Level(u, ifl, v)
    BY <1>1, LevelPushTwo
  <1>3. ist' = u /\ est' = v
    OBVIOUS
  <1> HIDE DEF u, v
  <1>4. QED
    BY <1>1, <1>2, <1>3, LevelLinked

(* The constructs that may be opened.                                       *)
LEMMA OpenedFollowed ==
  ASSUME ITypeOK, Together, Block \/ Loop \/ Iterate \/ With \/ Match \/ Catch \/ Argument
  PROVE  Linked'
  <1>1. ist # <<>> /\ TopKind(ist) # "cleanup"
    BY DEF Block, Loop, Iterate, With, Match, Catch, Argument, IBlock, ILoop, IIterate, IWith,
           IMatch, ICatch, IArgument, IAt, TopKind
  <1>2. Inside
    BY <1>1, TogetherIn
  <1>3. \A kind \in IKinds :
          /\ EOpen(kind) \in EFrame /\ IOpen(kind) \in IFrame
          /\ Alike(IOpen(kind), EOpen(kind))
          /\ IOpen(kind).k = kind /\ EOpen(kind).k = kind
    BY OpenAlike
  <1>4. CASE Block \/ Iterate
    <2> DEFINE f == IOpen("block")
               h == EOpen("block")
    <2>1. IGoto(Append(ist, f)) /\ EEnter(Append(est, h))
      BY <1>4 DEF Block, Iterate, IBlock, IIterate, EBlock
    <2>2. f \in IFrame /\ h \in EFrame /\ Alike(f, h) /\ f.k \notin {"cleanup", "handler"}
      BY <1>3 DEF IKinds
    <2> HIDE DEF f, h
    <2>3. QED
      BY <1>1, <1>2, <2>1, <2>2, BlockFollowed
  <1>5. CASE Loop
    <2>1. PICK l \in Label : ILoop(l) /\ ELoop(l)
      BY <1>5 DEF Loop
    <2> DEFINE f == [IOpen("loop") EXCEPT !.lab = l]
               h == [EOpen("loop") EXCEPT !.lab = l]
    <2>2. IGoto(Append(ist, f)) /\ EEnter(Append(est, h))
      BY <2>1 DEF ILoop, ELoop
    <2>3. f \in IFrame /\ h \in EFrame /\ f.k = "loop"
      <3>1. IOpen("loop") \in IFrame /\ EOpen("loop") \in EFrame /\ IOpen("loop").k = "loop"
        BY <1>3 DEF IKinds
      <3>2. QED
        BY <3>1 DEF IFrame, EFrame
    <2>4. Alike(f, h)
      BY DEF Alike, IOpen, EOpen
    <2> HIDE DEF f, h
    <2>5. QED
      BY <1>1, <1>2, <2>2, <2>3, <2>4, BlockFollowed
  <1>6. CASE Catch
    <2> DEFINE f == IOpen("operand")
               h == EOpen("operand")
    <2>1. IGoto(Append(ist, f)) /\ EEnter(Append(est, h))
      BY <1>6 DEF Catch, ICatch, ECatch
    <2>2. f \in IFrame /\ h \in EFrame /\ Alike(f, h) /\ f.k \notin {"cleanup", "handler"}
      BY <1>3 DEF IKinds
    <2> HIDE DEF f, h
    <2>3. QED
      BY <1>1, <1>2, <2>1, <2>2, BlockFollowed
  <1>7. CASE With
    <2>1. PICK b \in Allocs : IWith(b) /\ EWith(b)
      BY <1>7 DEF With
    <2> DEFINE f == [IOpen("with") EXCEPT !.al = ialloc]
               h == [EOpen("with") EXCEPT !.al = ealloc]
    <2>2. /\ ist' = Push2(ist, f, IOpen("block")) /\ est' = Push2(est, h, EOpen("block"))
          /\ ifl' = ifl /\ iout' = Unit /\ eout' = Unit /\ ialloc' = ealloc' /\ eret' = eret
      BY <2>1 DEF IWith, EWith
    <2>3. ialloc \in Allocs /\ ealloc = ialloc
      BY <1>2 DEF ITypeOK, Inside
    <2>4. f \in IFrame /\ h \in EFrame /\ f.k = "with"
      <3>1. IOpen("with") \in IFrame /\ EOpen("with") \in EFrame /\ IOpen("with").k = "with"
        BY <1>3 DEF IKinds
      <3>2. QED
        BY <2>3, <3>1 DEF IFrame, EFrame
    <2>5. Alike(f, h)
      BY <2>3 DEF Alike, IOpen, EOpen
    <2> HIDE DEF f, h
    <2>6. QED
      BY <1>1, <1>2, <2>2, <2>4, <2>5, TwoFollowed
  <1>8. CASE Match
    <2> DEFINE f == IOpen("arm")
               h == EOpen("arm")
    <2>1. /\ ist' = Push2(ist, f, IOpen("block")) /\ est' = Push2(est, h, EOpen("block"))
          /\ ifl' = ifl /\ iout' = Unit /\ eout' = Unit /\ ialloc' = ialloc /\ ealloc' = ealloc
          /\ eret' = eret
      BY <1>8 DEF Match, IMatch, EMatch, IGoto, EEnter
    <2>2. f \in IFrame /\ h \in EFrame /\ Alike(f, h) /\ f.k \notin {"cleanup", "handler"}
      BY <1>3 DEF IKinds
    <2>3. ialloc' = ealloc'
      BY <1>2, <2>1 DEF Inside
    <2> HIDE DEF f, h
    <2>4. QED
      BY <1>1, <1>2, <2>1, <2>2, <2>3, TwoFollowed
  <1>9. CASE Argument
    <2> DEFINE f == IOpen("argument")
               h == EOpen("argument")
    <2>1. /\ ist' = Push2(ist, f, IOpen("operand")) /\ est' = Push2(est, h, EOpen("operand"))
          /\ ifl' = ifl /\ iout' = Unit /\ eout' = Unit /\ ialloc' = ialloc /\ ealloc' = ealloc
          /\ eret' = eret
      BY <1>9 DEF Argument, IArgument, EArgument, IGoto, EEnter
    <2>2. f \in IFrame /\ h \in EFrame /\ Alike(f, h) /\ f.k \notin {"cleanup", "handler"}
      BY <1>3 DEF IKinds
    <2>3. ialloc' = ealloc'
      BY <1>2, <2>1 DEF Inside
    <2> HIDE DEF f, h
    <2>4. QED
      BY <1>1, <1>2, <2>1, <2>2, <2>3, TwoFollowed
  <1>10. QED
    BY <1>4, <1>5, <1>6, <1>7, <1>8, <1>9

(* A loop, an operand or an argument is done.                               *)
LEMMA DoneFollowed ==
  ASSUME ITypeOK, Shape(ist), Together, LoopDone \/ OperandDone \/ ArgumentDone
  PROVE  Linked'
  <1>1. /\ ist # <<>> /\ TopKind(ist) \in {"loop", "operand", "argument"}
        /\ ist' = Pop(ist) /\ est' = Pop(est) /\ ifl' = ifl /\ ialloc' = ialloc
        /\ ealloc' = ealloc /\ eret' = eret /\ eout' = iout'
        /\ iout' = Unit \/ (iout' = Called /\ TopKind(ist) = "argument")
    BY DEF LoopDone, OperandDone, ArgumentDone, ILoopDone, IOperandDone, IArgumentDone,
           ELoopDone, EOperandDone, EArgumentDone, IAt, IGoto, EEnter, TopKind
  <1>2. Inside
    BY <1>1, TogetherIn
  <1>3. ist \in Seq(IFrame) /\ est \in Seq(EFrame) /\ Top(ist).k = TopKind(ist) /\ ealloc = ialloc
    BY <1>2 DEF Inside
  <1>4. PICK g : Settled(ist, ifl, iout, est, eret, g)
    BY <1>2 DEF Inside
  <1>5. TopKind(Pop(ist)) \in Resting \/ iout' = Unit
    <2>1. TopKind(ist) = "argument" => TopKind(Pop(ist)) \in Outside
      BY <1>1, <1>3, ShapePop DEF Within
    <2>2. QED
      BY <1>1, <2>1 DEF Outside, Resting
  <1>6. Pop(est) \in Seq(EFrame) /\ Follows(Pop(ist), ifl, iout', Pop(est), eret)
    <2> DEFINE y == iout'
    <2>1. TopKind(Pop(ist)) \in Resting \/ y = Unit
      BY <1>5
    <2>2. Top(ist).k # "cleanup"
      BY <1>1, <1>3
    <2> HIDE DEF y
    <2>3. Pop(est) \in Seq(EFrame) /\ Follows(Pop(ist), ifl, y, Pop(est), eret)
      BY <1>1, <1>3, <1>4, <2>1, <2>2, SettledPop
    <2>4. QED
      BY <2>3 DEF y
  <1>7. QED
    BY <1>1, <1>3, <1>6, NextLinked

(* A call is registered.                                                    *)
LEMMA DeferFollowed ==
  ASSUME ITypeOK, Together, Defer
  PROVE  Linked'
  <1>1. PICK d \in Deferred : IDefer(d) /\ EDefer(d)
    BY DEF Defer
  <1> DEFINE f == [Top(ist) EXCEPT !.ds = Append(@, d)]
             h == [Top(est) EXCEPT !.ds = Append(@, d)]
             u == SetTop(ist, f)
             v == SetTop(est, h)
  <1>2. /\ ist # <<>> /\ TopKind(ist) = "block" /\ ist' = u /\ est' = v
        /\ ifl' = ifl /\ iout' = Unit /\ eout' = Unit /\ ialloc' = ialloc
        /\ ealloc' = ealloc /\ eret' = eret
    BY <1>1 DEF IDefer, EDefer, IAt, IGoto, EEnter, TopKind
  <1>3. Inside
    BY <1>2, TogetherIn
  <1>4. /\ ist \in Seq(IFrame) /\ est \in Seq(EFrame) /\ Top(ist) \in IFrame /\ Top(est) \in EFrame
        /\ Alike(Top(ist), Top(est)) /\ Top(ist).k = "block" /\ est # <<>>
        /\ ealloc = ialloc /\ eret = <<"value", Unit>>
        /\ Level(ist, ifl, est)
    BY <1>2, <1>3 DEF Inside
  <1>5. f \in IFrame /\ f.k = "block"
    <2>1. f \in IFrame
      BY <1>4, FrameType
    <2>2. f.k = "block"
      BY <1>4 DEF IFrame
    <2>3. QED
      BY <2>1, <2>2
  <1>6. h \in EFrame /\ Alike(f, h)
    <2>1. Top(est).ds = Top(ist).ds /\ Top(est).k = "block" /\ Top(est).failing = Top(ist).failing
      BY <1>4 DEF Alike
    <2>2. Append(Top(est).ds, d) \in Seq(Deferred)
      BY <1>4, AppendProperties DEF EFrame
    <2>3. h \in EFrame /\ h.k = "block" /\ h.ds = Append(Top(est).ds, d) /\ h.failing = Top(est).failing
      BY <1>4, <2>1, <2>2 DEF EFrame
    <2>4. f.ds = Append(Top(ist).ds, d) /\ f.failing = Top(ist).failing
      BY <1>4 DEF IFrame
    <2>5. QED
      BY <1>5, <2>1, <2>3, <2>4 DEF Alike
  <1> HIDE DEF f, h
  <1>7. PICK g : Placed(ist, est, g) /\ g[Len(ist)] = Len(est)
    BY <1>4 DEF Level
  <1>8. /\ u \in Seq(IFrame) /\ v \in Seq(EFrame)
        /\ \E e : Placed(u, v, e) /\ e[Len(u)] = Len(v)
    <2>1. /\ ist \in Seq(IFrame) /\ ist # <<>> /\ est \in Seq(EFrame)
          /\ f.k = Top(ist).k /\ f.k # "cleanup"
      BY <1>2, <1>4, <1>5
    <2>2. QED
      BY <1>5, <1>6, <1>7, <2>1, PlacedTop
  <1>9. /\ Len(u) = Len(ist) /\ Len(ist) \in Nat \ {0} /\ u[Len(ist)] = f
        /\ \A i \in 1 .. Len(ist) - 1 : u[i] = ist[i]
    <2>1. ist \in Seq(IFrame) /\ ist # <<>> /\ f \in IFrame
      BY <1>2, <1>4, <1>5
    <2>2. QED
      BY <2>1, SetTopFacts
  <1>10. TopKind(u) = "block"
    <2> HIDE DEF u
    <2>1. u # <<>>
      BY <1>8, <1>9, EmptySeq
    <2>2. QED
      BY <1>5, <1>8, <1>9, <2>1, TopKindFacts
  <1>11. Unrecovered(u, Len(u), ifl)
    <2>1. Unrecovered(ist, Len(ist), ifl)
      BY <1>4 DEF Level
    <2>2. ist[Len(ist)].k = "block"
      BY <1>4 DEF Top
    <2>3. \A i \in 1 .. Len(ist) : u[i].k = ist[i].k
      BY <1>5, <1>9, <2>2
    <2> HIDE DEF u
    <2> DEFINE n == Len(ist)
    <2>4. n \in Nat /\ Unrecovered(ist, n, ifl) /\ \A i \in 1 .. n : u[i].k = ist[i].k
      BY <1>9, <2>1, <2>3
    <2> HIDE DEF n
    <2>5. Unrecovered(u, n, ifl)
      BY <2>4, UnrecoveredSame
    <2>6. QED
      BY <1>9, <2>5 DEF n
  <1>12. Level(u, ifl', v)
    BY <1>2, <1>4, <1>8, <1>10, <1>11 DEF Level
  <1> HIDE DEF u, v
  <1>13. QED
    BY <1>2, <1>4, <1>12, LevelLinked

(* What a call leaves of the flags.                                         *)
CallKeeps(fl, fm) ==
  /\ NoExit(fl) => NoExit(fm)
  /\ ~fl.trapped => ~fm.trapped
  /\ fm.recovered => fl.recovered

(* A call leaves the flags with no exit in flight, and no handler recovered *)
(* that had not been.                                                       *)
LEMMA CallFlags ==
  ASSUME NEW fl \in Flags
  PROVE  \A fm \in CallLeaves(fl) : CallKeeps(fl, fm)
  <1> DEFINE left(f, l) == [fl EXCEPT !.failed = f, !.val = Unit, !.rec = Unit,
                                      !.recovered = FALSE, !.jump = l]
  <1>1. \A f, l : /\ NoExit(fl) => NoExit(left(f, l))
                  /\ ~fl.trapped => ~left(f, l).trapped
                  /\ ~left(f, l).recovered
    BY DEF Flags, NoExit
  <1>2. CallLeaves(fl) = {fl} \cup {left(f, l) : f \in BOOLEAN, l \in Label}
    BY DEF CallLeaves
  <1> HIDE DEF left
  <1>3. QED
    BY <1>1, <1>2 DEF CallKeeps

(* A call that is made whole.                                               *)
LEMMA CallFollowed ==
  ASSUME ITypeOK, Together, Call
  PROVE  Linked'
  <1>1. /\ ist # <<>> /\ TopKind(ist) = "block" /\ ist' = ist /\ est' = est
        /\ ifl' \in CallLeaves(ifl) /\ iout' = Unit /\ eout' = Unit /\ ialloc' = ialloc
        /\ ealloc' = ealloc /\ eret' = eret
    BY DEF Call, ICall, ECall, EEnter, IAt, TopKind
  <1>2. Inside
    BY <1>1, TogetherIn
  <1>3. Level(ist, ifl, est) /\ ealloc = ialloc /\ eret = <<"value", Unit>>
    BY <1>1, <1>2 DEF Inside
  <1> DEFINE fm == ifl'
  <1>4. fm \in CallLeaves(ifl) /\ ifl \in Flags
    BY <1>1 DEF ITypeOK
  <1> HIDE DEF fm
  <1>5. NoExit(fm) /\ (fm.recovered => ifl.recovered)
    <2>1. NoExit(ifl)
      BY <1>3 DEF Level
    <2>2. CallKeeps(ifl, fm)
      BY <1>4, CallFlags
    <2>3. QED
      BY <2>1, <2>2 DEF CallKeeps
  <1>6. Level(ist, fm, est)
    <2>1. Unrecovered(ist, Len(ist), ifl) /\ Len(ist) \in Nat
      BY <1>3, LenProperties DEF Level
    <2>2. Unrecovered(ist, Len(ist), fm)
      BY <1>5, <2>1, UnrecoveredSame
    <2>3. QED
      BY <1>3, <1>5, <2>2 DEF Level
  <1>7. Level(ist, ifl', est)
    BY <1>6 DEF fm
  <1>8. QED
    BY <1>1, <1>3, <1>7, LevelLinked

(* The program calls the function.                                          *)
LEMMA CallFuncFollowed ==
  ASSUME IInv, Together, CallFunc
  PROVE  Linked'
  <1> DEFINE f == IOpen("block")
             h == EOpen("block")
             u == Append(ist, f)
             v == Append(est, h)
  <1>1. /\ TopKind(ist) = "end" /\ ~ifl.trapped /\ ist' = <<f>> /\ est' = <<h>>
        /\ ifl' = [ifl EXCEPT !.returning = FALSE] /\ iout' = Unit /\ eout' = Unit
        /\ ialloc' = ialloc /\ ealloc' = ealloc /\ eret' = <<"value", Unit>>
    BY DEF CallFunc, ICallFunc, ECallFunc, IAt
  <1>2. ist \in Seq(IFrame) /\ ist = <<>> /\ est \in Seq(EFrame) /\ ifl \in Flags /\ ealloc = ialloc
    <2>1. ist \in Seq(IFrame) /\ est \in Seq(EFrame) /\ ifl \in Flags
      BY DEF IInv, ITypeOK, Together
    <2>2. QED
      BY <1>1, <2>1, TopKindFacts DEF Together
  <1>3. PICK g : Settled(ist, ifl, iout, est, eret, g)
    BY <1>1 DEF Together, Dead
  <1>4. Placed(ist, est, g) /\ g[Len(ist)] = Len(est)
    BY <1>3 DEF Settled
  <1>5. est = <<>>
    BY <1>2, <1>4, SameTop
  <1>6. ~ifl.breaking /\ ~ifl.continuing
    <2>1. TopKind(ist) # "cleanup" /\ Len(ist) = 0
      BY <1>1, <1>2
    <2>2. ~Target(ist, Len(ist), ifl.jump)
      BY <2>1 DEF Target
    <2>3. QED
      BY <1>1, <2>1, <2>2 DEF IInv, JumpAimed
  <1> DEFINE fm == [ifl EXCEPT !.returning = FALSE]
  <1>7. NoExit(fm)
    BY <1>1, <1>2, <1>6 DEF NoExit, Flags
  <1>8. Level(ist, fm, est)
    <2>1. Unrecovered(ist, Len(ist), fm)
      <3>1. Len(ist) = 0
        BY <1>2
      <3>2. QED
        BY <3>1 DEF Unrecovered
    <2>2. QED
      BY <1>1, <1>2, <1>4, <1>7, <2>1 DEF Level
  <1>9. f \in IFrame /\ h \in EFrame /\ Alike(f, h) /\ f.k = "block"
    BY OpenAlike DEF IKinds
  <1> HIDE DEF fm, f, h
  <1>10. Level(u, fm, v) /\ TopKind(u) = "block"
    BY <1>8, <1>9, LevelPush
  <1>11. ist' = u /\ est' = v
    BY <1>1, <1>2, <1>5
  <1> HIDE DEF u, v
  <1>12. QED
    BY <1>1, <1>2, <1>10, <1>11, LevelLinked DEF fm

(* The cleanup that an exit writes.                                         *)
ExitFrame(d, b, m, q, j, l, v) ==
  [EOpen("cleanup") EXCEPT !.ds = d, !.failing = b, !.at = m, !.to = q, !.jump = j, !.lab = l,
                           !.val = v]

(* What it is.                                                              *)
IsExit(h, d, b, m, q, j, l, v) ==
  /\ h \in EFrame /\ h.k = "cleanup" /\ h.ds = d /\ h.failing = b /\ h.at = m /\ h.to = q
  /\ h.jump = j /\ h.lab = l /\ h.val = v

(* The fields of that frame are the ones it was made of.                    *)
LEMMA ExitFrameIs ==
  ASSUME NEW d \in Seq(Deferred), NEW b \in BOOLEAN, NEW m \in Int, NEW q \in Int,
         NEW j \in Jumps, NEW l \in Label, NEW v \in Value
  PROVE  IsExit(ExitFrame(d, b, m, q, j, l, v), d, b, m, q, j, l, v)
  <1>1. EOpen("cleanup") \in EFrame /\ EOpen("cleanup").k = "cleanup"
    BY OpenAlike DEF IKinds
  <1>2. QED
    BY <1>1 DEF EFrame, IsExit, ExitFrame

(* A block ends in both: its calls are due.                                 *)
LEMMA BlockEnds ==
  ASSUME NEW s, NEW fl \in Flags, NEW t, Level(s, fl, t), TopKind(s) = "block",
         NEW h, h = ExitFrame(Top(t).ds, FALSE, Len(t), Len(t), "fall", NoLabel, Unit)
  PROVE  /\ Append(t, h) \in Seq(EFrame)
         /\ Follows(SetTop(s, EndOfBlock(Top(s), fl)), fl, Unit, Append(t, h), <<"value", Unit>>)
  <1> DEFINE n == Len(s)
             m == Len(t)
             c == m + 1
             f == EndOfBlock(Top(s), fl)
             w == Pop(s)
             u == SetTop(s, f)
             v == Append(t, h)
  <1>1. s \in Seq(IFrame) /\ t \in Seq(EFrame) /\ NoExit(fl) /\ Unrecovered(s, n, fl)
    BY DEF Level
  <1>2. PICK g : Placed(s, t, g) /\ g[n] = m
    BY DEF Level
  <1>3. /\ s # <<>> /\ n \in Nat \ {0} /\ Top(s) = s[n] /\ s[n] \in IFrame /\ s[n].k = "block"
        /\ g[n - 1] \in Nat /\ g[n] = g[n - 1] + 1 /\ Alike(s[n], t[m]) /\ m \in Nat \ {0}
    BY <1>1, <1>2, LevelOf
  <1>4. /\ t # <<>> /\ Top(t) = t[m] /\ t[m] \in EFrame /\ t[m].k = "block" /\ t[m].ds = s[n].ds
    <2>1. t # <<>> /\ Top(t) = t[m] /\ t[m] \in EFrame
      BY <1>1, <1>3, TopOf
    <2>2. QED
      BY <1>3, <2>1 DEF Alike
  <1>5. /\ h \in EFrame /\ h.k = "cleanup" /\ h.ds = t[m].ds /\ h.failing = FALSE /\ h.at = m
        /\ h.to = m /\ h.jump = "fall"
    <2>1. t[m].ds \in Seq(Deferred)
      BY <1>4 DEF EFrame
    <2>2. Unit \in Value /\ NoLabel \in Label /\ "fall" \in Jumps /\ m \in Int /\ FALSE \in BOOLEAN
      BY <1>3 DEF Value, Label, Jumps
    <2> DEFINE d == t[m].ds
               b == FALSE
               j == "fall"
    <2>3. h = ExitFrame(d, b, m, m, j, NoLabel, Unit) /\ d \in Seq(Deferred) /\ b \in BOOLEAN
          /\ j \in Jumps
      BY <1>4, <2>1, <2>2
    <2> HIDE DEF m, d, b, j
    <2>4. IsExit(h, d, b, m, m, j, NoLabel, Unit)
      BY <2>2, <2>3, ExitFrameIs
    <2>5. QED
      BY <2>4 DEF IsExit, d, b, j
  <1>6. f \in IFrame /\ f.k = "cleanup" /\ f.fl = fl /\ f.ds = s[n].ds /\ f.failing = FALSE
    <2>1. f \in IFrame
      BY <1>3, FrameType
    <2>2. f.k = "cleanup" /\ f.fl = fl /\ f.ds = s[n].ds
          /\ f.failing = (fl.returning /\ fl.failed)
      BY <1>3 DEF EndOfBlock, IFrame
    <2>3. QED
      BY <1>1, <2>1, <2>2 DEF NoExit
  <1>7. Alike(f, h)
    BY <1>4, <1>5, <1>6 DEF Alike
  <1>8. /\ v \in Seq(EFrame) /\ Len(v) = c /\ v[c] = h /\ \A i \in 1 .. m : v[i] = t[i]
    <2>1. t \in Seq(EFrame) /\ h \in EFrame
      BY <1>1, <1>5
    <2>2. /\ Append(t, h) \in Seq(EFrame) /\ Len(Append(t, h)) = Len(t) + 1
          /\ Append(t, h)[Len(t) + 1] = h /\ \A i \in 1 .. Len(t) : Append(t, h)[i] = t[i]
      BY ONLY <2>1, PushFacts
    <2>3. QED
      BY <2>2
  <1>9. /\ w \in Seq(IFrame) /\ Len(w) = n - 1 /\ \A i \in 1 .. n - 1 : w[i] = s[i]
    BY <1>1, <1>3, PopFacts
  <1> HIDE DEF v, f
  <1>10. \E e : Placed(w, v, e) /\ e[Len(w)] = g[n - 1]
    <2>1. Len(v) \in Nat /\ g[n - 1] <= Len(v) /\ \A i \in 1 .. g[n - 1] : v[i] = t[i]
      <3>1. g[n - 1] + 1 = m /\ Len(v) = m + 1
        BY <1>2, <1>3, <1>8
      <3>2. QED
        BY <1>3, <1>8, <3>1
    <2>2. QED
      <3>1. s \in Seq(IFrame) /\ s # <<>> /\ Placed(s, t, g)
        BY <1>1, <1>2, <1>3
      <3>2. QED
        BY ONLY <2>1, <3>1, PlacedPop
  <1>11. PICK e : Placed(w, v, e) /\ e[Len(w)] = g[n - 1]
    BY <1>10
  <1>12. /\ u \in Seq(IFrame) /\ Len(u) = n /\ u[n] = f
         /\ \A i \in 1 .. n - 1 : u[i] = s[i]
    BY <1>1, <1>3, <1>6, SetTopFacts
  <1>13. Unrecovered(u, n - 1, fl)
    <2> HIDE DEF u, n
    <2>1. s[n].k # "cleanup" /\ n \in Nat \ {0}
      BY <1>3
    <2>2. QED
      BY <1>1, <1>12, <2>1, UnrecoveredLess
  <1>14. Unwinding(u, n, v, c, m)
    <2> HIDE DEF u, n
    <2>1. u[n].fl = fl
      BY <1>6, <1>12
    <2>2. Carries(fl, h)
      BY <1>1, <1>5 DEF NoExit, Carries
    <2>3. v[m].k = "block" /\ m \in 1 .. c /\ c - 1 = m /\ m < c /\ m \in 1 .. m
      BY <1>3, <1>4, <1>8
    <2>4. Aimed(v, c, h, m)
      <3>1. \A i \in m .. c - 1 : v[i].k # "cleanup"
        BY <2>3
      <3>2. QED
        BY <1>5, <2>3, <3>1 DEF Aimed
    <2>5. v[c] = h
      BY <1>8
    <2> HIDE DEF c, m
    <2>6. QED
      BY <1>5, <1>13, <2>1, <2>2, <2>3, <2>4, <2>5 DEF Unwinding
  <1>15. OneMore(w, v, e, u, c)
    <2>1. \A i \in 1 .. Len(w) : u[i] = w[i]
      BY <1>9, <1>12
    <2>2. c \in 1 .. Len(v) /\ e[Len(w)] < c /\ Len(u) = Len(w) + 1 /\ e[Len(w)] + 1 = m
      <3>1. e[Len(w)] + 1 = m
        BY <1>2, <1>3, <1>11
      <3>2. Len(u) = Len(w) + 1
        BY <1>3, <1>9, <1>12
      <3>3. c \in 1 .. Len(v) /\ e[Len(w)] < c
        BY <1>3, <1>8, <1>11, <3>1
      <3>4. QED
        BY <3>1, <3>2, <3>3
    <2> HIDE DEF u, n, w
    <2>3. u[Len(u)].k = "cleanup" /\ Alike(u[Len(u)], v[c])
      BY <1>6, <1>7, <1>8, <1>12
    <2>4. Unwinding(u, Len(u), v, c, e[Len(w)] + 1)
      BY <1>12, <1>14, <2>2
    <2>5. QED
      BY <2>1, <2>2, <2>3, <2>4 DEF OneMore
  <1> HIDE DEF u, w
  <1>16. \E y : Placed(u, v, y) /\ y[Len(u)] = Len(v)
    <2>1. Len(v) \in Nat
      BY <1>3, <1>8
    <2> HIDE DEF c
    <2>2. \E y : Placed(u, v, y) /\ y[Len(u)] = c
      BY <1>9, <1>11, <1>12, <1>15, <2>1, PlacedMore
    <2>3. QED
      BY <1>8, <2>2
  <1>17. TopKind(u) = "cleanup"
    <2>1. u # <<>>
      BY <1>3, <1>12, EmptySeq
    <2>2. QED
      BY <1>6, <1>12, <2>1 DEF TopKind, Top
  <1>18. Follows(u, fl, Unit, v, <<"value", Unit>>)
    <2>1. ~fl.trapped
      BY <1>1 DEF NoExit
    <2>2. QED
      BY <1>16, <1>17, <2>1, StillCleaning
  <1>19. QED
    BY <1>8, <1>18 DEF u, f, v

(* The end of a block.                                                      *)
LEMMA EndBlockFollowed ==
  ASSUME ITypeOK, Together, EndBlock
  PROVE  Linked'
  <1> DEFINE h == ExitFrame(Top(est).ds, FALSE, Len(est), Len(est), "fall", NoLabel, Unit)
             u == SetTop(ist, EndOfBlock(Top(ist), ifl))
             v == Append(est, h)
  <1>1. /\ ist # <<>> /\ TopKind(ist) = "block" /\ ist' = u
        /\ ifl' = ifl /\ iout' = Unit /\ eout' = Unit /\ ialloc' = ialloc
        /\ ealloc' = ealloc /\ eret' = eret
    BY DEF EndBlock, IEndBlock, EEndBlock, EUnwind, IGoto, IAt, TopKind
  <1>2. Inside
    BY <1>1, TogetherIn
  <1>3. Level(ist, ifl, est) /\ ealloc = ialloc /\ eret = <<"value", Unit>> /\ ifl \in Flags
    BY <1>1, <1>2 DEF Inside, ITypeOK
  <1>4. est' = v
    <2>1. Len(est) \in Nat
      BY <1>3, LenProperties DEF Level
    <2>2. ~(Len(est) > Len(est))
      BY <2>1
    <2>3. QED
      BY <2>2 DEF EndBlock, EEndBlock, EUnwind, Unwind, ExitFrame
  <1>5. v \in Seq(EFrame) /\ Follows(u, ifl, Unit, v, <<"value", Unit>>)
    <2> DEFINE k == h
    <2>1. k = ExitFrame(Top(est).ds, FALSE, Len(est), Len(est), "fall", NoLabel, Unit)
      OBVIOUS
    <2> HIDE DEF k
    <2>2. /\ Append(est, k) \in Seq(EFrame)
          /\ Follows(SetTop(ist, EndOfBlock(Top(ist), ifl)), ifl, Unit, Append(est, k),
                     <<"value", Unit>>)
      BY <1>1, <1>3, <2>1, BlockEnds
    <2>3. QED
      BY <2>2 DEF k
  <1> HIDE DEF h, u, v
  <1>6. QED
    BY <1>1, <1>3, <1>4, <1>5, NextLinked

(* The flags with the exit set aside.                                       *)
LEMMA AsideFlags ==
  ASSUME NEW fl \in Flags, ~fl.trapped
  PROVE  Aside(fl) \in Flags /\ NoExit(Aside(fl))
  BY DEF Aside, Flags, NoExit

(* The next call of a cleanup is made.                                      *)
LEMMA RunDeferredFollowed ==
  ASSUME ITypeOK, Together, RunDeferred
  PROVE  Linked'
  <1> DEFINE w == Dropped(ist)
             y == Dropped(est)
             f == IOpen("block")
             h == EOpen("block")
             isBlock == Top(Top(ist).ds).body = "block"
  <1>1. /\ ist # <<>> /\ TopKind(ist) = "cleanup" /\ Top(ist).ds # <<>>
        /\ iout' = Unit /\ eout' = Unit /\ ialloc' = ialloc /\ ealloc' = ealloc /\ eret' = eret
        /\ isBlock => ist' = Append(w, f) /\ ifl' = Aside(ifl)
        /\ ~isBlock => ist' = w /\ ifl' \in CallLeaves(Aside(ifl))
    BY DEF RunDeferred, IRunDeferred, ERunDeferred, EEnter, IAt, IQuiet, IRunnable, TopKind,
           IDropped, Dropped
  <1>2. Inside
    BY <1>1, TogetherIn
  <1>3. /\ ist \in Seq(IFrame) /\ est \in Seq(EFrame) /\ ealloc = ialloc
        /\ eret = <<"value", Unit>> /\ ifl \in Flags /\ ~ifl.trapped
        /\ Top(est).ds = Top(ist).ds /\ Top(ist).k = "cleanup"
    BY <1>1, <1>2 DEF Inside, ITypeOK, Alike
  <1>4. est' = IF isBlock THEN Append(y, h) ELSE y
    BY <1>3 DEF RunDeferred, ERunDeferred, EEnter, EDropped, Dropped
  <1>5. PICK g : Settled(ist, ifl, iout, est, eret, g)
    BY <1>2 DEF Inside
  <1>6. Placed(ist, est, g) /\ g[Len(ist)] = Len(est)
    BY <1>5 DEF Settled
  <1>7. /\ w \in Seq(IFrame) /\ y \in Seq(EFrame) /\ TopKind(w) = "cleanup"
        /\ \E e : Placed(w, y, e) /\ e[Len(w)] = Len(y)
    BY <1>1, <1>3, <1>6, PlacedDrop
  <1>8. PICK e : Placed(w, y, e) /\ e[Len(w)] = Len(y)
    BY <1>7
  <1>9. Aside(ifl) \in Flags /\ NoExit(Aside(ifl))
    BY <1>3, AsideFlags
  <1>10. CASE isBlock
    <2> DEFINE u == Append(w, f)
               v == Append(y, h)
               fm == Aside(ifl)
    <2>1. f \in IFrame /\ h \in EFrame /\ Alike(f, h) /\ f.k = "block"
      BY OpenAlike DEF IKinds
    <2>2. ist' = u /\ est' = v /\ ifl' = fm
      BY <1>1, <1>4, <1>10
    <2> HIDE DEF w, y, f, h
    <2>3. /\ u \in Seq(IFrame) /\ v \in Seq(EFrame)
          /\ \E x : Placed(u, v, x) /\ x[Len(u)] = Len(v)
      BY <1>7, <1>8, <2>1, PlacedPush
    <2>4. /\ Len(w) \in Nat \ {0} /\ Len(u) = Len(w) + 1 /\ u[Len(u)] = f
          /\ \A i \in 1 .. Len(w) : u[i] = w[i]
      <3>1. w # <<>> /\ Len(w) \in Nat
        BY <1>7, LenProperties DEF TopKind
      <3>2. Len(w) # 0
        BY <1>7, <3>1, EmptySeq
      <3>3. QED
        BY <1>7, <2>1, <3>1, <3>2, PushFacts
    <2>5. u[Len(w)].k = "cleanup"
      BY <1>7, <2>4, TopKindFacts
    <2> HIDE DEF u, v, fm
    <2>6. TopKind(u) = "block"
      BY <2>1, <2>3, <2>4, TopKindFacts
    <2>7. Unrecovered(u, Len(u), fm)
      <3> DEFINE m == Len(w)
                 n == Len(u)
      <3>1. m \in Nat \ {0} /\ n = m + 1 /\ u[m].k = "cleanup" /\ u[n].k = "block"
        BY <2>1, <2>4, <2>5
      <3> HIDE DEF m, n
      <3>2. Unrecovered(u, n, fm)
        <4>1. ~\E i \in 1 .. n : u[i].k = "handler" /\ \A j \in i .. n : u[j].k # "cleanup"
          <5> SUFFICES ASSUME NEW i \in 1 .. n, u[i].k = "handler",
                              \A j \in i .. n : u[j].k # "cleanup"
                       PROVE  FALSE
            OBVIOUS
          <5>1. i # n
            BY <3>1
          <5>2. m \in i .. n
            BY <3>1, <5>1
          <5>3. QED
            BY <3>1, <5>2
        <4>2. QED
          BY <4>1 DEF Unrecovered
      <3>3. QED
        BY <3>2 DEF n
    <2>8. Level(u, ifl', v)
      BY <1>9, <2>2, <2>3, <2>6, <2>7 DEF Level, fm
    <2>9. QED
      BY <1>1, <1>3, <2>2, <2>8, LevelLinked
  <1>11. CASE ~isBlock
    <2> DEFINE fm == ifl'
               fl == Aside(ifl)
    <2>1. ist' = w /\ est' = y /\ fm \in CallLeaves(fl)
      BY <1>1, <1>4, <1>11
    <2> HIDE DEF w, y, f, h, fm, fl
    <2>2. fl \in Flags /\ NoExit(fl)
      BY <1>9 DEF fl
    <2>3. ~fm.trapped
      <3>1. CallKeeps(fl, fm)
        BY <2>1, <2>2, CallFlags
      <3>2. QED
        BY <2>2, <3>1 DEF CallKeeps, NoExit
    <2>4. Follows(w, fm, Unit, y, <<"value", Unit>>)
      BY <1>7, <1>8, <2>3, StillCleaning
    <2>5. Follows(ist', ifl', iout', est', eret')
      BY <1>1, <1>3, <2>1, <2>4 DEF fm
    <2>6. QED
      BY <1>1, <1>3, <1>7, <2>1, <2>5, NextLinked
  <1>12. QED
    BY <1>10, <1>11

(* A trap ends both, wherever the binary is.                                *)
LEMMA TrapFollowed ==
  ASSUME ITypeOK, Trap
  PROVE  Linked'
  <1>1. /\ ifl' = [ifl EXCEPT !.trapped = TRUE] /\ ifl \in Flags /\ iout' = Unit
        /\ est' = <<>> /\ eret' = <<"trapped", Unit>> /\ eout' = Unit
    BY DEF Trap, ITrap, IExit, ETrap, ITypeOK
  <1>2. ifl'.trapped
    BY <1>1 DEF Flags
  <1>3. Dead(ifl', iout', est', eret')
    BY <1>1, <1>2 DEF Dead
  <1>4. Follows(ist', ifl', iout', est', eret')
    BY <1>3 DEF Follows
  <1>5. est' \in Seq(EFrame) /\ eout' = iout'
    BY <1>1
  <1>6. QED
    BY <1>2, <1>4, <1>5, NextLinked

-----------------------------------------------------------------------------
(***************************************************************************)
(* What an exit is aimed at.                                               *)
(***************************************************************************)

(* The levels of s above its last cleanup b are the last C statements of t, *)
(* one by one.                                                              *)
Matched(s, t, n, b, d) ==
  /\ n \in Nat /\ n = Len(s) /\ d \in Int /\ n + d = Len(t) /\ n + d \in Nat
  /\ b = Barrier(s) /\ b \in 0 .. n /\ b + d \in Nat /\ (b = 0 => d = 0)
  /\ b > 0 => s[b].k = "cleanup"
  /\ \A i \in b + 1 .. n : s[i].k # "cleanup" /\ Alike(s[i], t[i + d])

(* They are, where both wait.                                               *)
LEMMA MatchedAt ==
  ASSUME NEW s \in Seq(IFrame), NEW t \in Seq(EFrame), NEW g, Placed(s, t, g), g[Len(s)] = Len(t)
  PROVE  \E n, b, d : Matched(s, t, n, b, d) /\ \A i \in b .. n : g[i] = i + d
  <1> DEFINE n == Len(s)
             m == Len(t)
             P == Of(s, {"cleanup"})
             b == Innermost(P)
             d == m - n
  <1>1. n \in Nat /\ m \in Nat /\ g \in [0 .. n -> Nat] /\ g[0] = 0 /\ g[n] = m
    BY LenProperties DEF Placed
  <1>2. P \in SUBSET (1 .. n) /\ \A i \in 1 .. n : i \in P <=> s[i].k = "cleanup"
    BY DEF Of
  <1>3. b \in 0 .. n /\ (b > 0 => s[b].k = "cleanup") /\ \A i \in b + 1 .. n : s[i].k # "cleanup"
    <2> HIDE DEF P, n
    <2>1. /\ Innermost(P) \in 0 .. n /\ (P = {} <=> Innermost(P) = 0)
          /\ P # {} => Innermost(P) \in P /\ \A q \in P : q <= Innermost(P)
      BY <1>1, <1>2, InnermostOf
    <2> HIDE DEF b
    <2>2. b \in 0 .. n /\ (P = {} <=> b = 0) /\ (P # {} => b \in P /\ \A q \in P : q <= b)
      BY <2>1 DEF b
    <2>3. b > 0 => s[b].k = "cleanup"
      BY <1>1, <1>2, <2>2
    <2>4. ASSUME NEW i \in b + 1 .. n PROVE s[i].k # "cleanup"
      BY <1>1, <1>2, <2>2
    <2>5. QED
      BY <2>2, <2>3, <2>4
  <1> HIDE DEF P, b
  <1>4. ASSUME NEW i \in b .. n PROVE g[i] = i + d
    <2>1. i \in 0 .. n /\ n \in 0 .. n /\ i <= n /\ \A k \in i + 1 .. n : s[k].k # "cleanup"
      BY <1>1, <1>3
    <2>2. g[n] = g[i] + (n - i)
      BY <2>1, Straight
    <2>3. g[i] \in Nat
      BY <1>1, <2>1
    <2>4. QED
      BY <1>1, <2>1, <2>2, <2>3
  <1>5. b + d \in Nat
    <2>1. b \in 0 .. n /\ b \in b .. n
      BY <1>1, <1>3
    <2>2. QED
      BY <1>1, <1>4, <2>1
  <1>6. b = 0 => d = 0
    <2>1. b = 0 => g[0] = 0 + d
      BY <1>1, <1>4
    <2>2. QED
      BY <1>1, <2>1
  <1>7. ASSUME NEW i \in b + 1 .. n PROVE s[i].k # "cleanup" /\ Alike(s[i], t[i + d])
    <2>1. i \in 1 .. n /\ i \in b .. n
      BY <1>1, <1>3
    <2>2. Alike(s[i], t[g[i]])
      BY <2>1 DEF Placed
    <2>3. QED
      BY <1>3, <1>4, <2>1, <2>2
  <1>8. Matched(s, t, n, b, d)
    <2>1. n = Len(s) /\ d \in Int /\ n + d = Len(t) /\ n + d \in Nat
      BY <1>1
    <2>2. b = Barrier(s)
      BY DEF b, P, Barrier
    <2> HIDE DEF n, d
    <2>3. QED
      BY <1>1, <1>3, <1>5, <1>6, <1>7, <2>1, <2>2 DEF Matched
  <1>9. QED
    BY <1>4, <1>8

(* What is innermost in both.                                               *)
Nearest(t, Q, x, b, m, d) ==
  /\ Innermost(Q) = x /\ x \in Q /\ x \in b + d + 1 .. m
  /\ \A y \in x + 1 .. m : y \notin Q
  /\ \A y \in x .. m : t[y].k # "cleanup"

(* What is innermost among the levels above the last cleanup is innermost   *)
(* among the C statements.                                                  *)
LEMMA NearestIs ==
  ASSUME NEW s, NEW t, NEW n, NEW b, NEW d, Matched(s, t, n, b, d),
         NEW P \in SUBSET (1 .. n), NEW Q \in SUBSET (1 .. n + d),
         \A i \in b + 1 .. n : i \in P <=> i + d \in Q,
         Innermost(P) > b
  PROVE  Nearest(t, Q, Innermost(P) + d, b, n + d, d)
  <1> DEFINE p == Innermost(P)
             m == n + d
  <1>1. n \in Nat /\ d \in Int /\ m \in Nat /\ b \in 0 .. n /\ b + d \in Nat
    BY DEF Matched
  <1>2. /\ Innermost(P) \in 0 .. n /\ (P = {} <=> Innermost(P) = 0)
        /\ P # {} => Innermost(P) \in P /\ \A q \in P : q <= Innermost(P)
    BY <1>1, InnermostOf
  <1> HIDE DEF p
  <1>3. p \in P /\ p \in b + 1 .. n /\ \A q \in P : q <= p
    BY <1>1, <1>2 DEF p
  <1>4. p + d \in Q /\ p + d \in b + d + 1 .. m
    BY <1>1, <1>3
  <1>5. ASSUME NEW q \in Q PROVE q <= p + d
    <2>1. q \in 1 .. m
      OBVIOUS
    <2>2. CASE q <= b + d
      BY <1>1, <1>3, <2>1, <2>2
    <2>3. CASE q > b + d
      <3>1. q - d \in b + 1 .. n /\ (q - d) + d = q
        BY <1>1, <2>1, <2>3
      <3>2. q - d \in P
        BY <3>1
      <3>3. QED
        BY <1>1, <1>3, <2>1, <3>2
    <2>4. QED
      BY <1>1, <2>1, <2>2, <2>3
  <1>6. Innermost(Q) = p + d
    <2> DEFINE x == p + d
    <2>1. x \in Q /\ (\A q \in Q : q <= x) /\ Q \in SUBSET Int
      BY <1>1, <1>4, <1>5
    <2> HIDE DEF x
    <2>2. Innermost(Q) = x
      BY <2>1, InnermostIs
    <2>3. QED
      BY <2>2 DEF x
  <1>7. ASSUME NEW y \in p + d + 1 .. m PROVE y \notin Q
    BY <1>1, <1>3, <1>5
  <1>8. ASSUME NEW y \in p + d .. m PROVE t[y].k # "cleanup"
    <2>1. y - d \in b + 1 .. n /\ (y - d) + d = y
      BY <1>1, <1>3
    <2>2. s[y - d].k # "cleanup" /\ Alike(s[y - d], t[(y - d) + d])
      BY <2>1 DEF Matched
    <2>3. QED
      BY <2>1, <2>2 DEF Alike
  <1>9. QED
    BY <1>4, <1>6, <1>7, <1>8 DEF Nearest, p

(* The exit that h is, written after the C statements t.                    *)
LEMMA AimedPush ==
  ASSUME NEW t \in Seq(EFrame), NEW h \in EFrame, NEW p, Aimed(t, Len(t) + 1, h, p),
         h.jump \in {"break", "continue"} => p <= Len(t)
  PROVE  Aimed(Append(t, h), Len(t) + 1, h, p)
  <1> DEFINE v == Append(t, h)
             m == Len(t)
             c == m + 1
  <1>1. m \in Nat /\ c \in Nat /\ c - 1 = m /\ \A i \in 1 .. m : v[i] = t[i]
    BY PushFacts, LenProperties
  <1>2. p \in 1 .. c /\ Aimed(t, c, h, p)
    BY DEF Aimed
  <1> HIDE DEF v, c
  <1>3. \A i \in p .. c - 1 : v[i] = t[i]
    BY <1>1, <1>2
  <1>4. p > 1 => v[p - 1] = t[p - 1]
    BY <1>1, <1>2 DEF c
  <1>5. h.jump \in {"break", "continue"} => v[p] = t[p]
    BY <1>1, <1>2 DEF c
  <1>6. \A i \in p + 1 .. c - 1 : v[i] = t[i]
    BY <1>1, <1>2
  <1>7. p # 1 => p > 1
    BY <1>2
  <1> HIDE DEF m
  <1>8. Aimed(v, c, h, p)
    BY <1>2, <1>3, <1>4, <1>5, <1>6, <1>7 DEF Aimed
  <1>9. QED
    BY <1>8 DEF v, c, m

(* A `return`, in no deferred block.                                        *)
LEMMA AimReturn ==
  ASSUME NEW s, NEW t, NEW n, NEW b, NEW d, Matched(s, t, n, b, d), ~InDeferred(s),
         NEW h, h.jump = "return"
  PROVE  Aimed(t, Len(t) + 1, h, 1)
  <1>1. b = 0 /\ d = 0 /\ n \in Nat /\ Len(t) = n /\ Len(t) + 1 - 1 = n
    BY DEF Matched, InDeferred
  <1>2. \A i \in 1 .. n : t[i].k # "cleanup"
    <2> SUFFICES ASSUME NEW i \in 1 .. n PROVE t[i].k # "cleanup"
      OBVIOUS
    <2>1. i \in b + 1 .. n /\ i + d = i
      BY <1>1
    <2>2. s[i].k # "cleanup" /\ Alike(s[i], t[i + d])
      BY <2>1 DEF Matched
    <2>3. QED
      BY <2>1, <2>2 DEF Alike
  <1>3. 1 \in 1 .. Len(t) + 1
    BY <1>1
  <1>4. QED
    BY <1>1, <1>2, <1>3 DEF Aimed

(* What C statements of a kind are around is what levels of it are.         *)
LEMMA NearestOf ==
  ASSUME NEW s, NEW t, NEW n, NEW b, NEW d, Matched(s, t, n, b, d), NEW K,
         Innermost(Of(s, K)) > b
  PROVE  Nearest(t, Of(t, K), Innermost(Of(s, K)) + d, b, n + d, d)
  <1> DEFINE P == Of(s, K)
             Q == Of(t, K)
  <1>1. P \in SUBSET (1 .. n) /\ Q \in SUBSET (1 .. n + d)
    BY DEF Of, Matched
  <1>2. \A i \in b + 1 .. n : i \in P <=> i + d \in Q
    <2> SUFFICES ASSUME NEW i \in b + 1 .. n PROVE i \in P <=> i + d \in Q
      OBVIOUS
    <2>1. Alike(s[i], t[i + d]) /\ n = Len(s) /\ n + d = Len(t)
      BY DEF Matched
    <2>2. i \in 1 .. n /\ i + d \in 1 .. n + d
      BY DEF Matched
    <2>3. QED
      BY <2>1, <2>2 DEF Of, Alike
  <1>3. Innermost(P) > b
    OBVIOUS
  <1> HIDE DEF P, Q
  <1>4. Nearest(t, Q, Innermost(P) + d, b, n + d, d)
    BY <1>1, <1>2, <1>3, NearestIs
  <1>5. QED
    BY <1>4 DEF P, Q

(* A failure, where one may be raised.                                      *)
LEMMA AimFail ==
  ASSUME NEW s, NEW t, NEW n, NEW b, NEW d, Matched(s, t, n, b, d), MayRaise(s),
         NEW h, h.jump = "fail", NEW p, p = Innermost(Of(t, {"operand"})) + 1
  PROVE  Aimed(t, Len(t) + 1, h, p)
  <1> DEFINE K == {"operand"}
             m == n + d
             y == Innermost(Of(s, K)) + d
  <1>1. /\ n \in Nat /\ d \in Int /\ m \in Nat /\ b \in 0 .. n /\ b + d \in Nat /\ Len(t) = m
        /\ Len(s) = n /\ b = Barrier(s)
    BY DEF Matched
  <1>2. CASE Innermost(Of(s, K)) > b
    <2>1. Nearest(t, Of(t, K), y, b, m, d)
      BY <1>2, NearestOf
    <2> HIDE DEF y, m
    <2>2. /\ p = y + 1 /\ y \in 1 .. m /\ y \in Of(t, K)
          /\ \A i \in p .. m : i \notin Of(t, K) /\ t[i].k # "cleanup"
      BY <1>1, <2>1 DEF Nearest
    <2>3. t[y].k = "operand" /\ \A i \in p .. m : t[i].k # "operand"
      <3>1. \A i \in 1 .. m : i \in Of(t, K) <=> t[i].k = "operand"
        BY <1>1 DEF Of
      <3>2. \A i \in p .. m : i \in 1 .. m
        BY <1>1, <2>2
      <3>3. QED
        BY <2>2, <3>1, <3>2
    <2>4. p \in 1 .. m + 1 /\ p - 1 = y /\ m + 1 - 1 = m
      BY <1>1, <2>2
    <2>5. p \in 1 .. Len(t) + 1 /\ Len(t) + 1 - 1 = m /\ t[p - 1].k = "operand"
      BY <1>1, <2>3, <2>4
    <2>6. /\ \A i \in p .. Len(t) + 1 - 1 : t[i].k # "cleanup"
          /\ \A i \in p .. Len(t) + 1 - 1 : t[i].k # "operand"
      BY ONLY <2>2, <2>3, <2>5
    <2>7. QED
      BY ONLY <2>5, <2>6, h.jump = "fail" DEF Aimed
  <1>3. CASE ~(Innermost(Of(s, K)) > b)
    <2>1. b = 0 /\ d = 0 /\ ~(Innermost(Of(s, K)) > 0)
      BY <1>1, <1>3 DEF MayRaise, InDeferred, Matched
    <2>2. Of(s, K) = {}
      <3>1. Of(s, K) \in SUBSET (1 .. n)
        BY <1>1 DEF Of
      <3> DEFINE P == Of(s, K)
      <3> HIDE DEF P
      <3>2. Innermost(P) \in 0 .. n /\ (P = {} <=> Innermost(P) = 0)
        BY <1>1, <3>1, InnermostOf DEF P
      <3>3. QED
        BY <1>1, <2>1, <3>2 DEF P
    <2>3. ASSUME NEW i \in 1 .. m PROVE t[i].k \notin {"operand", "cleanup"}
      <3>1. i \in b + 1 .. n /\ i + d = i
        BY <1>1, <2>1
      <3>2. s[i].k # "cleanup" /\ Alike(s[i], t[i])
        BY <3>1 DEF Matched
      <3>3. s[i].k # "operand"
        BY <1>1, <2>1, <2>2 DEF Of
      <3>4. QED
        BY <3>2, <3>3 DEF Alike
    <2>4. p = 1
      <3>1. Of(t, K) = {}
        BY <1>1, <2>3 DEF Of
      <3>2. QED
        BY <3>1 DEF Innermost
    <2>5. 1 \in 1 .. m + 1 /\ m + 1 - 1 = m
      BY <1>1
    <2> HIDE DEF m
    <2>6. QED
      BY <1>1, <2>3, <2>4, <2>5 DEF Aimed
  <1>4. QED
    BY <1>2, <1>3

(* A `recover`, in its handler.                                             *)
LEMMA AimRecover ==
  ASSUME NEW s, NEW t, NEW n, NEW b, NEW d, Matched(s, t, n, b, d), MayRecover(s),
         NEW h, h.jump = "recover", NEW p, p = Innermost(Of(t, {"handler"})) + 1
  PROVE  Aimed(t, Len(t) + 1, h, p)
  <1> DEFINE K == {"handler"}
             m == n + d
             y == Innermost(Of(s, K)) + d
  <1>1. /\ n \in Nat /\ d \in Int /\ m \in Nat /\ b \in 0 .. n /\ b + d \in Nat /\ Len(t) = m
        /\ Len(s) = n /\ b = Barrier(s)
    BY DEF Matched
  <1>2. Innermost(Of(s, K)) > b
    BY <1>1 DEF MayRecover
  <1>3. Nearest(t, Of(t, K), y, b, m, d)
    BY <1>2, NearestOf
  <1> HIDE DEF y, m
  <1>4. /\ p = y + 1 /\ y \in 1 .. m /\ y \in Of(t, K)
        /\ \A i \in p .. m : i \notin Of(t, K) /\ t[i].k # "cleanup"
    BY <1>1, <1>3 DEF Nearest
  <1>5. t[y].k = "handler" /\ \A i \in p .. m : t[i].k # "handler"
    <2>1. \A i \in 1 .. m : i \in Of(t, K) <=> t[i].k = "handler"
      BY <1>1 DEF Of
    <2>2. \A i \in p .. m : i \in 1 .. m
      BY <1>1, <1>4
    <2>3. QED
      BY <1>4, <2>1, <2>2
  <1>6. p \in 1 .. m + 1 /\ p - 1 = y /\ m + 1 - 1 = m /\ p > 1
    BY <1>1, <1>4
  <1>7. QED
    BY <1>1, <1>4, <1>5, <1>6 DEF Aimed

(* The loops that a jump may end in: the levels, and the C statements.      *)
LEMMA LoopLevels ==
  ASSUME NEW s, NEW t, NEW n, NEW b, NEW d, Matched(s, t, n, b, d), NEW l,
         LoopsInScope(s, l) # {}
  PROVE  /\ LoopsInScope(s, l) \in SUBSET (1 .. n)
         /\ Innermost(LoopsInScope(s, l)) \in LoopsInScope(s, l)
         /\ Innermost(LoopsInScope(s, l)) \in b + 1 .. n
         /\ s[Innermost(LoopsInScope(s, l))].k = "loop"
  <1> DEFINE P == LoopsInScope(s, l)
             x == Innermost(P)
  <1>1. n \in Nat /\ b \in 0 .. n /\ n = Len(s) /\ (b > 0 => s[b].k = "cleanup")
    BY DEF Matched
  <1>2. /\ P \in SUBSET (1 .. n)
        /\ \A i \in P : s[i].k = "loop" /\ \A j \in i .. n : s[j].k # "cleanup"
    BY <1>1 DEF LoopsInScope, Of
  <1>3. P # {}
    OBVIOUS
  <1> HIDE DEF P
  <1>4. Innermost(P) \in P
    BY <1>1, <1>2, <1>3, InnermostOf
  <1>5. x \in P /\ x \in 1 .. n
    BY <1>2, <1>4
  <1> HIDE DEF x
  <1>6. x > b
    <2> SUFFICES ASSUME ~(x > b) PROVE FALSE
      OBVIOUS
    <2>1. b \in x .. n /\ b > 0
      BY <1>1, <1>5
    <2>2. QED
      BY <1>1, <1>2, <1>5, <2>1
  <1>7. x \in b + 1 .. n
    BY <1>1, <1>5, <1>6
  <1>8. QED
    BY <1>2, <1>5, <1>7 DEF P, x

(* The C loops that a jump labelled l may be aimed at.                      *)
Aimable(t, l) == {i \in Of(t, {"loop"}) : l = NoLabel \/ t[i].lab = l}

(* No argument of a call is around, and nothing that a bare `break` leaves  *)
(* instead of the loop.                                                     *)
LoopReached(s, x, bare) ==
  /\ LeavesNoArgument(s, x)
  /\ bare => BreakSeesLoop(s)

(* What is between the loop and the jump.                                   *)
LEMMA LoopIsReached ==
  ASSUME NEW s, NEW t, NEW n, NEW b, NEW d, Matched(s, t, n, b, d), NEW l,
         LoopsInScope(s, l) # {}, NEW x, x = Innermost(LoopsInScope(s, l)),
         NEW bare \in BOOLEAN, bare => l = NoLabel, LoopReached(s, x, bare)
  PROVE  \A i \in x .. n : s[i].k # "argument" /\ (bare => s[i].k # "arm")
  <1> DEFINE P == LoopsInScope(s, l)
             A == Of(s, {"argument"})
             B == Of(s, {"loop", "arm"})
  <1>1. /\ n \in Nat /\ n = Len(s) /\ b \in 0 .. n
        /\ \A i \in b + 1 .. n : s[i].k # "cleanup"
    BY DEF Matched
  <1>2. P \in SUBSET (1 .. n) /\ x \in P /\ x \in b + 1 .. n /\ s[x].k = "loop"
    BY LoopLevels
  <1>3. ASSUME NEW i \in x .. n, s[i].k = "argument" PROVE FALSE
    <2>1. i \in A /\ A \in SUBSET (1 .. n)
      BY <1>1, <1>2, <1>3 DEF Of
    <2>2. Innermost(A) <= x
      BY DEF LoopReached, LeavesNoArgument
    <2> HIDE DEF A
    <2>3. Innermost(A) \in 0 .. n /\ \A q \in A : q <= Innermost(A)
      BY <1>1, <2>1, InnermostOf
    <2>4. i = x
      BY <1>1, <1>2, <2>1, <2>2, <2>3
    <2>5. QED
      BY <1>2, <1>3, <2>4
  <1>4. ASSUME NEW i \in x .. n, s[i].k = "arm", bare PROVE FALSE
    <2>1. i \in B /\ B \in SUBSET (1 .. n) /\ \A q \in B : q \in 1 .. Len(s)
      BY <1>1, <1>2, <1>4 DEF Of
    <2> DEFINE j == Innermost(B)
    <2>2. j \in Of(s, {"loop"})
      BY <1>4 DEF LoopReached, BreakSeesLoop
    <2> HIDE DEF B
    <2>3. Innermost(B) \in B /\ \A q \in B : q <= Innermost(B)
      BY <1>1, <2>1, InnermostOf
    <2> HIDE DEF j
    <2>4. j \in 1 .. n /\ i <= j /\ s[j].k = "loop"
      BY <1>1, <2>1, <2>2, <2>3 DEF Of, j
    <2>5. j \in P
      <3>1. \A k \in j .. n : s[k].k # "cleanup"
        BY <1>1, <1>2, <2>4
      <3>2. QED
        BY <1>1, <1>4, <2>2, <3>1 DEF LoopsInScope
    <2>6. j <= x
      <3> HIDE DEF P
      <3>1. P # {} /\ x = Innermost(P)
        BY <1>2 DEF P
      <3>2. \A q \in P : q <= x
        BY <1>1, <1>2, <3>1, InnermostOf
      <3>3. QED
        BY <2>5, <3>2
    <2>7. i = x
      BY <1>1, <1>2, <2>4, <2>6
    <2>8. QED
      BY <1>2, <1>4, <2>7
  <1>5. QED
    BY <1>3, <1>4

(* A `break` or a `continue`.                                               *)
LEMMA AimJump ==
  ASSUME NEW s, NEW t, NEW n, NEW b, NEW d, Matched(s, t, n, b, d), NEW l,
         LoopsInScope(s, l) # {}, NEW x, x = Innermost(LoopsInScope(s, l)),
         NEW h, h.jump \in {"break", "continue"}, h.lab = l,
         LoopReached(s, x, h.jump = "break" /\ l = NoLabel)
  PROVE  /\ Aimed(t, Len(t) + 1, h, x + d)
         /\ x + d \in 1 .. Len(t)
         /\ Innermost(Aimable(t, l)) = x + d
  <1> DEFINE P == LoopsInScope(s, l)
             Q == Aimable(t, l)
             m == n + d
             p == x + d
             bare == h.jump = "break" /\ l = NoLabel
  <1>1. /\ n \in Nat /\ n = Len(s) /\ m = Len(t) /\ d \in Int /\ m \in Nat /\ b \in 0 .. n
        /\ b + d \in Nat
        /\ \A i \in b + 1 .. n : s[i].k # "cleanup" /\ Alike(s[i], t[i + d])
    BY DEF Matched
  <1>2. P \in SUBSET (1 .. n) /\ x \in P /\ x \in b + 1 .. n /\ s[x].k = "loop"
    BY LoopLevels
  <1>3. Q \in SUBSET (1 .. m)
    BY <1>1 DEF Aimable, Of
  <1>4. ASSUME NEW i \in b + 1 .. n PROVE i \in P <=> i + d \in Q
    <2>1. Alike(s[i], t[i + d]) /\ \A j \in i .. Len(s) : s[j].k # "cleanup"
      <3>1. Alike(s[i], t[i + d])
        BY ONLY <1>1, i \in b + 1 .. n
      <3>2. ASSUME NEW j \in i .. Len(s) PROVE s[j].k # "cleanup"
        <4>1. j \in b + 1 .. n
          BY ONLY <1>1, i \in b + 1 .. n, j \in i .. Len(s)
        <4>2. QED
          BY ONLY <1>1, <4>1
      <3>3. QED
        BY <3>1, <3>2
    <2>2. i \in 1 .. n /\ i + d \in 1 .. m
      BY <1>1
    <2>3. QED
      BY <1>1, <2>1, <2>2 DEF LoopsInScope, Aimable, Of, Alike
  <1>5. Nearest(t, Q, p, b, m, d)
    <2>1. Innermost(P) > b /\ Innermost(P) = x
      BY <1>1, <1>2
    <2> HIDE DEF P, Q
    <2>2. Nearest(t, Q, Innermost(P) + d, b, n + d, d)
      BY <1>2, <1>3, <1>4, <2>1, NearestIs
    <2>3. QED
      BY <2>1, <2>2
  <1>6. \A i \in x .. n : s[i].k # "argument" /\ (bare => s[i].k # "arm")
    <2>1. bare \in BOOLEAN /\ (bare => l = NoLabel) /\ LoopReached(s, x, bare)
      OBVIOUS
    <2> HIDE DEF bare
    <2>2. QED
      BY <2>1, LoopIsReached
  <1>7. ASSUME NEW y \in p .. m PROVE t[y].k # "argument" /\ (bare => t[y].k # "arm")
    <2>1. y - d \in x .. n /\ (y - d) + d = y /\ y - d \in b + 1 .. n
      BY <1>1, <1>2
    <2>2. Alike(s[y - d], t[y])
      BY <1>1, <2>1
    <2>3. QED
      BY <1>6, <2>1, <2>2 DEF Alike
  <1>8. p \in 1 .. m /\ Innermost(Q) = p /\ p \in Q
    BY <1>1, <1>5 DEF Nearest
  <1>9. Fits(t[p], l)
    BY <1>8 DEF Aimable, Of, Fits
  <1>10. ASSUME NEW y \in p + 1 .. m PROVE ~Fits(t[y], l)
    <2>1. y \notin Q /\ y \in 1 .. m
      BY <1>5, <1>8, <1>10, <1>1 DEF Nearest
    <2>2. QED
      BY <1>1, <2>1 DEF Aimable, Of, Fits
  <1>11. \A y \in p .. m : t[y].k # "cleanup"
    BY <1>5 DEF Nearest
  <1> DEFINE c == Len(t) + 1
  <1>12. c - 1 = m /\ p \in 1 .. c
    BY <1>1, <1>8
  <1> HIDE DEF P, Q, m, c
  <1>13. Aimed(t, c, h, p)
    BY <1>7, <1>9, <1>10, <1>11, <1>12 DEF Aimed
  <1>14. QED
    BY <1>1, <1>8, <1>13 DEF c, Q

-----------------------------------------------------------------------------
(***************************************************************************)
(* An exit begins.                                                         *)
(***************************************************************************)

(* The flags fm, which were fl with no exit in flight, are those of h.      *)
Sets(fl, fm, h) ==
  /\ Carries(fm, h) /\ ~fm.trapped
  /\ h.jump = "recover" \/ (fm.recovered => fl.recovered)

(* The flags that IReturn sets are those of a C `return`.                   *)
LEMMA SetsReturn ==
  ASSUME NEW fl \in Flags, NoExit(fl), NEW h, h.jump = "return", h.val \in Value
  PROVE  Sets(fl, [fl EXCEPT !.returning = TRUE, !.failed = FALSE, !.val = h.val], h)
  BY DEF NoExit, Flags, Sets, Carries

(* The flags that IRaise sets are those of a C failure.                     *)
LEMMA SetsFail ==
  ASSUME NEW fl \in Flags, NoExit(fl), NEW h, h.jump = "fail", h.val \in Value
  PROVE  Sets(fl, [fl EXCEPT !.returning = TRUE, !.failed = TRUE, !.val = h.val], h)
  BY DEF NoExit, Flags, Sets, Carries

(* The flags that IRecover sets are those of a C `recover`.                 *)
LEMMA SetsRecover ==
  ASSUME NEW fl \in Flags, NoExit(fl), NEW h, h.jump = "recover", h.val \in Value
  PROVE  Sets(fl, [fl EXCEPT !.rec = h.val, !.failed = FALSE, !.val = Unit,
                             !.recovered = TRUE, !.returning = TRUE], h)
  BY DEF NoExit, Flags, Sets, Carries

(* The flags that IBreak and IContinue set are those of a C jump.           *)
LEMMA SetsJump ==
  ASSUME NEW fl \in Flags, NoExit(fl), NEW h, h.lab \in Label
  PROVE  /\ h.jump = "break" => Sets(fl, [fl EXCEPT !.breaking = TRUE, !.jump = h.lab], h)
         /\ h.jump = "continue" => Sets(fl, [fl EXCEPT !.continuing = TRUE, !.jump = h.lab], h)
  BY DEF NoExit, Flags, Sets, Carries

(* The cleanup h, written inside t, of an exit to the scopes from p on.     *)
ExitDue(t, h, p) ==
  /\ h \in EFrame /\ h.k = "cleanup" /\ h.at = Len(t) /\ h.to = p /\ h.jump # "fall"
  /\ h.failing <=> h.jump = "fail"
  /\ h.ds = IF Len(t) >= p THEN Top(t).ds ELSE <<>>
  /\ Len(t) >= p \/ (Len(t) = p - 1 /\ h.jump \in {"fail", "recover"})
  /\ Aimed(t, Len(t) + 1, h, p)

(* It is the oracle's.                                                      *)
LEMMA ExitFollows ==
  ASSUME NEW s, NEW fl, NEW t, Level(s, fl, t), s # <<>>, NEW h, NEW p, ExitDue(t, h, p),
         NEW fm, Sets(fl, fm, h)
  PROVE  /\ Append(t, h) \in Seq(EFrame)
         /\ Follows(s, fm, Unit, Append(t, h), <<"value", Unit>>)
  <1> DEFINE v == Append(t, h)
             m == Len(t)
  <1>1. s \in Seq(IFrame) /\ t \in Seq(EFrame) /\ TopKind(s) # "cleanup" /\ Unrecovered(s, Len(s), fl)
    BY DEF Level
  <1>2. PICK g : Placed(s, t, g) /\ g[Len(s)] = m
    BY DEF Level
  <1>3. h \in EFrame /\ h.k = "cleanup" /\ h.at = m /\ h.to = p /\ h.jump # "fall"
    BY DEF ExitDue
  <1>4. m \in Nat /\ v \in Seq(EFrame) /\ Len(v) = m + 1 /\ v[m + 1] = h
        /\ \A i \in 1 .. m : v[i] = t[i]
    BY <1>1, <1>3, PushFacts, LenProperties
  <1>5. Aimed(v, m + 1, h, p)
    <2>1. Aimed(t, Len(t) + 1, h, p)
      BY DEF ExitDue
    <2>2. p \in 1 .. m + 1 /\ (h.jump \in {"break", "continue"} => p <= m)
      BY <1>4, <2>1 DEF ExitDue, Aimed
    <2>3. QED
      BY <1>1, <1>3, <2>1, <2>2, AimedPush
  <1>6. Placed(s, v, g)
    <2> HIDE DEF v
    <2>1. Len(v) \in Nat /\ g[Len(s)] <= Len(v) /\ \A i \in 1 .. g[Len(s)] : v[i] = t[i]
      BY <1>2, <1>4
    <2>2. QED
      BY <1>1, <1>2, <2>1, PlacedSame
  <1>7. h.jump = "recover" \/ Unrecovered(s, Len(s), fm)
    <2>1. CASE fm.recovered => fl.recovered
      <3> DEFINE n == Len(s)
      <3>1. n \in Nat /\ Unrecovered(s, n, fl)
        BY <1>1, LenProperties
      <3> HIDE DEF n
      <3>2. Unrecovered(s, n, fm)
        BY <2>1, <3>1, UnrecoveredSame
      <3>3. QED
        BY <3>2 DEF n
    <2>2. QED
      BY <2>1 DEF Sets
  <1>8. g[Len(s)] < Len(v)
    BY <1>2, <1>4
  <1> HIDE DEF v
  <1>9. Bound(s, fm, Unit, v, <<"value", Unit>>, g, p)
    <2>1. v[Len(v)] = h
      BY <1>4
    <2>2. Aimed(v, Len(v), h, p)
      BY <1>4, <1>5
    <2>3. QED
      BY <1>3, <1>6, <1>7, <1>8, <2>1, <2>2 DEF Bound, Sets
  <1>10. Top(s).k # "cleanup"
    BY <1>1 DEF TopKind
  <1>11. h.ds = IF h.at >= p THEN v[h.at].ds ELSE <<>>
    <2>1. CASE m >= p
      <3>1. m \in 1 .. m
        BY <1>4, <1>5, <2>1 DEF Aimed
      <3>2. v[m] = t[m]
        BY <1>4, <3>1
      <3>3. QED
        BY <1>3, <2>1, <3>2 DEF ExitDue, Top
    <2>2. CASE ~(m >= p)
      BY <1>3, <2>2 DEF ExitDue
    <2>3. QED
      BY <2>1, <2>2
  <1>12. h.at >= p \/ (h.at = p - 1 /\ h.jump \in {"fail", "recover"})
    BY <1>3 DEF ExitDue
  <1>13. h.failing <=> h.jump = "fail"
    BY DEF ExitDue
  <1>14. Leaving(s, fm, Unit, v, <<"value", Unit>>, g, p)
    <2>1. v[Len(v)] = h /\ h.at = g[Len(s)]
      BY <1>2, <1>3, <1>4
    <2> HIDE DEF m
    <2>2. QED
      BY <1>3, <1>9, <1>10, <1>11, <1>12, <1>13, <2>1 DEF Leaving
  <1>15. QED
    BY <1>4, <1>14 DEF Follows, v

(* The cleanup h, written inside t, of a bare jump to the scopes from p on. *)
BareDue(t, h, p) ==
  /\ h \in EFrame /\ h.k = "cleanup" /\ h.at = Len(t) /\ h.to = Len(t) + 1 /\ h.ds = <<>>
  /\ h.jump \in {"return", "break", "continue"}
  /\ Aimed(t, Len(t) + 1, h, p) /\ p <= Len(t)

(* It is the oracle's, where nothing is owed.                               *)
LEMMA BareFollows ==
  ASSUME NEW s, NEW fl, NEW t, Level(s, fl, t), s # <<>>, NEW h, NEW p, BareDue(t, h, p),
         NEW g, Placed(s, t, g), g[Len(s)] = Len(t),
         \A i \in 1 .. Len(s) : g[i] >= p => s[i].ds = <<>> /\ s[i].k # "with",
         NEW fm, Sets(fl, fm, h)
  PROVE  /\ Append(t, h) \in Seq(EFrame)
         /\ Follows(s, fm, Unit, Append(t, h), <<"value", Unit>>)
  <1> DEFINE v == Append(t, h)
             m == Len(t)
  <1>1. s \in Seq(IFrame) /\ t \in Seq(EFrame) /\ TopKind(s) # "cleanup" /\ Unrecovered(s, Len(s), fl)
    BY DEF Level
  <1>2. /\ h \in EFrame /\ h.k = "cleanup" /\ h.at = m /\ h.to = m + 1 /\ h.ds = <<>>
        /\ h.jump \in {"return", "break", "continue"} /\ p <= m
    BY DEF BareDue
  <1>3. m \in Nat /\ v \in Seq(EFrame) /\ Len(v) = m + 1 /\ v[m + 1] = h
        /\ \A i \in 1 .. m : v[i] = t[i]
    BY <1>1, <1>2, PushFacts, LenProperties
  <1>4. Aimed(v, m + 1, h, p)
    <2>1. Aimed(t, Len(t) + 1, h, p)
      BY DEF BareDue
    <2>2. QED
      BY <1>1, <1>2, <2>1, AimedPush
  <1>5. Placed(s, v, g)
    <2> HIDE DEF v
    <2>1. Len(v) \in Nat /\ g[Len(s)] <= Len(v) /\ \A i \in 1 .. g[Len(s)] : v[i] = t[i]
      BY <1>3
    <2>2. QED
      BY <1>1, <2>1, PlacedSame
  <1>6. Unrecovered(s, Len(s), fm)
    <2> DEFINE n == Len(s)
    <2>1. n \in Nat /\ Unrecovered(s, n, fl) /\ (fm.recovered => fl.recovered)
      BY <1>1, <1>2, LenProperties DEF Sets
    <2> HIDE DEF n
    <2>2. Unrecovered(s, n, fm)
      BY <2>1, UnrecoveredSame
    <2>3. QED
      BY <2>2 DEF n
  <1>7. g[Len(s)] < Len(v) /\ g[Len(s)] >= p
    <2>1. p \in Nat
      BY <1>3, <1>4 DEF Aimed
    <2>2. QED
      BY <1>2, <1>3, <2>1
  <1> HIDE DEF v
  <1>8. Bound(s, fm, Unit, v, <<"value", Unit>>, g, p)
    <2>1. v[Len(v)] = h
      BY <1>3
    <2>2. Aimed(v, Len(v), h, p)
      BY <1>3, <1>4
    <2>3. QED
      BY <1>2, <1>5, <1>6, <1>7, <2>1, <2>2 DEF Bound, Sets
  <1>9. Top(s).k # "cleanup"
    BY <1>1 DEF TopKind
  <1>10. Bare(s, fm, Unit, v, <<"value", Unit>>, g, p)
    <2>1. v[Len(v)] = h /\ h.to = Len(v) /\ h.at = Len(v) - 1
      BY <1>2, <1>3
    <2> HIDE DEF m
    <2>2. QED
      BY <1>2, <1>8, <2>1 DEF Bare
  <1>11. BareLevel(s, fm, Unit, v, <<"value", Unit>>, g, p)
    BY <1>7, <1>9, <1>10 DEF BareLevel
  <1>12. QED
    BY <1>3, <1>11 DEF Follows, v

(* The binary writes the exit h.                                            *)
ExitMade(h, from, b, j, l, v) ==
  /\ h \in EFrame /\ h.k = "cleanup" /\ h.at = Len(est) /\ h.to = from /\ h.failing = b
  /\ h.ds = (IF from > Len(est) THEN <<>> ELSE Top(est).ds)
  /\ h.jump = j /\ h.lab = l /\ h.val = v
  /\ est' = Append(est, h) /\ eout' = Unit /\ ealloc' = ealloc /\ eret' = eret

(* Unwind writes one.                                                       *)
LEMMA ExitWritten ==
  ASSUME est \in Seq(EFrame), Top(est) \in EFrame, NEW from \in Nat, NEW b \in BOOLEAN,
         NEW j \in Jumps, NEW l \in Label, NEW v \in Value, EUnwind(from, b, j, l, v)
  PROVE  \E h : ExitMade(h, from, b, j, l, v)
  <1> DEFINE d == IF from > Len(est) THEN <<>> ELSE Top(est).ds
             m == Len(est)
             h == ExitFrame(d, b, m, from, j, l, v)
  <1>1. d \in Seq(Deferred) /\ m \in Int /\ from \in Int
    BY LenProperties DEF EFrame
  <1>2. est' = Append(est, h) /\ eout' = Unit /\ ealloc' = ealloc /\ eret' = eret
    BY DEF EUnwind, Unwind, ExitFrame
  <1> HIDE DEF d, m
  <1>3. IsExit(h, d, b, m, from, j, l, v)
    BY <1>1, ExitFrameIs
  <1> HIDE DEF h
  <1>4. ExitMade(h, from, b, j, l, v)
    BY <1>2, <1>3 DEF ExitMade, IsExit, d, m
  <1>5. QED
    BY <1>4

(* The oracle's flags begin the same exit.                                  *)
Exits(h, p) ==
  /\ TopKind(ist) # "cleanup" /\ ist # <<>>
  /\ Sets(ifl, ifl', h)
  /\ ist' = ist /\ ialloc' = ialloc /\ iout' = Unit
  /\ Aimed(est, Len(est) + 1, h, p)

(* An exit that cleans up.                                                  *)
LEMMA ExitFollowed ==
  ASSUME Inside, NEW h, NEW from \in Nat, NEW b, NEW j, NEW l, NEW v,
         ExitMade(h, from, b, j, l, v), Exits(h, from),
         j # "fall", b <=> j = "fail",
         from <= Len(est) \/ (from = Len(est) + 1 /\ j \in {"fail", "recover"})
  PROVE  Linked'
  <1> DEFINE fm == ifl'
             m == Len(est)
  <1>1. Level(ist, ifl, est) /\ ealloc = ialloc /\ eret = <<"value", Unit>> /\ m \in Nat
    BY LenProperties DEF Inside, Exits
  <1>2. ExitDue(est, h, from)
    <2>1. h.ds = IF m >= from THEN Top(est).ds ELSE <<>>
      BY <1>1 DEF ExitMade
    <2>2. m >= from \/ (m = from - 1 /\ h.jump \in {"fail", "recover"})
      BY <1>1 DEF ExitMade
    <2>3. h.failing <=> h.jump = "fail"
      BY DEF ExitMade
    <2>4. QED
      BY <2>1, <2>2, <2>3 DEF ExitDue, ExitMade, Exits
  <1>3. Sets(ifl, fm, h) /\ ist # <<>>
    BY DEF Exits
  <1> HIDE DEF fm
  <1>4. /\ Append(est, h) \in Seq(EFrame)
        /\ Follows(ist, fm, Unit, Append(est, h), <<"value", Unit>>)
    BY <1>1, <1>2, <1>3, ExitFollows
  <1>5. est' = Append(est, h) /\ eout' = Unit /\ ealloc' = ealloc /\ eret' = eret
    BY DEF ExitMade
  <1>6. ist' = ist /\ ialloc' = ialloc /\ iout' = Unit
    BY DEF Exits
  <1>7. Follows(ist', ifl', iout', est', eret')
    BY <1>1, <1>4, <1>5, <1>6 DEF fm
  <1>8. QED
    BY <1>1, <1>4, <1>5, <1>6, <1>7, NextLinked

(* A bare jump, where the levels from x on owe nothing.                     *)
LEMMA BareFollowed ==
  ASSUME Inside, NEW n, NEW bb, NEW d, Matched(ist, est, n, bb, d),
         NEW g, Placed(ist, est, g), g[Len(ist)] = Len(est), \A i \in bb .. n : g[i] = i + d,
         NEW x \in bb + 1 .. n, OwesNothing(ist, x),
         NEW h, NEW j \in {"return", "break", "continue"}, NEW v,
         ExitMade(h, Len(est) + 1, FALSE, j, NoLabel, v), Exits(h, x + d)
  PROVE  Linked'
  <1> DEFINE fm == ifl'
             m == Len(est)
             p == x + d
  <1>1. Level(ist, ifl, est) /\ ealloc = ialloc /\ eret = <<"value", Unit>>
    BY DEF Inside, Exits
  <1>2. /\ m \in Nat /\ n \in Nat /\ n = Len(ist) /\ m = n + d /\ d \in Int /\ bb \in 0 .. n
        /\ ist \in Seq(IFrame)
    BY <1>1 DEF Matched, Level
  <1>3. BareDue(est, h, p)
    <2>1. ~(Len(est) + 1 <= Len(est)) /\ Len(est) + 1 > Len(est) /\ p <= Len(est)
      BY <1>2
    <2>2. QED
      BY <2>1 DEF BareDue, ExitMade, Exits
  <1>4. \A i \in 1 .. n : g[i] >= p => ist[i].ds = <<>> /\ ist[i].k # "with"
    <2> SUFFICES ASSUME NEW i \in 1 .. n, g[i] >= p PROVE ist[i].ds = <<>> /\ ist[i].k # "with"
      OBVIOUS
    <2>1. x \in bb .. n /\ x \in 0 .. n /\ i \in 0 .. n
      BY <1>2
    <2>2. g[x] = p
      BY <2>1
    <2>3. i >= x
      <3> SUFFICES ASSUME i < x PROVE FALSE
        BY <1>2, <2>1
      <3>1. g[i] < g[x]
        BY <1>2, <2>1, Increasing
      <3>2. g[i] \in Nat /\ g[x] \in Nat
        BY <1>2, <2>1 DEF Placed
      <3>3. QED
        BY <2>2, <3>1, <3>2
    <2>4. QED
      BY <1>2, <2>3 DEF OwesNothing
  <1>5. Sets(ifl, fm, h) /\ ist # <<>>
    BY DEF Exits
  <1> HIDE DEF fm, p, m
  <1>6. /\ Append(est, h) \in Seq(EFrame)
        /\ Follows(ist, fm, Unit, Append(est, h), <<"value", Unit>>)
    BY <1>1, <1>2, <1>3, <1>4, <1>5, BareFollows
  <1>7. est' = Append(est, h) /\ eout' = Unit /\ ealloc' = ealloc /\ eret' = eret
    BY DEF ExitMade
  <1>8. ist' = ist /\ ialloc' = ialloc /\ iout' = Unit
    BY DEF Exits
  <1>9. Follows(ist', ifl', iout', est', eret')
    BY <1>1, <1>6, <1>7, <1>8 DEF fm
  <1>10. QED
    BY <1>1, <1>6, <1>7, <1>8, <1>9, NextLinked

(* Where an exit may begin.                                                 *)
LEMMA ExitFrom ==
  ASSUME ITypeOK, Together, IAt({"block", "operand"})
  PROVE  /\ Inside /\ ist # <<>> /\ TopKind(ist) # "cleanup"
         /\ ifl \in Flags /\ NoExit(ifl)
         /\ est \in Seq(EFrame) /\ Top(est) \in EFrame /\ Len(est) \in Nat \ {0}
         /\ \E g, n, b, d : /\ Placed(ist, est, g) /\ g[Len(ist)] = Len(est)
                            /\ Matched(ist, est, n, b, d) /\ \A i \in b .. n : g[i] = i + d
  <1>1. ist # <<>> /\ TopKind(ist) # "cleanup"
    BY DEF IAt, TopKind
  <1>2. Inside
    BY <1>1, TogetherIn
  <1>3. Level(ist, ifl, est) /\ Top(est) \in EFrame /\ est # <<>>
    BY <1>1, <1>2 DEF Inside
  <1>4. /\ ist \in Seq(IFrame) /\ est \in Seq(EFrame) /\ NoExit(ifl)
        /\ \E g : Placed(ist, est, g) /\ g[Len(ist)] = Len(est)
    BY <1>3 DEF Level
  <1>5. PICK g : Placed(ist, est, g) /\ g[Len(ist)] = Len(est)
    BY <1>4
  <1>6. \E n, b, d : Matched(ist, est, n, b, d) /\ \A i \in b .. n : g[i] = i + d
    BY <1>4, <1>5, MatchedAt
  <1>7. Len(est) \in Nat \ {0}
    BY <1>3, <1>4, TopOf
  <1>8. ifl \in Flags
    BY DEF ITypeOK
  <1>9. QED
    BY <1>1, <1>2, <1>3, <1>4, <1>5, <1>6, <1>7, <1>8

-----------------------------------------------------------------------------
(***************************************************************************)
(* The exits of the program, in both executions.                           *)
(***************************************************************************)

(* The forms that the two executions differ on.                             *)
Differing == {"else past cleanup", "break in switch", "jump in argument"}

(* The program uses none of them.                                           *)
Agreeing == forms \cap Differing = {}

(* A jump, an argument and a scope of such a program.                       *)
LEMMA FormsAgree ==
  ASSUME Agreeing
  PROVE  /\ \A l : MayJump(l) => LeavesNoArgument(ist, Innermost(LoopsInScope(ist, l)))
         /\ \A x : MayElse(x) => OwesNothing(ist, x)
         /\ ~Form("break in switch")
  BY DEF Agreeing, Differing, MayJump, MayElse, Form

(* The literals of an exit.                                                 *)
LEMMA ExitData ==
  ASSUME NEW v \in Vals
  PROVE  /\ v \in Value /\ Unit \in Value /\ NoLabel \in Label /\ FALSE \in BOOLEAN
         /\ TRUE \in BOOLEAN /\ Jumps = {"fall", "return", "fail", "break", "continue", "recover"}
  BY DEF Value, Label, Jumps

(* `return v`.                                                              *)
LEMMA ReturnFollowed ==
  ASSUME ITypeOK, Together, Return
  PROVE  Linked'
  <1> DEFINE from == 1
             b == FALSE
             j == "return"
             l == NoLabel
  <1>1. PICK v \in Vals : IReturn(v) /\ EReturn(v)
    BY DEF Return
  <1>2. /\ IAt({"block", "operand"}) /\ ~InDeferred(ist)
        /\ ifl' = [ifl EXCEPT !.returning = TRUE, !.failed = FALSE, !.val = v]
        /\ ist' = ist /\ ialloc' = ialloc /\ iout' = Unit
    BY <1>1 DEF IReturn, IExit, IAt
  <1>3. /\ Inside /\ ist # <<>> /\ TopKind(ist) # "cleanup" /\ ifl \in Flags /\ NoExit(ifl)
        /\ est \in Seq(EFrame) /\ Top(est) \in EFrame /\ Len(est) \in Nat \ {0}
        /\ \E g, n, bb, d : /\ Placed(ist, est, g) /\ g[Len(ist)] = Len(est)
                            /\ Matched(ist, est, n, bb, d) /\ \A i \in bb .. n : g[i] = i + d
    BY <1>2, ExitFrom
  <1>4. EUnwind(from, b, j, l, v) /\ from \in Nat /\ b \in BOOLEAN /\ j \in Jumps /\ l \in Label
        /\ v \in Value /\ from <= Len(est) /\ j = "return"
    <2>1. EUnwind(from, b, j, l, v)
      BY <1>1 DEF EReturn
    <2>2. b \in BOOLEAN /\ j \in Jumps /\ l \in Label /\ v \in Value
      BY <1>1, ExitData
    <2>3. from \in Nat /\ from <= Len(est)
      BY <1>3
    <2>4. QED
      BY <2>1, <2>2, <2>3
  <1>5. (b <=> j = "fail") /\ j # "fall"
    OBVIOUS
  <1> HIDE DEF from, b, j, l
  <1>6. PICK h : ExitMade(h, from, b, j, l, v)
    BY <1>3, <1>4, ExitWritten
  <1>7. h.jump = "return" /\ h.val = v
    BY <1>4, <1>6 DEF ExitMade
  <1>8. Sets(ifl, ifl', h)
    <2>1. Sets(ifl, [ifl EXCEPT !.returning = TRUE, !.failed = FALSE, !.val = h.val], h)
      BY <1>3, <1>4, <1>7, SetsReturn
    <2>2. QED
      BY <1>2, <1>7, <2>1
  <1>9. Aimed(est, Len(est) + 1, h, from)
    <2>1. Aimed(est, Len(est) + 1, h, 1)
      BY <1>2, <1>3, <1>7, AimReturn
    <2>2. QED
      BY <2>1 DEF from
  <1>10. Exits(h, from)
    BY <1>2, <1>3, <1>8, <1>9 DEF Exits
  <1>11. QED
    BY <1>3, <1>4, <1>5, <1>6, <1>10, ExitFollowed

(* `error(...)`, and a `try` whose operand failed.                          *)
LEMMA RaiseFollowed ==
  ASSUME ITypeOK, Together, Raise
  PROVE  Linked'
  <1> DEFINE from == FailureScope
             b == TRUE
             j == "fail"
             l == NoLabel
  <1>1. PICK v \in Vals : IRaise(v) /\ ERaise(v)
    BY DEF Raise
  <1>2. /\ IAt({"block", "operand"}) /\ MayRaise(ist)
        /\ ifl' = [ifl EXCEPT !.returning = TRUE, !.failed = TRUE, !.val = v]
        /\ ist' = ist /\ ialloc' = ialloc /\ iout' = Unit
    BY <1>1 DEF IRaise, IExit
  <1>3. /\ Inside /\ ist # <<>> /\ TopKind(ist) # "cleanup" /\ ifl \in Flags /\ NoExit(ifl)
        /\ est \in Seq(EFrame) /\ Top(est) \in EFrame /\ Len(est) \in Nat \ {0}
        /\ \E g, n, bb, d : /\ Placed(ist, est, g) /\ g[Len(ist)] = Len(est)
                            /\ Matched(ist, est, n, bb, d) /\ \A i \in bb .. n : g[i] = i + d
    BY <1>2, ExitFrom
  <1>4. \A h : h.jump = "fail" => Aimed(est, Len(est) + 1, h, from)
    BY <1>2, <1>3, AimFail DEF FailureScope
  <1>5. from \in 1 .. Len(est) + 1
    <2> DEFINE P == Of(est, {"operand"})
               m == Len(est)
    <2>1. P \in SUBSET (1 .. m) /\ m \in Nat
      BY <1>3 DEF Of
    <2> HIDE DEF P
    <2>2. Innermost(P) \in 0 .. m
      BY <2>1, InnermostOf
    <2>3. from = Innermost(P) + 1
      BY DEF FailureScope, P
    <2> HIDE DEF from
    <2>4. QED
      BY <2>1, <2>2, <2>3
  <1> HIDE DEF from
  <1>6. EUnwind(from, b, j, l, v) /\ from \in Nat /\ b \in BOOLEAN /\ j \in Jumps /\ l \in Label
        /\ v \in Value /\ j = "fail"
    <2>1. EUnwind(from, b, j, l, v)
      BY <1>1 DEF ERaise, from
    <2>2. b \in BOOLEAN /\ j \in Jumps /\ l \in Label /\ v \in Value
      BY <1>1, ExitData
    <2>3. from \in Nat
      BY <1>3, <1>5
    <2>4. QED
      BY <2>1, <2>2, <2>3
  <1>7. (b <=> j = "fail") /\ j # "fall"
        /\ (from <= Len(est) \/ (from = Len(est) + 1 /\ j \in {"fail", "recover"}))
    BY <1>3, <1>5
  <1> HIDE DEF b, j, l
  <1>8. PICK h : ExitMade(h, from, b, j, l, v)
    BY <1>3, <1>6, ExitWritten
  <1>9. h.jump = "fail" /\ h.val = v
    BY <1>6, <1>8 DEF ExitMade
  <1>10. Sets(ifl, ifl', h)
    <2>1. Sets(ifl, [ifl EXCEPT !.returning = TRUE, !.failed = TRUE, !.val = h.val], h)
      BY <1>3, <1>6, <1>9, SetsFail
    <2>2. QED
      BY <1>2, <1>9, <2>1
  <1>11. Exits(h, from)
    BY <1>2, <1>3, <1>4, <1>9, <1>10 DEF Exits
  <1>12. QED
    BY <1>3, <1>6, <1>7, <1>8, <1>11, ExitFollowed

(* `recover v`.                                                             *)
LEMMA RecoverFollowed ==
  ASSUME ITypeOK, Together, Recover
  PROVE  Linked'
  <1> DEFINE from == CatchScope
             b == FALSE
             j == "recover"
             l == NoLabel
  <1>1. PICK v \in Vals : IRecover(v) /\ ERecover(v)
    BY DEF Recover
  <1>2. /\ IAt({"block", "operand"}) /\ MayRecover(ist)
        /\ ifl' = [ifl EXCEPT !.rec = v, !.failed = FALSE, !.val = Unit,
                              !.recovered = TRUE, !.returning = TRUE]
        /\ ist' = ist /\ ialloc' = ialloc /\ iout' = Unit
    BY <1>1 DEF IRecover, IExit, IAt
  <1>3. /\ Inside /\ ist # <<>> /\ TopKind(ist) # "cleanup" /\ ifl \in Flags /\ NoExit(ifl)
        /\ est \in Seq(EFrame) /\ Top(est) \in EFrame /\ Len(est) \in Nat \ {0}
        /\ \E g, n, bb, d : /\ Placed(ist, est, g) /\ g[Len(ist)] = Len(est)
                            /\ Matched(ist, est, n, bb, d) /\ \A i \in bb .. n : g[i] = i + d
    BY <1>2, ExitFrom
  <1>4. \A h : h.jump = "recover" => Aimed(est, Len(est) + 1, h, from)
    BY <1>2, <1>3, AimRecover DEF CatchScope
  <1>5. from \in 1 .. Len(est) + 1
    <2> DEFINE P == Of(est, {"handler"})
               m == Len(est)
    <2>1. P \in SUBSET (1 .. m) /\ m \in Nat
      BY <1>3 DEF Of
    <2> HIDE DEF P
    <2>2. Innermost(P) \in 0 .. m
      BY <2>1, InnermostOf
    <2>3. from = Innermost(P) + 1
      BY DEF CatchScope, P
    <2> HIDE DEF from
    <2>4. QED
      BY <2>1, <2>2, <2>3
  <1> HIDE DEF from
  <1>6. EUnwind(from, b, j, l, v) /\ from \in Nat /\ b \in BOOLEAN /\ j \in Jumps /\ l \in Label
        /\ v \in Value /\ j = "recover"
    <2>1. EUnwind(from, b, j, l, v)
      BY <1>1 DEF ERecover, from
    <2>2. b \in BOOLEAN /\ j \in Jumps /\ l \in Label /\ v \in Value
      BY <1>1, ExitData
    <2>3. from \in Nat
      BY <1>3, <1>5
    <2>4. QED
      BY <2>1, <2>2, <2>3
  <1>7. (b <=> j = "fail") /\ j # "fall"
        /\ (from <= Len(est) \/ (from = Len(est) + 1 /\ j \in {"fail", "recover"}))
    BY <1>3, <1>5
  <1> HIDE DEF b, j, l
  <1>8. PICK h : ExitMade(h, from, b, j, l, v)
    BY <1>3, <1>6, ExitWritten
  <1>9. h.jump = "recover" /\ h.val = v
    BY <1>6, <1>8 DEF ExitMade
  <1>10. Sets(ifl, ifl', h)
    <2>1. Sets(ifl, [ifl EXCEPT !.rec = h.val, !.failed = FALSE, !.val = Unit,
                                !.recovered = TRUE, !.returning = TRUE], h)
      BY <1>3, <1>6, <1>9, SetsRecover
    <2>2. QED
      BY <1>2, <1>9, <2>1
  <1>11. Exits(h, from)
    BY <1>2, <1>3, <1>4, <1>9, <1>10 DEF Exits
  <1>12. QED
    BY <1>3, <1>6, <1>7, <1>8, <1>11, ExitFollowed

(* A jump labelled l, of the kind j, which the oracle makes.                *)
JumpMade(l, j) ==
  /\ l \in Label /\ j \in {"break", "continue"} /\ IAt({"block", "operand"})
  /\ LoopsInScope(ist, l) # {}
  /\ LoopReached(ist, Innermost(LoopsInScope(ist, l)), j = "break" /\ l = NoLabel)
  /\ ifl' = IF j = "break" THEN [ifl EXCEPT !.breaking = TRUE, !.jump = l]
            ELSE [ifl EXCEPT !.continuing = TRUE, !.jump = l]
  /\ ist' = ist /\ ialloc' = ialloc /\ iout' = Unit

(* What it is aimed at: level x, which is position x + d.                   *)
JumpTo(l, j, g, n, b, d, x) ==
  /\ Placed(ist, est, g) /\ g[Len(ist)] = Len(est)
  /\ Matched(ist, est, n, b, d) /\ \A i \in b .. n : g[i] = i + d
  /\ x = Innermost(LoopsInScope(ist, l)) /\ x \in b + 1 .. n
  /\ x + d \in 1 .. Len(est) /\ LoopScope(l) = x + d
  /\ \A h : h.jump = j /\ h.lab = l => Aimed(est, Len(est) + 1, h, x + d)

(* A jump of the oracle has such a level, and the C loop is its position.   *)
LEMMA JumpGoes ==
  ASSUME ITypeOK, Together, NEW l, NEW j, JumpMade(l, j)
  PROVE  \E g, n, b, d, x : JumpTo(l, j, g, n, b, d, x)
  <1> DEFINE x == Innermost(LoopsInScope(ist, l))
             bare == j = "break" /\ l = NoLabel
  <1>1. IAt({"block", "operand"}) /\ LoopsInScope(ist, l) # {} /\ j \in {"break", "continue"}
        /\ LoopReached(ist, x, bare)
    BY DEF JumpMade
  <1>2. \E g, n, b, d : /\ Placed(ist, est, g) /\ g[Len(ist)] = Len(est)
                        /\ Matched(ist, est, n, b, d) /\ \A i \in b .. n : g[i] = i + d
    BY <1>1, ExitFrom
  <1>3. PICK g, n, b, d : /\ Placed(ist, est, g) /\ g[Len(ist)] = Len(est)
                          /\ Matched(ist, est, n, b, d) /\ \A i \in b .. n : g[i] = i + d
    BY <1>2
  <1>4. x \in b + 1 .. n
    BY <1>1, <1>3, LoopLevels
  <1> DEFINE k == [jump |-> j, lab |-> l]
  <1>5. k.jump \in {"break", "continue"} /\ k.lab = l
        /\ LoopReached(ist, x, k.jump = "break" /\ l = NoLabel)
    BY <1>1
  <1> HIDE DEF x, bare, k
  <1>6. x = Innermost(LoopsInScope(ist, l))
    BY DEF x
  <1>7. x + d \in 1 .. Len(est) /\ Innermost(Aimable(est, l)) = x + d
    BY <1>1, <1>3, <1>5, <1>6, AimJump
  <1>8. ASSUME NEW h, h.jump = j, h.lab = l PROVE Aimed(est, Len(est) + 1, h, x + d)
    <2>1. h.jump \in {"break", "continue"} /\ LoopReached(ist, x, h.jump = "break" /\ l = NoLabel)
      BY <1>1, <1>8 DEF bare
    <2>2. QED
      BY <1>1, <1>3, <1>6, <1>8, <2>1, AimJump
  <1>9. LoopScope(l) = x + d
    <2> DEFINE y == Innermost(Aimable(est, l))
    <2>1. LoopScope(l) = IF y = 0 THEN 1 ELSE y
      BY DEF LoopScope, Aimable
    <2> HIDE DEF y
    <2>2. y # 0 /\ y = x + d
      BY <1>7 DEF y
    <2>3. QED
      BY <2>1, <2>2
  <1>10. JumpTo(l, j, g, n, b, d, x)
    BY <1>3, <1>4, <1>6, <1>7, <1>8, <1>9 DEF JumpTo
  <1>11. QED
    BY <1>10

(* Its flags.                                                               *)
LEMMA JumpSets ==
  ASSUME ITypeOK, Together, NEW l, NEW j, JumpMade(l, j), NEW h, h.jump = j, h.lab = l
  PROVE  Sets(ifl, ifl', h)
  <1>1. IAt({"block", "operand"}) /\ l \in Label /\ j \in {"break", "continue"}
        /\ ifl' = IF j = "break" THEN [ifl EXCEPT !.breaking = TRUE, !.jump = l]
                  ELSE [ifl EXCEPT !.continuing = TRUE, !.jump = l]
    BY DEF JumpMade
  <1>2. ifl \in Flags /\ NoExit(ifl)
    BY <1>1, ExitFrom
  <1>3. /\ h.jump = "break" => Sets(ifl, [ifl EXCEPT !.breaking = TRUE, !.jump = h.lab], h)
        /\ h.jump = "continue" => Sets(ifl, [ifl EXCEPT !.continuing = TRUE, !.jump = h.lab], h)
    BY <1>1, <1>2, SetsJump
  <1>4. QED
    BY <1>1, <1>3

(* A jump that cleans up.                                                   *)
LEMMA JumpFollowed ==
  ASSUME ITypeOK, Together, NEW l, NEW j, JumpMade(l, j),
         EUnwind(LoopScope(l), FALSE, j, l, Unit)
  PROVE  Linked'
  <1> DEFINE b == FALSE
             v == Unit
  <1>1. IAt({"block", "operand"}) /\ l \in Label /\ j \in {"break", "continue"}
        /\ ist' = ist /\ ialloc' = ialloc /\ iout' = Unit
    BY DEF JumpMade
  <1>2. /\ Inside /\ ist # <<>> /\ TopKind(ist) # "cleanup"
        /\ est \in Seq(EFrame) /\ Top(est) \in EFrame /\ Len(est) \in Nat \ {0}
    BY <1>1, ExitFrom
  <1>3. PICK g, n, bb, d, x : JumpTo(l, j, g, n, bb, d, x)
    BY JumpGoes
  <1> DEFINE from == x + d
  <1>4. /\ from \in 1 .. Len(est) /\ LoopScope(l) = from
        /\ \A h : h.jump = j /\ h.lab = l => Aimed(est, Len(est) + 1, h, from)
    BY <1>3 DEF JumpTo
  <1>5. /\ EUnwind(from, b, j, l, v) /\ b \in BOOLEAN /\ j \in Jumps /\ v \in Value
    BY <1>1, <1>4 DEF Jumps, Value
  <1>6. j # "fall" /\ (b <=> j = "fail") /\ from \in Nat /\ from <= Len(est)
    BY <1>1, <1>2, <1>4
  <1> HIDE DEF from, b, v
  <1>7. PICK h : ExitMade(h, from, b, j, l, v)
    BY <1>1, <1>2, <1>5, <1>6, ExitWritten
  <1>8. h.jump = j /\ h.lab = l
    BY <1>7 DEF ExitMade
  <1>9. Sets(ifl, ifl', h)
    BY <1>8, JumpSets
  <1>10. Exits(h, from)
    BY <1>1, <1>2, <1>4, <1>8, <1>9 DEF Exits
  <1>11. QED
    BY <1>2, <1>6, <1>7, <1>10, ExitFollowed

(* A bare one.                                                              *)
LEMMA BareJumpFollowed ==
  ASSUME ITypeOK, Together, NEW j, JumpMade(NoLabel, j),
         OwesNothing(ist, Innermost(LoopsInScope(ist, NoLabel))), EElse(j, Unit)
  PROVE  Linked'
  <1> DEFINE b == FALSE
             v == Unit
             l == NoLabel
             from == Len(est) + 1
  <1>1. IAt({"block", "operand"}) /\ l \in Label /\ j \in {"break", "continue"}
        /\ ist' = ist /\ ialloc' = ialloc /\ iout' = Unit
    BY DEF JumpMade
  <1>2. /\ Inside /\ ist # <<>> /\ TopKind(ist) # "cleanup"
        /\ est \in Seq(EFrame) /\ Top(est) \in EFrame /\ Len(est) \in Nat \ {0}
    BY <1>1, ExitFrom
  <1>3. PICK g, n, bb, d, x : JumpTo(l, j, g, n, bb, d, x)
    BY JumpGoes
  <1>4. /\ Placed(ist, est, g) /\ g[Len(ist)] = Len(est)
        /\ Matched(ist, est, n, bb, d) /\ \A i \in bb .. n : g[i] = i + d
        /\ x \in bb + 1 .. n /\ OwesNothing(ist, x)
        /\ \A h : h.jump = j /\ h.lab = l => Aimed(est, Len(est) + 1, h, x + d)
    BY <1>3 DEF JumpTo
  <1>5. EUnwind(from, b, j, l, v)
    BY DEF EElse
  <1>6. from \in Nat /\ b \in BOOLEAN /\ j \in Jumps /\ v \in Value
    BY <1>1, <1>2 DEF Jumps, Value
  <1> HIDE DEF from, b, v, l
  <1>7. PICK h : ExitMade(h, from, b, j, l, v)
    BY <1>1, <1>2, <1>5, <1>6, ExitWritten
  <1>8. h.jump = j /\ h.lab = l
    BY <1>7 DEF ExitMade
  <1>9. Sets(ifl, ifl', h)
    <2>1. JumpMade(l, j)
      BY DEF l
    <2>2. QED
      BY <1>8, <2>1, JumpSets
  <1>10. Exits(h, x + d)
    BY <1>1, <1>2, <1>4, <1>8, <1>9 DEF Exits
  <1>11. ExitMade(h, Len(est) + 1, FALSE, j, NoLabel, v)
    BY <1>7 DEF from, b, l
  <1>12. j \in {"return", "break", "continue"}
    BY <1>1
  <1>13. QED
    BY <1>2, <1>4, <1>10, <1>11, <1>12, BareFollowed

(* A bare `return`.                                                         *)
LEMMA BareReturnFollowed ==
  ASSUME ITypeOK, Together, NEW v \in Vals, IReturn(v), OwesNothing(ist, 1), EElse("return", v)
  PROVE  Linked'
  <1> DEFINE from == Len(est) + 1
             b == FALSE
             j == "return"
             l == NoLabel
  <1>1. /\ IAt({"block", "operand"}) /\ ~InDeferred(ist)
        /\ ifl' = [ifl EXCEPT !.returning = TRUE, !.failed = FALSE, !.val = v]
        /\ ist' = ist /\ ialloc' = ialloc /\ iout' = Unit
    BY DEF IReturn, IExit, IAt
  <1>2. /\ Inside /\ ist # <<>> /\ TopKind(ist) # "cleanup" /\ ifl \in Flags /\ NoExit(ifl)
        /\ est \in Seq(EFrame) /\ Top(est) \in EFrame /\ Len(est) \in Nat \ {0}
        /\ \E g, n, bb, d : /\ Placed(ist, est, g) /\ g[Len(ist)] = Len(est)
                            /\ Matched(ist, est, n, bb, d) /\ \A i \in bb .. n : g[i] = i + d
    BY <1>1, ExitFrom
  <1>3. PICK g, n, bb, d : /\ Placed(ist, est, g) /\ g[Len(ist)] = Len(est)
                           /\ Matched(ist, est, n, bb, d) /\ \A i \in bb .. n : g[i] = i + d
    BY <1>2
  <1>4. bb = 0 /\ d = 0 /\ n = Len(est) /\ n \in Nat
    BY <1>1, <1>3 DEF Matched, InDeferred
  <1>5. EUnwind(from, b, j, l, v)
    BY DEF EElse
  <1>6. b \in BOOLEAN /\ j \in Jumps /\ l \in Label /\ v \in Value /\ j = "return"
    BY ExitData
  <1>7. from \in Nat
    BY <1>2
  <1> HIDE DEF from, b, j, l
  <1>8. PICK h : ExitMade(h, from, b, j, l, v)
    BY <1>2, <1>5, <1>6, <1>7, ExitWritten
  <1>9. h.jump = "return" /\ h.val = v
    BY <1>6, <1>8 DEF ExitMade
  <1>10. Sets(ifl, ifl', h)
    <2>1. Sets(ifl, [ifl EXCEPT !.returning = TRUE, !.failed = FALSE, !.val = h.val], h)
      BY <1>2, <1>6, <1>9, SetsReturn
    <2>2. QED
      BY <1>1, <1>9, <2>1
  <1> DEFINE x == 1
  <1>11. x \in bb + 1 .. n /\ OwesNothing(ist, x) /\ x + d = 1
    BY <1>2, <1>4
  <1> HIDE DEF x
  <1>12. Exits(h, x + d)
    <2>1. Aimed(est, Len(est) + 1, h, 1)
      BY <1>1, <1>3, <1>9, AimReturn
    <2>2. Aimed(est, Len(est) + 1, h, x + d)
      BY <1>11, <2>1
    <2>3. QED
      BY <1>1, <1>2, <1>10, <2>2 DEF Exits
  <1>13. ExitMade(h, Len(est) + 1, FALSE, j, NoLabel, v) /\ j \in {"return", "break", "continue"}
    BY <1>6, <1>8 DEF from, b, l
  <1>14. QED
    BY <1>2, <1>3, <1>11, <1>12, <1>13, BareFollowed

(* `break`, with a label or without.                                        *)
LEMMA BreakFollowed ==
  ASSUME ITypeOK, Agreeing, Together, Break
  PROVE  Linked'
  <1>1. PICK l \in Label : /\ MayJump(l)
                           /\ l = NoLabel /\ ~BreakSeesLoop(ist) => Form("break in switch")
                           /\ IBreak(l) /\ EBreak(l)
    BY DEF Break
  <1> DEFINE j == "break"
             x == Innermost(LoopsInScope(ist, l))
  <1>2. LoopReached(ist, x, j = "break" /\ l = NoLabel)
    BY <1>1, FormsAgree DEF LoopReached
  <1>3. EUnwind(LoopScope(l), FALSE, j, l, Unit)
    BY <1>1 DEF EBreak
  <1>4. JumpMade(l, j)
    <2>1. IAt({"block", "operand"})
      BY <1>1 DEF IBreak, IAt
    <2>2. QED
      BY <1>1, <1>2, <2>1 DEF JumpMade, IBreak, IExit
  <1> HIDE DEF j, x
  <1>5. QED
    BY <1>3, <1>4, JumpFollowed

(* `continue`.                                                              *)
LEMMA ContinueFollowed ==
  ASSUME ITypeOK, Agreeing, Together, Continue
  PROVE  Linked'
  <1>1. PICK l \in Label : MayJump(l) /\ IContinue(l) /\ EContinue(l)
    BY DEF Continue
  <1> DEFINE j == "continue"
             x == Innermost(LoopsInScope(ist, l))
  <1>2. LoopReached(ist, x, j = "break" /\ l = NoLabel)
    BY <1>1, FormsAgree DEF LoopReached
  <1>3. EUnwind(LoopScope(l), FALSE, j, l, Unit)
    BY <1>1 DEF EContinue
  <1>4. JumpMade(l, j)
    <2>1. IAt({"block", "operand"})
      BY <1>1 DEF IContinue, IAt
    <2>2. QED
      BY <1>1, <1>2, <2>1 DEF JumpMade, IContinue, IExit
  <1> HIDE DEF j, x
  <1>5. QED
    BY <1>3, <1>4, JumpFollowed

(* The expression forms of the exits.                                       *)
LEMMA ElseFollowed ==
  ASSUME ITypeOK, Agreeing, Together, ElseReturn \/ ElseBreak \/ ElseContinue
  PROVE  Linked'
  <1>1. CASE ElseReturn
    <2>1. PICK v \in Vals : MayElse(1) /\ IReturn(v) /\ EElse("return", v)
      BY <1>1 DEF ElseReturn
    <2>2. OwesNothing(ist, 1)
      BY <2>1, FormsAgree
    <2>3. QED
      BY <2>1, <2>2, BareReturnFollowed
  <1> DEFINE x == Innermost(LoopsInScope(ist, NoLabel))
  <1>2. CASE ElseBreak
    <2> DEFINE j == "break"
    <2>1. /\ MayElse(x) /\ MayJump(NoLabel) /\ BreakSeesLoop(ist) /\ IBreak(NoLabel)
          /\ EElse(j, Unit)
      BY <1>2 DEF ElseBreak
    <2>2. OwesNothing(ist, x) /\ LeavesNoArgument(ist, x)
      BY <2>1, FormsAgree
    <2>3. JumpMade(NoLabel, j)
      <3>1. IAt({"block", "operand"}) /\ NoLabel \in Label
        BY <2>1 DEF IBreak, IAt, Label
      <3>2. LoopReached(ist, x, j = "break" /\ NoLabel = NoLabel)
        BY <2>1, <2>2 DEF LoopReached
      <3>3. QED
        BY <2>1, <3>1, <3>2 DEF JumpMade, IBreak, IExit
    <2> HIDE DEF j
    <2>4. QED
      BY <2>1, <2>2, <2>3, BareJumpFollowed
  <1>3. CASE ElseContinue
    <2> DEFINE j == "continue"
    <2>1. MayElse(x) /\ MayJump(NoLabel) /\ IContinue(NoLabel) /\ EElse(j, Unit)
      BY <1>3 DEF ElseContinue
    <2>2. OwesNothing(ist, x) /\ LeavesNoArgument(ist, x)
      BY <2>1, FormsAgree
    <2>3. JumpMade(NoLabel, j)
      <3>1. IAt({"block", "operand"}) /\ NoLabel \in Label
        BY <2>1 DEF IContinue, IAt, Label
      <3>2. LoopReached(ist, x, j = "break" /\ NoLabel = NoLabel)
        BY <2>2 DEF LoopReached
      <3>3. QED
        BY <2>1, <3>1, <3>2 DEF JumpMade, IContinue, IExit
    <2> HIDE DEF j
    <2>4. QED
      BY <2>1, <2>2, <2>3, BareJumpFollowed
  <1>4. QED
    BY <1>1, <1>2, <1>3

-----------------------------------------------------------------------------
(***************************************************************************)
(* The two executions stay together.                                       *)
(***************************************************************************)

(* The oracle's part of a statement.                                        *)
LEMMA StatementIs ==
  ASSUME Statement
  PROVE  IStatement /\ IQuiet /\ (Trap \/ EQuiet)
  <1>1. CASE CallFunc \/ Block \/ Iterate \/ LoopDone \/ Match \/ Catch \/ Argument \/ OperandDone
             \/ ArgumentDone \/ Call \/ EndBlock \/ RunDeferred
    BY <1>1 DEF CallFunc, Block, Iterate, LoopDone, Match, Catch, Argument, OperandDone,
         ArgumentDone, Call, EndBlock, RunDeferred, Room, Form, IStatement, IAt,
         ICallFunc, IBlock, IIterate, ILoopDone, IMatch, ICatch, IArgument, IOperandDone,
         IArgumentDone, ICall, IEndBlock, IRunDeferred
  <1>2. CASE Loop \/ With \/ Defer
    BY <1>2 DEF Loop, With, Defer, Room, Form, IStatement, IAt, ILoop, IWith, IDefer
  <1>3. CASE Return \/ Raise \/ Recover \/ Break \/ Continue
    BY <1>3 DEF Return, Raise, Recover, Break, Continue, IStatement, IAt, IReturn, IRaise,
         IRecover, IBreak, IContinue
  <1>4. CASE ElseReturn \/ ElseBreak \/ ElseContinue
    BY <1>4 DEF ElseReturn, ElseBreak, ElseContinue, MayElse, Form, IStatement, IAt, IReturn,
         IBreak, IContinue, Label
  <1>5. CASE Trap
    BY <1>5 DEF Trap, ITrap, IStatement
  <1>6. QED
    BY <1>1, <1>2, <1>3, <1>4, <1>5 DEF Statement

(* A statement takes both to the same place, or on the same way out.        *)
LEMMA StatementFollowed ==
  ASSUME IInv, Shape(ist), Linked, Agreeing, Statement
  PROVE  Linked'
  <1>1. ITypeOK
    BY DEF IInv
  <1>2. CASE Trap
    BY <1>1, <1>2, TrapFollowed
  <1>3. CASE ~Trap
    <2>1. Together
      BY <1>1, <1>3, StatementIs, ReadyIs DEF Linked
    <2>2. CASE CallFunc
      BY <2>1, <2>2, CallFuncFollowed
    <2>3. CASE Block \/ Loop \/ Iterate \/ With \/ Match \/ Catch \/ Argument
      BY <1>1, <2>1, <2>3, OpenedFollowed
    <2>4. CASE LoopDone \/ OperandDone \/ ArgumentDone
      BY <1>1, <2>1, <2>4, DoneFollowed
    <2>5. CASE Defer \/ Call \/ EndBlock \/ RunDeferred
      BY <1>1, <2>1, <2>5, DeferFollowed, CallFollowed, EndBlockFollowed, RunDeferredFollowed
    <2>6. CASE Return \/ Raise \/ Recover \/ Break \/ Continue
      BY <1>1, <2>1, <2>6, ReturnFollowed, RaiseFollowed, RecoverFollowed, BreakFollowed,
         ContinueFollowed
    <2>7. CASE ElseReturn \/ ElseBreak \/ ElseContinue
      BY <1>1, <2>1, <2>7, ElseFollowed
    <2>8. QED
      BY <1>3, <2>2, <2>3, <2>4, <2>5, <2>6, <2>7 DEF Statement
  <1>4. QED
    BY <1>2, <1>3

(* Where both wait the binary makes no step.                                *)
LEMMA NoStepSettled ==
  ASSUME ITypeOK, IQuiet, est \in Seq(EFrame), Follows(ist, ifl, iout, est, eret)
  PROVE  ~EStep
  <1>1. EStep => TopKind(est) # "end" /\ ~EQuiet
    BY DEF EStep, ESkipErrdefer, ENextScope, EFall, EDoReturn, EDoFail, EDoBreak, EDoContinue,
           EDoRecover, EEndWith, EEndArm, EEndHandler, EUnwound, EQuiet, ERunnable
  <1>2. CASE \E g : Settled(ist, ifl, iout, est, eret, g)
    <2>1. PICK g : Settled(ist, ifl, iout, est, eret, g)
      BY <1>2
    <2>2. ist \in Seq(IFrame) /\ Placed(ist, est, g) /\ g[Len(ist)] = Len(est)
      BY <2>1 DEF ITypeOK, Settled
    <2>3. /\ TopKind(est) = TopKind(ist)
          /\ ist # <<>> => Alike(Top(ist), Top(est))
      BY <2>2, SameTop
    <2>4. EQuiet
      <3>1. CASE TopKind(ist) = "cleanup"
        <4>1. ist # <<>> /\ IRunnable
          BY <3>1 DEF IQuiet, TopKind
        <4>2. QED
          BY <2>3, <3>1, <4>1 DEF Alike, EQuiet, ERunnable, IRunnable
      <3>2. CASE TopKind(ist) # "cleanup"
        BY <2>3, <3>2 DEF IQuiet, EQuiet
      <3>3. QED
        BY <3>1, <3>2
    <2>5. QED
      BY <1>1, <2>4
  <1>3. CASE ist = <<>> /\ Dead(ifl, iout, est, eret)
    BY <1>1, <1>3 DEF Dead, TopKind
  <1>4. QED
    BY <1>2, <1>3, WaitingIs

(* A step of the binary leaves the rest of its way out.                     *)
LEMMA BinaryFollowed ==
  ASSUME ITypeOK, Linked, Binary
  PROVE  Linked'
  <1>1. PICK t \in Seq(EFrame) : \E a, r :
          /\ Reaches(Now, State(t, a, r, iout))
          /\ ifl.trapped \/ a = ialloc
          /\ Follows(ist, ifl, iout, t, r)
    BY DEF Linked, Tracked
  <1>2. PICK a, r :
          /\ Reaches(Now, State(t, a, r, iout))
          /\ ifl.trapped \/ a = ialloc
          /\ Follows(ist, ifl, iout, t, r)
    BY <1>1
  <1> DEFINE e == Now
             f == State(t, a, r, iout)
  <1>3. IQuiet /\ EStep /\ ist' = ist /\ ifl' = ifl /\ ialloc' = ialloc /\ iout' = iout
    BY DEF Binary, ivars
  <1>4. e # f
    <2> SUFFICES ASSUME Now = State(t, a, r, iout) PROVE FALSE
      OBVIOUS
    <2>1. est = t /\ eret = r
      BY DEF Now, State
    <2>2. QED
      BY <1>2, <1>3, <2>1, NoStepSettled
  <1>5. Reaches(After(e), f) /\ e.st \in Seq(EFrame)
    <2>1. Reaches(e, f)
      BY <1>2
    <2> HIDE DEF e, f
    <2>2. QED
      BY <1>4, <2>1, ReachFrom
  <1>6. e.st = est
    BY StateFields DEF Now
  <1>7. Now' = After(Now)
    BY <1>3, <1>5, <1>6, StepIsAfter
  <1>8. Tracked(After(Now), ist, ifl, ialloc, iout)
    <2>1. Reaches(After(Now), State(t, a, r, iout))
      BY <1>5
    <2>2. QED
      BY <1>2, <2>1 DEF Tracked
  <1> DEFINE n == After(Now)
  <1>9. Tracked(n, ist', ifl', ialloc', iout') /\ Now' = n
    BY <1>3, <1>7, <1>8
  <1> HIDE DEF n, e, f
  <1>10. Tracked(Now', ist', ifl', ialloc', iout')
    BY <1>9
  <1>11. QED
    BY <1>10 DEF Linked, Tracked, Reaches, Follows, Dead, Settled, Leaving, BareLevel,
               BareCleanup, Bare, Bound, State

-----------------------------------------------------------------------------
(***************************************************************************)
(* What the two views show.                                                *)
(***************************************************************************)

(* The first n levels are at n positions.                                   *)
LEMMA CountLevels ==
  ASSUME NEW n \in Nat, NEW g, \A i \in 1 .. n : g[i] \in Nat,
         \A i \in 1 .. n : \A j \in 1 .. n : i < j => g[i] < g[j]
  PROVE  Cardinality({g[i] : i \in 1 .. n}) = n
  <1> DEFINE S == {g[i] : i \in 1 .. n}
             f == [i \in 1 .. n |-> g[i]]
  <1>1. f \in Bijection(1 .. n, S)
    <2>1. f \in [1 .. n -> S]
      OBVIOUS
    <2>2. ASSUME NEW i \in 1 .. n, NEW j \in 1 .. n, f[i] = f[j] PROVE i = j
      <3>1. g[i] = g[j] /\ g[i] \in Nat
        BY <2>2
      <3>2. ~(i < j) /\ ~(j < i)
        BY <3>1
      <3>3. QED
        BY <3>2
    <2>3. ASSUME NEW y \in S PROVE \E i \in 1 .. n : f[i] = y
      OBVIOUS
    <2> HIDE DEF f, S
    <2>4. QED
      BY <2>1, <2>2, <2>3 DEF Bijection, Injection, Surjection, IsInjective
  <1>2. ExistsBijection(1 .. n, S)
    BY <1>1 DEF ExistsBijection
  <1> HIDE DEF S
  <1>3. Cardinality(S) = n
    BY <1>2, FS_CountingElements
  <1>4. QED
    BY <1>3 DEF S

(* Level j is the one that position x is inside of.                         *)
LEMMA LevelAround ==
  ASSUME NEW s \in Seq(IFrame), NEW t \in Seq(EFrame), NEW g, Placed(s, t, g),
         g[Len(s)] = Len(t), NEW x \in 1 .. Len(t)
  PROVE  \E j \in 1 .. Len(s) : g[j - 1] < x /\ x <= g[j]
  <1> DEFINE n == Len(s)
             P == {i \in 0 .. n : x <= g[i]}
  <1>1. n \in Nat /\ Len(t) \in Nat /\ g \in [0 .. n -> Nat] /\ g[0] = 0 /\ g[n] = Len(t)
    BY LenProperties DEF Placed
  <1>2. P \in SUBSET Nat /\ n \in P
    BY <1>1
  <1> HIDE DEF P
  <1>3. PICK j \in P : \A q \in P : j <= q
    BY <1>2, LeastOf
  <1>4. j \in 0 .. n /\ x <= g[j]
    BY <1>3 DEF P
  <1>5. j # 0
    BY <1>1, <1>4
  <1>6. j - 1 \in 0 .. n /\ j \in 1 .. n
    BY <1>1, <1>4, <1>5
  <1>7. ~(x <= g[j - 1])
    <2>1. j - 1 \notin P
      BY <1>3, <1>4
    <2>2. QED
      BY <1>6, <2>1 DEF P
  <1>8. g[j - 1] \in Nat
    BY <1>1, <1>6
  <1>9. g[j - 1] < x
    BY <1>7, <1>8
  <1>10. QED
    BY <1>4, <1>6, <1>9

(* A cleanup of the C nesting is a level of the recursion.                  *)
LEMMA CleanupIsLevel ==
  ASSUME NEW s \in Seq(IFrame), NEW t \in Seq(EFrame), NEW g, Placed(s, t, g),
         g[Len(s)] = Len(t), NEW x \in 1 .. Len(t), t[x].k = "cleanup"
  PROVE  \E j \in 1 .. Len(s) : x = g[j] /\ t[x].at = g[j - 1] + 1
  <1>1. PICK j \in 1 .. Len(s) : g[j - 1] < x /\ x <= g[j]
    BY LevelAround
  <1>2. /\ s[j].k # "cleanup" => g[j] = g[j - 1] + 1
        /\ s[j].k = "cleanup" => Unwinding(s, j, t, g[j], g[j - 1] + 1)
        /\ Alike(s[j], t[g[j]])
    BY DEF Placed
  <1>3. g[j - 1] \in Nat /\ g[j] \in Nat
    <2>1. j - 1 \in 0 .. Len(s) /\ j \in 0 .. Len(s)
      BY LenProperties
    <2>2. QED
      BY <2>1 DEF Placed
  <1>4. x = g[j]
    <2> SUFFICES ASSUME x # g[j] PROVE FALSE
      OBVIOUS
    <2>1. x \in g[j - 1] + 1 .. g[j] - 1
      BY <1>1, <1>3
    <2>2. s[j].k = "cleanup"
      BY <1>2, <1>3, <2>1
    <2>3. /\ t[g[j]].to \in 1 .. g[j - 1] + 1
          /\ Aimed(t, g[j], t[g[j]], t[g[j]].to)
      BY <1>2, <2>2 DEF Unwinding
    <2>4. \A i \in t[g[j]].to .. g[j] - 1 : t[i].k # "cleanup"
      BY <2>3 DEF Aimed
    <2>5. x \in t[g[j]].to .. g[j] - 1
      <3> DEFINE a == t[g[j]].to
                 b == g[j - 1]
                 c == g[j]
      <3>1. a \in 1 .. b + 1 /\ x \in b + 1 .. c - 1 /\ b \in Nat /\ c \in Nat
        BY ONLY <1>3, <2>1, <2>3
      <3> HIDE DEF a, b, c
      <3>2. x \in a .. c - 1
        BY ONLY <3>1
      <3>3. QED
        BY ONLY <3>2 DEF a, c
    <2>6. QED
      BY <2>4, <2>5
  <1>5. s[j].k = "cleanup"
    BY <1>2, <1>4 DEF Alike
  <1>6. QED
    BY <1>2, <1>4, <1>5 DEF Unwinding

(* The positions shown are those of the levels.                             *)
LEMMA ShownIs ==
  ASSUME ist \in Seq(IFrame), est \in Seq(EFrame), NEW g, Placed(ist, est, g),
         g[Len(ist)] = Len(est)
  PROVE  Shown = {g[i] : i \in 1 .. Len(ist)}
  <1> DEFINE n == Len(ist)
             m == Len(est)
  <1>1. n \in Nat /\ m \in Nat /\ g \in [0 .. n -> Nat] /\ g[0] = 0 /\ g[n] = m
    BY LenProperties DEF Placed
  <1>2. ASSUME NEW x \in Shown PROVE x \in {g[i] : i \in 1 .. n}
    <2>1. x \in 1 .. m /\ \A c \in Of(est, {"cleanup"}) : x < est[c].at \/ x >= c
      BY DEF Shown
    <2>2. PICK j \in 1 .. n : g[j - 1] < x /\ x <= g[j]
      BY <2>1, LevelAround
    <2>3. j - 1 \in 0 .. n /\ j \in 0 .. n
      BY <1>1
    <2>4. g[j - 1] \in Nat /\ g[j] \in Nat
      BY <1>1, <2>3
    <2>5. x = g[j]
      <3> SUFFICES ASSUME x # g[j] PROVE FALSE
        OBVIOUS
      <3>1. /\ ist[j].k # "cleanup" => g[j] = g[j - 1] + 1
            /\ ist[j].k = "cleanup" => Unwinding(ist, j, est, g[j], g[j - 1] + 1)
            /\ Alike(ist[j], est[g[j]])
        BY DEF Placed
      <3>2. ist[j].k = "cleanup"
        BY <2>1, <2>2, <2>4, <3>1
      <3>3. est[g[j]].k = "cleanup" /\ est[g[j]].at = g[j - 1] + 1
        BY <3>1, <3>2 DEF Alike, Unwinding
      <3>4. g[j] \in 1 .. m
        <4>1. g[j] <= m
          <5>1. CASE j = n
            BY <1>1, <5>1
          <5>2. CASE j # n
            <6>1. j < n /\ n \in 0 .. n
              BY <1>1, <5>2
            <6>2. g[j] < g[n]
              BY <2>3, <6>1, Increasing
            <6>3. QED
              BY <1>1, <2>4, <6>2
          <5>3. QED
            BY <5>1, <5>2
        <4>2. QED
          BY <1>1, <2>1, <2>2, <2>4, <4>1
      <3>5. g[j] \in Of(est, {"cleanup"})
        BY <3>3, <3>4 DEF Of
      <3>6. x < g[j - 1] + 1 \/ x >= g[j]
        BY <2>1, <3>3, <3>5
      <3>7. QED
        BY <2>1, <2>2, <2>4, <3>6
    <2>6. QED
      BY <2>5
  <1>3. ASSUME NEW j \in 1 .. n PROVE g[j] \in Shown
    <2>1. j \in 0 .. n /\ n \in 0 .. n /\ 0 \in 0 .. n
      BY <1>1
    <2>2. g[j] \in 1 .. m
      <3>1. g[0] < g[j]
        BY <2>1, Increasing
      <3>2. j = n \/ g[j] < g[n]
        <4>1. j = n \/ j < n
          BY <1>1
        <4>2. QED
          BY <2>1, <4>1, Increasing
      <3>3. g[j] \in Nat
        BY <1>1, <2>1
      <3>4. QED
        BY <1>1, <3>1, <3>2, <3>3
    <2>3. ASSUME NEW c \in Of(est, {"cleanup"}) PROVE g[j] < est[c].at \/ g[j] >= c
      <3>1. c \in 1 .. m /\ est[c].k = "cleanup"
        BY DEF Of
      <3>2. PICK k \in 1 .. n : c = g[k] /\ est[c].at = g[k - 1] + 1
        BY <3>1, CleanupIsLevel
      <3>3. k \in 0 .. n /\ k - 1 \in 0 .. n
        BY <1>1
      <3>4. g[k] \in Nat /\ g[k - 1] \in Nat /\ g[j] \in Nat
        BY <1>1, <2>1, <3>3
      <3>5. CASE k <= j
        <4>1. k = j \/ k < j
          BY <3>5
        <4>2. k = j \/ g[k] < g[j]
          BY <2>1, <3>3, <4>1, Increasing
        <4>3. QED
          BY <3>2, <3>4, <4>2
      <3>6. CASE j < k
        <4>1. j = k - 1 \/ j < k - 1
          BY <3>6
        <4>2. j = k - 1 \/ g[j] < g[k - 1]
          BY <2>1, <3>3, <4>1, Increasing
        <4>3. g[j] <= g[k - 1]
          BY <3>4, <4>2
        <4>4. QED
          BY <3>2, <3>4, <4>3
      <3>7. QED
        BY <3>5, <3>6
    <2>4. QED
      BY <2>2, <2>3 DEF Shown
  <1>4. QED
    BY <1>2, <1>3

(* The n-th position shown is that of level n.                              *)
LEMMA PlaceIs ==
  ASSUME ist \in Seq(IFrame), est \in Seq(EFrame), NEW g, Placed(ist, est, g),
         g[Len(ist)] = Len(est)
  PROVE  /\ Cardinality(Shown) = Len(ist)
         /\ \A i \in 1 .. Len(ist) : Place(i) = g[i]
  <1> DEFINE n == Len(ist)
             below(z) == {q \in Shown : q <= z}
  <1>1. n \in Nat /\ \A i \in 1 .. n : i \in 0 .. n /\ g[i] \in Nat
    BY LenProperties DEF Placed
  <1>2. Shown = {g[i] : i \in 1 .. n}
    BY ShownIs
  <1>3. \A i \in 1 .. n : \A j \in 1 .. n : i < j => g[i] < g[j]
    BY <1>1, Increasing
  <1>4. ASSUME NEW k \in 1 .. n PROVE Cardinality(below(g[k])) = k
    <2>1. below(g[k]) = {g[i] : i \in 1 .. k}
      <3>1. ASSUME NEW q \in below(g[k]) PROVE q \in {g[i] : i \in 1 .. k}
        <4>1. PICK i \in 1 .. n : q = g[i]
          BY <1>2
        <4>2. g[i] <= g[k]
          BY <4>1
        <4>3. ~(k < i)
          BY <1>1, <1>3, <4>2
        <4>4. i \in 1 .. k
          BY <1>1, <4>3
        <4>5. QED
          BY <4>1, <4>4
      <3>2. ASSUME NEW i \in 1 .. k PROVE g[i] \in below(g[k])
        <4>1. i \in 1 .. n /\ (i = k \/ i < k)
          BY <1>1
        <4>2. g[i] <= g[k]
          BY <1>1, <1>3, <4>1
        <4>3. QED
          BY <1>2, <4>1, <4>2
      <3>3. QED
        BY <3>1, <3>2
    <2>2. k \in Nat /\ \A i \in 1 .. k : i \in 1 .. n
      BY <1>1
    <2>3. /\ \A i \in 1 .. k : g[i] \in Nat
          /\ \A i \in 1 .. k : \A j \in 1 .. k : i < j => g[i] < g[j]
      BY <1>1, <1>3, <2>2
    <2>4. Cardinality({g[i] : i \in 1 .. k}) = k
      BY <2>2, <2>3, CountLevels
    <2>5. QED
      BY <2>1, <2>4
  <1>5. Cardinality(Shown) = n
    <2>1. Cardinality({g[i] : i \in 1 .. n}) = n
      BY <1>1, <1>3, CountLevels
    <2>2. QED
      BY <1>2, <2>1
  <1>6. ASSUME NEW i \in 1 .. n PROVE Place(i) = g[i]
    <2>1. g[i] \in Shown /\ Cardinality(below(g[i])) = i
      BY <1>2, <1>4
    <2>2. ASSUME NEW z \in Shown, Cardinality(below(z)) = i PROVE z = g[i]
      <3>1. PICK k \in 1 .. n : z = g[k]
        BY <1>2
      <3>2. Cardinality(below(g[k])) = k
        BY <1>4
      <3>3. QED
        BY <2>2, <3>1, <3>2
    <2>3. Place(i) = CHOOSE z \in Shown : Cardinality(below(z)) = i
      BY DEF Place
    <2> HIDE DEF below
    <2>4. QED
      BY <2>1, <2>2, <2>3
  <1>7. QED
    BY <1>5, <1>6

(* Both views show the levels.                                              *)
LEMMA ViewsAgree ==
  ASSUME ist \in Seq(IFrame), est \in Seq(EFrame), NEW g, Placed(ist, est, g),
         g[Len(ist)] = Len(est)
  PROVE  IView = EView
  <1> DEFINE n == Len(ist)
  <1>1. Cardinality(Shown) = n /\ \A i \in 1 .. n : Place(i) = g[i]
    BY PlaceIs
  <1>2. ASSUME NEW i \in 1 .. n PROVE Seen(ist[i]) = Seen(est[g[i]])
    <2>1. Alike(ist[i], est[g[i]])
      BY DEF Placed
    <2>2. QED
      BY <2>1 DEF Alike, Seen
  <1>3. EView = [i \in 1 .. n |-> Seen(est[Place(i)])]
    BY <1>1 DEF EView
  <1>4. IView = [i \in 1 .. n |-> Seen(ist[i])]
    BY DEF IView
  <1>5. \A i \in 1 .. n : Seen(ist[i]) = Seen(est[Place(i)])
    BY <1>1, <1>2
  <1> HIDE DEF n
  <1>6. QED
    BY <1>3, <1>4, <1>5

-----------------------------------------------------------------------------
(***************************************************************************)
(* The theorems.                                                           *)
(***************************************************************************)

(* The inductive invariant: the oracle's own; where an operand, a handler   *)
(* and an argument are written; what the binary has still to do before it   *)
(* waits leads where the oracle is; and the program's dialect.              *)
Coupled == IInv /\ Shape(ist) /\ Linked /\ Agreeing

(* It holds before the first call.                                          *)
LEMMA CoupledInit ==
  ASSUME Dialects \subseteq SUBSET (AllForms \ Differing), Init
  PROVE  Coupled
  <1>1. /\ ist = <<>> /\ ifl = NoFlags /\ ialloc = HeapAlloc /\ iout = Unit
        /\ est = <<>> /\ ealloc = HeapAlloc /\ eret = <<"value", Unit>> /\ eout = Unit
    BY DEF Init, IInit, EInit
  <1>2. IInv
    BY InitInv DEF Init
  <1>3. Shape(ist)
    BY <1>1 DEF Shape
  <1>4. Agreeing
    BY DEF Init, Agreeing
  <1> DEFINE g == [i \in 0 .. Len(ist) |-> 0]
  <1>5. Placed(ist, est, g)
    BY <1>1 DEF Placed
  <1>6. Follows(ist, ifl, iout, <<>>, ResultOf(ifl))
    <2>1. ist \in Seq(IFrame) /\ ist = <<>> /\ ~ifl.trapped
      BY <1>1 DEF NoFlags
    <2> HIDE DEF g
    <2>2. QED
      BY <1>5, <2>1, Returned
  <1>7. ResultOf(ifl) = eret
    BY <1>1 DEF ResultOf, NoFlags
  <1>8. Tracked(State(est, ealloc, eret, eout), ist, ifl, ialloc, iout)
    <2>1. est \in Seq(EFrame) /\ eout = iout /\ ealloc = ialloc /\ est = <<>>
      BY <1>1
    <2>2. Follows(ist, ifl, iout, est, eret)
      BY <1>6, <1>7, <2>1
    <2>3. Tracked(State(est, ealloc, eret, iout), ist, ifl, ialloc, iout)
      BY <2>1, <2>2, ArriveAt
    <2>4. QED
      BY <2>1, <2>3
  <1>9. QED
    BY <1>2, <1>3, <1>4, <1>8 DEF Coupled, Linked, Now

(* A step of the two is a step of the oracle, or none.                      *)
LEMMA OracleSteps ==
  ASSUME [Next]_vars
  PROVE  [INext]_ivars
  <1>1. CASE Statement
    BY <1>1, StatementIs DEF INext
  <1>2. CASE Stopped \/ Binary \/ UNCHANGED vars
    BY <1>2 DEF Stopped, Binary, vars, ivars
  <1>3. CASE Oracle
    BY <1>3 DEF Oracle, INext
  <1>4. QED
    BY <1>1, <1>2, <1>3 DEF Next

(* Every step keeps it.                                                     *)
LEMMA CoupledNext ==
  ASSUME Coupled, [Next]_vars
  PROVE  Coupled'
  <1>1. IInv /\ ITypeOK /\ Shape(ist) /\ Linked /\ Agreeing
    BY DEF Coupled, IInv
  <1>2. [INext]_ivars
    BY OracleSteps
  <1>3. IInv'
    BY <1>1, <1>2, KeepsInv
  <1>4. Shape(ist)'
    BY <1>1, <1>2, ShapeHolds
  <1>5. Agreeing'
    BY <1>1 DEF Next, vars, Agreeing
  <1>6. Linked'
    <2>1. CASE Statement
      BY <1>1, <2>1, StatementFollowed
    <2>2. CASE Stopped \/ UNCHANGED vars
      <3>1. UNCHANGED <<ist, ifl, ialloc, iout>> /\ UNCHANGED evars
        BY <2>2 DEF Stopped, vars, ivars
      <3>2. Now' = Now
        BY <3>1 DEF Now, evars, State
      <3>3. Tracked(Now', ist', ifl', ialloc', iout')
        BY <1>1, <3>1, <3>2 DEF Linked
      <3>4. QED
        BY <3>3 DEF Linked, Tracked, Reaches, Follows, Dead, Settled, Leaving, BareLevel,
                  BareCleanup, Bare, Bound, State
    <2>3. CASE Oracle
      <3>1. IStep /\ UNCHANGED evars
        BY <2>3 DEF Oracle
      <3> DEFINE e == Now
      <3>2. Now' = e
        BY <3>1 DEF Now, evars, State
      <3>3. Tracked(e, ist, ifl, ialloc, iout)
        BY <1>1 DEF Linked
      <3> HIDE DEF e
      <3>4. Tracked(e, ist', ifl', ialloc', iout')
        BY <1>1, <3>1, <3>3, OracleFollowed
      <3>5. Tracked(Now', ist', ifl', ialloc', iout')
        BY <3>2, <3>4
      <3>6. QED
        BY <3>5 DEF Linked, Tracked, Reaches, Follows, Dead, Settled, Leaving, BareLevel,
                  BareCleanup, Bare, Bound, State
    <2>4. CASE Binary
      BY <1>1, <2>4, BinaryFollowed
    <2>5. QED
      BY <2>1, <2>2, <2>3, <2>4 DEF Next
  <1>7. QED
    BY <1>3, <1>4, <1>5, <1>6 DEF Coupled

(* Every step of the oracle is followed by the binary, and every step of    *)
(* the binary is on its way there.                                          *)
THEOREM CoupledHolds ==
  ASSUME Dialects \subseteq SUBSET (AllForms \ Differing)
  PROVE  Spec => []Coupled
  <1>1. Init => Coupled
    BY CoupledInit
  <1>2. Coupled /\ [Next]_vars => Coupled'
    BY CoupledNext
  <1>3. QED
    BY <1>1, <1>2, PTL DEF Spec

(* Whenever both executions wait for the program they are at the same place *)
(* of it, with the same cleanup owed and the same value or error.           *)
THEOREM SamePlaceHolds ==
  ASSUME Dialects \subseteq SUBSET (AllForms \ Differing)
  PROVE  Spec => []SamePlace
  <1>1. Coupled => SamePlace
    <2> SUFFICES ASSUME Coupled, Ready
                 PROVE  IView = EView /\ iout = eout /\ (ist = <<>> => IResult = eret)
      BY DEF SamePlace
    <2>1. ITypeOK /\ Together /\ ist \in Seq(IFrame) /\ est \in Seq(EFrame) /\ iout = eout
      <3>1. ITypeOK /\ Tracked(Now, ist, ifl, ialloc, iout) /\ IQuiet /\ EQuiet
        BY DEF Coupled, IInv, Linked, Ready
      <3>2. Together
        BY <3>1, ReadyIs
      <3>3. QED
        BY <3>1, <3>2 DEF ITypeOK, Together
    <2>2. CASE \E g : Settled(ist, ifl, iout, est, eret, g)
      <3>1. PICK g : Settled(ist, ifl, iout, est, eret, g)
        BY <2>2
      <3>2. IView = EView
        BY <2>1, <3>1, ViewsAgree DEF Settled
      <3>3. ist = <<>> => IResult = eret
        BY <3>1 DEF Settled, ResultOf, IResult
      <3>4. QED
        BY <2>1, <3>2, <3>3
    <2>3. CASE ist = <<>> /\ Dead(ifl, iout, est, eret)
      <3> DEFINE g == [i \in 0 .. Len(ist) |-> 0]
      <3>1. Placed(ist, est, g) /\ g[Len(ist)] = Len(est)
        BY <2>3 DEF Placed, Dead
      <3> HIDE DEF g
      <3>2. IView = EView
        BY <2>1, <3>1, ViewsAgree
      <3>3. IResult = eret
        BY <2>3 DEF Dead, IResult
      <3>4. QED
        BY <2>1, <3>2, <3>3
    <2>4. QED
      BY <2>1, <2>2, <2>3 DEF Together
  <1>2. Spec => []Coupled
    BY CoupledHolds
  <1>3. QED
    BY <1>1, <1>2, PTL

(* The same allocator is current in both, and outside every `with` it is    *)
(* the caller's, however the scopes were left.                              *)
THEOREM SameAllocatorHolds ==
  ASSUME Dialects \subseteq SUBSET (AllForms \ Differing)
  PROVE  Spec => []SameAllocator
  <1>1. Coupled => SameAllocator
    <2> SUFFICES ASSUME Coupled, Ready, ~ifl.trapped
                 PROVE  ialloc = ealloc /\ (Of(ist, {"with"}) = {} => ealloc = HeapAlloc)
      BY DEF SameAllocator
    <2>1. ialloc = ealloc
      <3>1. ITypeOK /\ Tracked(Now, ist, ifl, ialloc, iout) /\ IQuiet /\ EQuiet
        BY DEF Coupled, IInv, Linked, Ready
      <3>2. Together
        BY <3>1, ReadyIs
      <3>3. QED
        BY <3>2 DEF Together
    <2>2. Of(ist, {"with"}) = {} => ialloc = HeapAlloc
      BY DEF Coupled, IInv, OutsideWith, Of
    <2>3. QED
      BY <2>1, <2>2
  <1>2. Spec => []Coupled
    BY CoupledHolds
  <1>3. QED
    BY <1>1, <1>2, PTL

=============================================================================
