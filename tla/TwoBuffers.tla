---------------------------- MODULE TwoBuffers ----------------------------
(***************************************************************************)
(* One FixedBuffer in both executions.  The oracle has no bytes: it counts *)
(* what the buffer would hold (interp/memory.cpp, memory.grow in           *)
(* interp/call.cpp).  The program sees whether each request was met.       *)
(***************************************************************************)
EXTENDS FixedBuffer

CONSTANT NoBlock    (* no block of the program *)

ASSUME NoBlockAssumption == NoBlock \notin Blocks

VARIABLES
  iused,    (* the used field of the buffer's value                         *)
  ilast,    (* fb_last_start, fb_last_end; the two are 0 when fb_last is not*)
            (* set                                                          *)
  itail,    (* bump_ptr: the block the oracle would let grow                *)
  igot,     (* what the last operation came to in the oracle                *)
  newest,   (* the block the program was given last                         *)
  both      (* the program is run by both executions, or by the binary alone*)

ivars == <<iused, ilast, itail, igot, newest>>
vars == <<fvars, ivars, both>>

NotSet == [start |-> 0, end |-> 0]

Init ==
  /\ FInit
  /\ iused = 0 /\ ilast = NotSet /\ itail = NoBlock /\ igot = "block"
  /\ newest = NoBlock
  /\ both \in BOOLEAN

-----------------------------------------------------------------------------
(* The first multiple of a from n on.                                       *)
RoundUp(n, a) == IF n % a = 0 THEN n ELSE n + (a - (n % a))

(* Mutant: the bytes skipped for alignment are not counted.                 *)
BumpFixedPacked(n, a) ==
  \/ /\ RoundUp(iused, a) + n <= Cap
     /\ iused' = iused + n
     /\ ilast' = [start |-> iused, end |-> iused + n]
     /\ igot' = "block"
  \/ /\ RoundUp(iused, a) + n > Cap
     /\ igot' = "exhausted"
     /\ UNCHANGED <<iused, ilast>>

(* bump_fixed, which looks at the wrap-around: the exact sum is compared.   *)
BumpFixed(n, a) ==
  LET start == RoundUp(iused, a) IN
  \/ /\ start + n <= Cap
     /\ iused' = start + n
     /\ ilast' = [start |-> start, end |-> start + n]
     /\ igot' = "block"
  \/ /\ start + n > Cap
     /\ igot' = "exhausted"
     /\ UNCHANGED <<iused, ilast>>

(* take_bytes asks for nothing where the size is 0.                         *)
TakeBytes(n, a) ==
  IF n = 0
  THEN igot' = "block" /\ UNCHANGED <<iused, ilast>>
  ELSE BumpFixed(n, a)

(* `new T[n]` makes its span the one that may grow, `new T` does not.       *)
INewSpan(b, n, a) ==
  /\ TakeBytes(n, a)
  /\ itail' = IF igot' = "block" THEN b ELSE itail
INewOne(n, a) ==
  /\ TakeBytes(n, a)
  /\ UNCHANGED itail

(* release_bytes: the last block goes back, whichever was freed, unless it  *)
(* has grown since.                                                         *)
TakesBack == ilast # NotSet /\ iused = ilast.end

IFree ==
  /\ IF TakesBack
     THEN iused' = ilast.start /\ ilast' = NotSet
     ELSE UNCHANGED <<iused, ilast>>
  /\ igot' = "block"
  /\ UNCHANGED itail

(* memory.grow: in place or not at all.                                     *)
IGrow(b, n) ==
  LET start == iused - len[b] IN
  \/ /\ itail = b /\ iused >= len[b] /\ start + n <= Cap
     /\ iused' = start + n
     /\ igot' = "block"
     /\ UNCHANGED <<ilast, itail>>
  \/ /\ ~(itail = b /\ iused >= len[b] /\ start + n <= Cap)
     /\ igot' = "exhausted"
     /\ UNCHANGED <<iused, ilast, itail>>

-----------------------------------------------------------------------------
(***************************************************************************)
(* The program.  Run by the binary alone it asks for anything.  Run by     *)
(* both, it frees no block that the oracle would take back and grows none  *)
(* but the newest, and no empty one: there the two executions part.        *)
(***************************************************************************)
NewSpan(b, n, a) ==
  /\ FNew(b, n, a) /\ INewSpan(b, n, a)
  /\ newest' = IF got' = "block" THEN b ELSE newest

NewOne(b, n, a) ==
  /\ n # 0
  /\ FNew(b, n, a) /\ INewOne(n, a)
  /\ newest' = IF got' = "block" THEN NoBlock ELSE newest

Free(b) ==
  /\ ~TakesBack
  /\ FFree(b) /\ IFree
  /\ newest' = NoBlock

Grow(b, n) ==
  /\ len[b] # 0 /\ b = newest
  /\ FGrow(b, n) /\ IGrow(b, n)
  /\ newest' = b

Request ==
  \E b \in Blocks, n \in Sizes :
    \/ Free(b)
    \/ Grow(b, n)
    \/ \E a \in Aligns : NewSpan(b, n, a) \/ NewOne(b, n, a)

Next ==
  \/ both /\ Request /\ UNCHANGED both
  \/ ~both /\ FNext /\ UNCHANGED <<ivars, both>>

Spec == Init /\ [][Next]_vars

-----------------------------------------------------------------------------
(* docs/DESIGN.md, Two executions: a request is met in both executions or   *)
(* in neither, whatever was asked for, refused and grown before it.         *)
SameOutcome == both => igot = got
=============================================================================
