---------------------------- MODULE FixedBuffer ----------------------------
(***************************************************************************)
(* The binary's FixedBuffer (runtime/lucb_rt.c), through the code that     *)
(* emit/memory.cpp and emit/call.cpp write for `new`, `free` and           *)
(* `memory.grow`.  Addresses are offsets into the buffer, and sums of      *)
(* size_t wrap.                                                            *)
(***************************************************************************)
EXTENDS Integers

CONSTANTS
  Blocks,   (* the program's block variables                                *)
  Cap,      (* f->cap                                                       *)
  Wrap,     (* size_t is counted modulo this                                *)
  Word,     (* sizeof(void* )                                               *)
  Sizes,    (* the sizes the program asks for                               *)
  Aligns    (* the alignments of its types, powers of two                   *)

ASSUME FixedAssumption ==
  /\ Cap \in Nat /\ Wrap \in Nat /\ Cap < Wrap
  /\ Word \in Aligns
  /\ Sizes \subseteq 0 .. Wrap - 1
  /\ Aligns \subseteq 1 .. Wrap - 1

ASSUME AlignsArePowersOfTwo == \A a \in Aligns : \E k \in 0 .. a : a = 2 ^ k

VARIABLES
  used,     (* f->used                                                      *)
  at,       (* where each block starts                                      *)
  len,      (* how long it is; 0 when it is empty or not held               *)
  got       (* "block", "exhausted": what the last operation came to        *)

fvars == <<used, at, len, got>>

(* An address outside the buffer: (void* )8, or that of no block at all.    *)
Nowhere == Cap + 1

(* The sum of two size_t.                                                   *)
Plus(x, y) == IF x + y < Wrap THEN x + y ELSE x + y - Wrap

(* align_up: the mask of a power of two.                                    *)
AlignUp(n, a) == LET x == Plus(n, a - 1) IN x - (x % a)

FInit ==
  /\ used = 0
  /\ at = [b \in Blocks |-> Nowhere]
  /\ len = [b \in Blocks |-> 0]
  /\ got = "block"

-----------------------------------------------------------------------------
FSet(b, p, n) ==
  /\ at' = [at EXCEPT ![b] = p]
  /\ len' = [len EXCEPT ![b] = n]
  /\ got' = "block"

(* lb_alloc_bytes, of a size that is not 0.                                 *)
AllocBytes(b, n, a) ==
  LET start == AlignUp(used, a) IN
  \/ /\ Plus(start, n) <= Cap
     /\ used' = Plus(start, n)
     /\ FSet(b, start, n)
  \/ /\ Plus(start, n) > Cap
     /\ got' = "exhausted"
     /\ UNCHANGED <<used, at, len>>

(* `new T[n]`, `new T` and memory.allocate: an empty block costs nothing.   *)
FNew(b, n, a) ==
  /\ len[b] = 0
  /\ IF n = 0
     THEN FSet(b, Nowhere, 0) /\ UNCHANGED used
     ELSE AllocBytes(b, n, a)

(* lb_release_bytes gives nothing back to the buffer.                       *)
FFree(b) ==
  /\ len[b] # 0
  /\ FSet(b, Nowhere, 0)
  /\ UNCHANGED used

(* Mutant: any block of the buffer passes for the last.                     *)
IsLastAnywhere(b) == at[b] <= Cap

(* The block ends where the used part of the buffer does.                   *)
IsLast(b) == at[b] + len[b] = used

(* memory.grow: lb_resize_bytes in place; when that refuses, a fresh block. *)
FGrow(b, n) ==
  \/ /\ n = len[b]
     /\ FSet(b, at[b], n)
     /\ UNCHANGED used
  \/ /\ n # len[b] /\ IsLast(b) /\ n <= Cap - at[b]
     /\ used' = at[b] + n
     /\ FSet(b, at[b], n)
  \/ /\ n # len[b] /\ ~IsLast(b) /\ n = 0
     /\ FSet(b, at[b], 0)
     /\ UNCHANGED used
  \/ /\ n # len[b] /\ n # 0 /\ ~(IsLast(b) /\ n <= Cap - at[b])
     /\ AllocBytes(b, n, Word)

FNext ==
  \E b \in Blocks :
    \/ FFree(b)
    \/ \E n \in Sizes : FGrow(b, n)
    \/ \E n \in Sizes, a \in Aligns : FNew(b, n, a)

FSpec == FInit /\ [][FNext]_fvars

-----------------------------------------------------------------------------
(***************************************************************************)
(* Properties.                                                             *)
(***************************************************************************)

(* No sum wraps: what the program must respect, as lb_alloc_bytes does not. *)
NoSumWraps == \A n \in Sizes, a \in Aligns : Cap + a + n <= Wrap

(* The variables have the types of their declarations.                      *)
FTypeOK ==
  /\ used \in 0 .. Cap
  /\ at \in [Blocks -> 0 .. Nowhere]
  /\ len \in [Blocks -> 0 .. Cap]
  /\ got \in {"block", "exhausted"}

(* A block of the buffer is a block of the abstract allocator.              *)
Promise == INSTANCE Allocator WITH Blocks <- Blocks, Cap <- Cap, at <- at, len <- len

(* The FixedBuffer keeps an allocator's promise through any sequence of     *)
(* new, free and grow, the growing of blocks that are not the last and the  *)
(* shrinking of the last to nothing included: every operation leaves the    *)
(* other blocks alone, and blocks lie apart and inside the buffer.          *)
KeepsPromise == Promise!AllocatorSpec

(* What makes the promise inductive: nothing beyond `used` is handed out.   *)
FInv ==
  /\ FTypeOK
  /\ \A b \in Blocks : len[b] = 0 \/ at[b] + len[b] <= used
  /\ Promise!WellPlaced

=============================================================================
