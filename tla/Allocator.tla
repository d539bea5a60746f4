----------------------------- MODULE Allocator -----------------------------
(***************************************************************************)
(* What a program may count on from an allocator over one buffer (the      *)
(* `Allocator` interface of check/builtins.cpp: allocate, resize,          *)
(* release): a block it holds lies inside the buffer and apart from every  *)
(* other, and an operation on one block touches no other.                  *)
(***************************************************************************)
EXTENDS Naturals

CONSTANTS
  Blocks,   (* the program's block variables                                *)
  Cap       (* the bytes of the buffer                                      *)

VARIABLES
  at,       (* where each block starts                                      *)
  len       (* how long it is; 0 when it is empty or not held               *)

ApartFrom(b, c) ==
  len[b] = 0 \/ len[c] = 0 \/ at[b] + len[b] <= at[c] \/ at[c] + len[c] <= at[b]

(* Every block the program holds is inside the buffer, and no two share a   *)
(* byte.                                                                    *)
WellPlaced ==
  /\ \A b \in Blocks : len[b] = 0 \/ at[b] + len[b] <= Cap
  /\ \A b, c \in Blocks : b # c => ApartFrom(b, c)

Init == \A b \in Blocks : len[b] = 0

(* An operation on b: whatever it does to b, the others stay as they are.   *)
OthersKept(b) ==
  \A c \in Blocks \ {b} : at'[c] = at[c] /\ len'[c] = len[c]

(* allocate, resize (in place or not) and release.                          *)
Allocate(b) == len[b] = 0 /\ OthersKept(b) /\ WellPlaced'
Resize(b) == len[b] # 0 /\ len'[b] # 0 /\ OthersKept(b) /\ WellPlaced'
Release(b) == len'[b] = 0 /\ OthersKept(b) /\ WellPlaced'

Next == \E b \in Blocks : Allocate(b) \/ Resize(b) \/ Release(b)

AllocatorSpec == Init /\ [][Next]_<<at, len>>
=============================================================================
