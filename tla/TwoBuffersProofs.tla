------------------------- MODULE TwoBuffersProofs -------------------------
(***************************************************************************)
(* The binary's FixedBuffer keeps an allocator's promise, and a request of *)
(* a FixedBuffer is met in both executions or in neither: for any buffer,  *)
(* any blocks, sizes and alignments whose sums fit in a size_t.            *)
(***************************************************************************)
EXTENDS TwoBuffers, TLAPS

-----------------------------------------------------------------------------
(***************************************************************************)
(* The binary's buffer.                                                    *)
(***************************************************************************)

(* align_up never goes back, and skips less than the alignment.             *)
LEMMA AlignUpFacts ==
  ASSUME NEW n \in 0 .. Cap, NEW a \in Aligns, Cap + a <= Wrap
  PROVE  /\ AlignUp(n, a) \in Nat
         /\ n <= AlignUp(n, a)
         /\ AlignUp(n, a) < n + a
  <1> DEFINE x == n + (a - 1)
  <1>1. a \in Nat /\ a > 0 /\ n \in Nat /\ Cap \in Nat /\ Wrap \in Nat
    BY FixedAssumption
  <1>2. Plus(n, a - 1) = x
    BY <1>1 DEF Plus
  <1>3. x \in Nat
    BY <1>1
  <1>4. x % a \in Nat /\ x % a < a
    BY <1>1, <1>3
  <1>5. AlignUp(n, a) = x - (x % a)
    BY <1>2 DEF AlignUp
  <1> HIDE DEF x
  <1>6. x - (x % a) <= x /\ x - (x % a) >= x - (a - 1)
    BY <1>1, <1>3, <1>4
  <1>7. QED
    BY <1>1, <1>3, <1>4, <1>5, <1>6 DEF x

(* The sums that lb_alloc_bytes makes are the exact ones.                   *)
LEMMA NoSumWrapsFacts ==
  ASSUME NoSumWraps, NEW n \in Sizes, NEW a \in Aligns, NEW u \in 0 .. Cap
  PROVE  /\ AlignUp(u, a) \in Nat
         /\ u <= AlignUp(u, a)
         /\ Plus(AlignUp(u, a), n) = AlignUp(u, a) + n
         /\ n \in Nat
  <1>1. a \in Nat /\ n \in Nat /\ u \in Nat /\ Cap \in Nat /\ Wrap \in Nat
    BY FixedAssumption
  <1>2. Cap + a + n <= Wrap
    BY DEF NoSumWraps
  <1>3. AlignUp(u, a) \in Nat /\ u <= AlignUp(u, a) /\ AlignUp(u, a) < u + a
    BY <1>1, <1>2, AlignUpFacts
  <1>4. AlignUp(u, a) + n < Wrap
    BY <1>1, <1>2, <1>3
  <1>5. QED
    BY <1>1, <1>3, <1>4 DEF Plus

-----------------------------------------------------------------------------
(* Setting one block to bytes at the end of what is used, to nothing, or to *)
(* a part of what it had, keeps the invariant: no other block ends beyond   *)
(* the place it is given.                                                   *)
LEMMA SetBlock ==
  ASSUME FInv, NEW b \in Blocks, NEW p \in 0 .. Nowhere, NEW n \in Nat,
         NEW u \in 0 .. Cap,
         used' = u,
         FSet(b, p, n),
         n = 0 \/ p + n <= u,
         \A c \in Blocks \ {b} :
           len[c] = 0 \/ (at[c] + len[c] <= u /\ (n = 0 \/ at[c] + len[c] <= p))
  PROVE  FInv' /\ Promise!WellPlaced' /\ Promise!OthersKept(b)
  <1>1. Cap \in Nat /\ p \in Nat /\ u \in Nat
    BY FixedAssumption DEF Nowhere
  <1>2. FTypeOK
    BY DEF FInv
  <1>3. /\ at' = [at EXCEPT ![b] = p] /\ len' = [len EXCEPT ![b] = n]
        /\ at \in [Blocks -> 0 .. Nowhere] /\ len \in [Blocks -> 0 .. Cap]
    BY <1>2 DEF FSet, FTypeOK
  <1>4. at'[b] = p /\ len'[b] = n
    BY <1>3
  <1>5. \A c \in Blocks \ {b} : at'[c] = at[c] /\ len'[c] = len[c]
    BY <1>3
  <1>6. \A c \in Blocks : at[c] \in Nat /\ len[c] \in Nat
    BY <1>1, <1>3 DEF Nowhere
  <1>7. FTypeOK'
    <2>1. n \in 0 .. Cap
      BY <1>1
    <2>2. QED
      BY <1>1, <1>3, <2>1 DEF FTypeOK, FSet, Nowhere
  <1>8. \A c \in Blocks : len'[c] = 0 \/ at'[c] + len'[c] <= u
    BY <1>4, <1>5
  <1>9. \A c \in Blocks : len'[c] = 0 \/ at'[c] + len'[c] <= Cap
    <2>1. TAKE c \in Blocks
    <2>2. at'[c] \in Nat /\ len'[c] \in Nat
      BY <1>1, <1>4, <1>5, <1>6
    <2>3. QED
      BY <1>1, <1>8, <2>2
  <1>10. \A c, d \in Blocks : c # d => Promise!ApartFrom(c, d)'
    <2>1. TAKE c, d \in Blocks
    <2>2. HAVE c # d
    <2>3. CASE c # b /\ d # b
      <3>1. Promise!ApartFrom(c, d)
        BY <2>2 DEF FInv, Promise!WellPlaced
      <3>2. QED
        BY <1>5, <2>3, <3>1 DEF Promise!ApartFrom
    <2>4. CASE c = b
      <3>1. len[d] = 0 \/ n = 0 \/ at[d] + len[d] <= p
        BY <2>2, <2>4
      <3>2. QED
        BY <1>4, <1>5, <2>2, <2>4, <3>1 DEF Promise!ApartFrom
    <2>5. CASE d = b
      <3>1. len[c] = 0 \/ n = 0 \/ at[c] + len[c] <= p
        BY <2>2, <2>5
      <3>2. QED
        BY <1>4, <1>5, <2>2, <2>5, <3>1 DEF Promise!ApartFrom
    <2>6. QED
      BY <2>3, <2>4, <2>5
  <1>11. Promise!WellPlaced'
    BY <1>9, <1>10 DEF Promise!WellPlaced
  <1>12. QED
    BY <1>5, <1>7, <1>8, <1>11 DEF FInv, Promise!OthersKept

(* A step of one block: the invariant holds after it, and it is a step of   *)
(* the abstract allocator or none at all.                                   *)
Kept(b) ==
  FInv' /\ (UNCHANGED <<at, len>> \/ (Promise!WellPlaced' /\ Promise!OthersKept(b)))

(* lb_alloc_bytes takes fresh bytes or leaves everything as it is.          *)
LEMMA AllocKept ==
  ASSUME FInv, NoSumWraps, NEW b \in Blocks, NEW n \in Sizes, NEW a \in Aligns,
         n # 0, AllocBytes(b, n, a)
  PROVE  Kept(b)
  <1> DEFINE start == AlignUp(used, a)
  <1>1. used \in 0 .. Cap /\ Cap \in Nat /\ FTypeOK
    BY FixedAssumption DEF FInv, FTypeOK
  <1>2. start \in Nat /\ used <= start /\ Plus(start, n) = start + n /\ n \in Nat
    BY <1>1, NoSumWrapsFacts
  <1>3. \A c \in Blocks : at[c] \in Nat /\ len[c] \in Nat
    BY <1>1 DEF FTypeOK, Nowhere
  <1> HIDE DEF start
  <1>4. CASE /\ Plus(start, n) <= Cap /\ used' = Plus(start, n)
             /\ FSet(b, start, n)
    <2>1. start \in 0 .. Nowhere /\ start + n \in 0 .. Cap /\ used' = start + n
      BY <1>1, <1>2, <1>4 DEF Nowhere
    <2>2. \A c \in Blocks \ {b} :
            len[c] = 0 \/ (at[c] + len[c] <= start + n /\ at[c] + len[c] <= start)
      <3>1. TAKE c \in Blocks \ {b}
      <3>2. len[c] = 0 \/ at[c] + len[c] <= used
        BY DEF FInv
      <3>3. QED
        BY <1>1, <1>2, <1>3, <3>2
    <2>3. QED
      BY <1>2, <1>4, <2>1, <2>2, SetBlock DEF Kept
  <1>5. CASE got' = "exhausted" /\ UNCHANGED <<used, at, len>>
    <2>1. FTypeOK'
      BY <1>1, <1>5 DEF FTypeOK
    <2>2. Promise!WellPlaced'
      BY <1>5 DEF FInv, Promise!WellPlaced, Promise!ApartFrom
    <2>3. QED
      BY <1>5, <2>1, <2>2 DEF Kept, FInv
  <1>6. QED
    BY <1>4, <1>5 DEF AllocBytes, start

(* Every block that is handed out ends inside the used part of the buffer,  *)
(* so an empty block may be put anywhere.                                   *)
LEMMA EmptyKept ==
  ASSUME FInv, NEW b \in Blocks, NEW p \in 0 .. Nowhere, FSet(b, p, 0),
         used' = used
  PROVE  Kept(b)
  <1>1. used \in 0 .. Cap
    BY DEF FInv, FTypeOK
  <1>2. \A c \in Blocks \ {b} : len[c] = 0 \/ at[c] + len[c] <= used
    BY DEF FInv
  <1>3. QED
    BY <1>1, <1>2, SetBlock DEF Kept

(* memory.grow.                                                             *)
LEMMA GrowKept ==
  ASSUME FInv, NoSumWraps, NEW b \in Blocks, NEW n \in Sizes, FGrow(b, n)
  PROVE  Kept(b)
  <1>1. used \in 0 .. Cap /\ Cap \in Nat /\ FTypeOK /\ n \in Nat
    BY FixedAssumption DEF FInv, FTypeOK
  <1>2. \A c \in Blocks : at[c] \in 0 .. Nowhere /\ at[c] \in Nat /\ len[c] \in Nat
    BY <1>1 DEF FTypeOK, Nowhere
  <1>3. CASE n = len[b] /\ FSet(b, at[b], n) /\ UNCHANGED used
    <2>1. at' = at /\ len' = len
      BY <1>1, <1>3 DEF FSet, FTypeOK
    <2>2. FTypeOK'
      BY <1>1, <1>3, <2>1 DEF FTypeOK, FSet
    <2>3. Promise!WellPlaced'
      BY <2>1 DEF FInv, Promise!WellPlaced, Promise!ApartFrom
    <2>4. QED
      BY <1>3, <2>1, <2>2, <2>3 DEF Kept, FInv
  <1>4. CASE /\ IsLast(b) /\ n <= Cap - at[b]
             /\ used' = at[b] + n /\ FSet(b, at[b], n)
    <2>1. at[b] + n \in 0 .. Cap /\ at[b] + len[b] = used
      BY <1>1, <1>2, <1>4 DEF IsLast
    <2>2. \A c \in Blocks \ {b} : len[c] = 0 \/ at[c] + len[c] <= at[b]
      <3>1. TAKE c \in Blocks \ {b}
      <3>2. len[c] = 0 \/ at[c] + len[c] <= used
        BY DEF FInv
      <3>3. Promise!ApartFrom(b, c)
        BY DEF FInv, Promise!WellPlaced
      <3>4. QED
        BY <1>1, <1>2, <2>1, <3>2, <3>3 DEF Promise!ApartFrom
    <2>3. \A c \in Blocks \ {b} :
            len[c] = 0 \/ (at[c] + len[c] <= at[b] + n /\ at[c] + len[c] <= at[b])
      <3>1. TAKE c \in Blocks \ {b}
      <3>2. /\ at[b] \in Nat /\ at[c] \in Nat /\ len[c] \in Nat /\ n \in Nat
            /\ len[c] = 0 \/ at[c] + len[c] <= at[b]
        BY <1>1, <1>2, <2>2
      <3>3. QED
        BY <3>2
    <2>4. QED
      BY <1>1, <1>2, <1>4, <2>1, <2>3, SetBlock DEF Kept
  <1>5. CASE n = 0 /\ FSet(b, at[b], 0) /\ UNCHANGED used
    BY <1>2, <1>5, EmptyKept
  <1>6. CASE n # 0 /\ AllocBytes(b, n, Word)
    BY <1>6, AllocKept, FixedAssumption
  <1>7. QED
    BY <1>3, <1>4, <1>5, <1>6 DEF FGrow

(* Every operation of the buffer.                                           *)
LEMMA StepKept ==
  ASSUME FInv, NoSumWraps, FNext
  PROVE  \E b \in Blocks : Kept(b)
  <1>1. Nowhere \in 0 .. Nowhere
    BY FixedAssumption DEF Nowhere
  <1>2. PICK b \in Blocks :
          \/ FFree(b)
          \/ \E n \in Sizes : FGrow(b, n)
          \/ \E n \in Sizes, a \in Aligns : FNew(b, n, a)
    BY DEF FNext
  <1>3. CASE FFree(b)
    BY <1>1, <1>3, EmptyKept DEF FFree
  <1>4. CASE \E n \in Sizes : FGrow(b, n)
    BY <1>4, GrowKept
  <1>5. CASE \E n \in Sizes, a \in Aligns : FNew(b, n, a)
    <2>1. PICK n \in Sizes, a \in Aligns : FNew(b, n, a)
      BY <1>5
    <2>2. CASE n = 0
      BY <1>1, <2>1, <2>2, EmptyKept DEF FNew
    <2>3. CASE n # 0
      BY <2>1, <2>3, AllocKept DEF FNew
    <2>4. QED
      BY <2>2, <2>3
  <1>6. QED
    BY <1>2, <1>3, <1>4, <1>5

(* The first state of the buffer: no block is held.                         *)
LEMMA FInitInv == FInit => FInv /\ Promise!Init
  <1>1. SUFFICES ASSUME FInit PROVE FInv /\ Promise!Init
    OBVIOUS
  <1>2. FTypeOK
    BY <1>1, FixedAssumption DEF FInit, FTypeOK, Nowhere
  <1>3. \A b \in Blocks : len[b] = 0
    BY <1>1 DEF FInit
  <1>4. QED
    BY <1>2, <1>3 DEF FInv, Promise!Init, Promise!WellPlaced, Promise!ApartFrom

(* The invariant of lb_alloc_bytes and lb_resize_bytes: nothing beyond      *)
(* `used` is handed out, and blocks lie apart.                              *)
THEOREM BufferInvariant ==
  ASSUME NoSumWraps
  PROVE  FSpec => []FInv
  <1>1. FInv /\ [FNext]_fvars => FInv'
    <2>1. SUFFICES ASSUME FInv, [FNext]_fvars PROVE FInv'
      OBVIOUS
    <2>2. CASE FNext
      BY <2>1, <2>2, StepKept DEF Kept
    <2>3. CASE UNCHANGED fvars
      BY <2>1, <2>3
      DEF fvars, FInv, FTypeOK, Promise!WellPlaced, Promise!ApartFrom
    <2>4. QED
      BY <2>1, <2>2, <2>3
  <1>2. QED
    BY <1>1, FInitInv, PTL DEF FSpec

(* `used` never passes the end of the buffer, and no block is longer than   *)
(* it, at any alignment.                                                    *)
THEOREM BufferTypeCorrect ==
  ASSUME NoSumWraps
  PROVE  FSpec => []FTypeOK
  <1>1. FInv => FTypeOK
    BY DEF FInv
  <1>2. QED
    BY <1>1, BufferInvariant, PTL

(* The binary's FixedBuffer implements the abstract allocator: no operation *)
(* touches a block other than its own, and blocks lie apart and inside the  *)
(* buffer, for every size of it and every sequence of new, free and grow.   *)
THEOREM BufferKeepsPromise ==
  ASSUME NoSumWraps
  PROVE  FSpec => KeepsPromise
  <1>1. FInv /\ [FNext]_fvars => [Promise!Next]_<<at, len>>
    <2>1. SUFFICES ASSUME FInv, FNext PROVE [Promise!Next]_<<at, len>>
      BY DEF fvars
    <2>2. PICK b \in Blocks : Kept(b)
      BY <2>1, StepKept
    <2>3. CASE UNCHANGED <<at, len>>
      BY <2>3
    <2>4. CASE Promise!WellPlaced' /\ Promise!OthersKept(b)
      BY <2>4 DEF Promise!Next, Promise!Allocate, Promise!Resize, Promise!Release
    <2>5. QED
      BY <2>2, <2>3, <2>4 DEF Kept
  <1>2. QED
    BY <1>1, BufferInvariant, FInitInv, PTL
    DEF FSpec, KeepsPromise, Promise!AllocatorSpec

-----------------------------------------------------------------------------
(***************************************************************************)
(* The two buffers.                                                        *)
(***************************************************************************)

(* What there is after the quotient, when it is less than the divisor, is   *)
(* the remainder.                                                           *)
LEMMA RemainderIs ==
  ASSUME NEW x \in Nat, NEW a \in Nat, NEW q \in Nat, NEW r \in Nat,
         r < a, x = a * q + r
  PROVE  x % a = r
  OBVIOUS

(* The mask of the binary and the remainder of the oracle round alike.      *)
LEMMA RoundsAlike ==
  ASSUME NEW n \in 0 .. Cap, NEW a \in Aligns, Cap + a <= Wrap
  PROVE  RoundUp(n, a) = AlignUp(n, a)
  <1> DEFINE x == n + (a - 1)
             q == n \div a
             r == n % a
  <1>1. a \in Nat /\ a > 0 /\ n \in Nat /\ Cap \in Nat /\ Wrap \in Nat
    BY FixedAssumption
  <1>2. n = a * q + r /\ q \in Nat /\ r \in Nat /\ r < a
    BY <1>1
  <1>3. AlignUp(n, a) = x - (x % a)
    BY <1>1 DEF AlignUp, Plus
  <1>4. x \in Nat
    BY <1>1
  <1>5. RoundUp(n, a) = IF r = 0 THEN n ELSE n + (a - r)
    BY DEF RoundUp
  <1> HIDE DEF x, q, r
  <1>6. CASE r = 0
    <2>1. x = a * q + (a - 1) /\ a - 1 \in Nat /\ a - 1 < a
      BY <1>1, <1>2, <1>6 DEF x
    <2>2. x % a = a - 1
      BY <1>1, <1>2, <1>4, <2>1, RemainderIs
    <2>3. QED
      BY <1>1, <1>3, <1>5, <1>6, <2>2 DEF x
  <1>7. CASE r # 0
    <2>1. a * (q + 1) = a * q + a
      BY <1>1, <1>2
    <2>2. x = a * (q + 1) + (r - 1) /\ r - 1 \in Nat /\ r - 1 < a /\ q + 1 \in Nat
      BY <1>1, <1>2, <1>7, <2>1 DEF x
    <2>3. x % a = r - 1
      BY <1>1, <1>4, <2>2, RemainderIs
    <2>4. QED
      BY <1>1, <1>2, <1>3, <1>5, <1>7, <2>3 DEF x
  <1>8. QED
    BY <1>6, <1>7

-----------------------------------------------------------------------------
(* What the two keep alike: the bytes counted, and the block that is the    *)
(* last of the buffer, when the program was given one and still holds it.   *)
Alike ==
  /\ iused = used /\ igot = got
  /\ newest \in Blocks /\ len[newest] # 0 => itail = newest /\ IsLast(newest)

BothInv == FInv /\ both \in BOOLEAN /\ (both => Alike)

(* A request of fresh bytes is met in both or in neither, at the same place.*)
LEMMA TakesAlike ==
  ASSUME NoSumWraps, FInv, iused = used, NEW b \in Blocks, NEW n \in Sizes, NEW a \in Aligns,
         n # 0, AllocBytes(b, n, a), BumpFixed(n, a)
  PROVE  /\ iused' = used' /\ igot' = got'
         /\ \/ got' = "block" /\ len'[b] = n /\ at'[b] + len'[b] = used'
            \/ got' = "exhausted" /\ UNCHANGED <<used, at, len>>
  <1> DEFINE start == AlignUp(used, a)
  <1>1. /\ used \in 0 .. Cap /\ a \in Nat /\ Cap \in Nat /\ Wrap \in Nat /\ n \in Nat
        /\ at \in [Blocks -> 0 .. Nowhere] /\ len \in [Blocks -> 0 .. Cap]
    BY FixedAssumption DEF FInv, FTypeOK
  <1>2. start \in Nat /\ Plus(start, n) = start + n
    BY <1>1, NoSumWrapsFacts
  <1>3. Cap + a + n <= Wrap
    BY DEF NoSumWraps
  <1>4. RoundUp(iused, a) = start
    BY <1>1, <1>3, RoundsAlike
  <1> HIDE DEF start
  <1>5. CASE start + n <= Cap
    <2>1. used' = start + n /\ FSet(b, start, n)
      BY <1>1, <1>2, <1>5 DEF AllocBytes, start
    <2>2. iused' = start + n /\ igot' = "block"
      BY <1>1, <1>2, <1>4, <1>5 DEF BumpFixed
    <2>3. at'[b] = start /\ len'[b] = n /\ got' = "block"
      BY <1>1, <2>1 DEF FSet
    <2>4. QED
      BY <2>1, <2>2, <2>3
  <1>6. CASE ~(start + n <= Cap)
    <2>1. got' = "exhausted" /\ UNCHANGED <<used, at, len>>
      BY <1>1, <1>2, <1>6 DEF AllocBytes, start
    <2>2. UNCHANGED iused /\ igot' = "exhausted"
      BY <1>1, <1>2, <1>4, <1>6 DEF BumpFixed
    <2>3. QED
      BY <2>1, <2>2
  <1>7. QED
    BY <1>5, <1>6

(* `new T[n]`: the block given is the last, and the one the oracle lets     *)
(* grow.                                                                    *)
LEMMA SpanAlike ==
  ASSUME NoSumWraps, FInv, Alike, NEW b \in Blocks, NEW n \in Sizes, NEW a \in Aligns,
         NewSpan(b, n, a)
  PROVE  Alike'
  <1>1. len \in [Blocks -> 0 .. Cap] /\ at \in [Blocks -> 0 .. Nowhere]
    BY DEF FInv, FTypeOK
  <1>2. CASE n = 0
    <2>1. /\ used' = used /\ iused' = iused /\ got' = "block" /\ igot' = "block"
          /\ len'[b] = 0 /\ newest' = b
      BY <1>1, <1>2 DEF NewSpan, FNew, INewSpan, TakeBytes, FSet
    <2>2. QED
      BY <2>1 DEF Alike
  <1>3. CASE n # 0
    <2>1. AllocBytes(b, n, a) /\ BumpFixed(n, a)
      BY <1>3 DEF NewSpan, FNew, INewSpan, TakeBytes
    <2>2. /\ iused' = used' /\ igot' = got'
          /\ \/ got' = "block" /\ len'[b] = n /\ at'[b] + len'[b] = used'
             \/ got' = "exhausted" /\ UNCHANGED <<used, at, len>>
      BY <1>3, <2>1, TakesAlike DEF Alike
    <2>3. CASE got' = "block" /\ at'[b] + len'[b] = used'
      <3>1. newest' = b /\ itail' = b
        BY <2>2, <2>3 DEF NewSpan, INewSpan
      <3>2. QED
        BY <2>2, <2>3, <3>1 DEF Alike, IsLast
    <2>4. CASE got' = "exhausted" /\ UNCHANGED <<used, at, len>>
      <3>1. newest' = newest /\ itail' = itail
        BY <2>2, <2>4 DEF NewSpan, INewSpan
      <3>2. QED
        BY <2>2, <2>4, <3>1 DEF Alike, IsLast
    <2>5. QED
      BY <2>2, <2>3, <2>4
  <1>4. QED
    BY <1>2, <1>3

(* `new T`: no block may grow after it.                                     *)
LEMMA OneAlike ==
  ASSUME NoSumWraps, FInv, Alike, NEW b \in Blocks, NEW n \in Sizes, NEW a \in Aligns,
         NewOne(b, n, a)
  PROVE  Alike'
  <1>1. n # 0 /\ AllocBytes(b, n, a) /\ BumpFixed(n, a) /\ itail' = itail
    BY DEF NewOne, FNew, INewOne, TakeBytes
  <1>2. /\ iused' = used' /\ igot' = got'
        /\ \/ got' = "block"
           \/ got' = "exhausted" /\ UNCHANGED <<used, at, len>>
    BY <1>1, TakesAlike DEF Alike
  <1>3. CASE got' = "block"
    <2>1. newest' \notin Blocks
      BY <1>3, NoBlockAssumption DEF NewOne
    <2>2. QED
      BY <1>2, <2>1 DEF Alike
  <1>4. CASE got' = "exhausted" /\ UNCHANGED <<used, at, len>>
    <2>1. newest' = newest
      BY <1>4 DEF NewOne
    <2>2. QED
      BY <1>1, <1>2, <1>4, <2>1 DEF Alike, IsLast
  <1>5. QED
    BY <1>2, <1>3, <1>4

(* `free` gives nothing back in either.                                     *)
LEMMA FreeAlike ==
  ASSUME Alike, NEW b \in Blocks, Free(b)
  PROVE  Alike'
  <1>1. /\ used' = used /\ iused' = iused /\ got' = "block" /\ igot' = "block"
        /\ newest' \notin Blocks
    BY NoBlockAssumption DEF Free, FFree, IFree, FSet
  <1>2. QED
    BY <1>1 DEF Alike

(* memory.grow of the last block: in place in both, or in neither, and then *)
(* no fresh bytes are found in the binary, for they would lie further on.   *)
LEMMA GrowAlike ==
  ASSUME NoSumWraps, FInv, Alike, NEW b \in Blocks, NEW n \in Sizes, Grow(b, n)
  PROVE  Alike'
  <1>1. /\ used \in 0 .. Cap /\ Cap \in Nat /\ n \in Nat
        /\ at \in [Blocks -> 0 .. Nowhere] /\ len \in [Blocks -> 0 .. Cap]
        /\ at[b] \in Nat /\ len[b] \in Nat
    BY FixedAssumption DEF FInv, FTypeOK, Nowhere
  <1>2. /\ len[b] # 0 /\ b = newest /\ newest' = b /\ itail = b /\ iused = used
        /\ IsLast(b) /\ at[b] + len[b] = used /\ FGrow(b, n) /\ IGrow(b, n)
    BY DEF Grow, Alike, IsLast
  <1>3. iused >= len[b] /\ iused - len[b] = at[b]
    BY <1>1, <1>2
  <1>4. CASE at[b] + n <= Cap
    <2>1. iused' = at[b] + n /\ igot' = "block" /\ itail' = itail
      BY <1>2, <1>3, <1>4 DEF IGrow
    <2>2. used' = at[b] + n /\ FSet(b, at[b], n)
      BY <1>1, <1>2, <1>4 DEF FGrow
    <2>3. at'[b] = at[b] /\ len'[b] = n /\ got' = "block"
      BY <1>1, <2>2 DEF FSet
    <2>4. QED
      BY <1>2, <2>1, <2>2, <2>3 DEF Alike, IsLast
  <1>5. CASE ~(at[b] + n <= Cap)
    <2>1. igot' = "exhausted" /\ iused' = iused /\ itail' = itail
      BY <1>2, <1>3, <1>5 DEF IGrow
    <2>2. n # len[b] /\ n # 0 /\ ~(n <= Cap - at[b])
      BY <1>1, <1>2, <1>5
    <2>3. AllocBytes(b, n, Word)
      BY <1>2, <2>2 DEF FGrow
    <2>4. /\ AlignUp(used, Word) \in Nat /\ used <= AlignUp(used, Word)
          /\ Plus(AlignUp(used, Word), n) = AlignUp(used, Word) + n
      BY <1>1, FixedAssumption, NoSumWrapsFacts
    <2>5. Plus(AlignUp(used, Word), n) > Cap
      BY <1>1, <1>2, <1>5, <2>4
    <2>6. got' = "exhausted" /\ UNCHANGED <<used, at, len>>
      BY <1>1, <2>3, <2>4, <2>5 DEF AllocBytes
    <2>7. QED
      BY <1>2, <2>1, <2>6 DEF Alike, IsLast
  <1>6. QED
    BY <1>4, <1>5

(* What both do is what the binary alone does.                              *)
LEMMA BinaryStep ==
  ASSUME Next
  PROVE  FNext
  BY DEF Next, Request, Free, Grow, NewSpan, NewOne, FNext

(* The two agree throughout.                                                *)
THEOREM AlikeHolds ==
  ASSUME NoSumWraps
  PROVE  Spec => []BothInv
  <1>1. Init => BothInv
    <2>1. SUFFICES ASSUME Init PROVE BothInv
      OBVIOUS
    <2>2. FInv
      BY <2>1, FInitInv DEF Init
    <2>3. Alike
      BY <2>1, NoBlockAssumption DEF Init, FInit, Alike
    <2>4. QED
      BY <2>1, <2>2, <2>3 DEF BothInv, Init
  <1>2. BothInv /\ [Next]_vars => BothInv'
    <2>1. SUFFICES ASSUME BothInv, [Next]_vars PROVE BothInv'
      OBVIOUS
    <2>2. CASE UNCHANGED vars
      BY <2>1, <2>2
      DEF vars, fvars, ivars, BothInv, Alike, IsLast, FInv, FTypeOK, Promise!WellPlaced, Promise!ApartFrom
    <2>3. CASE Next
      <3>1. FInv'
        BY <2>1, <2>3, BinaryStep, StepKept DEF BothInv, Kept
      <3>2. CASE ~both
        BY <2>1, <2>3, <3>1, <3>2 DEF BothInv, Next
      <3>3. CASE both
        <4>1. Request /\ both' = both /\ FInv /\ Alike
          BY <2>1, <2>3, <3>3 DEF BothInv, Next
        <4>2. Alike'
          BY <4>1, SpanAlike, OneAlike, FreeAlike, GrowAlike DEF Request
        <4>3. QED
          BY <2>1, <3>1, <4>1, <4>2 DEF BothInv
      <3>4. QED
        BY <3>2, <3>3
    <2>4. QED
      BY <2>1, <2>2, <2>3
  <1>3. QED
    BY <1>1, <1>2, PTL DEF Spec

(* A request is met by the oracle's count exactly when it is met by the     *)
(* binary's bytes, whatever was taken, refused, freed and grown before it:  *)
(* bump_fixed with memory.grow, and lb_alloc_bytes with lb_resize_bytes.    *)
THEOREM SameAnswers ==
  ASSUME NoSumWraps
  PROVE  Spec => []SameOutcome
  <1>1. BothInv => SameOutcome
    BY DEF BothInv, Alike, SameOutcome
  <1>2. QED
    BY <1>1, AlikeHolds, PTL
=============================================================================
