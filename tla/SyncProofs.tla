----------------------------- MODULE SyncProofs -----------------------------
(***************************************************************************)
(* Theorems about the synchronisation primitives, for any number of        *)
(* threads and operations and any word width.                              *)
(***************************************************************************)
EXTENDS Sync, FiniteSetTheorems, TLAPS

(* The addition of lb_cond_signal and lb_sem_release stays in the word.     *)
LEMMA WordFacts ==
  /\ Wrap \in Nat \ {0}
  /\ \A w \in Nat : w % Wrap \in Words
  /\ \A w \in Nat : w < Wrap => w % Wrap = w
  /\ 0 \in Words /\ Permits \in Words
  BY SyncAssumption DEF Words

(* The invariant holds initially.                                           *)
LEMMA SyncInit == Init => SyncInv
  <1> SUFFICES ASSUME Init PROVE SyncInv
    OBVIOUS
  <1>1. TypeOK
    BY WordFacts, SyncAssumption DEF Init, TypeOK, PCs, Jobs
  <1>2. {t \in Threads : pc[t] = "permit"} = {}
    BY DEF Init
  <1>3. PermitsConserved
    BY <1>2, FS_EmptySet, SyncAssumption DEF Init, PermitsConserved
  <1>4. QED
    BY <1>1, <1>3 DEF Init, SyncInv, MutualExclusion, Holding

(* Every step keeps the types.                                              *)
LEMMA SyncType ==
  ASSUME SyncInv, Next
  PROVE  TypeOK'
  <1> USE DEF Goto, Begins
  <1>n. PICK t \in Threads : Start(t) \/ Advance(t)
    BY DEF Next
  <1>t. TypeOK
    BY DEF SyncInv
  <1>c. pc[t] = "semCas" => reg[t] > 0
    BY DEF SyncInv
  <1> USE <1>t DEF TypeOK
  <1>1. CASE Lock(t)
    BY <1>1 DEF Lock, PCs
  <1>2. CASE TryLock(t)
    BY <1>2 DEF TryLock, PCs, Jobs
  <1>3. CASE OnceBegin(t)
    BY <1>3 DEF OnceBegin, PCs
  <1>4. CASE SemAcquire(t)
    BY <1>4 DEF SemAcquire, PCs
  <1>5. CASE LockCas(t) \/ LockSpin(t) \/ Unlock(t)
    BY <1>5 DEF LockCas, LockSpin, Unlock, PCs
  <1>6. CASE Announce(t)
    BY <1>6 DEF Announce
  <1>s. CASE Signal(t)
    <2>1. seq + 1 \in Nat
      BY DEF Words
    <2>2. (seq + 1) % Wrap \in Words
      BY <2>1, WordFacts
    <2>3. QED
      BY <1>s, <2>2 DEF Signal, PCs
  <1>7. CASE WaitLoad(t) \/ WaitUnlock(t) \/ WaitSpin(t)
    BY <1>7 DEF WaitLoad, WaitUnlock, WaitSpin, PCs
  <1>8. CASE OnceFunction(t) \/ OnceEnd(t) \/ OnceWait(t)
    BY <1>8 DEF OnceFunction, OnceEnd, OnceWait, PCs
  <1>9. CASE SemLoad(t) \/ SemSpin(t)
    BY <1>9 DEF SemLoad, SemSpin, PCs
  <1>10. CASE SemCas(t)
    <2>1. reg[t] - 1 \in Words
      BY <1>10, <1>c, SyncAssumption DEF SemCas, Words
    <2>2. QED
      BY <1>10, <2>1 DEF SemCas, PCs
  <1>11. CASE SemRelease(t)
    BY <1>11, WordFacts DEF SemRelease, PCs, Words
  <1>12. QED
    BY <1>n, <1>1, <1>2, <1>3, <1>4, <1>5, <1>6, <1>s, <1>7, <1>8, <1>9, <1>10, <1>11
       DEF Start, Advance

(* Nobody but the thread on the move changes what it holds.                 *)
LEMMA MutexStep ==
  ASSUME SyncInv, Next
  PROVE  /\ \A t \in Threads : Holding(t)' => mutex' = 1
         /\ MutualExclusion'
  <1> USE DEF Goto, Begins, Holding
  <1>n. PICK t \in Threads : Start(t) \/ Advance(t)
    BY DEF Next
  <1>i. /\ pc \in [Threads -> PCs]
        /\ \A u \in Threads : Holding(u) => mutex = 1
        /\ \A u, v \in Threads : Holding(u) /\ Holding(v) => u = v
    BY DEF SyncInv, TypeOK, MutualExclusion
  <1>1. CASE mutex = 0 /\ mutex' = 1 /\ pc' = [pc EXCEPT ![t] = "held"]
    BY <1>i, <1>1 DEF MutualExclusion
  <1>2. CASE Holding(t) /\ mutex' = 0 /\ \E p \in {"idle", "waitSpin"} : Goto(t, p)
    BY <1>i, <1>2 DEF MutualExclusion
  <1>3. CASE Holding(t) /\ mutex' = mutex /\ \E p \in PCs : Goto(t, p)
    BY <1>i, <1>3 DEF MutualExclusion
  <1>4. CASE mutex' = mutex /\ \E p \in PCs \ {"held", "announced", "waitUnlock"} :
                                 Goto(t, p)
    BY <1>i, <1>4 DEF MutualExclusion
  <1>5. CASE mutex' = mutex /\ pc' = pc
    BY <1>i, <1>5 DEF MutualExclusion
  <1>6. CASE Start(t)
    BY <1>6, <1>1, <1>4, <1>5
       DEF Start, Lock, TryLock, OnceBegin, SemAcquire, PCs
  <1>7. CASE LockCas(t) \/ LockSpin(t) \/ Unlock(t)
    BY <1>7, <1>1, <1>2, <1>4 DEF LockCas, LockSpin, Unlock, PCs
  <1>8. CASE Announce(t) \/ Signal(t) \/ WaitLoad(t) \/ WaitUnlock(t) \/ WaitSpin(t)
    BY <1>8, <1>2, <1>3, <1>4, <1>5
       DEF Announce, Signal, WaitLoad, WaitUnlock, WaitSpin, PCs
  <1>9. CASE OnceFunction(t) \/ OnceEnd(t) \/ OnceWait(t)
    BY <1>9, <1>4 DEF OnceFunction, OnceEnd, OnceWait, PCs
  <1>10. CASE SemLoad(t) \/ SemCas(t) \/ SemSpin(t) \/ SemRelease(t)
    BY <1>10, <1>4 DEF SemLoad, SemCas, SemSpin, SemRelease, PCs
  <1>11. QED
    BY <1>n, <1>6, <1>7, <1>8, <1>9, <1>10 DEF Advance

(* The part of the invariant about the Once.                                *)
OncePart ==
  /\ \A t \in Threads : pc[t] = "onceFunction" => once = 1 /\ runs = 0
  /\ \A t \in Threads : pc[t] = "onceEnd" => once = 1 /\ runs = 1
  /\ \A t, u \in Threads :
       /\ pc[t] \in {"onceFunction", "onceEnd"}
       /\ pc[u] \in {"onceFunction", "onceEnd"}
       => t = u
  /\ once = 0 => runs = 0
  /\ once = 2 => runs = 1

(* The Once's word follows its one run.                                     *)
LEMMA OnceStep ==
  ASSUME SyncInv, Next
  PROVE  OncePart'
  <1> USE DEF Goto, Begins
  <1>n. PICK t \in Threads : Start(t) \/ Advance(t)
    BY DEF Next
  <1>i. pc \in [Threads -> PCs] /\ OncePart /\ once \in {0, 1, 2} /\ runs \in Nat
    BY DEF SyncInv, TypeOK, OncePart
  <1>1. CASE /\ UNCHANGED <<once, runs>>
             /\ \/ pc' = pc
                \/ \E p \in PCs \ {"onceFunction", "onceEnd"} : Goto(t, p)
    BY <1>i, <1>1 DEF OncePart
  <1>2. CASE OnceBegin(t)
    BY <1>i, <1>2 DEF OnceBegin, OncePart
  <1>3. CASE OnceFunction(t)
    BY <1>i, <1>3 DEF OnceFunction, OncePart
  <1>4. CASE OnceEnd(t)
    BY <1>i, <1>4 DEF OnceEnd, OncePart
  <1>5. CASE Lock(t) \/ TryLock(t) \/ SemAcquire(t)
    BY <1>5, <1>1 DEF Lock, TryLock, SemAcquire, PCs
  <1>6. CASE LockCas(t) \/ LockSpin(t) \/ Unlock(t)
    BY <1>6, <1>1 DEF LockCas, LockSpin, Unlock, PCs
  <1>7. CASE Announce(t) \/ Signal(t) \/ WaitLoad(t) \/ WaitUnlock(t) \/ WaitSpin(t)
    BY <1>7, <1>1 DEF Announce, Signal, WaitLoad, WaitUnlock, WaitSpin, PCs
  <1>8. CASE OnceWait(t)
    BY <1>8, <1>1 DEF OnceWait, PCs
  <1>9. CASE SemLoad(t) \/ SemCas(t) \/ SemSpin(t) \/ SemRelease(t)
    BY <1>9, <1>1 DEF SemLoad, SemCas, SemSpin, SemRelease, PCs
  <1>10. QED
    BY <1>n, <1>2, <1>3, <1>4, <1>5, <1>6, <1>7, <1>8, <1>9 DEF Start, Advance

(* A permit is taken from the count, and goes back to it.                   *)
LEMMA SemStep ==
  ASSUME SyncInv, Next
  PROVE  /\ (\A t \in Threads : pc[t] = "semCas" => reg[t] > 0)'
         /\ PermitsConserved'
  <1> USE DEF Goto, Begins
  <1> DEFINE P == {u \in Threads : pc[u] = "permit"}
  <1>n. PICK t \in Threads : Start(t) \/ Advance(t)
    BY DEF Next
  <1>i. /\ pc \in [Threads -> PCs] /\ reg \in [Threads -> Words] /\ count \in Words
        /\ \A u \in Threads : pc[u] = "semCas" => reg[u] > 0
        /\ count + Cardinality(P) = Permits
    BY DEF SyncInv, TypeOK, PermitsConserved
  <1>f. IsFiniteSet(P) /\ Cardinality(P) \in Nat
    BY FS_Subset, FS_CardinalityType, SyncAssumption
  <1>w. count \in Nat /\ Permits \in Nat
    BY <1>i, SyncAssumption DEF Words
  <1>1. CASE /\ UNCHANGED <<count, reg>> /\ pc[t] # "permit"
             /\ \/ pc' = pc
                \/ \E p \in PCs \ {"semCas", "permit"} : Goto(t, p)
    <2>1. P' = P
      BY <1>i, <1>1
    <2>2. QED
      BY <1>i, <1>1, <2>1 DEF PermitsConserved
  <1>2. CASE SemLoad(t)
    <2>1. P' = P
      BY <1>i, <1>2 DEF SemLoad
    <2>2. (\A u \in Threads : pc[u] = "semCas" => reg[u] > 0)'
      BY <1>i, <1>w, <1>2 DEF SemLoad
    <2>3. QED
      BY <1>i, <1>2, <2>1, <2>2 DEF SemLoad, PermitsConserved
  <1>3. CASE WaitLoad(t)
    <2>1. P' = P
      BY <1>i, <1>3 DEF WaitLoad
    <2>2. (\A u \in Threads : pc[u] = "semCas" => reg[u] > 0)'
      BY <1>i, <1>3 DEF WaitLoad
    <2>3. QED
      BY <1>i, <1>3, <2>1, <2>2 DEF WaitLoad, PermitsConserved
  <1>4. CASE SemCas(t)
    <2>1. (\A u \in Threads : pc[u] = "semCas" => reg[u] > 0)'
      BY <1>i, <1>4 DEF SemCas
    <2>2. CASE Goto(t, "semSpin") /\ UNCHANGED count
      <3>1. P' = P
        BY <1>i, <1>4, <2>2 DEF SemCas
      <3>2. QED
        BY <1>i, <2>1, <2>2, <3>1 DEF PermitsConserved
    <2>3. CASE count = reg[t] /\ count' = reg[t] - 1 /\ Goto(t, "permit")
      <3>1. P' = P \cup {t} /\ t \notin P
        BY <1>i, <1>4, <2>3 DEF SemCas
      <3>2. Cardinality(P') = Cardinality(P) + 1
        BY <1>f, <3>1, FS_AddElement
      <3>3. count' + Cardinality(P') = Permits
        BY <1>i, <1>f, <1>w, <2>3, <3>2
      <3>4. QED
        BY <2>1, <3>3 DEF PermitsConserved
    <2>4. QED
      BY <1>4, <2>2, <2>3 DEF SemCas
  <1>5. CASE SemRelease(t)
    <2>1. (\A u \in Threads : pc[u] = "semCas" => reg[u] > 0)'
      BY <1>i, <1>5 DEF SemRelease
    <2>2. P' = P \ {t} /\ t \in P
      BY <1>i, <1>5 DEF SemRelease
    <2>3. Cardinality(P') = Cardinality(P) - 1
      BY <1>f, <2>2, FS_RemoveElement
    <2>4. count + 1 \in Nat /\ count + 1 < Wrap
      BY <1>i, <1>f, <1>w, SyncAssumption
    <2>5. count' = count + 1
      BY <1>5, <2>4, WordFacts DEF SemRelease
    <2>6. count' + Cardinality(P') = Permits
      BY <1>i, <1>f, <1>w, <2>3, <2>5
    <2>7. QED
      BY <2>1, <2>6 DEF PermitsConserved
  <1>6. CASE Start(t)
    BY <1>6, <1>1 DEF Start, Lock, TryLock, OnceBegin, SemAcquire, PCs
  <1>7. CASE LockCas(t) \/ LockSpin(t) \/ Unlock(t)
    BY <1>7, <1>1 DEF LockCas, LockSpin, Unlock, PCs
  <1>8. CASE Announce(t) \/ Signal(t) \/ WaitUnlock(t) \/ WaitSpin(t)
    BY <1>8, <1>1 DEF Announce, Signal, WaitUnlock, WaitSpin, PCs
  <1>9. CASE OnceFunction(t) \/ OnceEnd(t) \/ OnceWait(t) \/ SemSpin(t)
    BY <1>9, <1>1 DEF OnceFunction, OnceEnd, OnceWait, SemSpin, PCs
  <1>10. QED
    BY <1>n, <1>2, <1>3, <1>4, <1>5, <1>6, <1>7, <1>8, <1>9 DEF Advance

(* The invariant holds of every behaviour of every program.                 *)
THEOREM SyncInvariant == Spec => []SyncInv
  <1>1. SyncInv /\ Next => SyncInv'
    BY SyncType, MutexStep, OnceStep, SemStep DEF SyncInv, OncePart
  <1>2. SyncInv /\ UNCHANGED vars => SyncInv'
    BY DEF SyncInv, vars, TypeOK, MutualExclusion, PermitsConserved, Holding
  <1>3. QED
    BY SyncInit, <1>1, <1>2, PTL DEF Spec

(* The words never leave their range, whatever wraps.                       *)
THEOREM SyncTypeCorrect == Spec => []TypeOK
  <1>1. SyncInv => TypeOK
    BY DEF SyncInv
  <1>2. QED
    BY <1>1, SyncInvariant, PTL

(* One thread at a time holds the mutex, those that come back from a wait   *)
(* on the condition included.                                               *)
THEOREM MutexExcludes == Spec => []MutualExclusion
  <1>1. SyncInv => MutualExclusion
    BY DEF SyncInv
  <1>2. QED
    BY <1>1, SyncInvariant, PTL

(* The semaphore hands out no more permits than it has.                     *)
THEOREM SemaphoreConserves == Spec => []PermitsConserved
  <1>1. SyncInv => PermitsConserved
    BY DEF SyncInv
  <1>2. QED
    BY <1>1, SyncInvariant, PTL

(* `once.run` returns only after the one run of its function has ended.     *)
THEOREM OnceReturnsAfterRun == Spec => OnceRunsOnce
  <1> DEFINE A == \A t \in Threads :
                    pc[t] \in {"onceEnd", "onceWait"} /\ pc'[t] = "idle" => runs = 1
  <1>1. SyncInv /\ [Next]_vars => [A]_vars
    <2> SUFFICES ASSUME SyncInv, Next, NEW t \in Threads,
                        pc[t] \in {"onceEnd", "onceWait"}, pc'[t] = "idle"
                 PROVE  runs = 1
      OBVIOUS
    <2>i. pc \in [Threads -> PCs] /\ OncePart
      BY DEF SyncInv, TypeOK, OncePart
    <2>1. CASE pc[t] = "onceEnd"
      BY <2>i, <2>1 DEF OncePart
    <2>2. CASE pc[t] = "onceWait"
      <3>1. PICK u \in Threads : Start(u) \/ Advance(u)
        BY DEF Next
      <3>2. u = t
        <4>1. \/ pc' = pc
              \/ \E p \in PCs : Goto(u, p)
          BY <3>1 DEF Start, Advance, Lock, TryLock, OnceBegin, SemAcquire, LockCas,
             LockSpin, Unlock, Announce, Signal, WaitLoad, WaitUnlock, WaitSpin,
             OnceFunction, OnceEnd, OnceWait, SemLoad, SemCas, SemSpin, SemRelease,
             Goto, PCs
        <4>2. QED
          BY <2>i, <2>2, <4>1 DEF Goto
      <3>3. OnceWait(t)
        BY <2>2, <3>1, <3>2 DEF Start, Advance, Begins, Lock, TryLock, OnceBegin,
           SemAcquire, LockCas, LockSpin, Unlock, Announce, Signal, WaitLoad,
           WaitUnlock, WaitSpin, OnceFunction, OnceEnd, SemLoad, SemCas, SemSpin,
           SemRelease
      <3>4. QED
        BY <2>i, <3>3 DEF OnceWait, OncePart
    <2>3. QED
      BY <2>1, <2>2
  <1>2. QED
    BY <1>1, SyncInvariant, PTL DEF Spec, OnceRunsOnce
=============================================================================
