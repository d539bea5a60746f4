-------------------------------- MODULE Sync --------------------------------
(***************************************************************************)
(* The synchronisation primitives of a compiled program (runtime/          *)
(* lucb_rt.c): the spinning Mutex, Condition, Once and Semaphore, one      *)
(* atomic access of their uint32_t words at a time.                        *)
(*                                                                         *)
(* The program is any number of threads, each of which performs operations *)
(* one after the other.  It unlocks only a mutex it holds and releases     *)
(* only a permit it acquired; it waits on the condition in a loop, under   *)
(* the mutex, for `ready`, which is set under the mutex and then signalled.*)
(***************************************************************************)
EXTENDS Naturals, FiniteSets

CONSTANTS
  Threads,   (* the threads of the program                                  *)
  Permits,   (* the count the semaphore starts with                         *)
  Wrap,      (* the words are counted modulo this, 2^32 in the runtime      *)
  MaxOps     (* bound: operations one thread performs                       *)

ASSUME SyncAssumption ==
  /\ IsFiniteSet(Threads)
  /\ Permits \in Nat
  /\ Wrap \in Nat /\ Permits + 1 < Wrap
  /\ MaxOps \in Nat

VARIABLES
  mutex,   (* lb_Mutex.state                                                *)
  seq,     (* lb_Cond.seq                                                   *)
  once,    (* lb_Once.state                                                 *)
  count,   (* lb_Sem.count                                                  *)
  ready,   (* what the program waits for with the condition                 *)
  runs,    (* how often the function of the Once has run                    *)
  pc,      (* where each thread is                                          *)
  job,     (* why it takes the mutex                                        *)
  reg,     (* the word it loaded: `s` of lb_cond_wait, `n` of lb_sem_acquire*)
  left     (* the operations it may still start                             *)

vars == <<mutex, seq, once, count, ready, runs, pc, job, reg, left>>

Words == 0 .. Wrap - 1
Jobs == {"section", "await", "announce"}
PCs == {"idle", "lock", "spin", "held", "announced", "waitUnlock",
        "waitSpin", "onceFunction", "onceEnd", "onceWait",
        "semLoad", "semCas", "semSpin", "permit"}

Init ==
  /\ mutex = 0 /\ seq = 0 /\ once = 0 /\ count = Permits
  /\ ready = 0 /\ runs = 0
  /\ pc = [t \in Threads |-> "idle"]
  /\ job = [t \in Threads |-> "section"]
  /\ reg = [t \in Threads |-> 0]
  /\ left = [t \in Threads |-> MaxOps]

Goto(t, p) == pc' = [pc EXCEPT ![t] = p]
Begins(t) ==
  /\ pc[t] = "idle" /\ left[t] > 0
  /\ left' = [left EXCEPT ![t] = @ - 1]

-----------------------------------------------------------------------------
(***************************************************************************)
(* Mutex.                                                                  *)
(***************************************************************************)
Lock(t) ==
  /\ Begins(t)
  /\ Goto(t, "lock")
  /\ \E j \in Jobs : job' = [job EXCEPT ![t] = j]
  /\ UNCHANGED <<mutex, seq, once, count, ready, runs, reg>>

(* lb_mutex_lock: the compare-and-exchange, and the loads that follow when  *)
(* it fails until one reads 0.                                              *)
LockCas(t) ==
  /\ pc[t] = "lock"
  /\ IF mutex = 0
     THEN mutex' = 1 /\ Goto(t, "held")
     ELSE UNCHANGED mutex /\ Goto(t, "spin")
  /\ UNCHANGED <<seq, once, count, ready, runs, job, reg, left>>

LockSpin(t) ==
  /\ pc[t] = "spin" /\ mutex = 0
  /\ Goto(t, "lock")
  /\ UNCHANGED <<mutex, seq, once, count, ready, runs, job, reg, left>>

(* lb_mutex_try.                                                            *)
TryLock(t) ==
  /\ Begins(t)
  /\ IF mutex = 0
     THEN mutex' = 1 /\ Goto(t, "held")
     ELSE UNCHANGED <<mutex, pc>>
  /\ job' = [job EXCEPT ![t] = "section"]
  /\ UNCHANGED <<seq, once, count, ready, runs, reg>>

(* lb_mutex_unlock stores 0 whatever the word held.                         *)
Unlock(t) ==
  /\ \/ pc[t] = "held" /\ job[t] = "section"
     \/ pc[t] = "held" /\ job[t] = "await" /\ ready = 1
     \/ pc[t] = "announced"
  /\ mutex' = 0
  /\ Goto(t, "idle")
  /\ UNCHANGED <<seq, once, count, ready, runs, job, reg, left>>

-----------------------------------------------------------------------------
(***************************************************************************)
(* Condition.                                                              *)
(***************************************************************************)

(* The program sets what it is waited for and signals; broadcast is signal. *)
Announce(t) ==
  /\ pc[t] = "held" /\ job[t] = "announce" /\ ready = 0
  /\ ready' = 1
  /\ UNCHANGED <<mutex, seq, once, count, runs, pc, job, reg, left>>

(* Mutant: a signal turns a flag over instead of counting.                  *)
SignalToggles(t) ==
  /\ pc[t] = "held" /\ job[t] = "announce" /\ ready = 1
  /\ seq' = 1 - seq
  /\ Goto(t, "announced")
  /\ UNCHANGED <<mutex, once, count, ready, runs, job, reg, left>>

(* lb_cond_signal: the addition wraps.                                      *)
Signal(t) ==
  /\ pc[t] = "held" /\ job[t] = "announce" /\ ready = 1
  /\ seq' = (seq + 1) % Wrap
  /\ Goto(t, "announced")
  /\ UNCHANGED <<mutex, once, count, ready, runs, job, reg, left>>

(* lb_cond_wait: read the sequence, release the mutex, wait until the       *)
(* sequence is another, take the mutex again.                               *)
WaitLoad(t) ==
  /\ pc[t] = "held" /\ job[t] = "await" /\ ready = 0
  /\ reg' = [reg EXCEPT ![t] = seq]
  /\ Goto(t, "waitUnlock")
  /\ UNCHANGED <<mutex, seq, once, count, ready, runs, job, left>>

WaitUnlock(t) ==
  /\ pc[t] = "waitUnlock"
  /\ mutex' = 0
  /\ Goto(t, "waitSpin")
  /\ UNCHANGED <<seq, once, count, ready, runs, job, reg, left>>

(* Mutant: the wait ends without the mutex.                                 *)
WaitSpinNoRelock(t) ==
  /\ pc[t] = "waitSpin" /\ seq # reg[t]
  /\ Goto(t, "held")
  /\ UNCHANGED <<mutex, seq, once, count, ready, runs, job, reg, left>>

WaitSpin(t) ==
  /\ pc[t] = "waitSpin" /\ seq # reg[t]
  /\ Goto(t, "lock")
  /\ UNCHANGED <<mutex, seq, once, count, ready, runs, job, reg, left>>

-----------------------------------------------------------------------------
(***************************************************************************)
(* Once.  `once.run(f)` is emitted as: if begin, then f() and end, else    *)
(* wait (emit/call.cpp).                                                   *)
(***************************************************************************)
OnceBegin(t) ==
  /\ Begins(t)
  /\ IF once = 0
     THEN once' = 1 /\ Goto(t, "onceFunction")
     ELSE UNCHANGED once /\ Goto(t, "onceWait")
  /\ UNCHANGED <<mutex, seq, count, ready, runs, job, reg>>

OnceFunction(t) ==
  /\ pc[t] = "onceFunction"
  /\ runs' = runs + 1
  /\ Goto(t, "onceEnd")
  /\ UNCHANGED <<mutex, seq, once, count, ready, job, reg, left>>

OnceEnd(t) ==
  /\ pc[t] = "onceEnd"
  /\ once' = 2
  /\ Goto(t, "idle")
  /\ UNCHANGED <<mutex, seq, count, ready, runs, job, reg, left>>

(* Mutant: whoever does not run the function waits for its start only.      *)
OnceWaitStarted(t) ==
  /\ pc[t] = "onceWait" /\ once # 0
  /\ Goto(t, "idle")
  /\ UNCHANGED <<mutex, seq, once, count, ready, runs, job, reg, left>>

OnceWait(t) ==
  /\ pc[t] = "onceWait" /\ once = 2
  /\ Goto(t, "idle")
  /\ UNCHANGED <<mutex, seq, once, count, ready, runs, job, reg, left>>

-----------------------------------------------------------------------------
(***************************************************************************)
(* Semaphore.                                                              *)
(***************************************************************************)
SemAcquire(t) ==
  /\ Begins(t)
  /\ Goto(t, "semLoad")
  /\ UNCHANGED <<mutex, seq, once, count, ready, runs, job, reg>>

(* lb_sem_acquire: the load, the weak compare-and-exchange, which may fail  *)
(* for no reason, and the loads until one does not read 0.                  *)
SemLoad(t) ==
  /\ pc[t] = "semLoad"
  /\ reg' = [reg EXCEPT ![t] = count]
  /\ Goto(t, IF count > 0 THEN "semCas" ELSE "semSpin")
  /\ UNCHANGED <<mutex, seq, once, count, ready, runs, job, left>>

(* Mutant: a permit is taken without a look at what became of the count.    *)
SemCasBlind(t) ==
  /\ pc[t] = "semCas"
  /\ count' = reg[t] - 1
  /\ Goto(t, "permit")
  /\ UNCHANGED <<mutex, seq, once, ready, runs, job, reg, left>>

SemCas(t) ==
  /\ pc[t] = "semCas"
  /\ \/ /\ count = reg[t]
        /\ count' = reg[t] - 1
        /\ Goto(t, "permit")
     \/ /\ Goto(t, "semSpin")
        /\ UNCHANGED count
  /\ UNCHANGED <<mutex, seq, once, ready, runs, job, reg, left>>

SemSpin(t) ==
  /\ pc[t] = "semSpin" /\ count # 0
  /\ Goto(t, "semLoad")
  /\ UNCHANGED <<mutex, seq, once, count, ready, runs, job, reg, left>>

(* lb_sem_release: the addition wraps.                                      *)
SemRelease(t) ==
  /\ pc[t] = "permit"
  /\ count' = (count + 1) % Wrap
  /\ Goto(t, "idle")
  /\ UNCHANGED <<mutex, seq, once, ready, runs, job, reg, left>>

-----------------------------------------------------------------------------
(* A thread starts an operation, or goes on with the one it is in.          *)
Start(t) == Lock(t) \/ TryLock(t) \/ OnceBegin(t) \/ SemAcquire(t)
Advance(t) ==
  \/ LockCas(t) \/ LockSpin(t) \/ Unlock(t)
  \/ Announce(t) \/ Signal(t) \/ WaitLoad(t) \/ WaitUnlock(t) \/ WaitSpin(t)
  \/ OnceFunction(t) \/ OnceEnd(t) \/ OnceWait(t)
  \/ SemLoad(t) \/ SemCas(t) \/ SemSpin(t) \/ SemRelease(t)

Next == \E t \in Threads : Start(t) \/ Advance(t)

Spec == Init /\ [][Next]_vars

(* Threads are pthreads: one that can go on is run again and again.  The    *)
(* weak exchange does not fail for ever.                                    *)
FairSpec ==
  /\ Spec
  /\ \A t \in Threads : WF_vars(Advance(t)) /\ SF_vars(SemCas(t) /\ pc'[t] = "permit")

-----------------------------------------------------------------------------
(***************************************************************************)
(* Properties.                                                             *)
(***************************************************************************)
Holding(t) == pc[t] \in {"held", "announced", "waitUnlock"}

(* The variables have the types of their declarations.                      *)
TypeOK ==
  /\ mutex \in {0, 1} /\ seq \in Words /\ once \in {0, 1, 2} /\ count \in Words
  /\ ready \in {0, 1} /\ runs \in Nat
  /\ pc \in [Threads -> PCs]
  /\ job \in [Threads -> Jobs]
  /\ reg \in [Threads -> Words]
  /\ left \in [Threads -> Nat]

(* lb_mutex_lock and lb_mutex_try let one thread in at a time, and a thread *)
(* that comes back from lb_cond_wait is let in the same way.                *)
MutualExclusion ==
  \A t, u \in Threads : Holding(t) /\ Holding(u) => t = u

(* `once.run` returns, in every thread, only after the function has run to  *)
(* its end, and it has run once.                                            *)
OnceRunsOnce ==
  [][\A t \in Threads :
       pc[t] \in {"onceEnd", "onceWait"} /\ pc'[t] = "idle" => runs = 1]_vars

(* The semaphore never hands out more than it has: the permits held and the *)
(* ones left are the ones it started with.                                  *)
PermitsConserved ==
  count + Cardinality({t \in Threads : pc[t] = "permit"}) = Permits

(* What makes the properties inductive: the mutex word is 1 while a thread  *)
(* holds it, the Once's word tells how far its one run has come, and a      *)
(* thread about to take a permit has read a count that is not 0.            *)
SyncInv ==
  /\ TypeOK
  /\ \A t \in Threads : Holding(t) => mutex = 1
  /\ MutualExclusion
  /\ \A t \in Threads : pc[t] = "onceFunction" => once = 1 /\ runs = 0
  /\ \A t \in Threads : pc[t] = "onceEnd" => once = 1 /\ runs = 1
  /\ \A t, u \in Threads :
       /\ pc[t] \in {"onceFunction", "onceEnd"}
       /\ pc[u] \in {"onceFunction", "onceEnd"}
       => t = u
  /\ once = 0 => runs = 0
  /\ once = 2 => runs = 1
  /\ \A t \in Threads : pc[t] = "semCas" => reg[t] > 0
  /\ PermitsConserved

(* No wakeup is lost and nobody waits for ever: once a thread has announced,*)
(* every thread that waits, for the condition, the mutex, the Once or a     *)
(* permit, finishes its operation.                                          *)
EveryoneFinishes == ready = 1 ~> \A t \in Threads : pc[t] = "idle"

=============================================================================
