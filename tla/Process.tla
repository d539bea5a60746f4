------------------------------ MODULE Process ------------------------------
(***************************************************************************)
(* `process.run`: lb_host_process_run of src/runtime/lucb_rt.c, the way the *)
(* compiled program runs another one, and the same call in the oracle,      *)
(* src/interp/call.cpp.  Several threads of one process call it at once; a  *)
(* child inherits every descriptor the process has open when it is forked,  *)
(* those of the other calls too.  Bytes are counted: the pipes keep their   *)
(* order.                                                                   *)
(***************************************************************************)
EXTENDS Integers, FiniteSets

CONSTANTS
  Runs,      (* the calls of process.run, and the children they start       *)
  MaxOut,    (* how many bytes each child writes to a stream at most        *)
  PipeCap,   (* how many bytes a pipe holds                                 *)
  Machines   (* who runs the program: "binary", "oracle"                    *)

Streams == {"out", "err"}
Parent == "parent"

ASSUME ProcessAssumption ==
  /\ Parent \notin Runs
  /\ MaxOut \in [Runs -> Nat] /\ PipeCap \in Nat \ {0} /\ Machines \subseteq {"binary", "oracle"}

VARIABLES
  machine,
  pc,       (* where each call is                                           *)
  child,    (* the state of each call's child                               *)
  writers,  (* who holds the write end of each pipe                         *)
  readers,  (* who holds the read ends of each call's pipes                 *)
  pipe,     (* how many bytes are in each pipe                              *)
  wrote,    (* how many bytes each child has written                        *)
  writing,  (* the stream each child is in a write to, or "none"            *)
  got,      (* oused and eused                                              *)
  open,     (* oopen and eopen, as the streams still read                   *)
  fail,     (* fail                                                         *)
  stored,   (* the captures allocated                                       *)
  result    (* what the call returned                                       *)

parents == <<pc, got, open, fail, stored, result>>
children == <<child, pipe, wrote, writing>>
ends == <<writers, readers>>
vars == <<machine, parents, children, ends>>

Each(v) == [r \in Runs |-> v]
Without(o) == [r \in Runs |-> [s \in Streams |-> writers[r][s] \ {o}]]
Dead(c) ==      (* every descriptor of a process that ends is closed         *)
  /\ writers' = Without(c)
  /\ readers' = [r \in Runs |-> readers[r] \ {c}]

-----------------------------------------------------------------------------
(***************************************************************************)
(* The call.                                                               *)
(***************************************************************************)
Return(r, how) ==
  /\ result' = [result EXCEPT ![r] = how]
  /\ pc' = [pc EXCEPT ![r] = "done"]

(* Both pipes; when one cannot be made, or argv or the child's environment  *)
(* cannot, what was opened is closed.  The oracle has one thread.           *)
Pipes(r) ==
  /\ pc[r] = "start"
  /\ machine = "oracle" => \A q \in Runs : pc[q] \in {"start", "done"}
  /\ \/ Return(r, "failed") /\ UNCHANGED ends
     \/ /\ writers' = [writers EXCEPT ![r] = [s \in Streams |-> {Parent}]]
        /\ readers' = [readers EXCEPT ![r] = {Parent}]
        /\ pc' = [pc EXCEPT ![r] = "fork"] /\ UNCHANGED result
  /\ UNCHANGED <<machine, children, got, open, fail, stored>>

Inherit(r, who) == IF Parent \in who THEN who \cup {r} ELSE who

fork(r) ==
  /\ pc[r] = "fork"
  /\ \/ /\ writers' = [q \in Runs |-> [s \in Streams |-> Inherit(r, writers[q][s])]]
        /\ readers' = [q \in Runs |-> Inherit(r, readers[q])]
        /\ child' = [child EXCEPT ![r] = "forked"]
        /\ pc' = [pc EXCEPT ![r] = "forked"] /\ UNCHANGED result
     \/ /\ Return(r, "failed")
        /\ writers' = [writers EXCEPT ![r] = [s \in Streams |-> {}]]
        /\ readers' = [readers EXCEPT ![r] = {}]
        /\ UNCHANGED child
  /\ UNCHANGED <<machine, pipe, wrote, writing, got, open, fail, stored>>

CloseWriteEnds(r) ==
  /\ pc[r] = "forked" /\ pc' = [pc EXCEPT ![r] = "reading"]
  /\ writers' = [writers EXCEPT ![r] = [s \in Streams |-> writers[r][s] \ {Parent}]]
  /\ UNCHANGED <<machine, children, readers, got, open, fail, stored, result>>

(* What poll reports: there are bytes, or nobody can write any more.        *)
Ready(r) == {s \in open[r] : pipe[r][s] > 0 \/ writers[r][s] = {}}

(* lb_read_more, read_pipe_chunk: some of the bytes that are there, or the  *)
(* end; EINTR and EAGAIN leave everything as it is.                         *)
Chunks(r, s) == IF s \in Ready(r) /\ pipe[r][s] > 0 THEN 1 .. pipe[r][s] ELSE {0}
Ended(r) == {s \in Ready(r) : pipe[r][s] = 0}

Looping(r) == pc[r] = "reading" /\ open[r] # {} /\ ~fail[r]

(* Mutant: a stream is read to its end before the other one.                *)
Poll_one_by_one(r) ==
  /\ Looping(r) /\ Ready(r) # {} /\ ("out" \in open[r] => "out" \in Ready(r))
  /\ LET s == IF "out" \in open[r] THEN "out" ELSE "err" IN
     /\ got' = [got EXCEPT ![r][s] = @ + pipe[r][s]]
     /\ pipe' = [pipe EXCEPT ![r][s] = 0]
     /\ open' = [open EXCEPT ![r] = IF s \in Ended(r) THEN @ \ {s} ELSE @]
  /\ UNCHANGED <<machine, child, wrote, writing, ends, pc, fail, stored, result>>

(* Mutant: a stream that has hung up is not read again.                     *)
Poll_hangup(r) ==
  /\ Looping(r) /\ Ready(r) # {}
  /\ LET over == {s \in Ready(r) : writers[r][s] = {}}
         n == [s \in Streams |-> IF s \in Ready(r) \ over THEN pipe[r][s] ELSE 0]
     IN /\ got' = [got EXCEPT ![r] = [s \in Streams |-> @[s] + n[s]]]
        /\ pipe' = [pipe EXCEPT ![r] = [s \in Streams |-> @[s] - n[s]]]
        /\ open' = [open EXCEPT ![r] = @ \ over]
  /\ UNCHANGED <<machine, child, wrote, writing, ends, pc, fail, stored, result>>

Poll(r) ==
  /\ Looping(r) /\ Ready(r) # {}
  /\ \E a \in Chunks(r, "out"), b \in Chunks(r, "err") :
       LET n == [s \in Streams |-> IF s = "out" THEN a ELSE b] IN
       /\ got' = [got EXCEPT ![r] = [s \in Streams |-> @[s] + n[s]]]
       /\ pipe' = [pipe EXCEPT ![r] = [s \in Streams |-> @[s] - n[s]]]
  /\ open' = [open EXCEPT ![r] = @ \ Ended(r)]
  /\ UNCHANGED <<machine, child, wrote, writing, ends, pc, fail, stored, result>>

(* poll or read fails, or the buffer cannot grow.                           *)
PollFails(r) ==
  /\ Looping(r) /\ fail' = [fail EXCEPT ![r] = TRUE]
  /\ UNCHANGED <<machine, children, ends, pc, got, open, stored, result>>

Alive(c) == child[c] \in {"forked", "running"}

(* After the loop: the read ends are closed; the binary kills a child whose *)
(* output it could not read, the oracle leaves it.                          *)
StopReading(r) ==
  /\ pc[r] = "reading" /\ (open[r] = {} \/ fail[r])
  /\ IF machine = "binary" /\ fail[r] /\ Alive(r)
     THEN /\ child' = [child EXCEPT ![r] = "killed"]
          /\ writers' = Without(r)
          /\ readers' = [q \in Runs |-> readers[q] \ ({r} \cup IF q = r THEN {Parent} ELSE {})]
     ELSE /\ readers' = [readers EXCEPT ![r] = @ \ {Parent}]
          /\ UNCHANGED <<child, writers>>
  /\ IF machine = "oracle" /\ fail[r] THEN Return(r, "failed")
     ELSE pc' = [pc EXCEPT ![r] = "wait"] /\ UNCHANGED result
  /\ UNCHANGED <<machine, pipe, wrote, writing, got, open, fail, stored>>

(* waitpid: the binary waits again after a signal, the oracle gives up.     *)
Wait(r) ==
  /\ pc[r] = "wait"
  /\ \/ /\ child[r] \in {"exited", "killed"}
        /\ child' = [child EXCEPT ![r] = "reaped"]
        /\ fail' = [fail EXCEPT ![r] = @ \/ child[r] = "killed"]
     \/ /\ machine = "oracle" /\ fail' = [fail EXCEPT ![r] = TRUE] /\ UNCHANGED child
  /\ pc' = [pc EXCEPT ![r] = "store"]
  /\ UNCHANGED <<machine, pipe, wrote, writing, ends, got, open, stored, result>>

(* The captures are put into memory of the caller's allocator, which the    *)
(* binary may not get; an empty one needs none.                             *)
ToStore(r) == {s \in Streams : got[r][s] > 0}

(* Mutant: a call that fails at the second capture keeps the first.         *)
Store_keeps(r) ==
  /\ pc[r] = "store"
  /\ IF fail[r] THEN Return(r, "failed") /\ UNCHANGED <<stored, fail>>
     ELSE \/ /\ stored' = [stored EXCEPT ![r] = ToStore(r)]
             /\ Return(r, "ok") /\ UNCHANGED fail
          \/ /\ machine = "binary" /\ ToStore(r) # {}
             /\ fail' = [fail EXCEPT ![r] = TRUE]
             /\ stored' = [stored EXCEPT ![r] = IF ToStore(r) = Streams THEN {"out"} ELSE {}]
             /\ Return(r, "failed")
  /\ UNCHANGED <<machine, children, ends, got, open>>

Store(r) ==
  /\ pc[r] = "store"
  /\ IF fail[r] THEN Return(r, "failed") /\ UNCHANGED <<stored, fail>>
     ELSE \/ /\ stored' = [stored EXCEPT ![r] = ToStore(r)]
             /\ Return(r, "ok") /\ UNCHANGED fail
          \/ /\ machine = "binary" /\ ToStore(r) # {}
             /\ fail' = [fail EXCEPT ![r] = TRUE]
             /\ stored' = [stored EXCEPT ![r] = {}]
             /\ Return(r, "failed")
  /\ UNCHANGED <<machine, children, ends, got, open>>

-----------------------------------------------------------------------------
(***************************************************************************)
(* The child.                                                              *)
(***************************************************************************)

(* It drops the read ends and becomes the program, or exits with 127.       *)
execvp(c) ==
  /\ child[c] = "forked"
  /\ \/ /\ child' = [child EXCEPT ![c] = "running"]
        /\ readers' = [readers EXCEPT ![c] = @ \ {c}] /\ UNCHANGED writers
     \/ /\ child' = [child EXCEPT ![c] = "exited"] /\ Dead(c)
  /\ UNCHANGED <<machine, parents, pipe, wrote, writing>>

ChildWrites(c, s) ==
  /\ child[c] = "running" /\ writing[c] = "none"
  /\ c \in writers[c][s] /\ wrote[c][s] < MaxOut[c]
  /\ writing' = [writing EXCEPT ![c] = s]
  /\ UNCHANGED <<machine, parents, child, pipe, wrote, ends>>

(* A write waits for room; with no reader left it ends the program.         *)
ChildWrote(c) ==
  /\ child[c] = "running" /\ writing[c] # "none"
  /\ writing' = [writing EXCEPT ![c] = "none"]
  /\ IF readers[c] = {}
     THEN child' = [child EXCEPT ![c] = "killed"] /\ Dead(c) /\ UNCHANGED <<pipe, wrote>>
     ELSE /\ pipe[c][writing[c]] < PipeCap
          /\ pipe' = [pipe EXCEPT ![c][writing[c]] = @ + 1]
          /\ wrote' = [wrote EXCEPT ![c][writing[c]] = @ + 1]
          /\ UNCHANGED <<child, ends>>
  /\ UNCHANGED <<machine, parents>>

ChildCloses(c, s) ==
  /\ child[c] = "running" /\ writing[c] = "none" /\ c \in writers[c][s]
  /\ writers' = [writers EXCEPT ![c][s] = @ \ {c}]
  /\ UNCHANGED <<machine, parents, children, readers>>

(* It exits when it is in no write; a signal may end it anywhere.           *)
ChildEnds(c) ==
  /\ child[c] = "running" /\ writing[c] = "none"
  /\ child' = [child EXCEPT ![c] = "exited"] /\ Dead(c)
  /\ UNCHANGED <<machine, parents, pipe, wrote, writing>>

ChildSignalled(c) ==
  /\ Alive(c) /\ child' = [child EXCEPT ![c] = "killed"] /\ Dead(c)
  /\ UNCHANGED <<machine, parents, pipe, wrote, writing>>

-----------------------------------------------------------------------------
Init ==
  /\ machine \in Machines
  /\ pc = Each("start") /\ child = Each("none") /\ writing = Each("none")
  /\ writers = Each([s \in Streams |-> {}]) /\ readers = Each({})
  /\ pipe = Each([s \in Streams |-> 0]) /\ wrote = pipe /\ got = pipe
  /\ open = Each(Streams) /\ fail = Each(FALSE) /\ stored = Each({})
  /\ result = Each("none")

Call(r) ==
  \/ Pipes(r) \/ fork(r) \/ CloseWriteEnds(r) \/ Poll(r)
  \/ StopReading(r) \/ Wait(r) \/ Store(r)
Child(c) ==
  \/ execvp(c) \/ ChildWrote(c) \/ ChildEnds(c) \/ ChildSignalled(c)
  \/ \E s \in Streams : ChildWrites(c, s) \/ ChildCloses(c, s)
Finished == (\A r \in Runs : pc[r] = "done" /\ ~Alive(r)) /\ UNCHANGED vars

Next == (\E r \in Runs : Call(r) \/ PollFails(r) \/ Child(r)) \/ Finished

(* Threads are scheduled; the program that is run ends when nothing keeps   *)
(* it from ending; poll and read need not fail, and no signal need come.    *)
Fairness ==
  \A r \in Runs : WF_vars(Call(r)) /\ WF_vars(execvp(r)) /\ WF_vars(ChildWrote(r)) /\ WF_vars(ChildEnds(r))

Spec == Init /\ [][Next]_vars /\ Fairness

-----------------------------------------------------------------------------

(* A call that returns a status returns everything its child wrote to both  *)
(* streams, and the child ended by exiting: no byte is lost to a hang-up    *)
(* seen before the data or to a pipe closed too early.                      *)
CapturesAll ==
  \A r \in Runs : result[r] = "ok" =>
    child[r] = "reaped" /\ got[r] = wrote[r] /\ stored[r] = ToStore(r)

(* When a call returns, however it returns, the process holds none of its   *)
(* descriptors; a failed one left no capture allocated; and in the binary   *)
(* its child has been reaped.                                               *)
NothingHeld ==
  \A r \in Runs : pc[r] = "done" =>
    /\ Parent \notin readers[r] /\ \A s \in Streams : Parent \notin writers[r][s]
    /\ result[r] = "failed" => stored[r] = {}
    /\ machine = "binary" => child[r] \in {"none", "reaped"}

(* Every call returns, whatever its child writes and in which order, though *)
(* the pipes are bounded, the streams may be closed early, another call's   *)
(* child may hold this one's pipes, and any step may fail.                  *)
EveryCallReturns == \A r \in Runs : <>(pc[r] = "done")
=============================================================================
