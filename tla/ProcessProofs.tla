--------------------------- MODULE ProcessProofs ---------------------------
(***************************************************************************)
(* What a call of process.run captures and what it leaves behind, for any  *)
(* number of calls at once, any amount of output and any size of a pipe.   *)
(***************************************************************************)
EXTENDS Process, TLAPS

Places == {"start", "fork", "forked", "reading", "wait", "store", "done"}
Lives == {"none", "forked", "running", "exited", "killed", "reaped"}
Holders == Runs \cup {Parent}
Counts == [Streams -> Nat]
WriteEnds == [Streams -> SUBSET Holders]
ReadEnds == SUBSET Holders

CallTypes ==
  /\ machine \in {"binary", "oracle"}
  /\ pc \in [Runs -> Places] /\ got \in [Runs -> Counts]
  /\ open \in [Runs -> SUBSET Streams] /\ stored \in [Runs -> SUBSET Streams]
  /\ fail \in [Runs -> BOOLEAN] /\ result \in [Runs -> {"none", "ok", "failed"}]
ChildTypes ==
  /\ child \in [Runs -> Lives] /\ writing \in [Runs -> Streams \cup {"none"}]
  /\ pipe \in [Runs -> Counts] /\ wrote \in [Runs -> Counts]
EndTypes == writers \in [Runs -> WriteEnds] /\ readers \in [Runs -> ReadEnds]
ProcessTypes == CallTypes /\ ChildTypes /\ EndTypes

(* What was written is what was read and what is still in the pipe.         *)
Conserved(r) == \A s \in Streams : wrote[r][s] = got[r][s] + pipe[r][s]

(* A stream is given up only when it is empty and nobody can write to it.   *)
ReadToEnd(r) == \A s \in Streams \ open[r] : pipe[r][s] = 0 /\ writers[r][s] = {}

(* A write is under way only to a stream the child still has.               *)
WritesHeld(r) ==
  /\ child[r] \in {"none", "forked"} => writing[r] = "none"
  /\ child[r] = "running" /\ writing[r] # "none" => r \in writers[r][writing[r]]

(* The process's own ends: none before the pipes are made, the write ends   *)
(* until the child is started, the read ends until the loop is over.        *)
EndsClosed(r) ==
  /\ pc[r] \notin {"fork", "forked"} => \A s \in Streams : Parent \notin writers[r][s]
  /\ pc[r] \notin {"fork", "forked", "reading"} => Parent \notin readers[r]

(* How far the call has come, and the child with it.                        *)
InStep(r) ==
  /\ pc[r] \in {"start", "fork"} => child[r] = "none"
  /\ pc[r] \in {"start", "fork", "forked"} => open[r] = Streams
  /\ pc[r] \in {"wait", "store"} /\ ~fail[r] => open[r] = {}
  /\ pc[r] = "store" /\ ~fail[r] => child[r] = "reaped"
  /\ machine = "binary" /\ pc[r] = "store" => child[r] = "reaped"
  /\ machine = "binary" /\ pc[r] = "done" => child[r] \in {"none", "reaped"}
  /\ pc[r] # "done" => stored[r] = {} /\ result[r] = "none"
  /\ result[r] = "failed" => stored[r] = {}
  /\ result[r] = "ok" => child[r] = "reaped" /\ open[r] = {} /\ stored[r] = ToStore(r)

CallInv(r) == Conserved(r) /\ ReadToEnd(r) /\ WritesHeld(r) /\ EndsClosed(r) /\ InStep(r)

(* The inductive invariant.                                                 *)
ProcessInv == ProcessTypes /\ \A r \in Runs : CallInv(r)

(* Every field of q is as it was.                                           *)
SameCall(q) ==
  /\ pc'[q] = pc[q] /\ got'[q] = got[q] /\ open'[q] = open[q]
  /\ fail'[q] = fail[q] /\ stored'[q] = stored[q] /\ result'[q] = result[q]
SameChild(q) ==
  /\ child'[q] = child[q] /\ pipe'[q] = pipe[q] /\ wrote'[q] = wrote[q] /\ writing'[q] = writing[q]

(* What the steps of others do to the pipes of q: the ends the process has  *)
(* and the ends q has stay theirs, and an end nobody has is nobody's.       *)
SameEnds(q) ==
  /\ \A s \in Streams :
       /\ Parent \in writers'[q][s] => Parent \in writers[q][s]
       /\ q \in writers[q][s] => q \in writers'[q][s]
       /\ writers[q][s] = {} => writers'[q][s] = {}
  /\ Parent \in readers'[q] => Parent \in readers[q]

(* A step of another call or of its child.                                  *)
LEMMA OtherKept ==
  ASSUME NEW q \in Runs, ProcessInv, machine' = machine, SameCall(q), SameChild(q), SameEnds(q)
  PROVE  CallInv(q)'
  <1>1. CallInv(q)
    BY DEF ProcessInv
  <1>2. Conserved(q)'
    BY <1>1 DEF CallInv, Conserved, SameCall, SameChild
  <1>3. ReadToEnd(q)'
    BY <1>1 DEF CallInv, ReadToEnd, SameCall, SameChild, SameEnds
  <1>4. WritesHeld(q)'
    <2>1. writing[q] \in Streams \cup {"none"}
      BY DEF ProcessInv, ProcessTypes, ChildTypes
    <2>2. QED
      BY <1>1, <2>1 DEF CallInv, WritesHeld, SameCall, SameChild, SameEnds
  <1>5. EndsClosed(q)'
    BY <1>1 DEF CallInv, EndsClosed, SameCall, SameEnds
  <1>6. InStep(q)'
    <2>1. ToStore(q)' = ToStore(q)
      BY DEF ToStore, SameCall
    <2>2. QED
      BY <1>1, <2>1 DEF CallInv, InStep, SameCall, SameChild
  <1>7. QED
    BY <1>2, <1>3, <1>4, <1>5, <1>6 DEF CallInv

-----------------------------------------------------------------------------
(* The pipes are made, or not.                                              *)
LEMMA PipesKeeps == ASSUME ProcessInv, NEW r \in Runs, Pipes(r) PROVE ProcessInv'
  <1>1. ProcessTypes'
    <2>1. [s \in Streams |-> {Parent}] \in WriteEnds /\ {Parent} \in ReadEnds
      BY DEF WriteEnds, ReadEnds, Holders
    <2>2. EndTypes'
      BY <2>1 DEF ProcessInv, ProcessTypes, EndTypes, Pipes, ends
    <2>3. CallTypes'
      BY DEF ProcessInv, ProcessTypes, CallTypes, Pipes, Return, Places
    <2>4. ChildTypes'
      BY DEF ProcessInv, ProcessTypes, ChildTypes, Pipes, children
    <2>5. QED
      BY <2>2, <2>3, <2>4 DEF ProcessTypes
  <1>2. ASSUME NEW q \in Runs, q # r PROVE CallInv(q)'
    <2>1. SameCall(q) /\ SameChild(q) /\ SameEnds(q) /\ machine' = machine
      BY <1>2 DEF ProcessInv, ProcessTypes, CallTypes, ChildTypes, EndTypes, Pipes, Return, children, ends, SameCall, SameChild, SameEnds
    <2>2. QED
      BY <2>1, OtherKept
  <1>3. CallInv(r)'
    <2>1. CallInv(r) /\ pc[r] = "start"
      BY DEF ProcessInv, Pipes
    <2>2. Conserved(r)' /\ ReadToEnd(r)' /\ WritesHeld(r)'
      BY <2>1 DEF CallInv, Conserved, ReadToEnd, WritesHeld, InStep, ProcessInv, ProcessTypes, CallTypes, ChildTypes, Pipes, children
    <2>3. EndsClosed(r)'
      BY <2>1 DEF CallInv, EndsClosed, ProcessInv, ProcessTypes, CallTypes, EndTypes, Pipes, Return, ends
    <2>4. InStep(r)'
      BY <2>1 DEF CallInv, InStep, ProcessInv, ProcessTypes, CallTypes, ChildTypes, Pipes, Return, children, ToStore
    <2>5. QED
      BY <2>2, <2>3, <2>4 DEF CallInv
  <1>4. QED
    BY <1>1, <1>2, <1>3 DEF ProcessInv

(* What the others see of a process that ends.                              *)
LEMMA DeadEnds ==
  ASSUME ProcessInv, NEW c \in Runs, Dead(c)
  PROVE  /\ EndTypes'
         /\ \A q \in Runs : /\ \A s \in Streams : writers'[q][s] = writers[q][s] \ {c}
                            /\ readers'[q] = readers[q] \ {c}
         /\ \A q \in Runs \ {c} : SameEnds(q)
  <1>1. writers \in [Runs -> WriteEnds] /\ readers \in [Runs -> ReadEnds]
    BY DEF ProcessInv, ProcessTypes, EndTypes
  <1>2. /\ writers' = [q \in Runs |-> [s \in Streams |-> writers[q][s] \ {c}]]
        /\ readers' = [q \in Runs |-> readers[q] \ {c}]
    BY DEF Dead, Without
  <1>3. \A q \in Runs : [s \in Streams |-> writers[q][s] \ {c}] \in WriteEnds /\ readers[q] \ {c} \in ReadEnds
    BY <1>1 DEF WriteEnds, ReadEnds
  <1>4. EndTypes'
    BY <1>2, <1>3 DEF EndTypes
  <1>5. \A q \in Runs : /\ \A s \in Streams : writers'[q][s] = writers[q][s] \ {c}
                        /\ readers'[q] = readers[q] \ {c}
    BY <1>2
  <1>6. \A q \in Runs \ {c} : SameEnds(q)
    BY <1>5 DEF SameEnds
  <1>7. QED
    BY <1>4, <1>5, <1>6

(* What a child inherits.                                                   *)
LEMMA Inherited ==
  ASSUME NEW r \in Runs, NEW who \in SUBSET Holders
  PROVE  /\ Inherit(r, who) \in SUBSET Holders /\ who \subseteq Inherit(r, who)
         /\ Parent \in Inherit(r, who) <=> Parent \in who
         /\ who = {} => Inherit(r, who) = {}
  BY ProcessAssumption DEF Inherit, Holders

(* The child is forked, or not.                                             *)
LEMMA ForkKeeps == ASSUME ProcessInv, NEW r \in Runs, fork(r) PROVE ProcessInv'
  <1>1. writers \in [Runs -> WriteEnds] /\ readers \in [Runs -> ReadEnds]
    BY DEF ProcessInv, ProcessTypes, EndTypes
  <1>2. /\ \A q \in Runs : readers[q] \in SUBSET Holders /\ \A s \in Streams : writers[q][s] \in SUBSET Holders
    BY <1>1 DEF WriteEnds, ReadEnds
  <1>3. CallInv(r) /\ pc[r] = "fork"
    BY DEF ProcessInv, fork
  <1>4. CallTypes'
    BY DEF ProcessInv, ProcessTypes, CallTypes, fork, Return, Places
  <1>5. ChildTypes'
    BY DEF ProcessInv, ProcessTypes, ChildTypes, fork, Lives
  <1>6. ASSUME NEW q \in Runs, q # r PROVE SameCall(q) /\ SameChild(q) /\ machine' = machine
    BY <1>6 DEF ProcessInv, ProcessTypes, CallTypes, ChildTypes, fork, Return, SameCall, SameChild
  <1>7. CASE /\ writers' = [q \in Runs |-> [s \in Streams |-> Inherit(r, writers[q][s])]]
             /\ readers' = [q \in Runs |-> Inherit(r, readers[q])]
             /\ child' = [child EXCEPT ![r] = "forked"]
             /\ pc' = [pc EXCEPT ![r] = "forked"] /\ UNCHANGED result
    <2>1. \A q \in Runs : /\ [s \in Streams |-> Inherit(r, writers[q][s])] \in WriteEnds
                          /\ Inherit(r, readers[q]) \in ReadEnds
      BY <1>2, Inherited DEF WriteEnds, ReadEnds
    <2>2. EndTypes'
      BY <1>7, <2>1 DEF EndTypes
    <2>3. ASSUME NEW q \in Runs PROVE SameEnds(q)
      BY <1>2, <1>7, Inherited DEF SameEnds
    <2>4. ASSUME NEW q \in Runs, q # r PROVE CallInv(q)'
      BY <1>6, <2>3, <2>4, OtherKept
    <2>5. CallInv(r)'
      <3>1. /\ pc'[r] = "forked" /\ child'[r] = "forked" /\ result'[r] = result[r]
            /\ UNCHANGED <<machine, pipe, wrote, writing, got, open, fail, stored>>
        BY <1>7 DEF fork, ProcessInv, ProcessTypes, CallTypes, ChildTypes
      <3>2. Conserved(r)' /\ ReadToEnd(r)'
        BY <1>3, <2>3, <3>1 DEF CallInv, Conserved, ReadToEnd, SameEnds
      <3>5. WritesHeld(r)'
        BY <1>3, <3>1 DEF CallInv, WritesHeld, InStep
      <3>3. EndsClosed(r)' /\ InStep(r)'
        BY <1>3, <3>1 DEF CallInv, EndsClosed, InStep
      <3>4. QED
        BY <3>2, <3>3, <3>5 DEF CallInv
    <2>6. QED
      BY <1>4, <1>5, <2>2, <2>4, <2>5 DEF ProcessInv, ProcessTypes
  <1>8. CASE /\ Return(r, "failed")
             /\ writers' = [writers EXCEPT ![r] = [s \in Streams |-> {}]]
             /\ readers' = [readers EXCEPT ![r] = {}]
             /\ UNCHANGED child
    <2>1. [s \in Streams |-> {}] \in WriteEnds /\ {} \in ReadEnds
      BY DEF WriteEnds, ReadEnds
    <2>2. EndTypes'
      BY <1>1, <1>8, <2>1 DEF EndTypes
    <2>3. ASSUME NEW q \in Runs, q # r PROVE SameEnds(q)
      BY <1>1, <1>8, <2>3 DEF SameEnds
    <2>4. ASSUME NEW q \in Runs, q # r PROVE CallInv(q)'
      BY <1>6, <2>3, <2>4, OtherKept
    <2>5. CallInv(r)'
      <3>1. /\ pc'[r] = "done" /\ child'[r] = child[r] /\ result'[r] = "failed"
            /\ UNCHANGED <<machine, pipe, wrote, writing, got, open, fail, stored>>
            /\ readers'[r] = {} /\ \A s \in Streams : writers'[r][s] = {}
        BY <1>1, <1>8 DEF fork, Return, ProcessInv, ProcessTypes, CallTypes
      <3>2. Conserved(r)' /\ ReadToEnd(r)' /\ WritesHeld(r)'
        BY <1>3, <3>1 DEF CallInv, Conserved, ReadToEnd, WritesHeld, InStep
      <3>3. EndsClosed(r)' /\ InStep(r)'
        BY <1>3, <3>1 DEF CallInv, EndsClosed, InStep
      <3>4. QED
        BY <3>2, <3>3 DEF CallInv
    <2>6. QED
      BY <1>4, <1>5, <2>2, <2>4, <2>5 DEF ProcessInv, ProcessTypes
  <1>9. QED
    BY <1>7, <1>8 DEF fork

(* The process drops the write ends.                                        *)
LEMMA CloseWriteEndsKeeps == ASSUME ProcessInv, NEW r \in Runs, CloseWriteEnds(r) PROVE ProcessInv'
  <1>1. writers \in [Runs -> WriteEnds] /\ readers \in [Runs -> ReadEnds]
    BY DEF ProcessInv, ProcessTypes, EndTypes
  <1>2. [s \in Streams |-> writers[r][s] \ {Parent}] \in WriteEnds
    BY <1>1 DEF WriteEnds
  <1>3. ProcessTypes'
    BY <1>1, <1>2 DEF ProcessInv, ProcessTypes, CallTypes, ChildTypes, EndTypes, CloseWriteEnds, children, Places
  <1>4. ASSUME NEW q \in Runs, q # r PROVE CallInv(q)'
    <2>1. SameCall(q) /\ SameChild(q) /\ SameEnds(q) /\ machine' = machine
      BY <1>4 DEF ProcessInv, ProcessTypes, CallTypes, EndTypes, CloseWriteEnds, children, SameCall, SameChild, SameEnds
    <2>2. QED
      BY <2>1, OtherKept
  <1>5. CallInv(r)'
    <2>1. /\ pc[r] = "forked" /\ pc'[r] = "reading" /\ CallInv(r)
          /\ \A s \in Streams : writers'[r][s] = writers[r][s] \ {Parent}
          /\ UNCHANGED <<machine, children, readers, got, open, fail, stored, result>>
      BY <1>1 DEF CloseWriteEnds, ProcessInv, ProcessTypes, CallTypes
    <2>2. Conserved(r)' /\ ReadToEnd(r)'
      BY <2>1 DEF CallInv, Conserved, ReadToEnd, children
    <2>3. WritesHeld(r)'
      <3>1. writing[r] \in Streams \cup {"none"} /\ r # Parent
        BY ProcessAssumption DEF ProcessInv, ProcessTypes, ChildTypes
      <3>2. QED
        BY <2>1, <3>1 DEF CallInv, WritesHeld, children
    <2>4. EndsClosed(r)' /\ InStep(r)'
      BY <2>1 DEF CallInv, EndsClosed, InStep, children
    <2>5. QED
      BY <2>2, <2>3, <2>4 DEF CallInv
  <1>6. QED
    BY <1>3, <1>4, <1>5 DEF ProcessInv

(* Some bytes are read, or the end.                                         *)
LEMMA PollKeeps == ASSUME ProcessInv, NEW r \in Runs, Poll(r) PROVE ProcessInv'
  <1>0. CallInv(r)
    BY DEF ProcessInv
  <1>1. /\ got \in [Runs -> Counts] /\ pipe \in [Runs -> Counts] /\ open \in [Runs -> SUBSET Streams]
        /\ got[r] \in Counts /\ pipe[r] \in Counts
    BY DEF ProcessInv, ProcessTypes, CallTypes, ChildTypes
  <1>2. \A s \in Streams : got[r][s] \in Nat /\ pipe[r][s] \in Nat
    BY <1>1 DEF Counts
  <1>3. PICK a \in Chunks(r, "out"), b \in Chunks(r, "err") :
          LET n == [s \in Streams |-> IF s = "out" THEN a ELSE b] IN
          /\ got' = [got EXCEPT ![r] = [s \in Streams |-> @[s] + n[s]]]
          /\ pipe' = [pipe EXCEPT ![r] = [s \in Streams |-> @[s] - n[s]]]
    BY DEF Poll
  <1> DEFINE n == [s \in Streams |-> IF s = "out" THEN a ELSE b]
             more == [s \in Streams |-> got[r][s] + n[s]]
             less == [s \in Streams |-> pipe[r][s] - n[s]]
  <1>4. \A s \in Streams : /\ n[s] \in Nat /\ n[s] <= pipe[r][s]
                           /\ pipe[r][s] = 0 => n[s] = 0
    <2>1. "out" \in Streams /\ "err" \in Streams
      BY DEF Streams
    <2>2. a \in Nat /\ a <= pipe[r]["out"] /\ b \in Nat /\ b <= pipe[r]["err"]
      BY <1>2, <2>1 DEF Chunks
    <2>3. QED
      BY <1>2, <2>1, <2>2 DEF Streams
  <1>5. got' = [got EXCEPT ![r] = more] /\ pipe' = [pipe EXCEPT ![r] = less]
    BY <1>1, <1>3
  <1> HIDE DEF n
  <1>6. more \in Counts /\ less \in Counts
    BY <1>2, <1>4 DEF Counts
  <1>7. /\ open' = [open EXCEPT ![r] = @ \ Ended(r)]
        /\ UNCHANGED <<machine, child, wrote, writing, ends, pc, fail, stored, result>>
        /\ pc[r] = "reading"
    BY DEF Poll, Looping
  <1>8. ProcessTypes'
    <2> HIDE DEF more, less
    <2>1. CallTypes'
      BY <1>1, <1>5, <1>6, <1>7 DEF ProcessInv, ProcessTypes, CallTypes
    <2>2. ChildTypes' /\ EndTypes'
      BY <1>1, <1>5, <1>6, <1>7 DEF ProcessInv, ProcessTypes, ChildTypes, EndTypes, ends
    <2>3. QED
      BY <2>1, <2>2 DEF ProcessTypes
  <1>9. ASSUME NEW q \in Runs, q # r PROVE CallInv(q)'
    <2>1. SameCall(q) /\ SameChild(q) /\ SameEnds(q) /\ machine' = machine
      BY <1>1, <1>5, <1>7, <1>9 DEF ends, SameCall, SameChild, SameEnds
    <2>2. QED
      BY <2>1, OtherKept
  <1>10. CallInv(r)'
    <2>1. got'[r] = more /\ pipe'[r] = less /\ open'[r] = open[r] \ Ended(r)
      BY <1>1, <1>5, <1>7
    <2>2. Conserved(r)'
      <3>1. \A s \in Streams : wrote[r][s] = got[r][s] + pipe[r][s]
        BY <1>0 DEF CallInv, Conserved
      <3>2. QED
        BY <1>2, <1>4, <1>7, <2>1, <3>1 DEF Conserved
    <2>3. ReadToEnd(r)'
      <3>1. ASSUME NEW s \in Streams \ open'[r] PROVE pipe[r][s] = 0 /\ writers[r][s] = {}
        <4>1. CASE s \in open[r]
          BY <1>2, <2>1, <3>1, <4>1 DEF Ended, Ready
        <4>2. CASE s \notin open[r]
          BY <1>0, <3>1, <4>2 DEF CallInv, ReadToEnd
        <4>3. QED
          BY <4>1, <4>2
      <3>2. QED
        BY <1>4, <1>7, <2>1, <3>1 DEF ReadToEnd, ends
    <2>4. WritesHeld(r)' /\ EndsClosed(r)'
      BY <1>0, <1>7 DEF CallInv, WritesHeld, EndsClosed, ends
    <2>5. InStep(r)'
      BY <1>0, <1>7 DEF CallInv, InStep
    <2>6. QED
      BY <2>2, <2>3, <2>4, <2>5 DEF CallInv
  <1>11. QED
    BY <1>8, <1>9, <1>10 DEF ProcessInv

(* poll or read fails.                                                      *)
LEMMA PollFailsKeeps == ASSUME ProcessInv, NEW r \in Runs, PollFails(r) PROVE ProcessInv'
  <1>1. ProcessTypes'
    BY DEF ProcessInv, ProcessTypes, CallTypes, ChildTypes, EndTypes, PollFails, children, ends
  <1>2. ASSUME NEW q \in Runs, q # r PROVE CallInv(q)'
    <2>1. SameCall(q) /\ SameChild(q) /\ SameEnds(q) /\ machine' = machine
      BY <1>2 DEF ProcessInv, ProcessTypes, CallTypes, PollFails, children, ends, SameCall, SameChild, SameEnds
    <2>2. QED
      BY <2>1, OtherKept
  <1>3. CallInv(r)'
    <2>1. CallInv(r) /\ pc[r] = "reading" /\ UNCHANGED <<machine, children, ends, pc, got, open, stored, result>>
      BY DEF ProcessInv, PollFails, Looping
    <2>2. Conserved(r)' /\ ReadToEnd(r)' /\ WritesHeld(r)' /\ EndsClosed(r)'
      BY <2>1 DEF CallInv, Conserved, ReadToEnd, WritesHeld, EndsClosed, children, ends
    <2>3. InStep(r)'
      BY <2>1 DEF CallInv, InStep, children, ToStore
    <2>4. QED
      BY <2>2, <2>3 DEF CallInv
  <1>4. QED
    BY <1>1, <1>2, <1>3 DEF ProcessInv

(* The loop is over: the read ends are closed.                              *)
LEMMA StopReadingKeeps == ASSUME ProcessInv, NEW r \in Runs, StopReading(r) PROVE ProcessInv'
  <1>0. /\ CallInv(r) /\ pc[r] = "reading" /\ (open[r] = {} \/ fail[r])
        /\ UNCHANGED <<machine, pipe, wrote, writing, got, open, fail, stored>>
        /\ pc \in [Runs -> Places] /\ child \in [Runs -> Lives] /\ result \in [Runs -> {"none", "ok", "failed"}]
        /\ writers \in [Runs -> WriteEnds] /\ readers \in [Runs -> ReadEnds]
    BY DEF ProcessInv, ProcessTypes, CallTypes, ChildTypes, EndTypes, StopReading
  <1>1. \/ Return(r, "failed") /\ machine = "oracle"
        \/ pc' = [pc EXCEPT ![r] = "wait"] /\ UNCHANGED result
    BY DEF StopReading
  <1>2. CallTypes'
    BY <1>0, <1>1 DEF ProcessInv, ProcessTypes, CallTypes, Return, Places
  <1>3. \/ /\ child[r] \in {"forked", "running"} /\ child' = [child EXCEPT ![r] = "killed"]
           /\ writers' = Without(r) /\ fail[r]
           /\ readers' = [q \in Runs |-> readers[q] \ ({r} \cup IF q = r THEN {Parent} ELSE {})]
        \/ /\ readers' = [readers EXCEPT ![r] = @ \ {Parent}] /\ UNCHANGED <<child, writers>>
    BY DEF StopReading, Alive
  <1>4. ChildTypes'
    BY <1>0, <1>3 DEF ProcessInv, ProcessTypes, ChildTypes, Lives
  <1>5. EndTypes'
    <2>1. /\ \A q \in Runs : [s \in Streams |-> writers[q][s] \ {r}] \in WriteEnds
          /\ \A q \in Runs : /\ readers[q] \ ({r} \cup IF q = r THEN {Parent} ELSE {}) \in ReadEnds
                             /\ readers[q] \ {Parent} \in ReadEnds
      BY <1>0 DEF WriteEnds, ReadEnds
    <2>2. CASE /\ writers' = Without(r)
               /\ readers' = [q \in Runs |-> readers[q] \ ({r} \cup IF q = r THEN {Parent} ELSE {})]
      <3>1. writers' \in [Runs -> WriteEnds]
        BY <2>1, <2>2 DEF Without
      <3>2. readers' \in [Runs -> ReadEnds]
        BY <2>1, <2>2
      <3>3. QED
        BY <3>1, <3>2 DEF EndTypes
    <2>3. CASE readers' = [readers EXCEPT ![r] = @ \ {Parent}] /\ UNCHANGED writers
      BY <1>0, <2>1, <2>3 DEF EndTypes
    <2>4. QED
      BY <1>3, <2>2, <2>3
  <1>6. ASSUME NEW q \in Runs
        PROVE  /\ SameEnds(q) \/ (q = r /\ child'[r] = "killed")
               /\ Parent \notin readers'[r]
               /\ \A s \in Streams : writers'[q][s] \subseteq writers[q][s]
    <2>1. CASE /\ writers' = Without(r) /\ child' = [child EXCEPT ![r] = "killed"]
               /\ readers' = [p \in Runs |-> readers[p] \ ({r} \cup IF p = r THEN {Parent} ELSE {})]
      <3>1. \A s \in Streams : writers'[q][s] = writers[q][s] \ {r}
        BY <2>1 DEF Without
      <3>2. readers'[q] \subseteq readers[q] /\ Parent \notin readers'[r]
        BY <2>1
      <3>3. child'[r] = "killed"
        BY <1>0, <2>1
      <3>4. QED
        BY <3>1, <3>2, <3>3 DEF SameEnds
    <2>2. CASE readers' = [readers EXCEPT ![r] = @ \ {Parent}] /\ UNCHANGED writers
      <3>1. readers'[q] \subseteq readers[q] /\ Parent \notin readers'[r]
        BY <1>0, <2>2
      <3>2. \A s \in Streams : writers'[q][s] = writers[q][s]
        BY <2>2
      <3>3. SameEnds(q)
        BY <3>1, <3>2 DEF SameEnds
      <3>4. QED
        BY <3>1, <3>2, <3>3
    <2>3. QED
      BY <1>3, <2>1, <2>2
  <1>7. ASSUME NEW q \in Runs, q # r PROVE CallInv(q)'
    <2>1. SameCall(q) /\ SameChild(q) /\ machine' = machine
      BY <1>0, <1>1, <1>3, <1>7 DEF Return, SameCall, SameChild
    <2>2. QED
      BY <1>6, <1>7, <2>1, OtherKept
  <1>8. CallInv(r)'
    <2>1. /\ \/ pc'[r] = "done" /\ result'[r] = "failed" /\ machine = "oracle"
             \/ pc'[r] = "wait" /\ result'[r] = result[r]
      BY <1>0, <1>1 DEF Return
    <2>2. child'[r] = "killed" \/ child'[r] = child[r]
      BY <1>0, <1>3
    <2>3. Conserved(r)' /\ ReadToEnd(r)'
      BY <1>0, <1>6 DEF CallInv, Conserved, ReadToEnd
    <2>4. WritesHeld(r)'
      <3>1. writing[r] \in Streams \cup {"none"}
        BY DEF ProcessInv, ProcessTypes, ChildTypes
      <3>2. QED
        BY <1>0, <1>6, <2>2, <3>1 DEF CallInv, WritesHeld, SameEnds
    <2>5. EndsClosed(r)'
      BY <1>0, <1>6, <2>1 DEF CallInv, EndsClosed
    <2>6. InStep(r)'
      BY <1>0, <2>1, <2>2 DEF CallInv, InStep
    <2>7. QED
      BY <2>3, <2>4, <2>5, <2>6 DEF CallInv
  <1>9. QED
    BY <1>2, <1>4, <1>5, <1>7, <1>8 DEF ProcessInv, ProcessTypes

(* The child is waited for.                                                 *)
LEMMA WaitKeeps == ASSUME ProcessInv, NEW r \in Runs, Wait(r) PROVE ProcessInv'
  <1>0. /\ CallInv(r) /\ pc[r] = "wait" /\ UNCHANGED <<machine, pipe, wrote, writing, ends, got, open, stored, result>>
        /\ pc' = [pc EXCEPT ![r] = "store"]
        /\ pc \in [Runs -> Places] /\ child \in [Runs -> Lives] /\ fail \in [Runs -> BOOLEAN]
        /\ machine \in {"binary", "oracle"}
    BY DEF ProcessInv, ProcessTypes, CallTypes, ChildTypes, Wait
  <1>1. \/ child' = [child EXCEPT ![r] = "reaped"] /\ fail' = [fail EXCEPT ![r] = @ \/ child[r] = "killed"]
        \/ machine = "oracle" /\ fail' = [fail EXCEPT ![r] = TRUE] /\ child' = child
    BY DEF Wait
  <1>2. /\ \/ child'[r] = "reaped"
           \/ machine = "oracle" /\ fail'[r] /\ child'[r] = child[r]
        /\ fail[r] => fail'[r]
    BY <1>0, <1>1
  <1>3. fail' \in [Runs -> BOOLEAN]
    BY <1>0, <1>1
  <1>4. ProcessTypes'
    BY <1>0, <1>1, <1>3 DEF ProcessInv, ProcessTypes, CallTypes, ChildTypes, EndTypes, ends, Places, Lives
  <1>5. ASSUME NEW q \in Runs, q # r PROVE CallInv(q)'
    <2>1. SameCall(q) /\ SameChild(q) /\ SameEnds(q) /\ machine' = machine
      BY <1>0, <1>1, <1>5 DEF ends, SameCall, SameChild, SameEnds
    <2>2. QED
      BY <2>1, OtherKept
  <1>6. CallInv(r)'
    <2>1. Conserved(r)' /\ ReadToEnd(r)' /\ EndsClosed(r)'
      BY <1>0 DEF CallInv, Conserved, ReadToEnd, EndsClosed, ends
    <2>2. WritesHeld(r)'
      BY <1>0, <1>2 DEF CallInv, WritesHeld, ends
    <2>3. InStep(r)'
      BY <1>0, <1>2 DEF CallInv, InStep
    <2>4. QED
      BY <2>1, <2>2, <2>3 DEF CallInv
  <1>7. QED
    BY <1>4, <1>5, <1>6 DEF ProcessInv

(* The captures are stored, or not.                                         *)
LEMMA StoreKeeps == ASSUME ProcessInv, NEW r \in Runs, Store(r) PROVE ProcessInv'
  <1>0. /\ CallInv(r) /\ pc[r] = "store" /\ UNCHANGED <<machine, children, ends, got, open>>
        /\ pc' = [pc EXCEPT ![r] = "done"]
        /\ pc \in [Runs -> Places] /\ fail \in [Runs -> BOOLEAN] /\ stored \in [Runs -> SUBSET Streams]
        /\ result \in [Runs -> {"none", "ok", "failed"}]
    BY DEF ProcessInv, ProcessTypes, CallTypes, Store, Return
  <1>1. \/ result' = [result EXCEPT ![r] = "failed"] /\ UNCHANGED <<stored, fail>>
        \/ /\ result' = [result EXCEPT ![r] = "ok"] /\ UNCHANGED fail /\ ~fail[r]
           /\ stored' = [stored EXCEPT ![r] = ToStore(r)]
        \/ /\ result' = [result EXCEPT ![r] = "failed"] /\ fail' = [fail EXCEPT ![r] = TRUE]
           /\ stored' = [stored EXCEPT ![r] = {}]
    BY DEF Store, Return
  <1>2. ProcessTypes'
    <2>1. ToStore(r) \in SUBSET Streams /\ {} \in SUBSET Streams
      BY DEF ToStore
    <2>2. stored' \in [Runs -> SUBSET Streams] /\ fail' \in [Runs -> BOOLEAN]
      BY <1>0, <1>1, <2>1
    <2>3. CallTypes'
      BY <1>0, <1>1, <2>2 DEF ProcessInv, ProcessTypes, CallTypes, Places
    <2>4. ChildTypes' /\ EndTypes'
      BY <1>0 DEF ProcessInv, ProcessTypes, ChildTypes, EndTypes, children, ends
    <2>5. QED
      BY <2>3, <2>4 DEF ProcessTypes
  <1>3. ASSUME NEW q \in Runs, q # r PROVE CallInv(q)'
    <2>1. SameCall(q) /\ SameChild(q) /\ SameEnds(q) /\ machine' = machine
      BY <1>0, <1>1, <1>3 DEF ends, children, SameCall, SameChild, SameEnds
    <2>2. QED
      BY <2>1, OtherKept
  <1>4. CallInv(r)'
    <2>1. /\ pc'[r] = "done" /\ ToStore(r)' = ToStore(r)
          /\ \/ result'[r] = "failed" /\ (stored'[r] = stored[r] \/ stored'[r] = {})
             \/ result'[r] = "ok" /\ stored'[r] = ToStore(r) /\ ~fail[r]
      BY <1>0, <1>1 DEF ToStore
    <2>2. Conserved(r)' /\ ReadToEnd(r)' /\ WritesHeld(r)' /\ EndsClosed(r)'
      BY <1>0, <2>1 DEF CallInv, Conserved, ReadToEnd, WritesHeld, EndsClosed, ends, children
    <2>3. InStep(r)'
      BY <1>0, <2>1 DEF CallInv, InStep, children
    <2>4. QED
      BY <2>2, <2>3 DEF CallInv
  <1>5. QED
    BY <1>2, <1>3, <1>4 DEF ProcessInv

-----------------------------------------------------------------------------
(* A child that ends, or is ended, where it may.                            *)
LEMMA DiesKept ==
  ASSUME ProcessInv, NEW c \in Runs, Dead(c), NEW how \in {"exited", "killed"}, child[c] \in {"forked", "running"},
         child' = [child EXCEPT ![c] = how], writing' \in [Runs -> Streams \cup {"none"}],
         \A q \in Runs \ {c} : writing'[q] = writing[q],
         UNCHANGED <<machine, parents, pipe, wrote>>
  PROVE  ProcessInv'
  <1>1. CallInv(c) /\ child \in [Runs -> Lives] /\ child'[c] = how
    BY DEF ProcessInv, ProcessTypes, ChildTypes
  <1>2. CallTypes' /\ ChildTypes' /\ EndTypes'
    BY <1>1, DeadEnds DEF ProcessInv, ProcessTypes, CallTypes, ChildTypes, parents, Lives
  <1>3. ASSUME NEW q \in Runs, q # c PROVE CallInv(q)'
    <2>1. SameCall(q) /\ SameChild(q) /\ machine' = machine
      BY <1>1, <1>3 DEF parents, SameCall, SameChild
    <2>2. SameEnds(q)
      BY <1>3, DeadEnds
    <2>3. QED
      BY <2>1, <2>2, OtherKept
  <1>4. CallInv(c)'
    <2>1. /\ \A s \in Streams : writers'[c][s] \subseteq writers[c][s]
          /\ readers'[c] \subseteq readers[c]
      BY DeadEnds
    <2>2. Conserved(c)' /\ ReadToEnd(c)' /\ WritesHeld(c)' /\ EndsClosed(c)'
      BY <1>1, <2>1 DEF CallInv, Conserved, ReadToEnd, WritesHeld, EndsClosed, parents
    <2>3. InStep(c)'
      BY <1>1 DEF CallInv, InStep, parents, ToStore
    <2>4. QED
      BY <2>2, <2>3 DEF CallInv
  <1>5. QED
    BY <1>2, <1>3, <1>4 DEF ProcessInv, ProcessTypes

(* The child becomes the program, or cannot.                                *)
LEMMA ExecvpKeeps == ASSUME ProcessInv, NEW c \in Runs, execvp(c) PROVE ProcessInv'
  <1>0. /\ child[c] = "forked" /\ UNCHANGED <<machine, parents, pipe, wrote, writing>> /\ CallInv(c)
        /\ child \in [Runs -> Lives] /\ writing \in [Runs -> Streams \cup {"none"}]
        /\ readers \in [Runs -> ReadEnds] /\ writers \in [Runs -> WriteEnds]
    BY DEF ProcessInv, ProcessTypes, ChildTypes, EndTypes, execvp
  <1>1. CASE child' = [child EXCEPT ![c] = "exited"] /\ Dead(c)
    BY <1>0, <1>1, DiesKept
  <1>2. CASE /\ child' = [child EXCEPT ![c] = "running"]
             /\ readers' = [readers EXCEPT ![c] = @ \ {c}] /\ UNCHANGED writers
    <2>1. readers[c] \ {c} \in ReadEnds
      BY <1>0 DEF ReadEnds
    <2>2. ProcessTypes'
      BY <1>0, <1>2, <2>1 DEF ProcessInv, ProcessTypes, CallTypes, ChildTypes, EndTypes, parents, Lives
    <2>3. \A q \in Runs : SameEnds(q)
      BY <1>0, <1>2 DEF SameEnds
    <2>4. ASSUME NEW q \in Runs, q # c PROVE CallInv(q)'
      <3>1. SameCall(q) /\ SameChild(q) /\ machine' = machine
        BY <1>0, <1>2, <2>4 DEF parents, SameCall, SameChild
      <3>2. QED
        BY <2>3, <3>1, OtherKept
    <2>5. CallInv(c)'
      <3>1. child'[c] = "running" /\ writing[c] = "none"
        BY <1>0, <1>2 DEF CallInv, WritesHeld, InStep
      <3>2. Conserved(c)' /\ ReadToEnd(c)' /\ WritesHeld(c)' /\ EndsClosed(c)'
        BY <1>0, <2>3, <3>1 DEF CallInv, Conserved, ReadToEnd, WritesHeld, EndsClosed, SameEnds, parents
      <3>3. InStep(c)'
        BY <1>0, <3>1 DEF CallInv, InStep, parents, ToStore
      <3>4. QED
        BY <3>2, <3>3 DEF CallInv
    <2>6. QED
      BY <2>2, <2>4, <2>5 DEF ProcessInv
  <1>3. QED
    BY <1>1, <1>2 DEF execvp

(* The child begins a write.                                                *)
LEMMA ChildWritesKeeps == ASSUME ProcessInv, NEW c \in Runs, NEW s \in Streams, ChildWrites(c, s) PROVE ProcessInv'
  <1>0. /\ c \in writers[c][s] /\ writing' = [writing EXCEPT ![c] = s]
        /\ UNCHANGED <<machine, parents, child, pipe, wrote, ends>>
        /\ writing \in [Runs -> Streams \cup {"none"}] /\ CallInv(c)
    BY DEF ChildWrites, ProcessInv, ProcessTypes, ChildTypes
  <1>1. ProcessTypes'
    BY <1>0 DEF ProcessInv, ProcessTypes, CallTypes, ChildTypes, EndTypes, parents, ends
  <1>2. ASSUME NEW q \in Runs, q # c PROVE CallInv(q)'
    <2>1. SameCall(q) /\ SameChild(q) /\ SameEnds(q) /\ machine' = machine
      BY <1>0, <1>2 DEF parents, ends, SameCall, SameChild, SameEnds
    <2>2. QED
      BY <2>1, OtherKept
  <1>3. CallInv(c)'
    <2>1. WritesHeld(c)'
      <3>1. child[c] = "running" /\ writing'[c] = s
        BY <1>0 DEF ChildWrites
      <3>2. QED
        BY <1>0, <3>1 DEF WritesHeld, ends
    <2>2. Conserved(c)' /\ ReadToEnd(c)' /\ EndsClosed(c)'
      BY <1>0 DEF CallInv, Conserved, ReadToEnd, EndsClosed, parents, ends
    <2>3. InStep(c)'
      BY <1>0 DEF CallInv, InStep, parents, ToStore
    <2>4. QED
      BY <2>1, <2>2, <2>3 DEF CallInv
  <1>4. QED
    BY <1>1, <1>2, <1>3 DEF ProcessInv

(* The write is done, or there is no reader left.                           *)
LEMMA ChildWroteKeeps == ASSUME ProcessInv, NEW c \in Runs, ChildWrote(c) PROVE ProcessInv'
  <1>0. /\ child[c] = "running" /\ writing[c] # "none" /\ writing' = [writing EXCEPT ![c] = "none"]
        /\ UNCHANGED <<machine, parents>> /\ writing \in [Runs -> Streams \cup {"none"}] /\ CallInv(c)
    BY DEF ChildWrote, ProcessInv, ProcessTypes, ChildTypes
  <1>1. /\ writing' \in [Runs -> Streams \cup {"none"}] /\ writing'[c] = "none"
        /\ \A q \in Runs \ {c} : writing'[q] = writing[q]
    BY <1>0
  <1>2. CASE child' = [child EXCEPT ![c] = "killed"] /\ Dead(c) /\ UNCHANGED <<pipe, wrote>>
    BY <1>0, <1>1, <1>2, DiesKept
  <1>3. CASE /\ pipe' = [pipe EXCEPT ![c][writing[c]] = @ + 1]
             /\ wrote' = [wrote EXCEPT ![c][writing[c]] = @ + 1]
             /\ UNCHANGED <<child, ends>>
    <2> DEFINE w == writing[c]
               fuller == [pipe[c] EXCEPT ![w] = @ + 1]
               longer == [wrote[c] EXCEPT ![w] = @ + 1]
    <2>1. w \in Streams /\ c \in writers[c][w]
      BY <1>0 DEF CallInv, WritesHeld
    <2>2. pipe[c] \in Counts /\ wrote[c] \in Counts /\ pipe \in [Runs -> Counts] /\ wrote \in [Runs -> Counts]
          /\ got[c] \in Counts
      BY DEF ProcessInv, ProcessTypes, CallTypes, ChildTypes
    <2>3. fuller \in Counts /\ longer \in Counts
      BY <2>1, <2>2 DEF Counts
    <2>4. pipe' = [pipe EXCEPT ![c] = fuller] /\ wrote' = [wrote EXCEPT ![c] = longer]
      BY <1>3, <2>2
    <2>5. ProcessTypes'
      <3> HIDE DEF fuller, longer
      <3>1. CallTypes' /\ EndTypes'
        BY <1>0, <1>3 DEF ProcessInv, ProcessTypes, CallTypes, EndTypes, parents, ends
      <3>2. ChildTypes'
        BY <1>1, <1>3, <2>2, <2>3, <2>4 DEF ProcessInv, ProcessTypes, ChildTypes
      <3>3. QED
        BY <3>1, <3>2 DEF ProcessTypes
    <2>6. ASSUME NEW q \in Runs, q # c PROVE CallInv(q)'
      <3>1. SameCall(q) /\ SameChild(q) /\ SameEnds(q) /\ machine' = machine
        BY <1>0, <1>3, <2>2, <2>4, <2>6 DEF parents, ends, SameCall, SameChild, SameEnds
      <3>2. QED
        BY <3>1, OtherKept
    <2>7. CallInv(c)'
      <3>1. pipe'[c] = fuller /\ wrote'[c] = longer /\ got'[c] = got[c] /\ open'[c] = open[c]
        BY <1>0, <2>2, <2>4 DEF parents
      <3>2. Conserved(c)'
        <4>1. \A s \in Streams : /\ wrote[c][s] = got[c][s] + pipe[c][s]
                                 /\ wrote[c][s] \in Nat /\ got[c][s] \in Nat /\ pipe[c][s] \in Nat
          BY <1>0, <2>2 DEF CallInv, Conserved, Counts
        <4>2. \A s \in Streams : longer[s] = got[c][s] + fuller[s]
          BY <2>1, <2>2, <4>1 DEF Counts
        <4>3. QED
          BY <3>1, <4>2 DEF Conserved
      <3>3. ReadToEnd(c)'
        <4>1. w \in open[c]
          BY <1>0, <2>1 DEF CallInv, ReadToEnd
        <4>2. QED
          BY <1>0, <1>3, <2>2, <3>1, <4>1 DEF CallInv, ReadToEnd, Counts, ends
      <3>4. WritesHeld(c)' /\ EndsClosed(c)'
        BY <1>0, <1>1, <1>3 DEF CallInv, WritesHeld, EndsClosed, parents, ends
      <3>5. InStep(c)'
        BY <1>0, <1>3 DEF CallInv, InStep, parents, ToStore
      <3>6. QED
        BY <3>2, <3>3, <3>4, <3>5 DEF CallInv
    <2>8. QED
      BY <2>5, <2>6, <2>7 DEF ProcessInv
  <1>4. QED
    BY <1>2, <1>3 DEF ChildWrote

(* The child closes a stream.                                               *)
LEMMA ChildClosesKeeps == ASSUME ProcessInv, NEW c \in Runs, NEW s \in Streams, ChildCloses(c, s) PROVE ProcessInv'
  <1>0. /\ writing[c] = "none" /\ UNCHANGED <<machine, parents, children, readers>>
        /\ writers' = [writers EXCEPT ![c][s] = @ \ {c}] /\ writers \in [Runs -> WriteEnds] /\ CallInv(c)
    BY DEF ChildCloses, ProcessInv, ProcessTypes, EndTypes
  <1>1. [writers[c] EXCEPT ![s] = @ \ {c}] \in WriteEnds
    BY <1>0 DEF WriteEnds
  <1>2. writers' = [writers EXCEPT ![c] = [writers[c] EXCEPT ![s] = @ \ {c}]]
    BY <1>0
  <1>3. ProcessTypes'
    BY <1>0, <1>1, <1>2 DEF ProcessInv, ProcessTypes, CallTypes, ChildTypes, EndTypes, parents, children
  <1>4. ASSUME NEW q \in Runs, q # c PROVE CallInv(q)'
    <2>1. SameCall(q) /\ SameChild(q) /\ SameEnds(q) /\ machine' = machine
      BY <1>0, <1>4 DEF parents, children, SameCall, SameChild, SameEnds
    <2>2. QED
      BY <2>1, OtherKept
  <1>5. CallInv(c)'
    <2>1. \A t \in Streams : writers'[c][t] \subseteq writers[c][t]
      BY <1>0, <1>2 DEF WriteEnds
    <2>2. Conserved(c)' /\ ReadToEnd(c)' /\ WritesHeld(c)' /\ EndsClosed(c)'
      BY <1>0, <2>1 DEF CallInv, Conserved, ReadToEnd, WritesHeld, EndsClosed, parents, children
    <2>3. InStep(c)'
      BY <1>0 DEF CallInv, InStep, parents, children, ToStore
    <2>4. QED
      BY <2>2, <2>3 DEF CallInv
  <1>6. QED
    BY <1>3, <1>4, <1>5 DEF ProcessInv

(* The program ends, by itself or by a signal.                              *)
LEMMA ChildEndsKeeps == ASSUME ProcessInv, NEW c \in Runs, ChildEnds(c) \/ ChildSignalled(c) PROVE ProcessInv'
  <1>1. writing \in [Runs -> Streams \cup {"none"}]
    BY DEF ProcessInv, ProcessTypes, ChildTypes
  <1>2. PICK how \in {"exited", "killed"} : child' = [child EXCEPT ![c] = how]
    BY DEF ChildEnds, ChildSignalled
  <1>3. /\ Dead(c) /\ child[c] \in {"forked", "running"} /\ UNCHANGED <<machine, parents, pipe, wrote, writing>>
    BY DEF ChildEnds, ChildSignalled, Alive
  <1>4. QED
    BY <1>1, <1>2, <1>3, DiesKept

-----------------------------------------------------------------------------
(* The invariant holds in every behaviour, for any number of calls, any     *)
(* output and any capacity of the pipes (lb_host_process_run).              *)
THEOREM ProcessInvariant == Spec => []ProcessInv
  <1>1. Init => ProcessInv
    <2> SUFFICES ASSUME Init PROVE ProcessInv
      OBVIOUS
    <2>1. /\ machine \in {"binary", "oracle"}
          /\ pc = [r \in Runs |-> "start"] /\ child = [r \in Runs |-> "none"] /\ writing = [r \in Runs |-> "none"]
          /\ writers = [r \in Runs |-> [s \in Streams |-> {}]] /\ readers = [r \in Runs |-> {}]
          /\ pipe = [r \in Runs |-> [s \in Streams |-> 0]] /\ wrote = pipe /\ got = pipe
          /\ open = [r \in Runs |-> Streams] /\ fail = [r \in Runs |-> FALSE] /\ stored = [r \in Runs |-> {}]
          /\ result = [r \in Runs |-> "none"]
      BY ProcessAssumption DEF Init, Each
    <2>2. [s \in Streams |-> {}] \in WriteEnds /\ {} \in ReadEnds /\ [s \in Streams |-> 0] \in Counts
      BY DEF WriteEnds, ReadEnds, Counts
    <2>3. ProcessTypes
      <3>1. CallTypes
        BY <2>1, <2>2 DEF CallTypes, Places
      <3>2. ChildTypes /\ EndTypes
        BY <2>1, <2>2 DEF ChildTypes, EndTypes, Lives
      <3>3. QED
        BY <3>1, <3>2 DEF ProcessTypes
    <2>4. ASSUME NEW r \in Runs PROVE CallInv(r)
      BY <2>1 DEF CallInv, Conserved, ReadToEnd, WritesHeld, EndsClosed, InStep
    <2>5. QED
      BY <2>3, <2>4 DEF ProcessInv
  <1>2. ProcessInv /\ [Next]_vars => ProcessInv'
    <2> SUFFICES ASSUME ProcessInv, [Next]_vars PROVE ProcessInv'
      OBVIOUS
    <2>1. ASSUME NEW r \in Runs, Call(r) \/ PollFails(r) PROVE ProcessInv'
      BY <2>1, PipesKeeps, ForkKeeps, CloseWriteEndsKeeps, PollKeeps, PollFailsKeeps, StopReadingKeeps,
         WaitKeeps, StoreKeeps DEF Call
    <2>2. ASSUME NEW r \in Runs, Child(r) PROVE ProcessInv'
      BY <2>2, ExecvpKeeps, ChildWroteKeeps, ChildWritesKeeps, ChildClosesKeeps, ChildEndsKeeps DEF Child
    <2>3. CASE UNCHANGED vars
      BY <2>3 DEF vars, parents, children, ends, ProcessInv, ProcessTypes, CallTypes, ChildTypes, EndTypes,
         CallInv, Conserved, ReadToEnd, WritesHeld, EndsClosed, InStep, ToStore
    <2>4. QED
      BY <2>1, <2>2, <2>3 DEF Next, Finished
  <1>3. QED
    BY <1>1, <1>2, PTL DEF Spec

(* A call that returns a status returns every byte its child wrote, and the *)
(* child was reaped, for any number of calls (lb_host_process_run).         *)
THEOREM EveryByteCaptured == Spec => []CapturesAll
  <1>1. ProcessInv => CapturesAll
    <2> SUFFICES ASSUME ProcessInv, NEW r \in Runs, result[r] = "ok"
                 PROVE  child[r] = "reaped" /\ got[r] = wrote[r] /\ stored[r] = ToStore(r)
      BY DEF CapturesAll
    <2>1. CallInv(r) /\ got[r] \in Counts /\ wrote[r] \in Counts
      BY DEF ProcessInv, ProcessTypes, CallTypes, ChildTypes
    <2>2. child[r] = "reaped" /\ open[r] = {} /\ stored[r] = ToStore(r)
      BY <2>1 DEF CallInv, InStep
    <2>3. \A s \in Streams : got[r][s] = wrote[r][s]
      BY <2>1, <2>2 DEF CallInv, ReadToEnd, Conserved, Counts
    <2>4. got[r] = wrote[r]
      BY <2>1, <2>3 DEF Counts
    <2>5. QED
      BY <2>2, <2>4
  <1>2. QED
    BY <1>1, ProcessInvariant, PTL

(* A call that has returned holds no descriptor, a failed one no capture,   *)
(* and the binary's has reaped its child, for any number of calls.          *)
THEOREM CallsLeaveNothing == Spec => []NothingHeld
  <1>1. ProcessInv => NothingHeld
    BY DEF ProcessInv, CallInv, EndsClosed, InStep, NothingHeld
  <1>2. QED
    BY <1>1, ProcessInvariant, PTL
=============================================================================
