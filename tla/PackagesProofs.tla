--------------------------- MODULE PackagesProofs ---------------------------
(***************************************************************************)
(* The modules of a loaded program are what its entry reaches, each once,   *)
(* in an order that walked from its back meets imports first: proved of     *)
(* every package.  Both walks, the loading and the visit that orders, keep  *)
(* one invariant of their stack (WalkOK); what is behind the stack is       *)
(* closed under imports, so a module that ends there does not reach itself. *)
(***************************************************************************)
EXTENDS Packages, SequenceTheorems, WellFoundedInduction, TLAPS

Frame(nodes) == [name : nodes, next : Nat \ {0}]
Frames(nodes) == Seq(Frame(nodes))

(* The stack of a walk, `done` being the modules the walk is done with: no  *)
(* module is on it twice, what a module on it imports before the place it   *)
(* is at is done or just above it, each one reaches those above, and what   *)
(* is done imports what is done.                                            *)
WalkOK(nodes, lists, edges, st, done) ==
  /\ \A k \in 1 .. Len(st) : st[k].name \notin done
  /\ \A j, k \in 1 .. Len(st) : st[j].name = st[k].name => j = k
  /\ \A k \in 1 .. Len(st) : \A i \in 1 .. Len(lists[st[k].name]) :
       i < st[k].next =>
         \/ lists[st[k].name][i] \in Builtin \cup done
         \/ k < Len(st) /\ lists[st[k].name][i] = st[k + 1].name
  /\ \A j, k \in 1 .. Len(st) : j < k => st[k].name \in Closure(nodes, edges, edges[st[j].name])
  /\ \A n \in done : edges[n] \subseteq done

-----------------------------------------------------------------------------
Lists == [n \in Modules |-> Imports(n)]
Names == ToSet(files)
Open == {stack[k].name : k \in DOMAIN stack}
Entry == world.entry.at

TypeOK ==
  /\ world \in Worlds
  /\ files \in Seq(Modules) /\ post \in Seq(Modules) /\ stack \in Frames(Modules)

Rooted ==
  /\ files # <<>> /\ files[1] = Entry /\ IsInjective(files)
  /\ Names \subseteq Reachable({Entry}) /\ Open \subseteq Names
  /\ \A n \in Names : Found(n)

(* Every module is loaded with what it imports, and none reaches itself.    *)
Whole == \A n \in Names : Edges[n] \subseteq Names /\ n \notin Reachable(Edges[n])

Walking(done) == WalkOK(Modules, Lists, Edges, stack, done)

Loading ==
  /\ Rooted /\ post = <<>> /\ Walking(Names \ Open)
  /\ \A n \in Names \ Open : n \notin Reachable(Edges[n])

Ordering ==
  /\ Rooted /\ Whole /\ Walking(ToSet(post))
  /\ IsInjective(post) /\ ToSet(post) \subseteq Names
  /\ \A i \in DOMAIN post : Edges[post[i]] \subseteq {post[j] : j \in 1 .. i - 1}

Sorted == \A i, j \in DOMAIN files : files[j] \in Edges[files[i]] => i < j

LoadInv ==
  /\ TypeOK
  /\ phase = "start" => files = <<>> /\ stack = <<>> /\ post = <<>>
  /\ why = "cycle" => phase = "failed" /\ \E n \in Names : Found(n) /\ n \in Reachable(Edges[n])
  /\ phase = "loading" => Loading
  /\ phase = "ordering" => Ordering
  /\ Ready => Rooted /\ Whole /\ Sorted

-----------------------------------------------------------------------------
(* What is reached holds what it is reached from.                           *)
LEMMA ClosureHolds ==
  ASSUME NEW nodes, NEW edges, NEW from \in SUBSET nodes
  PROVE  from \subseteq Closure(nodes, edges, from)
BY DEF Closure

(* A successor of what is reached is reached.                               *)
LEMMA ClosureSteps ==
  ASSUME NEW nodes, NEW edges \in [nodes -> SUBSET nodes], NEW from,
         NEW n \in Closure(nodes, edges, from), NEW m \in edges[n]
  PROVE  m \in Closure(nodes, edges, from)
<1>1. n \in nodes BY DEF Closure
<1>2. m \in nodes BY <1>1
<1>3. SUFFICES ASSUME NEW S \in SUBSET nodes, from \subseteq S, \A k \in S : edges[k] \subseteq S
               PROVE m \in S
  BY <1>2, Zenon DEF Closure
<1>4. n \in S BY <1>3, Zenon DEF Closure
<1> QED BY <1>3, <1>4

(* What is reached is within every set that is closed.                      *)
LEMMA ClosureWithin ==
  ASSUME NEW nodes, NEW edges, NEW from, NEW S \in SUBSET nodes,
         from \subseteq S, \A k \in S : edges[k] \subseteq S
  PROVE  Closure(nodes, edges, from) \subseteq S
BY Zenon DEF Closure

(* What one node reaches is itself and what its successors reach.           *)
LEMMA ClosureOfOne ==
  ASSUME NEW nodes, NEW edges \in [nodes -> SUBSET nodes], NEW e \in nodes
  PROVE  Closure(nodes, edges, {e}) \subseteq {e} \cup Closure(nodes, edges, edges[e])
<1> DEFINE S == {e} \cup Closure(nodes, edges, edges[e])
<1>1. edges[e] \in SUBSET nodes OBVIOUS
<1>2. edges[e] \subseteq Closure(nodes, edges, edges[e]) BY <1>1, ClosureHolds
<1>3. S \in SUBSET nodes BY DEF Closure
<1>4. ASSUME NEW k \in S PROVE edges[k] \subseteq S
  <2>1. CASE k = e BY <2>1, <1>2
  <2>2. CASE k \in Closure(nodes, edges, edges[e])
    <3>1. \A m \in edges[k] : m \in Closure(nodes, edges, edges[e]) BY <2>2, ClosureSteps
    <3> QED BY <3>1
  <2> QED BY <2>1, <2>2
<1> HIDE DEF S
<1>5. {e} \subseteq S BY DEF S
<1>6. Closure(nodes, edges, {e}) \subseteq S BY <1>3, <1>4, <1>5, ClosureWithin
<1> QED BY <1>6 DEF S

-----------------------------------------------------------------------------
(* A graph, the lists its edges come from, a walk's stack and what is done. *)
Graph(nodes, lists, edges, st, done) ==
  /\ edges \in [nodes -> SUBSET nodes] /\ st \in Frames(nodes) /\ done \in SUBSET nodes
  /\ \A k \in 1 .. Len(st) :
       /\ lists[st[k].name] \in Seq(nodes \cup Builtin)
       /\ edges[st[k].name] = {lists[st[k].name][i] : i \in 1 .. Len(lists[st[k].name])} \ Builtin

Further(st) == [st EXCEPT ![Len(st)].next = @ + 1]
Below(st) == SubSeq(st, 1, Len(st) - 1)

(* A stack, what it is below its top, and with one module more.             *)
LEMMA FramesAre ==
  ASSUME NEW nodes, NEW st \in Frames(nodes)
  PROVE  /\ Len(st) \in Nat /\ DOMAIN st = 1 .. Len(st) /\ (st # <<>> => Len(st) \in 1 .. Len(st))
         /\ \A k \in 1 .. Len(st) : st[k].name \in nodes /\ st[k].next \in Nat /\ st[k].next >= 1
         /\ st # <<>> => /\ Below(st) \in Frames(nodes) /\ Len(Below(st)) = Len(st) - 1
                        /\ \A k \in 1 .. Len(st) - 1 : Below(st)[k] = st[k]
<1> DEFINE T == [name : nodes, next : Nat \ {0}]
<1>1. st \in Seq(T) BY DEF Frames, Frame
<1>2. \A r \in T : r.name \in nodes /\ r.next \in Nat /\ r.next >= 1 OBVIOUS
<1>4. \A s : s \in Seq(T) <=> s \in Frames(nodes) BY DEF Frames, Frame
<1> HIDE DEF T
<1>5. Len(st) \in Nat /\ DOMAIN st = 1 .. Len(st) /\ (st # <<>> => Len(st) \in 1 .. Len(st)) BY <1>1
<1>6. \A k \in 1 .. Len(st) : st[k] \in T BY <1>1
<1>7. ASSUME st # <<>> PROVE /\ Below(st) \in Seq(T) /\ Len(Below(st)) = Len(st) - 1
                            /\ \A k \in 1 .. Len(st) - 1 : Below(st)[k] = st[k]
  BY <1>1, <1>5, <1>7 DEF Below
<1>9. \A k \in 1 .. Len(st) : st[k].name \in nodes /\ st[k].next \in Nat /\ st[k].next >= 1 BY <1>2, <1>6
<1> QED BY <1>4, <1>5, <1>7, <1>9

(* A stack with one module more.                                            *)
LEMMA FramesPush ==
  ASSUME NEW nodes, NEW st \in Frames(nodes), NEW e \in Frame(nodes)
  PROVE  /\ Append(st, e) \in Frames(nodes) /\ Len(Append(st, e)) = Len(st) + 1
         /\ Append(st, e)[Len(st) + 1] = e
         /\ \A k \in 1 .. Len(st) : Append(st, e)[k] = st[k]
<1> DEFINE T == [name : nodes, next : Nat \ {0}]
<1>1. st \in Seq(T) /\ e \in T BY DEF Frames, Frame
<1>2. \A s : s \in Seq(T) <=> s \in Frames(nodes) BY DEF Frames, Frame
<1> HIDE DEF T
<1>3. /\ Append(st, e) \in Seq(T) /\ Len(Append(st, e)) = Len(st) + 1 /\ Append(st, e)[Len(st) + 1] = e
      /\ \A k \in 1 .. Len(st) : Append(st, e)[k] = st[k]
  BY <1>1
<1> QED BY <1>2, <1>3

(* The stack after the top goes on to its next import.                      *)
LEMMA FurtherIs ==
  ASSUME NEW nodes, NEW st \in Frames(nodes), st # <<>>
  PROVE  /\ Further(st) \in Frames(nodes) /\ Len(Further(st)) = Len(st)
         /\ \A k \in 1 .. Len(st) : Further(st)[k].name = st[k].name
         /\ \A k \in 1 .. Len(st) - 1 : Further(st)[k] = st[k]
         /\ Further(st)[Len(st)].next = st[Len(st)].next + 1
         /\ Len(st) \in 1 .. Len(st) /\ Len(st) \in Nat
<1> DEFINE T == [name : nodes, next : Nat \ {0}]
<1>0. st \in Seq(T) BY DEF Frames, Frame
<1>a. \A r \in T : /\ [r EXCEPT !.next = @ + 1] \in T
                   /\ [r EXCEPT !.next = @ + 1].name = r.name
                   /\ [r EXCEPT !.next = @ + 1].next = r.next + 1
  OBVIOUS
<1>b. \A s : s \in Seq(T) => s \in Frames(nodes) BY DEF Frames, Frame
<1> HIDE DEF T
<1>1. Len(st) \in Nat /\ Len(st) > 0 BY <1>0
<1>2. st \in [1 .. Len(st) -> T] BY <1>0
<1>3. st[Len(st)] \in T BY <1>1, <1>2
<1>4. Further(st) = [k \in 1 .. Len(st) |-> IF k = Len(st) THEN [st[k] EXCEPT !.next = @ + 1] ELSE st[k]]
  BY <1>1, <1>2 DEF Further
<1>9. \A k \in 1 .. Len(st) : k # Len(st) => Further(st)[k] = st[k] BY <1>4
<1>10. Further(st)[Len(st)] = [st[Len(st)] EXCEPT !.next = @ + 1] BY <1>1, <1>4
<1>6. \A k \in 1 .. Len(st) : Further(st)[k] \in T BY <1>2, <1>9, <1>10, <1>3, <1>a
<1>7. Further(st) \in Seq(T) /\ Len(Further(st)) = Len(st) BY <1>1, <1>4, <1>6
<1>8. \A k \in 1 .. Len(st) : Further(st)[k].name = st[k].name
  BY <1>3, <1>9, <1>10, <1>a
<1>11. \A k \in 1 .. Len(st) - 1 : k \in 1 .. Len(st) /\ k # Len(st) BY <1>1
<1>12. \A k \in 1 .. Len(st) - 1 : Further(st)[k] = st[k] BY <1>9, <1>11
<1>13. Further(st)[Len(st)].next = st[Len(st)].next + 1 BY <1>10, <1>3, <1>a
<1> QED BY <1>1, <1>7, <1>8, <1>12, <1>13, <1>b

(* The stack after the top goes on and a module comes onto it.              *)
LEMMA FurtherPush ==
  ASSUME NEW nodes, NEW st \in Frames(nodes), st # <<>>, NEW m \in nodes
  PROVE  LET up == Append(Further(st), [name |-> m, next |-> 1]) IN
         /\ up \in Frames(nodes) /\ Len(up) = Len(st) + 1
         /\ \A k \in 1 .. Len(st) : up[k] = Further(st)[k]
         /\ up[Len(st) + 1] = [name |-> m, next |-> 1]
<1> DEFINE fu == Further(st)
           e == [name |-> m, next |-> 1]
<1>1. fu \in Frames(nodes) /\ Len(fu) = Len(st) BY FurtherIs
<1>2. e \in Frame(nodes) BY DEF Frame
<1> HIDE DEF fu, e
<1>3. /\ Append(fu, e) \in Frames(nodes) /\ Len(Append(fu, e)) = Len(fu) + 1 /\ Append(fu, e)[Len(fu) + 1] = e
      /\ \A k \in 1 .. Len(fu) : Append(fu, e)[k] = fu[k]
  BY <1>1, <1>2, FramesPush
<1>4. /\ Append(fu, e) \in Frames(nodes) /\ Len(Append(fu, e)) = Len(st) + 1 /\ Append(fu, e)[Len(st) + 1] = e
      /\ \A k \in 1 .. Len(st) : Append(fu, e)[k] = fu[k]
  BY <1>1, <1>3, Zenon
<1> QED BY <1>4 DEF fu, e

(* Going on past an import that is no file, or is done.                     *)
LEMMA WalkAdvance ==
  ASSUME NEW nodes, NEW lists, NEW edges, NEW st, NEW done,
         Graph(nodes, lists, edges, st, done), WalkOK(nodes, lists, edges, st, done), st # <<>>,
         st[Len(st)].next <= Len(lists[st[Len(st)].name]),
         lists[st[Len(st)].name][st[Len(st)].next] \in Builtin \cup done
  PROVE  WalkOK(nodes, lists, edges, Further(st), done)
<1> DEFINE fu == Further(st)
           n == Len(st)
<1>0. st \in Frames(nodes) BY DEF Graph
<1>1. /\ fu \in Frames(nodes) /\ Len(fu) = n
      /\ \A k \in 1 .. n : fu[k].name = st[k].name
      /\ \A k \in 1 .. n - 1 : fu[k] = st[k]
      /\ fu[n].next = st[n].next + 1 /\ n \in 1 .. n /\ n \in Nat
  BY <1>0, FurtherIs
<1>2. st[n].next \in Nat BY <1>0, <1>1, FramesAre
<1> HIDE DEF fu
<1>3. ASSUME NEW k \in 1 .. n, NEW i \in 1 .. Len(lists[st[k].name]), i < fu[k].next
      PROVE  \/ lists[st[k].name][i] \in Builtin \cup done
             \/ k < n /\ lists[st[k].name][i] = fu[k + 1].name
  <2>1. CASE k = n
    <3>1. i < st[n].next \/ i = st[n].next BY <1>1, <1>2, <1>3, <2>1
    <3> QED BY <2>1, <3>1, <1>3 DEF WalkOK
  <2>2. CASE k # n
    <3>1. k \in 1 .. n - 1 /\ k + 1 \in 1 .. n BY <1>1, <2>2
    <3>2. i < st[k].next BY <3>1, <1>1, <1>3
    <3>3. fu[k + 1].name = st[k + 1].name BY <3>1, <1>1
    <3> QED BY <3>2, <3>3 DEF WalkOK
  <2> QED BY <2>1, <2>2
<1>4. \A k \in 1 .. n : fu[k].name \notin done BY <1>1 DEF WalkOK
<1>5. \A j, k \in 1 .. n : fu[j].name = fu[k].name => j = k BY <1>1 DEF WalkOK
<1>6. \A j, k \in 1 .. n : j < k => fu[k].name \in Closure(nodes, edges, edges[fu[j].name])
  BY <1>1 DEF WalkOK
<1>7. \A m \in done : edges[m] \subseteq done BY DEF WalkOK
<1>8. \A k \in 1 .. n : \A i \in 1 .. Len(lists[fu[k].name]) :
        i < fu[k].next => \/ lists[fu[k].name][i] \in Builtin \cup done
                          \/ k < n /\ lists[fu[k].name][i] = fu[k + 1].name
  BY <1>1, <1>3
<1>9. Len(fu) = n BY <1>1
<1> HIDE DEF n
<1> QED BY <1>4, <1>5, <1>6, <1>7, <1>8, <1>9 DEF WalkOK, fu

(* The import the top is at.                                                *)
LEMMA DepIs ==
  ASSUME NEW nodes, NEW lists, NEW edges, NEW st, NEW done, NEW dep,
         Graph(nodes, lists, edges, st, done), st # <<>>,
         st[Len(st)].next <= Len(lists[st[Len(st)].name]),
         dep = lists[st[Len(st)].name][st[Len(st)].next], dep \notin Builtin
  PROVE  /\ Len(st) \in 1 .. Len(st) /\ st[Len(st)].name \in nodes
         /\ dep \in edges[st[Len(st)].name] /\ dep \in nodes
<1> DEFINE t == st[Len(st)]
<1>1. st \in Frames(nodes) BY DEF Graph
<1>2. Len(st) \in Nat /\ Len(st) \in 1 .. Len(st) BY <1>1, FramesAre
<1>4. t.name \in nodes /\ t.next \in Nat /\ t.next >= 1 BY <1>1, <1>2, FramesAre
<1>5. lists[t.name] \in Seq(nodes \cup Builtin) BY <1>2 DEF Graph
<1>6. edges[t.name] = {lists[t.name][i] : i \in 1 .. Len(lists[t.name])} \ Builtin BY <1>2 DEF Graph
<1>7. t.next \in 1 .. Len(lists[t.name]) BY <1>4, <1>5
<1>8. dep \in edges[t.name] BY <1>6, <1>7
<1>9. edges[t.name] \subseteq nodes BY <1>4 DEF Graph
<1> QED BY <1>2, <1>4, <1>8, <1>9

(* A module that is not done and not on the stack comes onto it.            *)
LEMMA WalkPush ==
  ASSUME NEW nodes, NEW lists, NEW edges, NEW st, NEW done, NEW dep,
         Graph(nodes, lists, edges, st, done), WalkOK(nodes, lists, edges, st, done), st # <<>>,
         st[Len(st)].next <= Len(lists[st[Len(st)].name]),
         dep = lists[st[Len(st)].name][st[Len(st)].next], dep \notin Builtin \cup done,
         \A k \in 1 .. Len(st) : st[k].name # dep
  PROVE  /\ Append(Further(st), [name |-> dep, next |-> 1]) \in Frames(nodes)
         /\ WalkOK(nodes, lists, edges, Append(Further(st), [name |-> dep, next |-> 1]), done)
<1> DEFINE fu == Further(st)
           n == Len(st)
           up == Append(fu, [name |-> dep, next |-> 1])
<1>0. st \in Frames(nodes) BY DEF Graph
<1>1. /\ fu \in Frames(nodes) /\ Len(fu) = n
      /\ \A k \in 1 .. n : fu[k].name = st[k].name
      /\ \A k \in 1 .. n - 1 : fu[k] = st[k]
      /\ fu[n].next = st[n].next + 1 /\ n \in 1 .. n /\ n \in Nat
  BY <1>0, FurtherIs
<1>2. st[n].next \in Nat BY <1>0, <1>1, FramesAre
<1>3. dep \in edges[st[n].name] /\ dep \in nodes /\ st[n].name \in nodes BY DepIs
<1> HIDE DEF fu
<1>4. /\ up \in Frames(nodes) /\ Len(up) = n + 1 /\ up[n + 1] = [name |-> dep, next |-> 1]
      /\ \A k \in 1 .. n : up[k] = fu[k]
  BY <1>0, <1>3, FurtherPush DEF fu
<1> HIDE DEF up
<1>5. /\ \A k \in 1 .. n : up[k].name = st[k].name
      /\ \A k \in 1 .. n - 1 : up[k].next = st[k].next
      /\ up[n].next = st[n].next + 1
      /\ up[n + 1].name = dep /\ up[n + 1].next = 1
  BY <1>1, <1>4
<1>6. \A k \in 1 .. n + 1 : k \in 1 .. n \/ k = n + 1 BY <1>1
<1>7. \A k \in 1 .. n + 1 : up[k].name \notin done BY <1>5, <1>6 DEF WalkOK
<1>8. \A j, k \in 1 .. n + 1 : up[j].name = up[k].name => j = k BY <1>5, <1>6 DEF WalkOK
<1>9. ASSUME NEW k \in 1 .. n + 1, NEW i \in 1 .. Len(lists[up[k].name]), i < up[k].next
      PROVE  \/ lists[up[k].name][i] \in Builtin \cup done
             \/ k < n + 1 /\ lists[up[k].name][i] = up[k + 1].name
  <2>1. CASE k = n + 1 BY <2>1, <1>5, <1>9
  <2>2. CASE k = n
    <3>1. i < st[n].next \/ i = st[n].next BY <1>2, <1>5, <1>9, <2>2
    <3>2. CASE i = st[n].next BY <3>2, <2>2, <1>1, <1>5
    <3>3. CASE i < st[n].next BY <3>3, <2>2, <1>1, <1>5 DEF WalkOK
    <3> QED BY <3>1, <3>2, <3>3
  <2>3. CASE k \in 1 .. n - 1
    <3>1. k \in 1 .. n /\ k + 1 \in 1 .. n /\ k < n + 1 /\ k < n BY <1>1, <2>3
    <3>2. i < st[k].next /\ up[k].name = st[k].name BY <3>1, <2>3, <1>5, <1>9
    <3>3. up[k + 1].name = st[k + 1].name BY <3>1, <1>5
    <3> QED BY <3>1, <3>2, <3>3 DEF WalkOK
  <2> QED BY <2>1, <2>2, <2>3, <1>1
<1>10. ASSUME NEW j \in 1 .. n PROVE dep \in Closure(nodes, edges, edges[st[j].name])
  <2>0. edges \in [nodes -> SUBSET nodes] BY DEF Graph
  <2>1. CASE j = n BY <2>0, <2>1, <1>3, ClosureHolds
  <2>2. CASE j # n
    <3>1. st[n].name \in Closure(nodes, edges, edges[st[j].name]) BY <2>2, <1>1 DEF WalkOK
    <3> QED BY <2>0, <3>1, <1>3, ClosureSteps
  <2> QED BY <2>1, <2>2
<1>11. ASSUME NEW j \in 1 .. n + 1, NEW k \in 1 .. n + 1, j < k
       PROVE  up[k].name \in Closure(nodes, edges, edges[up[j].name])
  <2>1. j \in 1 .. n BY <1>1, <1>11
  <2>2. CASE k = n + 1 BY <2>1, <2>2, <1>5, <1>10
  <2>3. CASE k \in 1 .. n BY <2>1, <2>3, <1>5, <1>11 DEF WalkOK
  <2> QED BY <2>2, <2>3, <1>6
<1>12. \A m \in done : edges[m] \subseteq done BY DEF WalkOK
<1>13. Len(up) = n + 1 BY <1>4
<1>14. WalkOK(nodes, lists, edges, up, done)
  BY <1>7, <1>8, <1>9, <1>11, <1>12, <1>13 DEF WalkOK
<1> QED BY <1>4, <1>14 DEF up, fu

(* The top has come to the end of its imports.                              *)
LEMMA WalkPop ==
  ASSUME NEW nodes, NEW lists, NEW edges, NEW st, NEW done,
         Graph(nodes, lists, edges, st, done), WalkOK(nodes, lists, edges, st, done), st # <<>>,
         st[Len(st)].next > Len(lists[st[Len(st)].name])
  PROVE  /\ edges[st[Len(st)].name] \subseteq done
         /\ st[Len(st)].name \notin Closure(nodes, edges, edges[st[Len(st)].name])
         /\ Below(st) \in Frames(nodes)
         /\ {Below(st)[k].name : k \in DOMAIN Below(st)} = {st[k].name : k \in DOMAIN st} \ {st[Len(st)].name}
         /\ WalkOK(nodes, lists, edges, Below(st), done \cup {st[Len(st)].name})
<1> DEFINE n == Len(st)
           t == st[n]
           be == Below(st)
<1>1. st \in Frames(nodes) BY DEF Graph
<1>2. n \in Nat /\ n \in 1 .. n /\ n - 1 \in Nat BY <1>1, FramesAre
<1>3. t.name \in nodes /\ t.next \in Nat BY <1>1, <1>2, FramesAre
<1>4. lists[t.name] \in Seq(nodes \cup Builtin) BY <1>2 DEF Graph
<1>5. edges[t.name] = {lists[t.name][i] : i \in 1 .. Len(lists[t.name])} \ Builtin BY <1>2 DEF Graph
<1>6. be \in Frames(nodes) /\ Len(be) = n - 1 /\ \A k \in 1 .. n - 1 : be[k] = st[k]
  BY <1>1, FramesAre
<1> HIDE DEF be
<1>7. edges[t.name] \subseteq done
  <2>1. \A i \in 1 .. Len(lists[t.name]) : i < t.next BY <1>3, <1>4
  <2>2. \A i \in 1 .. Len(lists[t.name]) : lists[t.name][i] \in Builtin \cup done
    BY <2>1, <1>2 DEF WalkOK
  <2> QED BY <2>2, <1>5
<1>8. t.name \notin done BY <1>2 DEF WalkOK
<1>9. t.name \notin Closure(nodes, edges, edges[t.name])
  <2>1. done \in SUBSET nodes BY DEF Graph
  <2>2. \A m \in done : edges[m] \subseteq done BY DEF WalkOK
  <2>3. Closure(nodes, edges, edges[t.name]) \subseteq done BY <2>1, <2>2, <1>7, ClosureWithin
  <2> QED BY <2>3, <1>8
<1>10. \A k \in 1 .. n - 1 : k \in 1 .. n /\ k # n /\ be[k].name = st[k].name /\ be[k].next = st[k].next
  BY <1>2, <1>6
<1>11. \A k \in 1 .. n : k # n => k \in 1 .. n - 1 BY <1>2
<1>12. DOMAIN be = 1 .. n - 1 /\ DOMAIN st = 1 .. n BY <1>1, <1>6, FramesAre
<1>13. \A k \in 1 .. n - 1 : st[k].name # t.name BY <1>2, <1>10 DEF WalkOK
<1>14. {be[k].name : k \in DOMAIN be} = {st[k].name : k \in DOMAIN st} \ {t.name}
  <2>1. ASSUME NEW x PROVE x \in {be[k].name : k \in 1 .. n - 1} <=> x \in {st[k].name : k \in 1 .. n} \ {t.name}
    BY <1>10, <1>11, <1>13
  <2>2. {be[k].name : k \in 1 .. n - 1} = {st[k].name : k \in 1 .. n} \ {t.name} BY <2>1
  <2> QED BY <2>2, <1>12
<1>15. \A k \in 1 .. n - 1 : be[k].name \notin done \cup {t.name} BY <1>10, <1>13 DEF WalkOK
<1>16. \A j, k \in 1 .. n - 1 : be[j].name = be[k].name => j = k BY <1>10 DEF WalkOK
<1>17. ASSUME NEW k \in 1 .. n - 1, NEW i \in 1 .. Len(lists[be[k].name]), i < be[k].next
       PROVE  \/ lists[be[k].name][i] \in Builtin \cup (done \cup {t.name})
              \/ k < n - 1 /\ lists[be[k].name][i] = be[k + 1].name
  <2>1. \/ lists[st[k].name][i] \in Builtin \cup done
        \/ k < n /\ lists[st[k].name][i] = st[k + 1].name
    BY <1>10, <1>17 DEF WalkOK
  <2>2. CASE lists[st[k].name][i] \in Builtin \cup done BY <2>2, <1>10
  <2>3. CASE lists[st[k].name][i] = st[k + 1].name
    <3>1. CASE k = n - 1
      <4>1. k + 1 = n BY <1>2, <3>1
      <4> QED BY <4>1, <2>3, <1>10
    <3>2. CASE k # n - 1
      <4>1. k < n - 1 /\ k + 1 \in 1 .. n - 1 BY <1>2, <3>2
      <4> QED BY <4>1, <2>3, <1>10
    <3> QED BY <3>1, <3>2
  <2> QED BY <2>1, <2>2, <2>3
<1>18. \A j, k \in 1 .. n - 1 : j < k => be[k].name \in Closure(nodes, edges, edges[be[j].name])
  BY <1>10 DEF WalkOK
<1>19. \A m \in done \cup {t.name} : edges[m] \subseteq done \cup {t.name} BY <1>7 DEF WalkOK
<1>20. Len(be) = n - 1 BY <1>6
<1>21. WalkOK(nodes, lists, edges, be, done \cup {t.name})
  <2> DEFINE d2 == done \cup {t.name}
             m == n - 1
  <2> HIDE DEF d2, m, n, t
  <2>1. Len(be) = m /\ \A k \in 1 .. m : be[k].name \notin d2 BY <1>15, <1>20 DEF d2, m
  <2>2. \A j, k \in 1 .. m : be[j].name = be[k].name => j = k BY <1>16 DEF m
  <2>3. \A k \in 1 .. m : \A i \in 1 .. Len(lists[be[k].name]) :
          i < be[k].next => \/ lists[be[k].name][i] \in Builtin \cup d2
                            \/ k < m /\ lists[be[k].name][i] = be[k + 1].name
    BY <1>17 DEF d2, m
  <2>4. \A j, k \in 1 .. m : j < k => be[k].name \in Closure(nodes, edges, edges[be[j].name])
    BY <1>18 DEF m
  <2>5. \A x \in d2 : edges[x] \subseteq d2 BY <1>19 DEF d2
  <2>6. WalkOK(nodes, lists, edges, be, d2) BY <2>1, <2>2, <2>3, <2>4, <2>5 DEF WalkOK
  <2> QED BY <2>6 DEF d2
<1> QED BY <1>6, <1>7, <1>9, <1>14, <1>21 DEF be

(* An import that is on the stack reaches itself.                           *)
LEMMA WalkCycle ==
  ASSUME NEW nodes, NEW lists, NEW edges, NEW st, NEW done, NEW dep,
         Graph(nodes, lists, edges, st, done), WalkOK(nodes, lists, edges, st, done), st # <<>>,
         st[Len(st)].next <= Len(lists[st[Len(st)].name]),
         dep = lists[st[Len(st)].name][st[Len(st)].next], dep \notin Builtin,
         NEW j \in 1 .. Len(st), st[j].name = dep
  PROVE  dep \in Closure(nodes, edges, edges[dep])
<1> DEFINE n == Len(st)
<1>1. n \in 1 .. n /\ dep \in edges[st[n].name] /\ dep \in nodes BY DepIs
<1>2. edges \in [nodes -> SUBSET nodes] BY DEF Graph
<1>3. CASE j = n
  <2>1. edges[dep] \in SUBSET nodes /\ dep \in edges[dep] BY <1>1, <1>2, <1>3
  <2> QED BY <2>1, ClosureHolds
<1>4. CASE j # n
  <2>1. st[n].name \in Closure(nodes, edges, edges[dep]) BY <1>1, <1>4 DEF WalkOK
  <2> QED BY <2>1, <1>1, <1>2, ClosureSteps
<1> QED BY <1>3, <1>4

-----------------------------------------------------------------------------
(* A set of numbers that is not empty has a least one.                      *)
LEMMA LeastIs ==
  ASSUME NEW S \in SUBSET Nat, S # {}
  PROVE  Min(S) \in S /\ \A y \in S : Min(S) =< y
<1> DEFINE R == {ss \in Nat \X Nat : ss[1] < ss[2]}
<1>1. IsWellFoundedOn(R, Nat) BY NatLessThanWellFounded DEF OpToRel
<1> HIDE DEF R
<1>2. PICK x \in S : \A y \in S : ~(<<y, x>> \in R) BY <1>1, WFMin, Zenon
<1>3. \A y \in S : <<y, x>> \in R <=> y < x BY DEF R
<1>4. \A y \in S : ~(y < x) BY <1>2, <1>3
<1>5. \A y \in S : x =< y BY <1>4
<1> QED BY <1>5, Zenon DEF Min

(* A module found has its text in the world.                                *)
LEMMA TextIsThere ==
  ASSUME world \in Worlds, NEW n \in Modules, Found(n)
  PROVE  \E p \in DOMAIN world.text : TextOf(n) = world.text[p]
<1>1. CASE resolve_file(n) = NoFile
  <2>1. n \in Embedded BY <1>1 DEF Found
  <2>2. n \in DOMAIN world.text BY <2>1, WorldsAssumption DEF Modules
  <2> QED BY <1>1, <2>2 DEF TextOf
<1>2. CASE resolve_file(n) # NoFile
  <2> DEFINE there == {i \in 1 .. 4 : Candidates(n)[i] \in world.tree}
  <2>1. there # {} /\ resolve_file(n) = Candidates(n)[Min(there)] BY <1>2 DEF resolve_file
  <2>2. Min(there) \in there
    <3>1. there \in SUBSET Nat OBVIOUS
    <3> HIDE DEF there
    <3> QED BY <2>1, <3>1, LeastIs
  <2>3. resolve_file(n) \in world.tree BY <2>1, <2>2
  <2>4. resolve_file(n).at \in DOMAIN world.text BY <2>3, WorldsAssumption
  <2> QED BY <1>2, <2>4 DEF TextOf
<1> QED BY <1>1, <1>2

(* What a module found imports, as a list and as a set.                     *)
LEMMA GraphShape ==
  ASSUME world \in Worlds
  PROVE  /\ Edges \in [Modules -> SUBSET Modules] /\ Entry \in Modules
         /\ \A n \in Modules : Found(n) =>
              /\ Lists[n] = Imports(n) /\ Lists[n] \in Seq(Modules)
              /\ Edges[n] = Files(n)
              /\ Edges[n] = {Lists[n][i] : i \in 1 .. Len(Lists[n])} \ Builtin
<1>1. Entry \in Modules BY DEF Entry, Modules, ModulesOf
<1>3. ASSUME NEW n \in Modules, Found(n)
      PROVE  /\ Imports(n) \in Seq(Modules) /\ DOMAIN Imports(n) = 1 .. Len(Imports(n))
             /\ Files(n) \subseteq Modules
  <2>1. PICK p \in DOMAIN world.text : TextOf(n) = world.text[p] BY <1>3, TextIsThere
  <2> DEFINE list == luce_std_as_standard(world.text[p].imports)
  <2>2. Standard(n) = list BY <2>1 DEF Standard
  <2>3. list \in Seq(ToSet(list)) BY <2>1, WorldsAssumption
  <2>4. \A i \in DOMAIN list : list[i].from \in Modules BY <2>1 DEF Modules, ModulesOf, Froms
  <2>5. Imports(n) = [i \in DOMAIN list |-> list[i].from] BY <2>2 DEF Imports
  <2> HIDE DEF list
  <2>6. DOMAIN list = 1 .. Len(list) /\ Len(list) \in Nat BY <2>3
  <2>7. Imports(n) \in Seq(Modules) /\ DOMAIN Imports(n) = 1 .. Len(Imports(n)) BY <2>4, <2>5, <2>6
  <2>8. Files(n) \subseteq Modules BY <2>7 DEF Files
  <2> QED BY <2>7, <2>8
<1>4. Edges \in [Modules -> SUBSET Modules] BY <1>3 DEF Edges
<1>5. \A n \in Modules : Found(n) => Edges[n] = Files(n) /\ Lists[n] = Imports(n) BY DEF Edges, Lists
<1>6. ASSUME NEW n \in Modules, Found(n)
      PROVE  Edges[n] = {Lists[n][i] : i \in 1 .. Len(Lists[n])} \ Builtin
  BY <1>3, <1>5, <1>6 DEF Files
<1> QED BY <1>1, <1>3, <1>4, <1>5, <1>6

(* The graph is the world's.                                                *)
LEMMA Frozen ==
  ASSUME world' = world
  PROVE  /\ Modules' = Modules /\ Lists' = Lists /\ Edges' = Edges /\ Entry' = Entry
         /\ \A n : Found(n)' <=> Found(n)
         /\ \A S : Reachable(S)' = Reachable(S)
<1>1. Modules' = Modules /\ Entry' = Entry BY DEF Modules, Entry
<1>2. ASSUME NEW n PROVE resolve_file(n)' = resolve_file(n) BY DEF resolve_file
<1>3. ASSUME NEW n PROVE Found(n)' <=> Found(n) BY <1>2 DEF Found
<1>4. ASSUME NEW n PROVE TextOf(n)' = TextOf(n) BY <1>2 DEF TextOf
<1>5. ASSUME NEW n PROVE Imports(n)' = Imports(n) BY <1>4 DEF Imports, Standard
<1>6. ASSUME NEW n PROVE Files(n)' = Files(n) BY <1>5 DEF Files
<1>7. Lists' = Lists BY <1>1, <1>5 DEF Lists
<1>8. Edges' = Edges BY <1>1, <1>3, <1>6 DEF Edges
<1>9. \A S : Reachable(S)' = Reachable(S) BY <1>1, <1>8 DEF Reachable
<1> QED BY <1>1, <1>3, <1>7, <1>8, <1>9

(* The stack, with what is done.                                            *)
LEMMA GraphIs ==
  ASSUME TypeOK, Rooted, NEW done \in SUBSET Names
  PROVE  Graph(Modules, Lists, Edges, stack, done) /\ Names \subseteq Modules
<1>1. Names \subseteq Modules BY DEF Names, TypeOK, ToSet
<1>2. Edges \in [Modules -> SUBSET Modules] BY GraphShape DEF TypeOK
<1>3. stack \in Frames(Modules) BY DEF TypeOK
<1>4. DOMAIN stack = 1 .. Len(stack) BY <1>3, FramesAre
<1>5. ASSUME NEW k \in 1 .. Len(stack)
      PROVE  /\ Lists[stack[k].name] \in Seq(Modules \cup Builtin)
             /\ Edges[stack[k].name] = {Lists[stack[k].name][i] : i \in 1 .. Len(Lists[stack[k].name])} \ Builtin
  <2> DEFINE n == stack[k].name
  <2>1. n \in Names BY <1>4 DEF Rooted, Open
  <2>2. n \in Modules /\ Found(n) BY <2>1, <1>1 DEF Rooted
  <2> HIDE DEF n
  <2>3. /\ Lists[n] \in Seq(Modules)
        /\ Edges[n] = {Lists[n][i] : i \in 1 .. Len(Lists[n])} \ Builtin BY <2>2, GraphShape DEF TypeOK
  <2>4. Lists[n] \in Seq(Modules \cup Builtin) BY <2>3
  <2> QED BY <2>3, <2>4 DEF n
<1>6. done \in SUBSET Modules BY <1>1
<1> QED BY <1>1, <1>2, <1>3, <1>5, <1>6 DEF Graph

-----------------------------------------------------------------------------
(* Nothing is loaded before the entry is.                                   *)
LEMMA InitStep == LoadInit => LoadInv
<1> SUFFICES ASSUME LoadInit PROVE LoadInv OBVIOUS
<1>1. TypeOK BY DEF LoadInit, TypeOK, Frames, Frame
<1> QED BY <1>1 DEF LoadInit, LoadInv, Ready

(* The entry is found, alone on the stack.                                  *)
LEMMA EntryStep == LoadInv /\ load_program => LoadInv'
<1> SUFFICES ASSUME LoadInv, load_program PROVE LoadInv' OBVIOUS
<1>1. TypeOK /\ world \in Worlds /\ world' = world /\ post = <<>> /\ post' = <<>> BY DEF LoadInv, load_program, TypeOK
<1>2. /\ Modules' = Modules /\ Lists' = Lists /\ Edges' = Edges /\ Entry' = Entry
      /\ \A n : Found(n)' <=> Found(n)
      /\ \A S : Reachable(S)' = Reachable(S)
  BY <1>1, Frozen
<1>3. Entry \in Modules /\ Edges \in [Modules -> SUBSET Modules] BY <1>1, GraphShape
<1>4. Candidates(Entry)[1] = world.entry /\ world.entry \in world.tree
  BY <1>1, WorldsAssumption DEF Candidates, Entry, load_program
<1>5. Found(Entry)
  <2> DEFINE there == {i \in 1 .. 4 : Candidates(Entry)[i] \in world.tree}
  <2>1. 1 \in there BY <1>4
  <2>2. there \subseteq 1 .. 4 OBVIOUS
  <2>3. resolve_file(Entry) = Candidates(Entry)[Min(there)] BY <2>1 DEF resolve_file
  <2> HIDE DEF there
  <2>4. Min(there) = 1
    <3>1. \A y \in there : 1 <= y BY <2>2
    <3>2. \A x \in there : (\A y \in there : x <= y) => x = 1 BY <2>1, <2>2
    <3> QED BY <2>1, <3>1, <3>2 DEF Min
  <2>5. resolve_file(Entry) = world.entry BY <2>3, <2>4, <1>4
  <2>6. world.entry.kind = "file"
    <3>1. \A e, a : e = [at |-> a, kind |-> "file"] => e.kind = "file" OBVIOUS
    <3>2. world.entry = [at |-> world.entry.at, kind |-> "file"] BY <1>1, WorldsAssumption
    <3> QED BY <3>1, <3>2
  <2> QED BY <2>5, <2>6 DEF Found, NoFile
<1>6. why' # "cycle"
  <2>1. \E p \in DOMAIN world.text : TextOf(Entry) = world.text[p]
    BY <1>1, <1>3, <1>5, TextIsThere
  <2>2. TextOf(Entry).bad # "cycle" BY <1>1, <2>1, WorldsAssumption
  <2> QED BY <2>2 DEF load_program, Entry
<1>7. CASE phase' = "failed"
  <2>1. files' = <<>> /\ stack' = <<>> BY <1>7 DEF load_program
  <2>2. TypeOK' BY <1>1, <1>2, <2>1 DEF TypeOK, Frames, Frame
  <2> QED BY <1>6, <1>7, <2>2 DEF LoadInv, Ready
<1>8. CASE phase' = "loading"
  <2>1. files' = <<Entry>> /\ stack' = <<[name |-> Entry, next |-> 1]>> BY <1>8 DEF load_program, Entry
  <2>2. TypeOK' BY <1>1, <1>2, <1>3, <2>1 DEF TypeOK, Frames, Frame
  <2>3. Names' = {Entry} /\ Open' = {Entry} BY <2>1 DEF Names, Open, ToSet
  <2>4. Entry \in Reachable({Entry}) BY <1>3, ClosureHolds DEF Reachable
  <2>5. Rooted' BY <1>2, <1>5, <2>1, <2>3, <2>4 DEF Rooted, IsInjective
  <2>6. WalkOK(Modules, Lists, Edges, <<[name |-> Entry, next |-> 1]>>, {}) BY DEF WalkOK
  <2>7. Walking(Names \ Open)' BY <1>2, <2>1, <2>3, <2>6 DEF Walking
  <2>8. Loading' BY <1>1, <2>3, <2>5, <2>7 DEF Loading
  <2> QED BY <1>6, <1>8, <2>2, <2>8 DEF LoadInv, Ready
<1> QED BY <1>7, <1>8 DEF load_program

(* There is no entry.                                                       *)
LEMMA NoMainStep == LoadInv /\ no_main => LoadInv'
<1> SUFFICES ASSUME LoadInv, no_main PROVE LoadInv' OBVIOUS
<1>1. world' = world /\ files' = files /\ stack' = stack /\ post' = post /\ phase' = "failed" /\ why' = "no main"
  BY DEF no_main, Fail, loading
<1>2. TypeOK' BY <1>1, Frozen DEF LoadInv, TypeOK
<1> QED BY <1>1, <1>2 DEF LoadInv, Ready

(* The walk's step is the action's: the top, its import, the stack after.   *)
LEMMA StepIs ==
  ASSUME TypeOK, Rooted, stack # <<>>
  PROVE  /\ Top = stack[Len(stack)] /\ Advanced = Further(stack)
         /\ Len(stack) \in 1 .. Len(stack) /\ DOMAIN stack = 1 .. Len(stack)
         /\ Top.name \in Names /\ Top.name \in Modules /\ Found(Top.name)
         /\ Lists[Top.name] = Imports(Top.name)
         /\ \A n : OnStack(n) <=> n \in Open
         /\ Open = {stack[k].name : k \in 1 .. Len(stack)}
<1>1. Top = stack[Len(stack)] /\ Advanced = Further(stack) BY DEF Top, Advanced, Further
<1>2. stack \in Frames(Modules) BY DEF TypeOK
<1>3. Len(stack) \in 1 .. Len(stack) /\ DOMAIN stack = 1 .. Len(stack) BY <1>2, FramesAre
<1>4. \A n : OnStack(n) <=> n \in Open BY DEF OnStack, Open
<1>5. Open = {stack[k].name : k \in 1 .. Len(stack)} BY <1>3 DEF Open
<1>6. Top.name \in Open BY <1>1, <1>3, <1>5
<1>7. Top.name \in Names /\ Found(Top.name) BY <1>6 DEF Rooted
<1>8. Top.name \in Modules BY <1>7, GraphIs
<1>9. Lists[Top.name] = Imports(Top.name) BY <1>7, <1>8, GraphShape DEF TypeOK
<1> QED BY <1>1, <1>3, <1>4, <1>5, <1>7, <1>8, <1>9

(* One import: past it, refused, or the module is loaded.                   *)
LEMMA ImportStep == LoadInv /\ load_imports => LoadInv'
<1> SUFFICES ASSUME LoadInv, load_imports PROVE LoadInv' OBVIOUS
<1> DEFINE done == Names \ Open
<1>1. TypeOK /\ Loading /\ Rooted /\ phase = "loading" /\ stack # <<>> /\ Top.next <= Len(Imports(Top.name))
  BY DEF LoadInv, Loading, load_imports, Importing
<1>2. Graph(Modules, Lists, Edges, stack, done) /\ Names \subseteq Modules BY <1>1, GraphIs
<1>3. WalkOK(Modules, Lists, Edges, stack, done) BY <1>1 DEF Loading, Walking
<1>4. /\ Top = stack[Len(stack)] /\ Advanced = Further(stack)
      /\ Len(stack) \in 1 .. Len(stack) /\ DOMAIN stack = 1 .. Len(stack)
      /\ Top.name \in Names /\ Top.name \in Modules /\ Found(Top.name)
      /\ Lists[Top.name] = Imports(Top.name)
      /\ \A n : OnStack(n) <=> n \in Open
      /\ Open = {stack[k].name : k \in 1 .. Len(stack)}
  BY <1>1, StepIs
<1>5. /\ stack[Len(stack)].next <= Len(Lists[stack[Len(stack)].name])
      /\ Dep = Lists[stack[Len(stack)].name][stack[Len(stack)].next]
  BY <1>1, <1>4 DEF Dep
<1>6. world' = world /\ world \in Worlds BY <1>1 DEF load_imports, Fail, Push, TypeOK
<1>7. /\ Modules' = Modules /\ Lists' = Lists /\ Edges' = Edges /\ Entry' = Entry
      /\ \A n : Found(n)' <=> Found(n)
      /\ \A S : Reachable(S)' = Reachable(S)
  BY <1>6, Frozen
<1>8. \A n : find_loaded(n) <=> n \in Names BY DEF find_loaded, Names, ToSet
<1>9. why # "cycle" BY <1>1 DEF LoadInv
<1>10. ASSUME stack' = Advanced, UNCHANGED <<world, phase, files, post, why>>,
              Dep \in Builtin \/ (Dep \in Names /\ Dep \notin Open)
       PROVE  LoadInv'
  <2>1. /\ Further(stack) \in Frames(Modules) /\ Len(Further(stack)) = Len(stack)
        /\ \A k \in 1 .. Len(stack) : Further(stack)[k].name = stack[k].name
    BY <1>1, FurtherIs DEF TypeOK
  <2>2. DOMAIN Further(stack) = 1 .. Len(stack) BY <2>1, FramesAre
  <2>3. Open' = Open /\ Names' = Names BY <1>4, <1>10, <2>1, <2>2 DEF Open, Names
  <2>4. WalkOK(Modules, Lists, Edges, Further(stack), done)
    BY <1>1, <1>2, <1>3, <1>5, <1>10, WalkAdvance
  <2>5. Walking(Names \ Open)' BY <1>4, <1>7, <1>10, <2>3, <2>4 DEF Walking
  <2>6. TypeOK' BY <1>1, <1>4, <1>7, <1>10, <2>1 DEF TypeOK
  <2>7. Rooted' BY <1>1, <1>7, <1>10, <2>3 DEF Rooted
  <2>8. Loading' BY <1>1, <1>7, <1>10, <2>3, <2>5, <2>7 DEF Loading
  <2> QED BY <1>1, <1>9, <1>10, <2>6, <2>8 DEF LoadInv, Ready
<1>11. ASSUME NEW reason, Fail(reason), reason = "cycle" => \E n \in Names : Found(n) /\ n \in Reachable(Edges[n])
       PROVE  LoadInv'
  <2>1. phase' = "failed" /\ why' = reason /\ files' = files /\ stack' = stack /\ post' = post
    BY <1>11 DEF Fail, loading
  <2>2. TypeOK' BY <1>1, <1>7, <1>6, <2>1 DEF TypeOK
  <2>3. Names' = Names BY <2>1 DEF Names
  <2>4. why' = "cycle" => \E n \in Names' : Found(n)' /\ n \in Reachable(Edges[n])'
    BY <1>7, <1>11, <2>1, <2>3
  <2> QED BY <2>1, <2>2, <2>4 DEF LoadInv, Ready
<1>12. ASSUME Dep \notin Builtin, OnStack(Dep) PROVE \E n \in Names : Found(n) /\ n \in Reachable(Edges[n])
  <2>1. PICK j \in 1 .. Len(stack) : stack[j].name = Dep BY <1>4, <1>12
  <2>2. Dep \in Closure(Modules, Edges, Edges[Dep]) BY <1>1, <1>2, <1>3, <1>5, <1>12, <2>1, WalkCycle
  <2>3. Dep \in Names /\ Found(Dep) BY <1>1, <1>4, <1>12 DEF Rooted
  <2> QED BY <2>2, <2>3 DEF Reachable
<1>13. ASSUME Dep \notin Builtin, ~OnStack(Dep), ~find_loaded(Dep), Found(Dep), Push(Dep, Advanced)
       PROVE  LoadInv'
  <2>0. Dep \in Edges[Top.name] /\ Dep \in Modules BY <1>1, <1>2, <1>4, <1>5, <1>13, DepIs
  <2>1. CASE TextOf(Dep).bad # "no"
    <3>1. PICK p \in DOMAIN world.text : TextOf(Dep) = world.text[p] BY <1>6, <1>13, <2>0, TextIsThere
    <3>2. TextOf(Dep).bad # "cycle" BY <3>1, <1>6, WorldsAssumption
    <3> QED BY <3>2, <2>1, <1>11, <1>13 DEF Push
  <2>2. CASE TextOf(Dep).bad = "no"
    <3> DEFINE up == Append(Further(stack), [name |-> Dep, next |-> 1])
    <3>1. files' = Append(files, Dep) /\ stack' = up /\ phase' = "loading" /\ post' = post /\ why' = why
      BY <1>1, <1>4, <1>13, <2>2 DEF Push
    <3>2. up \in Frames(Modules) /\ WalkOK(Modules, Lists, Edges, up, done)
      <4>1. Dep \notin Builtin \cup done /\ \A k \in 1 .. Len(stack) : stack[k].name # Dep
        BY <1>4, <1>8, <1>13
      <4> QED BY <1>1, <1>2, <1>3, <1>5, <4>1, WalkPush
    <3>3. Open' = Open \cup {Dep}
      <4>1. /\ Further(stack) \in Frames(Modules) /\ Len(Further(stack)) = Len(stack)
            /\ \A k \in 1 .. Len(stack) : Further(stack)[k].name = stack[k].name
        BY <1>1, FurtherIs DEF TypeOK
      <4>2. /\ Len(up) = Len(stack) + 1 /\ up[Len(stack) + 1] = [name |-> Dep, next |-> 1]
            /\ \A k \in 1 .. Len(stack) : up[k] = Further(stack)[k]
        BY <1>1, <2>0, FurtherPush DEF TypeOK
      <4>3. DOMAIN up = 1 .. Len(stack) + 1
        <5> HIDE DEF up
        <5> QED BY <3>2, <4>2, FramesAre
      <4>4. Len(stack) \in Nat BY <1>1, FramesAre DEF TypeOK
      <4>5. \A k : k \in 1 .. Len(stack) + 1 <=> k \in 1 .. Len(stack) \/ k = Len(stack) + 1 BY <4>4
      <4>6. \A k \in 1 .. Len(stack) : up[k].name = stack[k].name BY <4>1, <4>2
      <4>7. up[Len(stack) + 1].name = Dep BY <4>2
      <4> HIDE DEF up
      <4>8. {up[k].name : k \in 1 .. Len(stack) + 1} = {stack[k].name : k \in 1 .. Len(stack)} \cup {Dep}
        BY <4>5, <4>6, <4>7
      <4> QED BY <4>3, <4>8, <1>4, <3>1 DEF Open
    <3> HIDE DEF up
    <3>4. files \in Seq(Modules) /\ files # <<>> BY <1>1 DEF TypeOK, Rooted
    <3>5. /\ files' \in Seq(Modules) /\ files' # <<>> /\ files'[1] = files[1]
          /\ Names' = Names \cup {Dep}
      <4>1. /\ files' \in Seq(Modules) /\ Len(files') = Len(files) + 1 /\ files'[Len(files) + 1] = Dep
            /\ \A k \in 1 .. Len(files) : files'[k] = files[k]
            /\ Len(files) \in Nat /\ Len(files) >= 1
        BY <2>0, <3>1, <3>4
      <4>2. \A k : k \in 1 .. Len(files) + 1 <=> k \in 1 .. Len(files) \/ k = Len(files) + 1 BY <4>1
      <4>3. DOMAIN files' = 1 .. Len(files) + 1 /\ DOMAIN files = 1 .. Len(files) BY <4>1, <3>4
      <4>4. {files'[k] : k \in 1 .. Len(files) + 1} = {files[k] : k \in 1 .. Len(files)} \cup {Dep}
        BY <4>1, <4>2
      <4>5. Names' = Names \cup {Dep} BY <4>3, <4>4 DEF Names, ToSet
      <4> QED BY <4>1, <4>5
    <3>6. IsInjective(files')
      <4>1. \A k \in 1 .. Len(files) : files[k] # Dep BY <1>13, <3>4 DEF find_loaded
      <4>2. \A j, k \in 1 .. Len(files) : files[j] = files[k] => j = k BY <1>1, <3>4 DEF Rooted, IsInjective
      <4>3. DOMAIN files' = 1 .. Len(files) + 1 /\ Len(files) \in Nat BY <2>0, <3>1, <3>4
      <4>4. /\ files'[Len(files) + 1] = Dep /\ \A k \in 1 .. Len(files) : files'[k] = files[k]
        BY <2>0, <3>1, <3>4
      <4>5. \A k \in 1 .. Len(files) + 1 : k \in 1 .. Len(files) \/ k = Len(files) + 1 BY <4>3
      <4> QED BY <4>1, <4>2, <4>3, <4>4, <4>5 DEF IsInjective
    <3>7. Dep \in Reachable({Entry})
      <4>1. Top.name \in Reachable({Entry}) BY <1>1, <1>4 DEF Rooted
      <4>2. Edges \in [Modules -> SUBSET Modules] BY <1>2 DEF Graph
      <4> QED BY <4>1, <4>2, <2>0, ClosureSteps DEF Reachable
    <3>8. Rooted' BY <1>1, <1>7, <1>13, <3>3, <3>5, <3>6, <3>7 DEF Rooted
    <3>9. Names' \ Open' = done BY <1>8, <1>13, <3>3, <3>5
    <3>10. Walking(Names \ Open)' BY <1>7, <3>1, <3>2, <3>9 DEF Walking
    <3>11. TypeOK' BY <1>1, <1>6, <1>7, <3>1, <3>2, <3>5 DEF TypeOK
    <3>12. Loading' BY <1>1, <1>7, <3>1, <3>8, <3>9, <3>10 DEF Loading
    <3> QED BY <3>1, <3>11, <3>12, <1>9 DEF LoadInv, Ready
  <2> QED BY <2>1, <2>2
<1> QED BY <1>8, <1>4, <1>10, <1>11, <1>12, <1>13 DEF load_imports

(* The module on top is loaded, with what it imports.                       *)
LEMMA LoadedStep == LoadInv /\ Loaded => LoadInv'
<1> SUFFICES ASSUME LoadInv, Loaded PROVE LoadInv' OBVIOUS
<1> DEFINE done == Names \ Open
<1>1. TypeOK /\ Loading /\ Rooted /\ phase = "loading" /\ stack # <<>> /\ Top.next > Len(Imports(Top.name))
  BY DEF LoadInv, Loading, Loaded
<1>2. Graph(Modules, Lists, Edges, stack, done) /\ Names \subseteq Modules BY <1>1, GraphIs
<1>3. WalkOK(Modules, Lists, Edges, stack, done) BY <1>1 DEF Loading, Walking
<1>4. /\ Top = stack[Len(stack)] /\ DOMAIN stack = 1 .. Len(stack)
      /\ Top.name \in Names /\ Lists[Top.name] = Imports(Top.name)
  BY <1>1, StepIs
<1>5. stack[Len(stack)].next > Len(Lists[stack[Len(stack)].name]) BY <1>1, <1>4
<1>6. /\ world' = world /\ world \in Worlds /\ files' = files /\ post' = post /\ why' = why /\ phase' = phase
      /\ stack' = Below(stack)
  BY <1>1 DEF Loaded, TypeOK, Below
<1>7. /\ Modules' = Modules /\ Lists' = Lists /\ Edges' = Edges /\ Entry' = Entry
      /\ \A n : Found(n)' <=> Found(n)
      /\ \A S : Reachable(S)' = Reachable(S)
  BY <1>6, Frozen
<1>8. /\ Top.name \notin Closure(Modules, Edges, Edges[Top.name])
      /\ Below(stack) \in Frames(Modules)
      /\ {Below(stack)[k].name : k \in DOMAIN Below(stack)} = {stack[k].name : k \in DOMAIN stack} \ {Top.name}
      /\ WalkOK(Modules, Lists, Edges, Below(stack), done \cup {Top.name})
  BY <1>1, <1>2, <1>3, <1>4, <1>5, WalkPop
<1>9. Names' = Names /\ Open' = Open \ {Top.name} BY <1>6, <1>8 DEF Names, Open
<1>10. Names' \ Open' = done \cup {Top.name} BY <1>4, <1>9
<1>11. Walking(Names \ Open)' BY <1>6, <1>7, <1>8, <1>10 DEF Walking
<1>12. TypeOK' BY <1>1, <1>6, <1>7, <1>8 DEF TypeOK
<1>13. Rooted' BY <1>1, <1>6, <1>7, <1>9 DEF Rooted
<1>14. \A n \in Names' \ Open' : n \notin Reachable(Edges[n]) BY <1>1, <1>8, <1>10 DEF Loading, Reachable
<1>15. \A n \in (Names \ Open)' : n \notin Reachable(Edges[n])' BY <1>7, <1>14
<1>16. Loading' BY <1>1, <1>6, <1>11, <1>13, <1>15 DEF Loading
<1> QED BY <1>1, <1>6, <1>12, <1>16 DEF LoadInv, Ready

(* Once the stack is empty every module is done.                            *)
LEMMA WholeOnceLoaded ==
  ASSUME TypeOK, Loading, stack = <<>>
  PROVE  Whole /\ Names \ Open = Names /\ Open = {}
<1>1. Open = {} BY DEF Open
<1>2. Names \ Open = Names BY <1>1
<1>3. \A n \in Names : Edges[n] \subseteq Names BY <1>2 DEF Loading, Walking, WalkOK
<1>4. \A n \in Names : n \notin Reachable(Edges[n]) BY <1>2 DEF Loading
<1> QED BY <1>1, <1>2, <1>3, <1>4 DEF Whole

(* Nothing imports the entry.                                               *)
LEMMA NothingImportsTheEntry ==
  ASSUME TypeOK, Rooted, Whole, NEW n \in Names
  PROVE  Entry \notin Edges[n]
<1> SUFFICES ASSUME Entry \in Edges[n] PROVE FALSE OBVIOUS
<1>1. Edges \in [Modules -> SUBSET Modules] /\ Entry \in Modules BY GraphShape DEF TypeOK
<1>2. n \in Closure(Modules, Edges, {Entry}) BY DEF Rooted, Reachable
<1>3. n \in {Entry} \cup Closure(Modules, Edges, Edges[Entry]) BY <1>1, <1>2, ClosureOfOne
<1>4. Entry \in Closure(Modules, Edges, Edges[Entry])
  <2>1. CASE n = Entry
    <3>1. Edges[Entry] \in SUBSET Modules BY <1>1
    <3> QED BY <2>1, <3>1, ClosureHolds
  <2>2. CASE n \in Closure(Modules, Edges, Edges[Entry]) BY <2>2, <1>1, ClosureSteps
  <2> QED BY <2>1, <2>2, <1>3
<1>5. Entry \in Names
  <2>1. files \in Seq(Modules) /\ files # <<>> BY DEF TypeOK, Rooted
  <2>2. 1 \in DOMAIN files BY <2>1
  <2> QED BY <2>2 DEF Names, ToSet, Rooted
<1> QED BY <1>4, <1>5 DEF Whole, Reachable

(* The walk that orders begins, or two modules are in order as they are.    *)
LEMMA BeginStep == LoadInv /\ order_dependencies_first => LoadInv'
<1> SUFFICES ASSUME LoadInv, order_dependencies_first PROVE LoadInv' OBVIOUS
<1>1. TypeOK /\ Loading /\ Rooted /\ phase = "loading" /\ stack = <<>> /\ post = <<>>
  BY DEF LoadInv, Loading, order_dependencies_first
<1>2. Whole /\ Names \ Open = Names /\ Open = {} BY <1>1, WholeOnceLoaded
<1>3. world' = world /\ files' = files /\ stack' = stack /\ post' = post /\ why' = why
  BY DEF order_dependencies_first, loading
<1>4. /\ Modules' = Modules /\ Lists' = Lists /\ Edges' = Edges /\ Entry' = Entry
      /\ \A n : Found(n)' <=> Found(n)
      /\ \A S : Reachable(S)' = Reachable(S)
  BY <1>3, Frozen
<1>5. Names' = Names /\ Open' = Open BY <1>3 DEF Names, Open
<1>6. TypeOK' BY <1>1, <1>3, <1>4 DEF TypeOK
<1>7. Rooted' BY <1>1, <1>3, <1>4, <1>5 DEF Rooted
<1>8. Whole' BY <1>2, <1>4, <1>5 DEF Whole
<1>9. why' # "cycle" BY <1>1, <1>3 DEF LoadInv
<1>10. CASE Len(files) < 3
  <2>1. phase' = "ordered" BY <1>10 DEF order_dependencies_first
  <2>2. Sorted
    <3>1. files \in Seq(Modules) BY <1>1 DEF TypeOK
    <3>2. SUFFICES ASSUME NEW i \in DOMAIN files, NEW j \in DOMAIN files, files[j] \in Edges[files[i]]
                   PROVE i < j
      BY DEF Sorted
    <3>3. files[i] \in Names BY DEF Names, ToSet
    <3>4. j # 1 BY <1>1, <1>2, <3>2, <3>3, NothingImportsTheEntry DEF Rooted
    <3>5. files[j] # files[i]
      <4>1. SUFFICES ASSUME files[j] = files[i] PROVE FALSE OBVIOUS
      <4>2. Edges \in [Modules -> SUBSET Modules] /\ files[i] \in Modules BY <1>1, <3>1, GraphShape DEF TypeOK
      <4>3. files[i] \in Reachable(Edges[files[i]]) BY <3>2, <4>1, <4>2, ClosureHolds DEF Reachable
      <4> QED BY <4>3, <3>3, <1>2 DEF Whole
    <3>6. i \in {1, 2} /\ j \in {1, 2} BY <3>1, <1>10
    <3> QED BY <3>4, <3>5, <3>6
  <2>3. Sorted' BY <2>2, <1>3, <1>4 DEF Sorted
  <2> QED BY <2>1, <2>3, <1>6, <1>7, <1>8, <1>9 DEF LoadInv
<1>11. CASE ~(Len(files) < 3)
  <2>1. phase' = "ordering" BY <1>11 DEF order_dependencies_first
  <2>2. WalkOK(Modules, Lists, Edges, <<>>, {}) BY DEF WalkOK
  <2>3. ToSet(post) = {} BY <1>1 DEF ToSet
  <2>4. ToSet(post)' = {} BY <1>3, <2>3
  <2>5. Walking(ToSet(post))' BY <1>1, <1>3, <1>4, <2>2, <2>4 DEF Walking
  <2>6. Ordering' BY <1>1, <1>3, <1>7, <1>8, <2>4, <2>5 DEF Ordering, IsInjective
  <2> QED BY <2>1, <2>6, <1>6, <1>9 DEF LoadInv, Ready
<1> QED BY <1>10, <1>11

(* A visit begins at a module not seen.                                     *)
LEMMA NextStep == LoadInv /\ visit_next => LoadInv'
<1> SUFFICES ASSUME LoadInv, visit_next PROVE LoadInv' OBVIOUS
<1>1. TypeOK /\ Ordering /\ Rooted /\ Whole /\ phase = "ordering" /\ stack = <<>> /\ Unseen # {}
  BY DEF LoadInv, Ordering, visit_next
<1>2. world' = world /\ files' = files /\ post' = post /\ why' = why /\ phase' = phase BY DEF visit_next
<1>3. /\ Modules' = Modules /\ Lists' = Lists /\ Edges' = Edges /\ Entry' = Entry
      /\ \A n : Found(n)' <=> Found(n)
      /\ \A S : Reachable(S)' = Reachable(S)
  BY <1>2, Frozen
<1>4. files \in Seq(Modules) BY <1>1 DEF TypeOK
<1>5. Min(Unseen) \in Unseen
  <2>1. Unseen \subseteq Nat BY <1>4 DEF Unseen
  <2> QED BY <1>1, <2>1, LeastIs
<1> DEFINE m == files[Min(Unseen)]
<1>6. m \in Names /\ m \in Modules /\ m \notin ToSet(post)
  <2>1. Min(Unseen) \in DOMAIN files /\ ~Seen(m) BY <1>5 DEF Unseen
  <2>2. m \in Names BY <2>1 DEF Names, ToSet
  <2>3. m \in Modules BY <1>4, <2>1
  <2> QED BY <2>1, <2>2, <2>3 DEF Seen
<1>7. stack' = <<[name |-> m, next |-> 1]>> BY DEF visit_next
<1> HIDE DEF m
<1>8. Names' = Names /\ Open' = {m} BY <1>2, <1>7 DEF Names, Open
<1>9. TypeOK' BY <1>1, <1>2, <1>3, <1>6, <1>7 DEF TypeOK, Frames, Frame
<1>10. Rooted' BY <1>1, <1>2, <1>3, <1>6, <1>8 DEF Rooted
<1>11. Whole' BY <1>1, <1>3, <1>8 DEF Whole
<1>12. WalkOK(Modules, Lists, Edges, <<[name |-> m, next |-> 1]>>, ToSet(post))
  <2>1. \A n \in ToSet(post) : Edges[n] \subseteq ToSet(post) BY <1>1 DEF Ordering, Walking, WalkOK
  <2> QED BY <2>1, <1>6 DEF WalkOK
<1>13. ToSet(post)' = ToSet(post) BY <1>2
<1>14. Walking(ToSet(post))' BY <1>3, <1>7, <1>12, <1>13 DEF Walking
<1>15. Ordering' BY <1>1, <1>2, <1>3, <1>8, <1>10, <1>11, <1>13, <1>14 DEF Ordering
<1> QED BY <1>1, <1>2, <1>9, <1>15 DEF LoadInv, Ready

(* One import of the module visited: seen, or visited now.                  *)
LEMMA VisitStep == LoadInv /\ visit_dependencies => LoadInv'
<1> SUFFICES ASSUME LoadInv, visit_dependencies PROVE LoadInv' OBVIOUS
<1> DEFINE done == ToSet(post)
<1>1. /\ TypeOK /\ Ordering /\ Rooted /\ Whole /\ phase = "ordering" /\ stack # <<>>
      /\ Top.next <= Len(Imports(Top.name)) /\ done \in SUBSET Names
  BY DEF LoadInv, Ordering, visit_dependencies
<1>2. Graph(Modules, Lists, Edges, stack, done) /\ Names \subseteq Modules BY <1>1, GraphIs
<1>3. WalkOK(Modules, Lists, Edges, stack, done) BY <1>1 DEF Ordering, Walking
<1>4. /\ Top = stack[Len(stack)] /\ Advanced = Further(stack)
      /\ Len(stack) \in 1 .. Len(stack) /\ DOMAIN stack = 1 .. Len(stack)
      /\ Top.name \in Names /\ Top.name \in Modules
      /\ Lists[Top.name] = Imports(Top.name)
      /\ \A n : OnStack(n) <=> n \in Open
      /\ Open = {stack[k].name : k \in 1 .. Len(stack)}
  BY <1>1, StepIs
<1>5. /\ stack[Len(stack)].next <= Len(Lists[stack[Len(stack)].name])
      /\ Dep = Lists[stack[Len(stack)].name][stack[Len(stack)].next]
  BY <1>1, <1>4 DEF Dep
<1>6. world' = world /\ files' = files /\ post' = post /\ why' = why /\ phase' = phase BY DEF visit_dependencies
<1>7. /\ Modules' = Modules /\ Lists' = Lists /\ Edges' = Edges /\ Entry' = Entry
      /\ \A n : Found(n)' <=> Found(n)
      /\ \A S : Reachable(S)' = Reachable(S)
  BY <1>6, Frozen
<1>8. Names' = Names /\ ToSet(post)' = done BY <1>6 DEF Names
<1>9. /\ Further(stack) \in Frames(Modules) /\ Len(Further(stack)) = Len(stack)
      /\ \A k \in 1 .. Len(stack) : Further(stack)[k].name = stack[k].name
  BY <1>1, FurtherIs DEF TypeOK
<1>10. ASSUME NEW st, stack' = st, st \in Frames(Modules), WalkOK(Modules, Lists, Edges, st, done),
              {st[k].name : k \in DOMAIN st} \subseteq Names
       PROVE  LoadInv'
  <2>1. TypeOK' BY <1>1, <1>6, <1>7, <1>10 DEF TypeOK
  <2>2. Open' \subseteq Names' BY <1>8, <1>10 DEF Open
  <2>3. Rooted' BY <1>1, <1>6, <1>7, <1>8, <2>2 DEF Rooted
  <2>4. Whole' BY <1>1, <1>7, <1>8 DEF Whole
  <2>5. Walking(ToSet(post))' BY <1>7, <1>8, <1>10 DEF Walking
  <2>6. Ordering' BY <1>1, <1>6, <1>7, <1>8, <2>3, <2>4, <2>5 DEF Ordering
  <2> QED BY <1>1, <1>6, <2>1, <2>6 DEF LoadInv, Ready
<1>11. CASE Dep \in Builtin \/ Seen(Dep)
  <2>1. Dep \in Builtin \cup done
    <3>1. SUFFICES ASSUME Dep \notin Builtin, OnStack(Dep) PROVE FALSE BY <1>11 DEF Seen
    <3>2. PICK j \in 1 .. Len(stack) : stack[j].name = Dep BY <1>4, <3>1
    <3>3. Dep \in Closure(Modules, Edges, Edges[Dep]) BY <1>1, <1>2, <1>3, <1>5, <3>1, <3>2, WalkCycle
    <3>4. Dep \in Names BY <1>1, <1>4, <3>1 DEF Rooted
    <3> QED BY <3>3, <3>4, <1>1 DEF Whole, Reachable
  <2>2. WalkOK(Modules, Lists, Edges, Further(stack), done) BY <1>1, <1>2, <1>3, <1>5, <2>1, WalkAdvance
  <2>3. stack' = Further(stack) BY <1>4, <1>11 DEF visit_dependencies
  <2>4. DOMAIN Further(stack) = 1 .. Len(stack) BY <1>9, FramesAre
  <2>5. {Further(stack)[k].name : k \in DOMAIN Further(stack)} \subseteq Names
    BY <1>1, <1>4, <1>9, <2>4 DEF Rooted
  <2> QED BY <1>9, <1>10, <2>2, <2>3, <2>5
<1>12. CASE ~(Dep \in Builtin \/ Seen(Dep))
  <2> DEFINE up == Append(Further(stack), [name |-> Dep, next |-> 1])
  <2>1. Dep \in Edges[Top.name] /\ Dep \in Modules BY <1>1, <1>2, <1>4, <1>5, <1>12, DepIs
  <2>2. Dep \in Names BY <2>1, <1>1, <1>4 DEF Whole
  <2>3. Dep \notin Builtin \cup done /\ \A k \in 1 .. Len(stack) : stack[k].name # Dep
    BY <1>4, <1>12 DEF Seen
  <2>4. up \in Frames(Modules) /\ WalkOK(Modules, Lists, Edges, up, done)
    BY <1>1, <1>2, <1>3, <1>5, <2>3, WalkPush
  <2>5. stack' = up BY <1>4, <1>12 DEF visit_dependencies
  <2>6. /\ Len(up) = Len(stack) + 1 /\ up[Len(stack) + 1] = [name |-> Dep, next |-> 1]
        /\ \A k \in 1 .. Len(stack) : up[k] = Further(stack)[k]
    BY <1>1, <2>1, FurtherPush DEF TypeOK
  <2> HIDE DEF up
  <2>7. DOMAIN up = 1 .. Len(stack) + 1 /\ Len(stack) \in Nat BY <1>1, <2>4, <2>6, FramesAre DEF TypeOK
  <2>8. ASSUME NEW k \in DOMAIN up PROVE up[k].name \in Names
    <3>1. CASE k = Len(stack) + 1 BY <2>2, <2>6, <3>1
    <3>2. CASE k # Len(stack) + 1
      <4>1. k \in 1 .. Len(stack) BY <2>7, <3>2
      <4>2. up[k].name = stack[k].name BY <4>1, <1>9, <2>6
      <4> QED BY <4>1, <4>2, <1>1, <1>4 DEF Rooted
    <3> QED BY <3>1, <3>2
  <2>9. {up[k].name : k \in DOMAIN up} \subseteq Names BY <2>8
  <2> QED BY <1>10, <2>4, <2>5, <2>9
<1> QED BY <1>11, <1>12

(* A module's visit ends: everything it imports is listed before it.        *)
LEMMA VisitedStep == LoadInv /\ Visited => LoadInv'
<1> SUFFICES ASSUME LoadInv, Visited PROVE LoadInv' OBVIOUS
<1> DEFINE done == ToSet(post)
           n == Len(post)
<1>1. /\ TypeOK /\ Ordering /\ Rooted /\ Whole /\ phase = "ordering" /\ stack # <<>>
      /\ Top.next > Len(Imports(Top.name)) /\ done \in SUBSET Names
  BY DEF LoadInv, Ordering, Visited
<1>2. Graph(Modules, Lists, Edges, stack, done) /\ Names \subseteq Modules BY <1>1, GraphIs
<1>3. WalkOK(Modules, Lists, Edges, stack, done) BY <1>1 DEF Ordering, Walking
<1>4. /\ Top = stack[Len(stack)] /\ DOMAIN stack = 1 .. Len(stack) /\ Len(stack) \in 1 .. Len(stack)
      /\ Top.name \in Names /\ Top.name \in Modules /\ Lists[Top.name] = Imports(Top.name)
  BY <1>1, StepIs
<1>5. stack[Len(stack)].next > Len(Lists[stack[Len(stack)].name]) BY <1>1, <1>4
<1>6. /\ world' = world /\ files' = files /\ post' = Append(post, Top.name) /\ why' = why /\ phase' = phase
      /\ stack' = Below(stack)
  BY DEF Visited, Below
<1>7. /\ Modules' = Modules /\ Lists' = Lists /\ Edges' = Edges /\ Entry' = Entry
      /\ \A m : Found(m)' <=> Found(m)
      /\ \A S : Reachable(S)' = Reachable(S)
  BY <1>6, Frozen
<1>8. /\ Edges[Top.name] \subseteq done
      /\ Below(stack) \in Frames(Modules)
      /\ {Below(stack)[k].name : k \in DOMAIN Below(stack)} = {stack[k].name : k \in DOMAIN stack} \ {Top.name}
      /\ WalkOK(Modules, Lists, Edges, Below(stack), done \cup {Top.name})
  BY <1>1, <1>2, <1>3, <1>4, <1>5, WalkPop
<1>9. Names' = Names /\ Open' = Open \ {Top.name} BY <1>6, <1>8 DEF Names, Open
<1>10. Top.name \notin done BY <1>3, <1>4 DEF WalkOK
<1>11. post \in Seq(Modules) /\ n \in Nat /\ DOMAIN post = 1 .. n BY <1>1 DEF TypeOK
<1>12. /\ post' \in Seq(Modules) /\ Len(post') = n + 1 /\ DOMAIN post' = 1 .. n + 1 /\ post'[n + 1] = Top.name
       /\ \A k \in 1 .. n : post'[k] = post[k]
  BY <1>4, <1>6, <1>11
<1>13. \A k : k \in 1 .. n + 1 <=> k \in 1 .. n \/ k = n + 1 BY <1>11
<1>14. done = {post[k] : k \in 1 .. n} BY <1>11 DEF ToSet
<1> HIDE DEF done, n
<1>15. ToSet(post') = done \cup {Top.name}
  <2>1. {post'[k] : k \in 1 .. n + 1} = {post[k] : k \in 1 .. n} \cup {Top.name} BY <1>12, <1>13
  <2> QED BY <2>1, <1>12, <1>14 DEF ToSet
<1>16. IsInjective(post')
  <2>1. \A j, k \in 1 .. n : post[j] = post[k] => j = k BY <1>1, <1>11 DEF Ordering, IsInjective
  <2>2. \A k \in 1 .. n : post[k] # Top.name BY <1>10, <1>14
  <2> QED BY <2>1, <2>2, <1>12, <1>13 DEF IsInjective
<1>17. ASSUME NEW i \in 1 .. n + 1 PROVE Edges[post'[i]] \subseteq {post'[j] : j \in 1 .. i - 1}
  <2>1. CASE i = n + 1
    <3>1. i - 1 = n BY <2>1, <1>11
    <3>2. {post'[j] : j \in 1 .. n} = done BY <1>12, <1>14
    <3> QED BY <2>1, <3>1, <3>2, <1>8, <1>12
  <2>2. CASE i \in 1 .. n
    <3>1. Edges[post[i]] \subseteq {post[j] : j \in 1 .. i - 1} BY <1>1, <1>11, <2>2 DEF Ordering
    <3>2. \A j \in 1 .. i - 1 : j \in 1 .. n BY <1>11, <2>2
    <3>3. {post[j] : j \in 1 .. i - 1} = {post'[j] : j \in 1 .. i - 1} BY <3>2, <1>12
    <3> QED BY <2>2, <3>1, <3>3, <1>12
  <2> QED BY <2>1, <2>2, <1>13
<1>18. TypeOK' BY <1>1, <1>6, <1>7, <1>8, <1>12 DEF TypeOK
<1>19. Rooted' BY <1>1, <1>6, <1>7, <1>9 DEF Rooted
<1>20. Whole' BY <1>1, <1>7, <1>9 DEF Whole
<1>21. Walking(ToSet(post))' BY <1>6, <1>7, <1>8, <1>15 DEF Walking
<1>22. ToSet(post') \subseteq Names' BY <1>1, <1>4, <1>9, <1>15
<1>23. Ordering' BY <1>7, <1>12, <1>16, <1>17, <1>19, <1>20, <1>21, <1>22 DEF Ordering
<1> QED BY <1>1, <1>6, <1>18, <1>23 DEF LoadInv, Ready

(* The list from its back, one place taken to the front.                    *)
Turned(list, e) == <<Reverse(list)[e]>> \o RemoveAt(Reverse(list), e)

(* Where the elements of the list are then.                                 *)
LEMMA BackIs ==
  ASSUME NEW S, NEW list \in Seq(S), NEW e \in 1 .. Len(list)
  PROVE  /\ Turned(list, e) \in Seq(S) /\ Len(Turned(list, e)) = Len(list)
         /\ Turned(list, e)[1] = list[Len(list) - e + 1]
         /\ \A k \in 2 .. Len(list) : /\ k =< e => Turned(list, e)[k] = list[Len(list) - k + 2]
                                      /\ k > e => Turned(list, e)[k] = list[Len(list) - k + 1]
<1> DEFINE new == Turned(list, e)
<1>0. new = <<Reverse(list)[e]>> \o RemoveAt(Reverse(list), e) BY DEF Turned
<1> HIDE DEF new
<1> DEFINE n == Len(list)
           back == Reverse(list)
           low == SubSeq(back, 1, e - 1)
           high == SubSeq(back, e + 1, n)
<1>1. n \in Nat /\ n >= 1 /\ e \in 1 .. n OBVIOUS
<1>2. back = [i \in 1 .. n |-> list[(n - i) + 1]] BY DEF Reverse
<1>3. back \in Seq(S) /\ Len(back) = n /\ \A i \in 1 .. n : back[i] = list[(n - i) + 1]
  <2>1. \A i \in 1 .. n : (n - i) + 1 \in 1 .. n BY <1>1
  <2>2. \A i \in 1 .. n : list[(n - i) + 1] \in S BY <2>1
  <2> QED BY <1>1, <1>2, <2>2
<1> HIDE DEF back
<1>4. low \in Seq(S) /\ Len(low) = e - 1 /\ \A i \in 1 .. e - 1 : low[i] = back[i] BY <1>1, <1>3
<1>5. high \in Seq(S) /\ Len(high) = n - e /\ \A i \in 1 .. n - e : high[i] = back[e + i] BY <1>1, <1>3
<1>6. new = <<back[e]>> \o (low \o high) BY <1>0, <1>3 DEF RemoveAt, back
<1>7. back[e] \in S BY <1>1, <1>3
<1> HIDE DEF low, high
<1> DEFINE rest == low \o high
<1>8. /\ rest \in Seq(S) /\ Len(rest) = n - 1
      /\ \A i \in 1 .. e - 1 : rest[i] = low[i]
      /\ \A i \in e .. n - 1 : rest[i] = high[i - (e - 1)]
  <2>1. /\ rest \in Seq(S) /\ Len(rest) = Len(low) + Len(high)
        /\ \A i \in 1 .. Len(low) + Len(high) : rest[i] = IF i <= Len(low) THEN low[i] ELSE high[i - Len(low)]
    BY <1>4, <1>5, ConcatProperties
  <2> HIDE DEF rest
  <2>2. Len(low) + Len(high) = n - 1 BY <1>1, <1>4, <1>5
  <2>3. \A i \in 1 .. e - 1 : i \in 1 .. n - 1 /\ i <= Len(low) BY <1>1, <1>4
  <2>4. \A i \in e .. n - 1 : i \in 1 .. n - 1 /\ ~(i <= Len(low)) BY <1>1, <1>4
  <2> QED BY <2>1, <2>2, <2>3, <2>4, <1>4
<1>9. new = <<back[e]>> \o rest BY <1>6
<1> HIDE DEF rest
<1>10. /\ new \in Seq(S) /\ Len(new) = n /\ new[1] = back[e]
       /\ \A k \in 2 .. n : new[k] = rest[k - 1]
  <2> DEFINE one == <<back[e]>>
  <2>1. one \in Seq(S) /\ Len(one) = 1 /\ one[1] = back[e] BY <1>7
  <2>2. new = one \o rest BY <1>9
  <2> HIDE DEF one
  <2>3. /\ new \in Seq(S) /\ Len(new) = Len(one) + Len(rest)
        /\ \A i \in 1 .. Len(one) + Len(rest) : new[i] = IF i <= Len(one) THEN one[i] ELSE rest[i - Len(one)]
    <3>1. /\ one \o rest \in Seq(S) /\ Len(one \o rest) = Len(one) + Len(rest)
          /\ \A i \in 1 .. Len(one) + Len(rest) :
               (one \o rest)[i] = IF i <= Len(one) THEN one[i] ELSE rest[i - Len(one)]
      BY <2>1, <1>8, ConcatProperties
    <3> QED BY <3>1, <2>2, Zenon
  <2>4. Len(one) + Len(rest) = n BY <2>1, <1>1, <1>8
  <2>5. 1 \in 1 .. n /\ 1 <= Len(one) /\ \A i \in 2 .. n : i \in 1 .. n /\ ~(i <= Len(one)) BY <2>1, <1>1
  <2> QED BY <2>1, <2>3, <2>4, <2>5
<1>11. ASSUME NEW k \in 2 .. n, k =< e PROVE new[k] = list[n - k + 2]
  <2>1. k - 1 \in 1 .. e - 1 /\ k - 1 \in 1 .. n /\ (n - (k - 1)) + 1 = n - k + 2 BY <1>1, <1>11
  <2>2. new[k] = back[k - 1] BY <2>1, <1>4, <1>8, <1>10
  <2>3. back[k - 1] = list[(n - (k - 1)) + 1] BY <2>1, <1>3
  <2> QED BY <2>1, <2>2, <2>3
<1>12. ASSUME NEW k \in 2 .. n, k > e PROVE new[k] = list[n - k + 1]
  <2>1. k - 1 \in e .. n - 1 /\ (k - 1) - (e - 1) \in 1 .. n - e /\ e + ((k - 1) - (e - 1)) = k /\ k \in 1 .. n
    BY <1>1, <1>12
  <2>2. new[k] = high[(k - 1) - (e - 1)] BY <2>1, <1>8, <1>10
  <2>3. high[(k - 1) - (e - 1)] = back[k] BY <2>1, <1>5
  <2>4. back[k] = list[(n - k) + 1] BY <2>1, <1>3
  <2> QED BY <2>2, <2>3, <2>4
<1>13. new[1] = list[n - e + 1] BY <1>1, <1>3, <1>10
<1> QED BY <1>10, <1>11, <1>12, <1>13 DEF new

(* The modules are put in order.                                            *)
LEMMA OrderedStep == LoadInv /\ Ordered => LoadInv'
<1> SUFFICES ASSUME LoadInv, Ordered PROVE LoadInv' OBVIOUS
<1> DEFINE n == Len(post)
<1>1. /\ TypeOK /\ Ordering /\ Rooted /\ Whole /\ phase = "ordering" /\ stack = <<>> /\ Unseen = {}
      /\ IsInjective(post) /\ ToSet(post) \subseteq Names /\ phase' = "ordered" /\ why' = why
  BY DEF LoadInv, Ordering, Ordered
<1>2. world' = world /\ stack' = stack /\ post' = post BY DEF Ordered
<1>3. /\ Modules' = Modules /\ Lists' = Lists /\ Edges' = Edges /\ Entry' = Entry
      /\ \A m : Found(m)' <=> Found(m)
      /\ \A S : Reachable(S)' = Reachable(S)
  BY <1>2, Frozen
<1>4. files \in Seq(Modules) /\ files # <<>> /\ files[1] = Entry /\ post \in Seq(Modules) BY <1>1 DEF TypeOK, Rooted
<1>5. n \in Nat /\ DOMAIN post = 1 .. n /\ DOMAIN files = 1 .. Len(files) /\ 1 \in DOMAIN files BY <1>4
<1>6. ToSet(post) = Names
  <2>1. ASSUME NEW m \in Names PROVE m \in ToSet(post)
    <3>1. PICK i \in DOMAIN files : files[i] = m BY DEF Names, ToSet
    <3>2. Seen(m) BY <1>1, <3>1 DEF Unseen
    <3>3. ~OnStack(m) BY <1>1 DEF OnStack
    <3> QED BY <3>2, <3>3 DEF Seen
  <2> QED BY <2>1, <1>1
<1>7. Entry \in Names BY <1>4, <1>5 DEF Names, ToSet
<1> DEFINE back == Reverse(post)
           e == CHOOSE k \in DOMAIN back : back[k] = files[1]
<1>8. e \in 1 .. n /\ back[e] = Entry
  <2>1. back = [i \in 1 .. n |-> post[(n - i) + 1]] BY DEF Reverse
  <2>2. PICK q \in 1 .. n : post[q] = Entry BY <1>5, <1>6, <1>7 DEF ToSet
  <2>3. (n - q) + 1 \in 1 .. n /\ (n - ((n - q) + 1)) + 1 = q BY <1>5
  <2>4. back[(n - q) + 1] = Entry BY <2>1, <2>2, <2>3
  <2>5. DOMAIN back = 1 .. n BY <2>1
  <2> HIDE DEF back
  <2>6. \E k \in DOMAIN back : back[k] = files[1] BY <1>4, <2>3, <2>4, <2>5
  <2>7. e \in DOMAIN back /\ back[e] = files[1] BY <2>6, Zenon
  <2> HIDE DEF e
  <2> QED BY <1>4, <2>5, <2>7
<1>9. files' = <<files[1]>> \o RemoveAt(back, e) BY DEF Ordered
<1>10. files' = <<Reverse(post)[e]>> \o RemoveAt(Reverse(post), e) BY <1>4, <1>8, <1>9
<1> HIDE DEF e, back
<1>11. /\ files' \in Seq(Modules) /\ Len(files') = n
       /\ files'[1] = post[n - e + 1]
       /\ \A k \in 2 .. n : /\ k =< e => files'[k] = post[n - k + 2]
                            /\ k > e => files'[k] = post[n - k + 1]
  <2> DEFINE new == files'
  <2>1. post \in Seq(Modules) /\ e \in 1 .. Len(post) BY <1>4, <1>8
  <2>2. new = Turned(post, e) BY <1>10 DEF Turned
  <2> HIDE DEF new
  <2>3. /\ new \in Seq(Modules) /\ Len(new) = Len(post)
        /\ new[1] = post[Len(post) - e + 1]
        /\ \A k \in 2 .. Len(post) : /\ k =< e => new[k] = post[Len(post) - k + 2]
                                     /\ k > e => new[k] = post[Len(post) - k + 1]
    BY <2>1, <2>2, BackIs
  <2> QED BY <2>3 DEF new
<1> DEFINE P(k) == IF k = 1 THEN n - e + 1 ELSE IF k =< e THEN n - k + 2 ELSE n - k + 1
           I(p) == IF p = n - e + 1 THEN 1 ELSE IF p > n - e + 1 THEN n - p + 2 ELSE n - p + 1
<1>12. \A k \in 1 .. n : P(k) \in 1 .. n BY <1>5, <1>8
<1>13. \A k \in 1 .. n : files'[k] = post[P(k)]
  <2>1. \A k \in 1 .. n : k = 1 \/ (k \in 2 .. n /\ k =< e) \/ (k \in 2 .. n /\ k > e) BY <1>5, <1>8
  <2>2. P(1) = n - e + 1 OBVIOUS
  <2>3. \A k \in 2 .. n : (k =< e => P(k) = n - k + 2) /\ (k > e => P(k) = n - k + 1) BY <1>8
  <2> HIDE DEF P
  <2> QED BY <2>1, <2>2, <2>3, <1>11
<1>14. \A j, k \in 1 .. n : P(j) = P(k) => j = k BY <1>5, <1>8
<1>15. \A i, j \in 2 .. n : P(j) < P(i) => i < j BY <1>5, <1>8
<1>16. \A p \in 1 .. n : I(p) \in 1 .. n /\ P(I(p)) = p BY <1>5, <1>8
<1> HIDE DEF P, I
<1>17. DOMAIN files' = 1 .. n BY <1>11
<1>18. \A j, k \in 1 .. n : post[j] = post[k] => j = k BY <1>1, <1>5 DEF IsInjective
<1>19. IsInjective(files') BY <1>12, <1>13, <1>14, <1>17, <1>18 DEF IsInjective
<1>20. Names' = Names
  <2>1. {files'[k] : k \in 1 .. n} = {post[k] : k \in 1 .. n}
    <3>1. \A k \in 1 .. n : files'[k] \in {post[j] : j \in 1 .. n} BY <1>12, <1>13
    <3>2. ASSUME NEW p \in 1 .. n PROVE post[p] \in {files'[j] : j \in 1 .. n}
      <4>1. files'[I(p)] = post[p] /\ I(p) \in 1 .. n BY <1>13, <1>16
      <4> QED BY <4>1
    <3> QED BY <3>1, <3>2
  <2>2. ToSet(post) = {post[k] : k \in 1 .. n} BY <1>5 DEF ToSet
  <2>3. Names' = {files'[k] : k \in 1 .. n} BY <1>17 DEF Names, ToSet
  <2> QED BY <2>1, <2>2, <2>3, <1>6
<1>21. files' # <<>> /\ files'[1] = Entry
  <2>1. n >= 1 /\ files' # <<>> BY <1>5, <1>8, <1>11
  <2>2. back[e] = post[(n - e) + 1] BY <1>8 DEF back, Reverse
  <2> QED BY <2>1, <2>2, <1>8, <1>11
<1>22. Rooted' BY <1>1, <1>2, <1>3, <1>19, <1>20, <1>21 DEF Rooted, Open
<1>23. Whole' BY <1>1, <1>3, <1>20 DEF Whole
<1>24. ASSUME NEW i \in 1 .. n, NEW j \in 1 .. n, files'[j] \in Edges[files'[i]] PROVE i < j
  <2>1. files'[i] \in Names BY <1>17, <1>20 DEF Names, ToSet
  <2>2. j # 1 BY <1>1, <1>21, <1>24, <2>1, NothingImportsTheEntry
  <2>3. CASE i = 1 BY <2>2, <2>3
  <2>4. CASE i # 1
    <3>1. i \in 2 .. n /\ j \in 2 .. n BY <2>2, <2>4
    <3>2. Edges[post[P(i)]] \subseteq {post[l] : l \in 1 .. P(i) - 1} BY <1>1, <1>5, <1>12 DEF Ordering
    <3>3. PICK l \in 1 .. P(i) - 1 : post[l] = post[P(j)] BY <3>2, <1>13, <1>24
    <3>4. l \in 1 .. n /\ l < P(i) BY <1>12, <1>5
    <3>5. l = P(j) BY <3>3, <3>4, <1>12, <1>18
    <3> QED BY <3>1, <3>4, <3>5, <1>15
  <2> QED BY <2>3, <2>4
<1>25. Sorted' BY <1>3, <1>17, <1>24 DEF Sorted
<1>26. TypeOK' BY <1>1, <1>2, <1>3, <1>11 DEF TypeOK
<1>27. why' # "cycle" BY <1>1 DEF LoadInv
<1> QED BY <1>1, <1>22, <1>23, <1>25, <1>26, <1>27 DEF LoadInv

(* What comes later leaves the modules alone.                               *)
LEMMA LaterStep ==
  LoadInv /\ (Later \/ UNCHANGED <<world, phase, loading, why>>) => LoadInv'
<1> SUFFICES ASSUME LoadInv, Later \/ UNCHANGED <<world, phase, loading, why>> PROVE LoadInv' OBVIOUS
<1>1. world' = world /\ files' = files /\ stack' = stack /\ post' = post BY DEF Later, loading
<1>2. /\ Modules' = Modules /\ Lists' = Lists /\ Edges' = Edges /\ Entry' = Entry
      /\ \A m : Found(m)' <=> Found(m)
      /\ \A S : Reachable(S)' = Reachable(S)
  BY <1>1, Frozen
<1>3. Names' = Names /\ Open' = Open BY <1>1 DEF Names, Open
<1>4. TypeOK' BY <1>1, <1>2 DEF LoadInv, TypeOK
<1>5. Rooted' <=> Rooted BY <1>1, <1>2, <1>3 DEF Rooted
<1>6. Whole' <=> Whole BY <1>2, <1>3 DEF Whole
<1>7. Sorted' <=> Sorted BY <1>1, <1>2 DEF Sorted
<1>8. CASE Later
  <2>1. Rooted' /\ Whole' /\ Sorted' BY <1>5, <1>6, <1>7, <1>8 DEF Later, LoadInv
  <2> QED BY <1>4, <1>8, <2>1 DEF Later, LoadInv
<1>9. CASE UNCHANGED <<world, phase, loading, why>>
  <2>1. phase' = phase /\ why' = why BY <1>9
  <2>2. Walking(Names \ Open)' <=> Walking(Names \ Open) BY <1>1, <1>2, <1>3 DEF Walking
  <2>3. ToSet(post)' = ToSet(post) BY <1>1
  <2>4. Walking(ToSet(post))' <=> Walking(ToSet(post)) BY <1>1, <1>2, <2>3 DEF Walking
  <2>5. Loading' <=> Loading BY <1>1, <1>2, <1>3, <1>5, <2>2 DEF Loading
  <2>6. Ordering' <=> Ordering BY <1>1, <1>2, <1>3, <1>5, <1>6, <2>3, <2>4 DEF Ordering
  <2>7. (\E m \in Names : Found(m) /\ m \in Reachable(Edges[m]))' <=> \E m \in Names : Found(m) /\ m \in Reachable(Edges[m])
    BY <1>2, <1>3
  <2> QED BY <1>1, <1>4, <1>5, <1>6, <1>7, <2>1, <2>5, <2>6, <2>7 DEF LoadInv, Ready
<1> QED BY <1>8, <1>9

(* What the invariant says of a program that is loaded, and of a refusal.   *)
LEMMA InvIsWhole == LoadInv => WholeProgram
<1> SUFFICES ASSUME LoadInv PROVE WholeProgram OBVIOUS
<1>1. TypeOK /\ Edges \in [Modules -> SUBSET Modules] /\ Entry \in Modules BY GraphShape DEF LoadInv, TypeOK
<1>2. \A m \in Modules : Found(m) => Edges[m] = Files(m) BY <1>1, GraphShape DEF TypeOK
<1>3. Names \subseteq Modules BY <1>1 DEF TypeOK, Names, ToSet
<1>4. ASSUME Ready
      PROVE  /\ ToSet(files) = Reachable({world.entry.at}) /\ IsInjective(files)
             /\ \A m \in ToSet(files) : m \notin Reachable(Files(m))
             /\ files[1] = world.entry.at
             /\ \A i, j \in DOMAIN files : files[j] \in Files(files[i]) => i < j
  <2>1. Rooted /\ Whole /\ Sorted BY <1>4 DEF LoadInv
  <2>2. \A m \in Names : Edges[m] = Files(m) BY <1>2, <1>3, <2>1 DEF Rooted
  <2>3. Entry \in Names
    <3>1. files \in Seq(Modules) /\ files # <<>> /\ files[1] = Entry BY <1>1, <2>1 DEF TypeOK, Rooted
    <3>2. 1 \in DOMAIN files BY <3>1
    <3> QED BY <3>1, <3>2 DEF Names, ToSet
  <2>4. Reachable({Entry}) \subseteq Names
    <3>1. Names \in SUBSET Modules /\ {Entry} \subseteq Names /\ \A k \in Names : Edges[k] \subseteq Names
      BY <1>3, <2>1, <2>3 DEF Whole
    <3> QED BY <3>1, ClosureWithin DEF Reachable
  <2>5. Names = Reachable({Entry}) BY <2>1, <2>4 DEF Rooted
  <2>6. \A m \in Names : m \notin Reachable(Files(m)) BY <2>1, <2>2 DEF Whole
  <2>7. \A i, j \in DOMAIN files : files[j] \in Files(files[i]) => i < j
    <3>1. \A i \in DOMAIN files : files[i] \in Names BY DEF Names, ToSet
    <3> QED BY <2>1, <2>2, <3>1 DEF Sorted
  <2> QED BY <2>1, <2>5, <2>6, <2>7 DEF Names, Entry, Rooted
<1>5. ASSUME why = "cycle" PROVE \E m \in ToSet(files) : m \in Reachable(Files(m))
  <2>1. PICK m \in Names : Found(m) /\ m \in Reachable(Edges[m]) BY <1>5 DEF LoadInv
  <2> QED BY <2>1, <1>2, <1>3 DEF Names
<1> QED BY <1>4, <1>5 DEF WholeProgram

(* load_program, order_dependencies_first: whatever a package's files       *)
(* import, the modules loaded are those the entry reaches, each once, a     *)
(* module is refused for a cycle only when one reaches itself, and who      *)
(* walks the modules from the back meets a module's imports before it.      *)
THEOREM ProgramIsWhole == LoadSpec => []WholeProgram
<1>1. LoadInv /\ [Load \/ Later]_<<world, phase, loading, why>> => LoadInv'
  BY EntryStep, NoMainStep, ImportStep, LoadedStep, BeginStep, NextStep, VisitStep, VisitedStep, OrderedStep,
     LaterStep DEF Load
<1> QED BY InitStep, InvIsWhole, <1>1, PTL DEF LoadSpec
=============================================================================
