------------------------- MODULE HandledViewsProofs -------------------------
(***************************************************************************)
(* The checker's account of handled errors is enough: no view outlives the *)
(* message it is of, for any number of bindings, scopes and handlers.      *)
(***************************************************************************)
EXTENDS HandledViews, TLAPS

ExprRec == [handled : Nat, views : SUBSET Nat, holds : BOOLEAN]
BindingRec == [depth : Nat, mutable : BOOLEAN, handled : Nat, views : SUBSET Nat, holds : BOOLEAN]
HandlerRec == [depth : Nat, message : Nat, recovered : Nat]

(* The account of e covers what e views: each message is that of an open   *)
(* handler no deeper than the account says.                                *)
Covers(hs, e) ==
  /\ e.views # {} => e.holds
  /\ \A m \in e.views : \E i \in DOMAIN hs : hs[i].message = m /\ hs[i].depth <= e.handled

(* Handlers are nested, two scopes each, and what was recovered out of one *)
(* is of those around it.                                                  *)
Nested(hs, d) ==
  /\ \A i \in DOMAIN hs : 2 <= hs[i].depth /\ hs[i].depth < d /\ hs[i].recovered < hs[i].depth
  /\ \A i, j \in DOMAIN hs : i < j => hs[i].depth + 1 < hs[j].depth

(* A binding's account is no deeper than the binding, so that what is left *)
(* when a handler ends knows nothing of it.                                *)
Accounted(sc, hs, d) ==
  \A i \in DOMAIN sc : sc[i].depth <= d /\ sc[i].handled <= sc[i].depth /\ Covers(hs, sc[i])

ViewsTypes ==
  /\ scope \in Seq(BindingRec) /\ handlers \in Seq(HandlerRec)
  /\ depth \in Nat /\ depth >= 1 /\ entered \in Nat
  /\ caught = NoValue \/ caught \in ExprRec

(* The inductive invariant.                                                *)
ViewsInv ==
  /\ ViewsTypes
  /\ Nested(handlers, depth)
  /\ Accounted(scope, handlers, depth)
  /\ caught.handled <= depth /\ Covers(handlers, caught)

(* A handler's record.                                                     *)
LEMMA HandlerFields ==
  ASSUME NEW hs \in Seq(HandlerRec), NEW i \in DOMAIN hs
  PROVE  hs[i] \in HandlerRec /\ hs[i].depth \in Nat /\ hs[i].message \in Nat /\ hs[i].recovered \in Nat
  <1>1. hs[i] \in HandlerRec
    OBVIOUS
  <1>2. QED
    BY <1>1 DEF HandlerRec

(* A binding's record.                                                     *)
LEMMA BindingFields ==
  ASSUME NEW sc \in Seq(BindingRec), NEW i \in DOMAIN sc
  PROVE  /\ sc[i] \in BindingRec /\ sc[i].depth \in Nat /\ sc[i].handled \in Nat
         /\ sc[i].views \in SUBSET Nat /\ sc[i].holds \in BOOLEAN
  <1>1. sc[i] \in BindingRec
    OBVIOUS
  <1>2. QED
    BY <1>1 DEF BindingRec

(* What an expression comes to is a record, no deeper than the scope it is *)
(* in, and its account covers it.                                          *)
LEMMA ExpressionsCovered ==
  ASSUME ViewsInv, NEW e \in Expressions
  PROVE  e \in ExprRec /\ e.handled <= depth /\ Covers(handlers, e)
  <1>1. ASSUME NEW x \in Names
        PROVE  x \in ExprRec /\ x.handled <= depth /\ Covers(handlers, x)
    <2>1. PICK i \in DOMAIN scope : x = NameOf(scope[i])
      BY <1>1 DEF Names
    <2>2. scope[i] \in BindingRec
      BY DEF ViewsInv, ViewsTypes
    <2>3. x = [handled |-> scope[i].handled, views |-> scope[i].views, holds |-> scope[i].holds]
      BY <2>1 DEF NameOf, Expr
    <2>4. x \in ExprRec /\ x.handled = scope[i].handled /\ x.views = scope[i].views /\ x.holds = scope[i].holds
      BY <2>2, <2>3 DEF BindingRec, ExprRec
    <2>5. scope[i].depth <= depth /\ scope[i].handled <= scope[i].depth /\ Covers(handlers, scope[i])
      BY DEF ViewsInv, Accounted
    <2>6. x.handled <= depth
      BY <2>2, <2>4, <2>5 DEF BindingRec, ViewsInv, ViewsTypes
    <2>7. QED
      BY <2>4, <2>5, <2>6 DEF Covers
  <1>2. CASE e = Text
    BY <1>2 DEF Text, Expr, ExprRec, Covers, ViewsInv, ViewsTypes
  <1>3. ASSUME NEW x \in Names, e = Number(x)
        PROVE  e \in ExprRec /\ e.handled <= depth /\ Covers(handlers, e)
    BY <1>1, <1>3 DEF Number, Expr, ExprRec, Covers
  <1>4. ASSUME NEW x \in Names, NEW y \in Names,
               e = Joined(x, y)
        PROVE  e \in ExprRec /\ e.handled <= depth /\ Covers(handlers, e)
    <2>1. /\ x \in ExprRec /\ x.handled <= depth /\ Covers(handlers, x)
          /\ y \in ExprRec /\ y.handled <= depth /\ Covers(handlers, y)
      BY <1>1
    <2>2. /\ x.handled \in Nat /\ y.handled \in Nat /\ depth \in Nat
          /\ x.views \in SUBSET Nat /\ y.views \in SUBSET Nat
      BY <2>1 DEF ExprRec, ViewsInv, ViewsTypes
    <2>3. /\ handled_view(x, y) \in Nat /\ handled_view(x, y) <= depth
          /\ x.handled <= handled_view(x, y) /\ y.handled <= handled_view(x, y)
      BY <2>1, <2>2 DEF handled_view, Larger
    <2>4. e = [handled |-> handled_view(x, y), views |-> x.views \union y.views, holds |-> TRUE]
      BY <1>4 DEF Joined, Expr
    <2>5. e \in ExprRec /\ e.handled = handled_view(x, y) /\ e.views = x.views \union y.views /\ e.holds
      BY <2>2, <2>3, <2>4 DEF ExprRec
    <2>6. ASSUME NEW m \in e.views
          PROVE  \E i \in DOMAIN handlers : handlers[i].message = m /\ handlers[i].depth <= e.handled
      <3>1. \E i \in DOMAIN handlers :
               handlers[i].message = m /\ (handlers[i].depth <= x.handled \/ handlers[i].depth <= y.handled)
        BY <2>1, <2>5, <2>6 DEF Covers
      <3>2. \A i \in DOMAIN handlers : handlers[i].depth \in Nat
        BY HandlerFields DEF ViewsInv, ViewsTypes
      <3>3. QED
        BY <2>2, <2>3, <2>5, <3>1, <3>2
    <2>7. QED
      BY <2>3, <2>5, <2>6 DEF Covers
  <1>5. \/ e = Text \/ e \in Names \/ \E x \in Names : e = Number(x)
        \/ \E x, y \in Names : e = Joined(x, y)
    <2>1. e \in {Text} \/ e \in Names \/ e \in {Number(x) : x \in Names} \/ e \in Pairs
      BY DEF Expressions
    <2>2. e \in Pairs => \E x, y \in Names : e = Joined(x, y)
      BY SMT DEF Pairs
    <2>3. e \in {Number(x) : x \in Names} => \E x \in Names : e = Number(x)
      OBVIOUS
    <2>4. QED
      BY <2>1, <2>2, <2>3
  <1>6. QED
    BY <1>1, <1>2, <1>3, <1>4, <1>5

-----------------------------------------------------------------------------
(* A handler entered covers no less.                                       *)
LEMMA CoversEntered ==
  ASSUME NEW hs \in Seq(HandlerRec), NEW h \in HandlerRec, NEW e, Covers(hs, e)
  PROVE  Covers(Append(hs, h), e)
  BY DEF Covers

(* When a handler ends, an account of the handlers around it still covers. *)
LEMMA CoversLeft ==
  ASSUME NEW hs \in Seq(HandlerRec), hs # << >>, NEW e, e.handled \in Int,
         e.handled < hs[Len(hs)].depth, Covers(hs, e)
  PROVE  Covers(SubSeq(hs, 1, Len(hs) - 1), e)
  <1> DEFINE left == SubSeq(hs, 1, Len(hs) - 1)
  <1>1. Len(hs) \in Nat /\ Len(hs) >= 1 /\ DOMAIN hs = 1 .. Len(hs)
    OBVIOUS
  <1>2. Len(left) = Len(hs) - 1 /\ DOMAIN left = 1 .. Len(hs) - 1 /\ \A i \in DOMAIN left : left[i] = hs[i]
    BY <1>1
  <1>3. ASSUME NEW m \in e.views
        PROVE  \E i \in DOMAIN left : left[i].message = m /\ left[i].depth <= e.handled
    <2>1. PICK i \in DOMAIN hs : hs[i].message = m /\ hs[i].depth <= e.handled
      BY <1>3 DEF Covers
    <2>2. hs[i].depth \in Nat /\ hs[Len(hs)].depth \in Nat
      BY <1>1, HandlerFields
    <2>3. i # Len(hs)
      BY <2>1, <2>2
    <2>4. i \in DOMAIN left
      BY <1>1, <1>2, <2>3
    <2>5. QED
      BY <1>2, <2>1, <2>4
  <1>4. QED
    BY <1>3 DEF Covers

(* A recover that is not taken changes no message and no depth.            *)
LEMMA Marked ==
  ASSUME NEW hs \in Seq(HandlerRec), hs # << >>, NEW r \in Nat
  PROVE  LET ms == [hs EXCEPT ![Len(hs)].recovered = r]
         IN  /\ ms \in Seq(HandlerRec) /\ DOMAIN ms = DOMAIN hs
             /\ \A i \in DOMAIN hs : /\ ms[i].message = hs[i].message /\ ms[i].depth = hs[i].depth
                                     /\ ms[i].recovered = IF i = Len(hs) THEN r ELSE hs[i].recovered
  <1> DEFINE ms == [hs EXCEPT ![Len(hs)].recovered = r]
  <1>1. DOMAIN ms = DOMAIN hs /\ Len(hs) \in DOMAIN hs
    OBVIOUS
  <1>2. \A i \in DOMAIN hs : ms[i] = IF i = Len(hs) THEN [hs[i] EXCEPT !.recovered = r] ELSE hs[i]
    OBVIOUS
  <1>3. ASSUME NEW i \in DOMAIN hs
        PROVE  /\ ms[i] \in HandlerRec /\ ms[i].message = hs[i].message /\ ms[i].depth = hs[i].depth
               /\ ms[i].recovered = IF i = Len(hs) THEN r ELSE hs[i].recovered
    <2>1. hs[i] \in HandlerRec
      OBVIOUS
    <2>2. QED
      BY <1>2, <2>1 DEF HandlerRec
  <1>4. ms \in Seq(HandlerRec)
    <2>1. ms = [i \in 1 .. Len(hs) |-> ms[i]] /\ Len(hs) \in Nat
      BY <1>1
    <2>2. \A i \in 1 .. Len(hs) : ms[i] \in HandlerRec
      BY <1>3
    <2>3. QED
      BY <2>1, <2>2
  <1>5. QED
    BY <1>1, <1>3, <1>4

(* A binding that covers, at the end of the scope.                         *)
LEMMA Bound ==
  ASSUME NEW sc \in Seq(BindingRec), NEW hs, NEW d \in Nat, Accounted(sc, hs, d),
         NEW b \in BindingRec, b.depth <= d, b.handled <= b.depth, Covers(hs, b)
  PROVE  Append(sc, b) \in Seq(BindingRec) /\ Accounted(Append(sc, b), hs, d)
  BY DEF Accounted

(* A binding that covers, in place of another.                             *)
LEMMA Replaced ==
  ASSUME NEW sc \in Seq(BindingRec), NEW hs, NEW d \in Nat, Accounted(sc, hs, d), NEW i \in DOMAIN sc,
         NEW b \in BindingRec, b.depth <= d, b.handled <= b.depth, Covers(hs, b)
  PROVE  [sc EXCEPT ![i] = b] \in Seq(BindingRec) /\ Accounted([sc EXCEPT ![i] = b], hs, d)
  BY DEF Accounted

(* What handled_stored admits leaves the binding covered: the account of   *)
(* what is stored is that of a handler around the binding.                 *)
LEMMA StoredCovers ==
  ASSUME NEW hs \in Seq(HandlerRec), NEW b \in BindingRec, NEW e \in ExprRec,
         b.handled <= b.depth, Covers(hs, b), Covers(hs, e), b.holds = e.holds, handled_stored(b, e)
  PROVE  /\ Storing(b, e) \in BindingRec /\ Storing(b, e).depth = b.depth
         /\ Storing(b, e).handled <= b.depth /\ Covers(hs, Storing(b, e))
         /\ e.holds => Covers(hs, [Storing(b, e) EXCEPT !.views = @ \union b.views])
  <1> DEFINE s == Storing(b, e)
             h == IF e.holds THEN Larger(b.handled, e.handled) ELSE b.handled
  <1>1. /\ b.depth \in Nat /\ b.handled \in Nat /\ e.handled \in Nat /\ b.holds \in BOOLEAN
        /\ b.views \in SUBSET Nat /\ e.views \in SUBSET Nat
    BY DEF BindingRec, ExprRec
  <1>2. s = [b EXCEPT !.handled = h, !.views = e.views]
    BY DEF Storing
  <1>3. h \in Nat /\ b.handled <= h /\ h <= b.depth /\ (e.holds => e.handled <= h)
    BY <1>1 DEF Larger, handled_stored
  <1>4. /\ s \in BindingRec /\ s.depth = b.depth /\ s.handled = h /\ s.views = e.views /\ s.holds = b.holds
    <2> HIDE DEF h
    <2>1. QED
      BY <1>1, <1>2, <1>3 DEF BindingRec
  <1> DEFINE k == [s EXCEPT !.views = @ \union b.views]
  <1>5. k.handled = h /\ k.views = e.views \union b.views /\ k.holds = b.holds
    <2> HIDE DEF h, s
    <2>1. QED
      BY <1>4 DEF BindingRec
  <1> HIDE DEF h, s, k
  <1>6. ASSUME NEW m \in e.views
        PROVE  \E i \in DOMAIN hs : hs[i].message = m /\ hs[i].depth <= h
    <2>1. e.holds
      BY <1>6 DEF Covers
    <2>2. PICK i \in DOMAIN hs : hs[i].message = m /\ hs[i].depth <= e.handled
      BY <1>6 DEF Covers
    <2>3. hs[i].depth \in Nat
      BY HandlerFields
    <2>4. hs[i].depth <= h
      BY <1>1, <1>3, <2>1, <2>2, <2>3
    <2>5. QED
      BY <2>2, <2>4
  <1>7. ASSUME NEW m \in b.views
        PROVE  \E i \in DOMAIN hs : hs[i].message = m /\ hs[i].depth <= h
    <2>1. PICK i \in DOMAIN hs : hs[i].message = m /\ hs[i].depth <= b.handled
      BY <1>7 DEF Covers
    <2>2. hs[i].depth \in Nat
      BY HandlerFields
    <2>3. hs[i].depth <= h
      BY <1>1, <1>3, <2>1, <2>2
    <2>4. QED
      BY <2>1, <2>3
  <1>8. Covers(hs, s)
    BY <1>4, <1>6 DEF Covers
  <1>9. e.holds => Covers(hs, k)
    BY <1>5, <1>6, <1>7 DEF Covers
  <1>10. QED
    BY <1>3, <1>4, <1>8, <1>9 DEF s, k

(* The bindings left when scopes deeper than d are popped.                 *)
LEMMA PoppedTo ==
  ASSUME ViewsInv, NEW d \in Nat, PopTo(d)
  PROVE  scope' \in Seq(BindingRec) /\ Accounted(scope', handlers, d)
  <1>1. PICK n \in 0 .. Len(scope) :
          (\A i \in DOMAIN scope : i <= n <=> scope[i].depth <= d) /\ scope' = SubSeq(scope, 1, n)
    BY DEF PopTo
  <1>2. scope \in Seq(BindingRec) /\ Len(scope) \in Nat
    BY DEF ViewsInv, ViewsTypes
  <1>3. DOMAIN scope' = 1 .. n /\ \A i \in 1 .. n : i \in DOMAIN scope /\ scope'[i] = scope[i]
    BY <1>1, <1>2
  <1>4. scope' \in Seq(BindingRec)
    BY <1>1, <1>2
  <1>5. ASSUME NEW i \in DOMAIN scope'
        PROVE  scope'[i].depth <= d /\ scope'[i].handled <= scope'[i].depth /\ Covers(handlers, scope'[i])
    BY <1>1, <1>3, <1>5 DEF ViewsInv, Accounted
  <1>6. QED
    BY <1>4, <1>5 DEF Accounted

-----------------------------------------------------------------------------
(* The parts a step is shown to keep, put together.                        *)
LEMMA Kept ==
  ASSUME scope' \in Seq(BindingRec), handlers' \in Seq(HandlerRec), depth' \in Nat, depth' >= 1, entered' \in Nat,
         caught' = NoValue \/ caught' \in ExprRec,
         Nested(handlers', depth'), Accounted(scope', handlers', depth'),
         caught'.handled <= depth', Covers(handlers', caught')
  PROVE  ViewsInv'
  BY DEF ViewsInv, ViewsTypes

(* Nothing is on its way out of a handler.                                 *)
LEMMA NoValueKept ==
  ASSUME NEW hs, NEW d \in Nat
  PROVE  NoValue.handled <= d /\ Covers(hs, NoValue)
  BY DEF NoValue, Expr, Covers

(* The new scope of a block.                                               *)
LEMMA PushScopeKeeps == ViewsInv /\ push_scope => ViewsInv'
  <1> SUFFICES ASSUME ViewsInv, push_scope PROVE ViewsInv'
    OBVIOUS
  <1>1. /\ depth \in Nat /\ depth' = depth + 1 /\ UNCHANGED << scope, handlers, entered, caught >>
        /\ scope \in Seq(BindingRec) /\ handlers \in Seq(HandlerRec) /\ caught = NoValue
    BY DEF push_scope, Idle, ViewsInv, ViewsTypes
  <1>2. Nested(handlers', depth')
    BY <1>1, HandlerFields DEF ViewsInv, Nested
  <1>3. Accounted(scope', handlers', depth')
    <2>1. \A i \in DOMAIN scope : scope[i].depth \in Nat
      BY <1>1, BindingFields
    <2>2. QED
      BY <1>1, <2>1 DEF ViewsInv, Accounted
  <1>4. caught'.handled <= depth' /\ Covers(handlers', caught')
    BY <1>1, NoValueKept
  <1>5. QED
    BY <1>1, <1>2, <1>3, <1>4, Kept DEF ViewsInv, ViewsTypes

(* The end of a block.                                                     *)
LEMMA PopScopeKeeps == ViewsInv /\ pop_scope => ViewsInv'
  <1> SUFFICES ASSUME ViewsInv, pop_scope PROVE ViewsInv'
    OBVIOUS
  <1>1. /\ depth \in Nat /\ depth >= 1 /\ depth' = depth - 1 /\ UNCHANGED << handlers, entered, caught >>
        /\ handlers \in Seq(HandlerRec) /\ caught = NoValue /\ entered \in Nat
    BY DEF pop_scope, Idle, ViewsInv, ViewsTypes
  <1>2. depth' \in Nat /\ depth' >= 1 /\ (handlers # << >> => handlers[Len(handlers)].depth + 1 < depth)
    <2>1. CASE handlers = << >>
      BY <1>1, <2>1 DEF pop_scope
    <2>2. CASE handlers # << >>
      <3>1. Len(handlers) \in DOMAIN handlers
        BY <1>1, <2>2
      <3>2. handlers[Len(handlers)].depth \in Nat
        BY <1>1, <3>1, HandlerFields
      <3>3. depth > handlers[Len(handlers)].depth + 1
        BY <2>2 DEF pop_scope, catch_depth
      <3>4. QED
        BY <1>1, <3>2, <3>3
    <2>3. QED
      BY <2>1, <2>2
  <1>3. scope' \in Seq(BindingRec) /\ Accounted(scope', handlers', depth')
    BY <1>1, <1>2, PoppedTo DEF pop_scope
  <1>4. Nested(handlers', depth')
    <2>1. ASSUME NEW i \in DOMAIN handlers
          PROVE  handlers[i].depth < depth'
      <3>1. Len(handlers) \in DOMAIN handlers /\ handlers # << >> /\ i \in 1 .. Len(handlers) /\ Len(handlers) \in Nat
        BY <1>1
      <3>2. handlers[i].depth \in Nat /\ handlers[Len(handlers)].depth \in Nat
        BY <1>1, <3>1, HandlerFields
      <3>3. i = Len(handlers) \/ handlers[i].depth + 1 < handlers[Len(handlers)].depth
        BY <3>1 DEF ViewsInv, Nested
      <3>4. QED
        BY <1>1, <1>2, <3>1, <3>2, <3>3
    <2>2. QED
      BY <1>1, <2>1 DEF ViewsInv, Nested
  <1>5. caught'.handled <= depth' /\ Covers(handlers', caught')
    BY <1>1, <1>2, NoValueKept
  <1>6. QED
    BY <1>1, <1>2, <1>3, <1>4, <1>5, Kept

(* A handler begins, its failure bound in it.                              *)
LEMMA CheckCatchKeeps == ViewsInv /\ check_catch => ViewsInv'
  <1> SUFFICES ASSUME ViewsInv, check_catch PROVE ViewsInv'
    OBVIOUS
  <1> DEFINE h == [depth |-> depth + 1, message |-> entered + 1, recovered |-> 0]
             b == [depth |-> depth + 1, mutable |-> FALSE, handled |-> depth + 1,
                   views |-> {entered + 1}, holds |-> TRUE]
  <1>1. /\ depth \in Nat /\ depth >= 1 /\ depth' = depth + 2 /\ entered \in Nat /\ entered' = entered + 1
        /\ scope \in Seq(BindingRec) /\ handlers \in Seq(HandlerRec) /\ caught' = NoValue
        /\ handlers' = Append(handlers, h)
    BY DEF check_catch, Idle, ViewsInv, ViewsTypes
  <1>2. scope' = Append(scope, b)
    BY DEF check_catch, Binding, Expr
  <1>3. h \in HandlerRec /\ b \in BindingRec
    BY <1>1 DEF HandlerRec, BindingRec
  <1>4. /\ DOMAIN handlers' = 1 .. Len(handlers) + 1 /\ Len(handlers) \in Nat /\ DOMAIN handlers = 1 .. Len(handlers)
        /\ handlers'[Len(handlers) + 1] = h /\ \A i \in DOMAIN handlers : handlers'[i] = handlers[i]
        /\ handlers' \in Seq(HandlerRec)
    BY <1>1, <1>3
  <1>5. Nested(handlers', depth')
    <2>1. ASSUME NEW i \in DOMAIN handlers
          PROVE  /\ 2 <= handlers[i].depth /\ handlers[i].depth < depth' /\ handlers[i].recovered < handlers[i].depth
                 /\ handlers[i].depth + 1 < h.depth
      <3>1. handlers[i].depth \in Nat /\ handlers[i].depth < depth
        BY <1>1, HandlerFields DEF ViewsInv, Nested
      <3>2. QED
        BY <1>1, <3>1 DEF ViewsInv, Nested
    <2>2. 2 <= h.depth /\ h.depth < depth' /\ h.recovered < h.depth
      BY <1>1
    <2>3. \A i, j \in DOMAIN handlers : i < j => handlers[i].depth + 1 < handlers[j].depth
      BY DEF ViewsInv, Nested
    <2>4. \A i \in DOMAIN handlers' : i \in DOMAIN handlers \/ i = Len(handlers) + 1
      BY <1>4
    <2> HIDE DEF h
    <2>5. \A i, j \in DOMAIN handlers' : i < j => handlers'[i].depth + 1 < handlers'[j].depth
      BY <1>4, <2>1, <2>3, <2>4
    <2>6. QED
      BY <1>4, <2>1, <2>2, <2>4, <2>5 DEF Nested
  <1>6. Accounted(scope, handlers', depth')
    <2> HIDE DEF h
    <2>1. ASSUME NEW i \in DOMAIN scope
          PROVE  scope[i].depth <= depth' /\ scope[i].handled <= scope[i].depth /\ Covers(handlers', scope[i])
      <3>1. scope[i].depth \in Nat
        BY <1>1, BindingFields
      <3>2. scope[i].depth <= depth /\ scope[i].handled <= scope[i].depth /\ Covers(handlers, scope[i])
        BY DEF ViewsInv, Accounted
      <3>3. QED
        BY <1>1, <1>3, <3>1, <3>2, CoversEntered
    <2>2. QED
      BY <2>1 DEF Accounted
  <1>7. Covers(handlers', b)
    BY <1>1, <1>4 DEF Covers
  <1>8. scope' \in Seq(BindingRec) /\ Accounted(scope', handlers', depth')
    <2>1. b.depth <= depth' /\ b.handled <= b.depth /\ depth' \in Nat
      BY <1>1
    <2> HIDE DEF b
    <2>2. QED
      BY <1>1, <1>2, <1>3, <1>6, <1>7, <2>1, Bound
  <1>9. caught'.handled <= depth' /\ Covers(handlers', caught')
    <2>1. caught' = NoValue /\ depth' \in Nat
      BY <1>1
    <2>2. QED
      BY <2>1, NoValueKept
  <1>10. QED
    BY <1>1, <1>4, <1>5, <1>8, <1>9, Kept

-----------------------------------------------------------------------------
(* A statement that only changes what is bound.                            *)
LEMMA ScopeKept ==
  ASSUME ViewsInv, UNCHANGED << depth, handlers, entered >>, caught' = NoValue,
         scope' \in Seq(BindingRec), Accounted(scope', handlers, depth)
  PROVE  ViewsInv'
  <1>1. /\ depth \in Nat /\ depth >= 1 /\ entered \in Nat /\ handlers \in Seq(HandlerRec)
        /\ depth' = depth /\ handlers' = handlers /\ entered' = entered /\ Nested(handlers, depth)
    BY DEF ViewsInv, ViewsTypes
  <1>2. caught'.handled <= depth' /\ Covers(handlers', caught')
    BY <1>1, NoValueKept
  <1>3. QED
    BY <1>1, <1>2, Kept

(* A covered value is bound.                                               *)
LEMMA ValueBound ==
  ASSUME ViewsInv, NEW e \in ExprRec, e.handled <= depth, Covers(handlers, e), NEW mutable \in BOOLEAN,
         scope' = Append(scope, Binding(depth, mutable, e))
  PROVE  scope' \in Seq(BindingRec) /\ Accounted(scope', handlers, depth)
  <1> DEFINE b == Binding(depth, mutable, e)
  <1>1. depth \in Nat /\ scope \in Seq(BindingRec) /\ Accounted(scope, handlers, depth)
    BY DEF ViewsInv, ViewsTypes
  <1>2. b = [depth |-> depth, mutable |-> mutable, handled |-> e.handled, views |-> e.views, holds |-> e.holds]
    BY DEF Binding
  <1>3. /\ b \in BindingRec /\ b.depth = depth /\ b.handled = e.handled /\ b.views = e.views /\ b.holds = e.holds
    BY <1>1, <1>2 DEF BindingRec, ExprRec
  <1> HIDE DEF b
  <1>4. Covers(handlers, b)
    BY <1>3 DEF Covers
  <1>5. b.depth <= depth /\ b.handled <= b.depth
    BY <1>1, <1>3
  <1>6. scope' = Append(scope, b)
    BY DEF b
  <1>7. QED
    BY <1>1, <1>3, <1>4, <1>5, <1>6, Bound

(* A covered value is stored where handled_stored admits it.               *)
LEMMA ValueStored ==
  ASSUME ViewsInv, NEW e \in ExprRec, Covers(handlers, e), NEW i \in DOMAIN scope,
         scope[i].holds = e.holds, handled_stored(scope[i], e),
         scope' = [scope EXCEPT ![i] = Storing(scope[i], e)]
  PROVE  scope' \in Seq(BindingRec) /\ Accounted(scope', handlers, depth)
  <1> DEFINE s == Storing(scope[i], e)
  <1>1. /\ depth \in Nat /\ scope \in Seq(BindingRec) /\ handlers \in Seq(HandlerRec)
        /\ Accounted(scope, handlers, depth)
    BY DEF ViewsInv, ViewsTypes
  <1>2. scope[i].depth <= depth /\ scope[i].handled <= scope[i].depth /\ Covers(handlers, scope[i])
    BY <1>1 DEF Accounted
  <1>3. scope[i] \in BindingRec
    BY <1>1, BindingFields
  <1>4. s \in BindingRec /\ s.depth = scope[i].depth /\ s.handled <= scope[i].depth /\ Covers(handlers, s)
    BY <1>1, <1>2, <1>3, StoredCovers
  <1>5. s.depth <= depth /\ s.handled <= s.depth
    BY <1>2, <1>4
  <1>6. scope' = [scope EXCEPT ![i] = s]
    OBVIOUS
  <1>7. [scope EXCEPT ![i] = s] \in Seq(BindingRec) /\ Accounted([scope EXCEPT ![i] = s], handlers, depth)
    <2> HIDE DEF s
    <2>1. QED
      BY <1>1, <1>4, <1>5, Replaced
  <1>8. QED
    BY <1>6, <1>7

(* let or var.                                                             *)
LEMMA BindKeeps == ViewsInv /\ bind => ViewsInv'
  <1> SUFFICES ASSUME ViewsInv, bind PROVE ViewsInv'
    OBVIOUS
  <1>1. PICK e \in Expressions, mutable \in BOOLEAN : scope' = Append(scope, Binding(depth, mutable, e))
    BY DEF bind
  <1>2. e \in ExprRec /\ e.handled <= depth /\ Covers(handlers, e)
    BY ExpressionsCovered
  <1>3. scope' \in Seq(BindingRec) /\ Accounted(scope', handlers, depth)
    BY <1>1, <1>2, ValueBound
  <1>4. UNCHANGED << depth, handlers, entered >> /\ caught' = NoValue
    BY DEF bind, Idle
  <1>5. QED
    BY <1>3, <1>4, ScopeKept

(* An assignment.                                                          *)
LEMMA AssignKeeps == ViewsInv /\ assign => ViewsInv'
  <1> SUFFICES ASSUME ViewsInv, assign PROVE ViewsInv'
    OBVIOUS
  <1>1. PICK i \in DOMAIN scope, e \in Expressions :
          /\ scope[i].holds = e.holds /\ handled_stored(scope[i], e)
          /\ scope' = [scope EXCEPT ![i] = Storing(scope[i], e)]
    BY DEF assign
  <1>2. e \in ExprRec /\ e.handled <= depth /\ Covers(handlers, e)
    BY ExpressionsCovered
  <1>3. scope' \in Seq(BindingRec) /\ Accounted(scope', handlers, depth)
    BY <1>1, <1>2, ValueStored
  <1>4. UNCHANGED << depth, handlers, entered >> /\ caught' = NoValue
    BY DEF assign, Idle
  <1>5. QED
    BY <1>3, <1>4, ScopeKept

(* A container keeps a value beside those it has.                          *)
LEMMA KeepKeeps == ViewsInv /\ keep => ViewsInv'
  <1> SUFFICES ASSUME ViewsInv, keep PROVE ViewsInv'
    OBVIOUS
  <1>1. PICK i \in DOMAIN scope, e \in Expressions :
          /\ e.holds /\ scope[i].holds /\ handled_stored(scope[i], e)
          /\ scope' = [scope EXCEPT ![i] = [Storing(scope[i], e) EXCEPT !.views = @ \union scope[i].views]]
    BY DEF keep, handled_kept
  <1> DEFINE s == Storing(scope[i], e)
             k == [s EXCEPT !.views = @ \union scope[i].views]
  <1>2. e \in ExprRec /\ Covers(handlers, e)
    BY ExpressionsCovered
  <1>3. /\ depth \in Nat /\ scope \in Seq(BindingRec) /\ handlers \in Seq(HandlerRec)
        /\ Accounted(scope, handlers, depth)
    BY DEF ViewsInv, ViewsTypes
  <1>4. scope[i].depth <= depth /\ scope[i].handled <= scope[i].depth /\ Covers(handlers, scope[i])
    BY <1>3 DEF Accounted
  <1>5. scope[i] \in BindingRec /\ scope[i].views \in SUBSET Nat /\ scope[i].holds = e.holds
    <2>1. e.holds \in BOOLEAN
      BY <1>2 DEF ExprRec
    <2>2. scope[i] \in BindingRec /\ scope[i].views \in SUBSET Nat /\ scope[i].holds \in BOOLEAN
      BY <1>3, BindingFields
    <2>3. QED
      BY <1>1, <2>1, <2>2
  <1>6. /\ s \in BindingRec /\ s.depth = scope[i].depth /\ s.handled <= scope[i].depth
        /\ Covers(handlers, k)
    BY <1>1, <1>2, <1>3, <1>4, <1>5, StoredCovers
  <1>7. scope' = [scope EXCEPT ![i] = k]
    BY <1>1
  <1>8. k \in BindingRec /\ k.depth = s.depth /\ k.handled = s.handled
    <2> HIDE DEF s
    <2>1. QED
      BY <1>5, <1>6 DEF BindingRec
  <1>9. k.depth <= depth /\ k.handled <= k.depth
    <2> HIDE DEF s, k
    <2>1. QED
      BY <1>4, <1>6, <1>8
  <1>10. scope' \in Seq(BindingRec) /\ Accounted(scope', handlers, depth)
    <2> HIDE DEF s, k
    <2>1. QED
      BY <1>3, <1>6, <1>7, <1>8, <1>9, Replaced
  <1>11. UNCHANGED << depth, handlers, entered >> /\ caught' = NoValue
    BY DEF keep, Idle
  <1>12. QED
    BY <1>10, <1>11, ScopeKept

-----------------------------------------------------------------------------
(* What a recover may carry is of the handlers around this one, and the    *)
(* mark it leaves on the catch covers it.                                  *)
LEMMA RecoveredMark ==
  ASSUME ViewsInv, handlers # << >>, NEW e \in Expressions, handled_recovered(e)
  PROVE  /\ Len(handlers) \in DOMAIN handlers /\ catch_depth \in Nat /\ catch_depth >= 2
         /\ Mark(e) \in Nat /\ Mark(e) < catch_depth
         /\ e.views # {} => e.handled <= Mark(e)
  <1>1. handlers \in Seq(HandlerRec) /\ Nested(handlers, depth)
    BY DEF ViewsInv, ViewsTypes
  <1>2. Len(handlers) \in DOMAIN handlers
    BY <1>1
  <1> DEFINE r == handlers[Len(handlers)].recovered
  <1>3. /\ catch_depth \in Nat /\ catch_depth >= 2 /\ r \in Nat /\ r < catch_depth
    BY <1>1, <1>2, HandlerFields DEF Nested, catch_depth
  <1>4. e \in ExprRec /\ Covers(handlers, e)
    BY ExpressionsCovered
  <1>5. e.handled \in Nat
    BY <1>4 DEF ExprRec
  <1>6. ASSUME e.views # {}
        PROVE  Refused(e)
    <2>1. PICK m \in e.views : TRUE
      BY <1>6
    <2>2. PICK i \in DOMAIN handlers : handlers[i].depth <= e.handled
      BY <1>4, <2>1 DEF Covers
    <2>3. handlers[i].depth \in Nat /\ 2 <= handlers[i].depth
      BY <1>1, HandlerFields DEF Nested
    <2>4. e.handled > 0
      BY <1>5, <2>2, <2>3
    <2>5. QED
      BY <1>4, <1>6, <2>4 DEF Refused, Covers
  <1>7. Mark(e) \in Nat /\ Mark(e) < catch_depth /\ (Refused(e) => e.handled <= Mark(e))
    <2>1. CASE Refused(e)
      BY <1>3, <1>5, <2>1 DEF Mark, Larger, handled_recovered
    <2>2. CASE ~Refused(e)
      BY <1>3, <2>2 DEF Mark
    <2>3. QED
      BY <2>1, <2>2
  <1>8. QED
    BY <1>2, <1>3, <1>6, <1>7

(* A recover on a branch that is not taken.                                *)
LEMMA RecoverElsewhereKeeps == ViewsInv /\ recover_elsewhere => ViewsInv'
  <1> SUFFICES ASSUME ViewsInv, recover_elsewhere PROVE ViewsInv'
    OBVIOUS
  <1>1. PICK e \in Expressions :
          handled_recovered(e) /\ handlers' = [handlers EXCEPT ![Len(handlers)].recovered = Mark(e)]
    BY DEF recover_elsewhere
  <1>2. /\ handlers # << >> /\ UNCHANGED << scope, depth, entered, caught >> /\ caught = NoValue
        /\ handlers \in Seq(HandlerRec) /\ depth \in Nat /\ depth >= 1 /\ entered \in Nat
        /\ scope \in Seq(BindingRec) /\ Nested(handlers, depth) /\ Accounted(scope, handlers, depth)
    BY DEF recover_elsewhere, Idle, ViewsInv, ViewsTypes
  <1>3. Mark(e) \in Nat /\ Mark(e) < handlers[Len(handlers)].depth
    BY <1>1, <1>2, RecoveredMark DEF catch_depth
  <1> DEFINE r == Mark(e)
  <1>4. /\ handlers' \in Seq(HandlerRec) /\ DOMAIN handlers' = DOMAIN handlers
        /\ \A i \in DOMAIN handlers :
              /\ handlers'[i].message = handlers[i].message /\ handlers'[i].depth = handlers[i].depth
              /\ handlers'[i].recovered = IF i = Len(handlers) THEN r ELSE handlers[i].recovered
    BY <1>1, <1>2, <1>3, Marked
  <1> HIDE DEF r
  <1>5. r < handlers[Len(handlers)].depth
    BY <1>3 DEF r
  <1>6. Nested(handlers', depth')
    BY <1>2, <1>4, <1>5 DEF Nested
  <1>7. \A x : Covers(handlers, x) => Covers(handlers', x)
    BY <1>4 DEF Covers
  <1>8. Accounted(scope', handlers', depth')
    BY <1>2, <1>7 DEF Accounted
  <1>9. caught'.handled <= depth' /\ Covers(handlers', caught')
    BY <1>2, NoValueKept
  <1>10. QED
    BY <1>2, <1>4, <1>6, <1>8, <1>9, Kept

(* A recover that ends its handler.                                        *)
LEMMA RecoverKeeps == ViewsInv /\ recover => ViewsInv'
  <1> SUFFICES ASSUME ViewsInv, recover PROVE ViewsInv'
    OBVIOUS
  <1>1. PICK e \in Expressions : handled_recovered(e) /\ caught' = Expr(Mark(e), e.views, e.holds)
    BY DEF recover
  <1> DEFINE left == SubSeq(handlers, 1, Len(handlers) - 1)
             d == catch_depth - 1
  <1>2. /\ handlers # << >> /\ handlers' = left /\ depth' = d /\ PopTo(d) /\ entered' = entered
        /\ handlers \in Seq(HandlerRec) /\ depth \in Nat /\ entered \in Nat
        /\ scope \in Seq(BindingRec) /\ Nested(handlers, depth)
    BY DEF recover, ViewsInv, ViewsTypes
  <1>3. /\ Len(handlers) \in DOMAIN handlers /\ catch_depth \in Nat /\ catch_depth >= 2
        /\ Mark(e) \in Nat /\ Mark(e) < catch_depth /\ (e.views # {} => e.handled <= Mark(e))
    BY <1>1, <1>2, RecoveredMark
  <1>4. d \in Nat /\ d >= 1 /\ d < catch_depth /\ Mark(e) <= d
    BY <1>3
  <1>5. /\ left \in Seq(HandlerRec) /\ Len(handlers) \in Nat /\ DOMAIN handlers = 1 .. Len(handlers)
        /\ DOMAIN left = 1 .. Len(handlers) - 1 /\ \A i \in DOMAIN left : left[i] = handlers[i]
    BY <1>2
  <1>6. Nested(left, d)
    <2>1. ASSUME NEW i \in DOMAIN left
          PROVE  2 <= left[i].depth /\ left[i].depth < d /\ left[i].recovered < left[i].depth
      <3>1. i \in DOMAIN handlers /\ i < Len(handlers) /\ left[i] = handlers[i]
        BY <1>5
      <3>2. handlers[i].depth \in Nat
        BY <1>2, <3>1, HandlerFields
      <3>3. handlers[i].depth + 1 < catch_depth
        BY <1>2, <1>3, <3>1 DEF Nested, catch_depth
      <3>4. handlers[i].depth < d
        BY <1>3, <3>2, <3>3
      <3>5. 2 <= handlers[i].depth /\ handlers[i].recovered < handlers[i].depth
        BY <1>2, <3>1 DEF Nested
      <3>6. QED
        BY <3>1, <3>4, <3>5
    <2>2. \A i, j \in DOMAIN left : i < j => left[i].depth + 1 < left[j].depth
      BY <1>2, <1>5 DEF Nested
    <2> HIDE DEF d, left
    <2>3. QED
      BY <2>1, <2>2 DEF Nested
  <1>7. scope' \in Seq(BindingRec) /\ Accounted(scope', handlers, d)
    <2> HIDE DEF d
    <2>1. QED
      BY <1>2, <1>4, PoppedTo
  <1>8. Accounted(scope', left, d)
    <2>1. ASSUME NEW i \in DOMAIN scope'
          PROVE  Covers(left, scope'[i])
      <3>1. scope'[i].depth <= d /\ scope'[i].handled <= scope'[i].depth /\ Covers(handlers, scope'[i])
        BY <1>7 DEF Accounted
      <3>2. scope'[i].depth \in Nat /\ scope'[i].handled \in Nat
        BY <1>7, BindingFields
      <3>3. scope'[i].handled < handlers[Len(handlers)].depth
        BY <1>3, <1>4, <3>1, <3>2 DEF catch_depth
      <3>4. QED
        BY <1>2, <3>1, <3>2, <3>3, CoversLeft
    <2> HIDE DEF d, left
    <2>2. QED
      BY <1>7, <2>1 DEF Accounted
  <1>9. /\ caught' \in ExprRec /\ caught'.handled = Mark(e) /\ caught'.views = e.views /\ caught'.holds = e.holds
    <2>1. e \in ExprRec
      BY ExpressionsCovered
    <2>2. caught' = [handled |-> Mark(e), views |-> e.views, holds |-> e.holds]
      BY <1>1 DEF Expr
    <2>3. QED
      BY <1>3, <2>1, <2>2 DEF ExprRec
  <1>10. Covers(handlers, caught')
    <2>1. Covers(handlers, e) /\ e.handled \in Nat
      BY ExpressionsCovered DEF ExprRec
    <2>2. ASSUME NEW m \in e.views
          PROVE  \E i \in DOMAIN handlers : handlers[i].message = m /\ handlers[i].depth <= Mark(e)
      <3>1. PICK i \in DOMAIN handlers : handlers[i].message = m /\ handlers[i].depth <= e.handled
        BY <2>1 DEF Covers
      <3>2. handlers[i].depth \in Nat
        BY <1>2, HandlerFields
      <3>3. e.handled <= Mark(e)
        BY <1>3, <2>2
      <3>4. handlers[i].depth <= Mark(e)
        BY <1>3, <2>1, <3>1, <3>2, <3>3
      <3>5. QED
        BY <3>1, <3>4
    <2>3. QED
      BY <1>9, <2>1, <2>2 DEF Covers
  <1>11. Covers(left, caught')
    <2>1. caught'.handled \in Int /\ caught'.handled < handlers[Len(handlers)].depth
      BY <1>3, <1>9 DEF catch_depth
    <2>2. QED
      BY <1>2, <1>10, <2>1, CoversLeft
  <1>12. caught'.handled <= depth' /\ depth' \in Nat /\ depth' >= 1
    BY <1>2, <1>4, <1>9
  <1> HIDE DEF left, d
  <1>13. QED
    BY <1>2, <1>5, <1>6, <1>7, <1>8, <1>9, <1>11, <1>12, Kept

-----------------------------------------------------------------------------
(* What came out of a handler is a value like any other.                   *)
LEMMA CaughtCovered ==
  ASSUME ViewsInv, ~Idle
  PROVE  caught \in ExprRec /\ caught.handled <= depth /\ Covers(handlers, caught)
  BY DEF ViewsInv, ViewsTypes, Idle

(* It is bound.                                                            *)
LEMMA BindCaughtKeeps == ViewsInv /\ bind_caught => ViewsInv'
  <1> SUFFICES ASSUME ViewsInv, bind_caught PROVE ViewsInv'
    OBVIOUS
  <1>1. PICK mutable \in BOOLEAN : scope' = Append(scope, Binding(depth, mutable, caught))
    BY DEF bind_caught
  <1>2. UNCHANGED << depth, handlers, entered >> /\ caught' = NoValue /\ ~Idle
    BY DEF bind_caught
  <1>3. scope' \in Seq(BindingRec) /\ Accounted(scope', handlers, depth)
    BY <1>1, <1>2, CaughtCovered, ValueBound
  <1>4. QED
    BY <1>2, <1>3, ScopeKept

(* It is assigned.                                                         *)
LEMMA AssignCaughtKeeps == ViewsInv /\ assign_caught => ViewsInv'
  <1> SUFFICES ASSUME ViewsInv, assign_caught PROVE ViewsInv'
    OBVIOUS
  <1>1. PICK i \in DOMAIN scope :
          /\ scope[i].holds = caught.holds /\ handled_stored(scope[i], caught)
          /\ scope' = [scope EXCEPT ![i] = Storing(scope[i], caught)]
    BY DEF assign_caught
  <1>2. UNCHANGED << depth, handlers, entered >> /\ caught' = NoValue /\ ~Idle
    BY DEF assign_caught
  <1>3. scope' \in Seq(BindingRec) /\ Accounted(scope', handlers, depth)
    BY <1>1, <1>2, CaughtCovered, ValueStored
  <1>4. QED
    BY <1>2, <1>3, ScopeKept

(* It is let go.                                                           *)
LEMMA DropCaughtKeeps == ViewsInv /\ drop_caught => ViewsInv'
  <1> SUFFICES ASSUME ViewsInv, drop_caught PROVE ViewsInv'
    OBVIOUS
  <1>1. UNCHANGED << depth, handlers, entered >> /\ caught' = NoValue /\ scope' = scope
    BY DEF drop_caught
  <1>2. scope' \in Seq(BindingRec) /\ Accounted(scope', handlers, depth)
    BY <1>1 DEF ViewsInv, ViewsTypes
  <1>3. QED
    BY <1>1, <1>2, ScopeKept

-----------------------------------------------------------------------------
(* The account of every binding and value covers what it views, whatever   *)
(* the checker has admitted (check/handled.cpp).                           *)
THEOREM AccountsCover == ViewsSpec => []ViewsInv
  <1>1. ViewsInit => ViewsInv
    <2> SUFFICES ASSUME ViewsInit PROVE ViewsInv
      OBVIOUS
    <2>1. scope = << >> /\ handlers = << >> /\ depth = 1 /\ entered = 0 /\ caught = NoValue
      BY DEF ViewsInit
    <2>2. caught.handled <= depth /\ Covers(handlers, caught)
      BY <2>1, NoValueKept
    <2>3. QED
      BY <2>1, <2>2 DEF ViewsInv, ViewsTypes, Nested, Accounted
  <1>2. ViewsInv /\ [ViewsNext]_viewsVars => ViewsInv'
    <2>1. ViewsInv /\ ViewsNext => ViewsInv'
      BY PushScopeKeeps, PopScopeKeeps, CheckCatchKeeps, BindKeeps, AssignKeeps, KeepKeeps, RecoverKeeps,
         RecoverElsewhereKeeps, BindCaughtKeeps, AssignCaughtKeeps, DropCaughtKeeps DEF ViewsNext
    <2>2. ViewsInv /\ UNCHANGED viewsVars => ViewsInv'
      BY DEF viewsVars, ViewsInv, ViewsTypes
    <2>3. QED
      BY <2>1, <2>2
  <1>3. QED
    BY <1>1, <1>2, PTL DEF ViewsSpec

(* No binding and no value on its way out of a handler views the message   *)
(* of a handler that has finished, and a view of a message is never        *)
(* returned, for any bounds (check/handled.cpp).                           *)
THEOREM ViewsStayLive == ViewsSpec => []ViewsAreLive
  <1>1. ViewsInv => ViewsAreLive
    <2> SUFFICES ASSUME ViewsInv PROVE ViewsAreLive
      OBVIOUS
    <2>1. \A e : Covers(handlers, e) => e.views \subseteq Live
      BY DEF Covers, Live
    <2>2. \A i \in DOMAIN scope : scope[i].views \subseteq Live
      BY <2>1 DEF ViewsInv, Accounted
    <2>3. caught.views \subseteq Live
      BY <2>1 DEF ViewsInv
    <2>4. ASSUME NEW e \in Expressions, e.views # {}
          PROVE  Refused(e)
      <3>1. e \in ExprRec /\ Covers(handlers, e)
        BY ExpressionsCovered
      <3>2. PICK m \in e.views : TRUE
        BY <2>4
      <3>3. PICK i \in DOMAIN handlers : handlers[i].depth <= e.handled
        BY <3>1, <3>2 DEF Covers
      <3>4. handlers[i].depth \in Nat /\ 2 <= handlers[i].depth
        BY HandlerFields DEF ViewsInv, ViewsTypes, Nested
      <3>5. e.handled \in Nat
        BY <3>1 DEF ExprRec
      <3>6. e.handled > 0
        BY <3>3, <3>4, <3>5
      <3>7. QED
        BY <2>4, <3>1, <3>6 DEF Refused, Covers
    <2>5. QED
      BY <2>2, <2>3, <2>4 DEF ViewsAreLive
  <1>2. QED
    BY <1>1, AccountsCover, PTL

=============================================================================
