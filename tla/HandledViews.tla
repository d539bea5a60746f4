---------------------------- MODULE HandledViews ----------------------------
(***************************************************************************)
(* A caught failure's message lives until its handler finishes, and the    *)
(* checker refuses a program that keeps a view of it longer.  The checker  *)
(* knows of a binding only how deep the deepest handler is whose message   *)
(* it may view (handled); the module runs that account beside what the     *)
(* binding really views, statement by statement, along straight-line code  *)
(* with handlers nested in handlers.  A statement the checker refuses is   *)
(* not taken.  Types and text are left out: a binding holds a view or, as  *)
(* an i64 does, none.                                                      *)
(***************************************************************************)
EXTENDS Integers, Sequences

CONSTANTS MaxBindings,   \* bindings in scope at once
          MaxDepth,      \* nesting of scopes
          MaxHandlers    \* handlers entered in all

VARIABLES scope,     \* the bindings in scope: depth, mutability, what they hold
          depth,     \* the depth of the scope being checked
          handlers,  \* the open handlers, outermost first: catch_depth, the message
          entered,   \* how many handlers were entered, the next message's name
          caught     \* the value of the catch expression just left, or NoValue

viewsVars == << scope, depth, handlers, entered, caught >>

(* What an expression comes to: the checker's account of it (handled_view),*)
(* the messages it really views, and whether its type can hold a view.     *)
Expr(handled, views, holds) == [handled |-> handled, views |-> views, holds |-> holds]
Text == Expr(0, {}, TRUE)                 \* a literal, or what a call returns
Number(e) == Expr(e.handled, {}, FALSE)   \* its length, say: an i64
NoValue == Expr(-1, {}, FALSE)
Binding(d, mutable, e) == [depth |-> d, mutable |-> mutable, handled |-> e.handled,
                           views |-> e.views, holds |-> e.holds]

catch_depth == handlers[Len(handlers)].depth
Live == {handlers[i].message : i \in DOMAIN handlers}
Larger(x, y) == IF x > y THEN x ELSE y

(* handled_view: a name, a field or slice of it, a tuple or construction   *)
(* that holds two, an integer made from it.                                *)
handled_view(x, y) == Larger(x.handled, y.handled)
NameOf(b) == Expr(b.handled, b.views, b.holds)
Names == {NameOf(scope[i]) : i \in DOMAIN scope}
Joined(x, y) == Expr(handled_view(x, y), x.views \union y.views, TRUE)
Pairs == UNION {{Joined(x, y) : y \in Names} : x \in Names}
Expressions == {Text} \union Names \union {Number(x) : x \in Names} \union Pairs

ViewsInit == scope = << >> /\ depth = 1 /\ handlers = << >> /\ entered = 0 /\ caught = NoValue

Idle == caught = NoValue
Refused(e) == e.handled > 0 /\ e.holds   \* handled_leaves: a view that may not go

push_scope == /\ Idle /\ depth < MaxDepth
              /\ depth' = depth + 1
              /\ UNCHANGED << scope, handlers, entered, caught >>
(* Bindings deeper than d are taken off the end of the scope.              *)
PopTo(d) == \E n \in 0 .. Len(scope) :
               /\ \A i \in DOMAIN scope : i <= n <=> scope[i].depth <= d
               /\ scope' = SubSeq(scope, 1, n)
pop_scope == /\ Idle /\ depth > (IF handlers = << >> THEN 1 ELSE catch_depth + 1)
             /\ depth' = depth - 1
             /\ PopTo(depth - 1)
             /\ UNCHANGED << handlers, entered, caught >>

(* catch failure: the handler's scope with the failure in it, and the      *)
(* scope of its block.                                                     *)
check_catch == /\ Idle /\ depth + 2 <= MaxDepth
               /\ entered < MaxHandlers /\ Len(scope) < MaxBindings
               /\ handlers' = Append(handlers, [depth |-> depth + 1, message |-> entered + 1, recovered |-> 0])
               /\ scope' = Append(scope, Binding(depth + 1, FALSE, Expr(depth + 1, {entered + 1}, TRUE)))
               /\ depth' = depth + 2
               /\ entered' = entered + 1
               /\ UNCHANGED caught

bind == /\ Idle /\ Len(scope) < MaxBindings
        /\ \E e \in Expressions, mutable \in BOOLEAN :
              scope' = Append(scope, Binding(depth, mutable, e))
        /\ UNCHANGED << depth, handlers, entered, caught >>

handled_stored_anywhere(b, e) == TRUE
handled_stored(b, e) == e.handled = 0 \/ ~e.holds \/ b.depth > e.handled
Storing(b, e) ==
    [b EXCEPT !.handled = IF e.holds THEN Larger(@, e.handled) ELSE @, !.views = e.views]

assign == /\ Idle
          /\ \E i \in DOMAIN scope, e \in Expressions :
                /\ scope[i].mutable /\ scope[i].holds = e.holds
                /\ handled_stored(scope[i], e)
                /\ scope' = [scope EXCEPT ![i] = Storing(scope[i], e)]
          /\ UNCHANGED << depth, handlers, entered, caught >>

(* container.push(value), on a container in scope: what it held it keeps.  *)
handled_kept(b, e) == handled_stored(b, e)
keep == /\ Idle
        /\ \E i \in DOMAIN scope, e \in Expressions :
              /\ e.holds /\ scope[i].mutable /\ scope[i].holds
              /\ handled_kept(scope[i], e)
              /\ scope' = [scope EXCEPT ![i] = [Storing(scope[i], e) EXCEPT !.views = @ \union scope[i].views]]
        /\ UNCHANGED << depth, handlers, entered, caught >>

(* A recover on a branch not taken is checked all the same and leaves its  *)
(* mark on the catch; the one taken ends the handler.                      *)
handled_recovered(e) == ~Refused(e) \/ e.handled < catch_depth
Mark(e) == IF Refused(e) THEN Larger(e.handled, handlers[Len(handlers)].recovered)
           ELSE handlers[Len(handlers)].recovered
recover_elsewhere == /\ Idle /\ handlers # << >>
                     /\ \E e \in Expressions :
                          /\ handled_recovered(e)
                          /\ handlers' = [handlers EXCEPT ![Len(handlers)].recovered = Mark(e)]
                     /\ UNCHANGED << scope, depth, entered, caught >>
recover == /\ Idle /\ handlers # << >>
           /\ \E e \in Expressions :
                /\ handled_recovered(e)
                /\ caught' = Expr(Mark(e), e.views, e.holds)
           /\ handlers' = SubSeq(handlers, 1, Len(handlers) - 1)
           /\ depth' = catch_depth - 1
           /\ PopTo(catch_depth - 1)
           /\ UNCHANGED entered

(* The value of the catch goes where the statement puts it.                *)
bind_caught == /\ ~Idle
               /\ \E mutable \in BOOLEAN : scope' = Append(scope, Binding(depth, mutable, caught))
               /\ caught' = NoValue
               /\ UNCHANGED << depth, handlers, entered >>
assign_caught == /\ ~Idle
                 /\ \E i \in DOMAIN scope :
                      /\ scope[i].mutable /\ scope[i].holds = caught.holds
                      /\ handled_stored(scope[i], caught)
                      /\ scope' = [scope EXCEPT ![i] = Storing(scope[i], caught)]
                 /\ caught' = NoValue
                 /\ UNCHANGED << depth, handlers, entered >>
drop_caught == ~Idle /\ caught' = NoValue /\ UNCHANGED << scope, depth, handlers, entered >>

ViewsNext == \/ push_scope \/ pop_scope \/ check_catch \/ bind \/ assign \/ keep
             \/ recover \/ recover_elsewhere \/ bind_caught \/ assign_caught \/ drop_caught
ViewsSpec == ViewsInit /\ [][ViewsNext]_viewsVars

-----------------------------------------------------------------------------
(* No binding in scope, and no value on its way out of a handler, views    *)
(* the message of a handler that has finished (check/handled.cpp), and a   *)
(* return is refused whenever what it returns views a message.             *)
ViewsAreLive == /\ \A i \in DOMAIN scope : scope[i].views \subseteq Live
                /\ caught.views \subseteq Live
                /\ \A e \in Expressions : e.views # {} => Refused(e)

=============================================================================
