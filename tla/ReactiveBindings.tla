-------------------------- MODULE ReactiveBindings --------------------------
(***************************************************************************)
(* The reactive layer: subjects, derived subjects (<subject_expr>), and    *)
(* the bindings that drive state and flag bits of widgets (bind_state_*,   *)
(* bind_flag_*, bind_state_if, bind_flag_if), composed per (object, kind,  *)
(* bits) by lv_xml_bind_compose.c.                                         *)
(*                                                                         *)
(* LVGL calls the observers of a subject one at a time; what an observer   *)
(* writes may notify other subjects before it returns, and the events it   *)
(* raises run handlers that set subjects, create and delete widgets.  The  *)
(* C stack of all that is `stack`: its top is the subject being notified   *)
(* or the object whose LV_EVENT_DELETE handlers are running.  The order    *)
(* of the observers of one subject is left open.                           *)
(***************************************************************************)
EXTENDS Naturals, Sequences, FiniteSets

CONSTANTS
  Inputs,     (* subjects that are set from outside                        *)
  Derived,    (* subjects a <subject_expr> creates                         *)
  Values,     (* what a subject may hold, 0 included                       *)
  Exprs,      (* conditions and expressions of the markup                  *)
  Deps,       (* the distinct subjects an expression references            *)
  Eval,       (* its value, given those of the subjects                    *)
  Objs,       (* widgets                                                   *)
  Groups,     (* (object, kind, bits) triples                              *)
  Owner,      (* the object of a triple                                    *)
  Bindings,   (* binding contexts                                          *)
  NoExpr,
  MaxReasons, (* LV_XML_BIND_MAX_REASONS                                   *)
  MaxNest,    (* bound: how deep handlers nest                             *)
  Env         (* what the environment does, a subset of EnvKinds           *)

\* "reenter" a handler run by an observer's write sets, binds or deletes
\* "handler" an LV_EVENT_DELETE handler of the widget sets a subject
\* "touch"   the application writes the bits of a bound widget itself
\* "oom"     the observer array of a condition cannot be allocated
EnvKinds == {"reenter", "handler", "touch", "oom"}

Subjects == Inputs \cup Derived

ASSUME ReactiveAssumption ==
  /\ Inputs \cap Derived = {}
  /\ Subjects \cap Objs = {} /\ Subjects \cap Bindings = {}
  /\ 0 \in Values
  /\ NoExpr \notin Exprs
  /\ Deps \in [Exprs -> SUBSET Subjects]
  /\ Eval \in [Exprs -> [[Subjects -> Values] -> Values]]
  /\ Groups # {} /\ Owner \in [Groups -> Objs]
  /\ MaxReasons \in Nat \ {0}
  /\ MaxNest \in Nat
  /\ Env \subseteq EnvKinds

\* An expression reads no subject but those it references.
ASSUME DepsAssumption ==
  \A e \in Exprs : \A u, v \in [Subjects -> Values] :
    (\A s \in Deps[e] : u[s] = v[s]) => Eval[e][u] = Eval[e][v]

VARIABLES
  val,        (* the value of a subject                                    *)
  def,        (* the expression of a derived subject that exists           *)
  expr,       (* the condition of a binding that exists                    *)
  inv,        (* whether it is inverted                                    *)
  grp,        (* the triple it drives                                      *)
  slot,       (* the bit of reason->mask, NoSlot when reason is NULL       *)
  subs,       (* the subjects that have an observer of it                  *)
  gst,        (* a group: none yet, alive or freed                         *)
  count,      (* group->reason_count                                       *)
  held,       (* group->held, as a set of bits                             *)
  worn,       (* whether the object has the bits                           *)
  dirty,      (* history: triples the application wrote last               *)
  ost,        (* a widget: live, dying or gone                             *)
  order,      (* its bindings, in the order of their delete hooks          *)
  stack,      (* the notifications and deletions under way                 *)
  todo        (* the observers of a subject with `notified` still 0        *)

bindVars == <<expr, inv, grp, slot, subs, order>>
groupVars == <<gst, count, held, worn, dirty>>
vars == <<val, def, bindVars, groupVars, ost, stack, todo>>

Slots == 0 .. (MaxReasons - 1)
NoSlot == MaxReasons

TypeOK ==
  /\ val \in [Subjects -> Values]
  /\ def \in [Derived -> Exprs \cup {NoExpr}]
  /\ expr \in [Bindings -> Exprs \cup {NoExpr}]
  /\ inv \in [Bindings -> BOOLEAN]
  /\ grp \in [Bindings -> Groups]
  /\ slot \in [Bindings -> Slots \cup {NoSlot}]
  /\ subs \in [Bindings -> SUBSET Subjects]
  /\ gst \in [Groups -> {"none", "alive", "freed"}]
  /\ count \in [Groups -> 0 .. MaxReasons]
  /\ held \in [Groups -> SUBSET Slots]
  /\ worn \in [Groups -> BOOLEAN]
  /\ dirty \subseteq Groups
  /\ ost \in [Objs -> {"live", "dying", "gone"}]
  /\ order \in [Objs -> Seq(Bindings)]
  /\ stack \in Seq(Subjects \cup Objs)
  /\ todo \in [Subjects -> SUBSET (Bindings \cup Derived)]

\* A widget starts with the bits its XML attributes gave it.
Init ==
  /\ val = [s \in Subjects |-> 0]
  /\ def = [d \in Derived |-> NoExpr]
  /\ expr = [b \in Bindings |-> NoExpr]
  /\ inv = [b \in Bindings |-> FALSE]
  /\ grp = [b \in Bindings |-> CHOOSE g \in Groups : TRUE]
  /\ slot = [b \in Bindings |-> NoSlot]
  /\ subs = [b \in Bindings |-> {}]
  /\ gst = [g \in Groups |-> "none"]
  /\ count = [g \in Groups |-> 0]
  /\ held = [g \in Groups |-> {}]
  /\ worn \in [Groups -> BOOLEAN]
  /\ dirty = {}
  /\ ost = [o \in Objs |-> "live"]
  /\ order = [o \in Objs |-> <<>>]
  /\ stack = <<>>
  /\ todo = [s \in Subjects |-> {}]
-----------------------------------------------------------------------------
Top == stack[Len(stack)]
Pop == SubSeq(stack, 1, Len(stack) - 1)

\* Where code of the application, or an XML event callback, may run.
AppRuns ==
  stack # <<>> =>
    /\ Len(stack) < MaxNest
    /\ \/ "reenter" \in Env /\ Top \in Subjects
       \/ "handler" \in Env /\ Top \in Objs

Known == Inputs \cup {d \in Derived : def[d] # NoExpr}
Bound(b) == expr[b] # NoExpr
\* Variant with a bug: a derived subject does not follow other derived subjects.
ObserversOfInputs(s) == {b \in Bindings : s \in subs[b]}
  \cup {d \in Derived : def[d] # NoExpr /\ s \in Deps[def[d]] \cap Inputs}

\* What observes s: conditions, and the expressions of derived subjects.
Observers(s) == {b \in Bindings : s \in subs[b]}
                  \cup {d \in Derived : def[d] # NoExpr /\ s \in Deps[def[d]]}

\* The result a binding's callback computes, under the values v.
Holds(e, i, v) == (Eval[e][v] # 0) # i

\* lv_subject_set_int(): the observers are notified, unless the value is the
\* old one (LVGL versions differ there).  pending is todo up to now.
SetSubject(s, v, pending) ==
  /\ val' = [val EXCEPT ![s] = v]
  /\ \E told \in IF v = val[s] THEN BOOLEAN ELSE {TRUE} :
       IF told THEN /\ stack' = Append(stack, s)
                    /\ todo' = [pending EXCEPT ![s] = Observers(s)]
               ELSE stack' = stack /\ todo' = pending

\* An observer of p is added while q is notified: the pass over the observers of
\* a subject being notified starts again, and may reach it.
JoinNotified(p, S) ==
  \E late \in {{}, {p}} :
    todo' = [s \in Subjects |-> IF s \in S /\ \E i \in DOMAIN stack : stack[i] = s
                                THEN todo[s] \cup late ELSE todo[s]]

\* The application, or <subject_set_event>, sets a subject.
Notify(s, v) ==
  /\ AppRuns
  /\ SetSubject(s, v, todo)
  /\ UNCHANGED <<def, bindVars, groupVars, ost>>

\* process_subject_expr_element(): seeded with the current value, registered,
\* then subscribed to every subject of the expression.
SubjectExpr(d, e) ==
  /\ AppRuns
  /\ def[d] = NoExpr
  /\ Deps[e] \subseteq Known
  /\ val' = [val EXCEPT ![d] = Eval[e][val]]
  /\ def' = [def EXCEPT ![d] = e]
  /\ JoinNotified(d, Deps[e])
  /\ UNCHANGED <<bindVars, groupVars, ost, stack>>
-----------------------------------------------------------------------------
\* Variant with a bug: the second binding of a triple gets the bit of the first.
ClaimedSameBit(g) == IF count[g] < MaxReasons THEN 0 ELSE NoSlot

\* lv_xml_bind_target_init(): the bit of the new share, none beyond the limit.
Claimed(g) == IF count[g] < MaxReasons THEN count[g] ELSE NoSlot

\* Variant with a bug: what stands for the binding stands for the widget.
TargetSetDirect(g, k, on) ==
  /\ worn' = [worn EXCEPT ![g] = on]
  /\ held' = [held EXCEPT ![g] = IF k = NoSlot THEN @
                                 ELSE IF on THEN @ \cup {k} ELSE @ \ {k}]
  /\ dirty' = dirty \ {g}

\* lv_xml_bind_target_set(): a binding without a share writes the bits itself.
TargetSet(g, k, on) ==
  IF k = NoSlot
  THEN worn' = [worn EXCEPT ![g] = on] /\ UNCHANGED <<held, dirty>>
  ELSE LET h == IF on THEN held[g] \cup {k} ELSE held[g] \ {k} IN
       /\ held' = [held EXCEPT ![g] = h]
       /\ worn' = [worn EXCEPT ![g] = h # {}]
       /\ dirty' = dirty \ {g}

\* Variant with a bug: a condition follows the inputs it names only.
SubscribedInputs(e) == {Deps[e] \cap Inputs}

\* One observer for each distinct subject; none when their array cannot be
\* allocated.
Subscribed(e) == {Deps[e]} \cup (IF "oom" \in Env THEN {{}} ELSE {})

\* A bind_* element of the view of Owner[g]: it claims its share, hooks the
\* deletion, subscribes, and applies its result once.
Bind(b, g, e, i) ==
  /\ AppRuns
  /\ ~Bound(b)
  /\ ost[Owner[g]] = "live"
  /\ Deps[e] \subseteq Known
  /\ expr' = [expr EXCEPT ![b] = e]
  /\ inv' = [inv EXCEPT ![b] = i]
  /\ grp' = [grp EXCEPT ![b] = g]
  /\ slot' = [slot EXCEPT ![b] = Claimed(g)]
  /\ gst' = [gst EXCEPT ![g] = "alive"]
  /\ count' = [count EXCEPT ![g] = IF @ < MaxReasons THEN @ + 1 ELSE @]
  /\ order' = [order EXCEPT ![Owner[g]] = Append(@, b)]
  /\ \E S \in Subscribed(e) :
       subs' = [subs EXCEPT ![b] = S] /\ JoinNotified(b, S)
  /\ TargetSet(g, Claimed(g), Holds(e, i, val))
  /\ UNCHANGED <<val, def, ost, stack>>

\* bitfield_bind_observer_cb() and expr_bind_observer_cb().
ObserveBinding(b) ==
  /\ stack # <<>> /\ Top \in Subjects
  /\ b \in todo[Top]
  /\ todo' = [todo EXCEPT ![Top] = @ \ {b}]
  /\ TargetSet(grp[b], slot[b], Holds(expr[b], inv[b], val))
  /\ UNCHANGED <<val, def, bindVars, gst, count, ost, stack>>

\* subject_expr_observer_cb(): the derived subject is set, and its own
\* observers run before this one returns.
ObserveDerived(d) ==
  /\ stack # <<>> /\ Top \in Subjects
  /\ d \in todo[Top]
  /\ SetSubject(d, Eval[def[d]][val], [todo EXCEPT ![Top] = @ \ {d}])
  /\ UNCHANGED <<def, bindVars, groupVars, ost>>

\* The pass over the observers of the subject on top has ended.
Notified ==
  /\ stack # <<>> /\ Top \in Subjects
  /\ todo[Top] = {}
  /\ stack' = Pop
  /\ UNCHANGED <<val, def, bindVars, groupVars, ost, todo>>

\* The application writes state or flag bits that bindings drive.
Touch(g) ==
  /\ "touch" \in Env
  /\ AppRuns
  /\ ost[Owner[g]] = "live"
  /\ worn' = [worn EXCEPT ![g] = ~@]
  /\ dirty' = dirty \cup {g}
  /\ UNCHANGED <<val, def, bindVars, gst, count, held, ost, stack, todo>>
-----------------------------------------------------------------------------
\* lv_obj_delete(): the widget's LV_EVENT_DELETE handlers start to run.
Delete(o) ==
  /\ AppRuns
  /\ ost[o] = "live"
  /\ ost' = [ost EXCEPT ![o] = "dying"]
  /\ stack' = Append(stack, o)
  /\ UNCHANGED <<val, def, bindVars, groupVars, todo>>

\* Variant with a bug: the observers of the binding stay subscribed.
UnsubscribeNothing(b) == UNCHANGED <<expr, subs, todo>>

\* unsubscribe_on_delete_cb() for each observer; the context is freed.
Unsubscribe(b) ==
  /\ expr' = [expr EXCEPT ![b] = NoExpr]
  /\ subs' = [subs EXCEPT ![b] = {}]
  /\ todo' = [s \in Subjects |-> todo[s] \ {b}]

\* The hooks of the first binding left: group_delete_event_cb() when it is the
\* one that made the group, then those of the context and of its observers.
DeleteHooks ==
  /\ stack # <<>> /\ Top \in Objs
  /\ order[Top] # <<>>
  /\ LET b == Head(order[Top])
         freed == slot[b] = 0
     IN /\ gst' = [gst EXCEPT ![grp[b]] = IF freed THEN "freed" ELSE @]
        /\ count' = [count EXCEPT ![grp[b]] = IF freed THEN 0 ELSE @]
        /\ held' = [held EXCEPT ![grp[b]] = IF freed THEN {} ELSE @]
        /\ Unsubscribe(b)
  /\ order' = [order EXCEPT ![Top] = Tail(@)]
  /\ UNCHANGED <<val, def, inv, grp, slot, worn, dirty, ost, stack>>

Deleted ==
  /\ stack # <<>> /\ Top \in Objs
  /\ order[Top] = <<>>
  /\ ost' = [ost EXCEPT ![Top] = "gone"]
  /\ stack' = Pop
  /\ UNCHANGED <<val, def, bindVars, groupVars, todo>>

Next ==
  \/ \E s \in Inputs, v \in Values : Notify(s, v)
  \/ \E d \in Derived, e \in Exprs : SubjectExpr(d, e)
  \/ \E b \in Bindings, g \in Groups, e \in Exprs, i \in BOOLEAN : Bind(b, g, e, i)
  \/ \E b \in Bindings : ObserveBinding(b)
  \/ \E d \in Derived : ObserveDerived(d)
  \/ \E g \in Groups : Touch(g)
  \/ \E o \in Objs : Delete(o)
  \/ Notified \/ DeleteHooks \/ Deleted

Spec == Init /\ [][Next]_vars

\* Calls return: a pass over observers and the hooks of a deletion run to their end.
Fairness ==
  /\ WF_vars(Notified) /\ WF_vars(DeleteHooks) /\ WF_vars(Deleted)
  /\ \A b \in Bindings : WF_vars(ObserveBinding(b))
  /\ \A d \in Derived : WF_vars(ObserveDerived(d))

FairSpec == Spec /\ Fairness
-----------------------------------------------------------------------------
Quiet == stack = <<>>
OnGroup(g) == {b \in Bindings : Bound(b) /\ grp[b] = g}
True(b) == Holds(expr[b], inv[b], val)

\* Memory and shares have sufficed for every binding of the triple.
Composes(g) ==
  /\ ost[Owner[g]] = "live"
  /\ \A b \in OnGroup(g) :
       slot[b] # NoSlot /\ (subs[b] # {} \/ Deps[expr[b]] = {})

\* Once no notification is under way, a triple that only its bindings write is
\* set exactly when one of their conditions is true: in whatever order the
\* subjects notified, nested in one another or not, and whatever was created
\* or deleted in between.
ComposedWhenQuiet ==
  Quiet => \A g \in Groups :
    Composes(g) /\ OnGroup(g) # {} /\ g \notin dirty
      => (worn[g] <=> \E b \in OnGroup(g) : True(b))

\* Nobody clears what another asserts, not even in the middle of a
\* notification: bits go only when every condition that is true on them now is
\* one that has yet to be told so.
NoFalseClear ==
  [][\A g \in Groups :
       /\ Composes(g)' /\ worn[g] /\ ~worn'[g] /\ g \notin dirty'
       => \A b \in OnGroup(g)' : True(b)' => \E s \in Subjects : b \in todo'[s]]_vars

\* A derived subject is its expression, once no notification is under way, for
\* chains and diamonds of derived subjects too.
DerivedSettled ==
  Quiet => \A d \in Derived : def[d] # NoExpr => val[d] = Eval[def[d]][val]

\* The shares of a live widget's triple are distinct bits below its count, and
\* every bit that is held belongs to a binding that is still there to drop it.
SharesDistinct ==
  \A g \in Groups : ost[Owner[g]] = "live" =>
    /\ \A b, c \in OnGroup(g) : slot[b] = slot[c] => b = c \/ slot[b] = NoSlot
    /\ \A b \in OnGroup(g) : slot[b] = NoSlot \/ slot[b] < count[g]
    /\ \A k \in held[g] : \E b \in OnGroup(g) : slot[b] = k

\* "The group outlives every binding that shares it": a binding that is told of
\* a change finds the group of its share.
GroupOutlivesBindings ==
  [][\A b \in Bindings : ObserveBinding(b) =>
       slot[b] = NoSlot \/ gst[grp[b]] = "alive"]_vars
-----------------------------------------------------------------------------
(* The parts of the inductive invariant.                                    *)

\* What exists refers to what existed before it.
RefsKnown ==
  /\ \A b \in Bindings : Bound(b) => Deps[expr[b]] \subseteq Known
  /\ \A d \in Derived : def[d] # NoExpr =>
       Deps[def[d]] \subseteq Known /\ d \notin Deps[def[d]]

\* A binding is subscribed to all its subjects or, out of memory, to none.
SubsExact ==
  \A b \in Bindings :
    /\ Bound(b) => subs[b] \in {Deps[expr[b]], {}}
    /\ ~Bound(b) => subs[b] = {}

\* Observers wait for subjects that are being notified, and that they observe.
TodoSound ==
  \A s \in Subjects :
    /\ todo[s] \subseteq Observers(s)
    /\ todo[s] # {} => \E i \in DOMAIN stack : stack[i] = s

\* The objects on the stack are those being deleted, once each.
StackOK ==
  /\ \A i \in DOMAIN stack : stack[i] \in Objs => ost[stack[i]] = "dying"
  /\ \A i, j \in DOMAIN stack : stack[i] = stack[j] /\ stack[i] \in Objs => i = j
  /\ \A o \in Objs : ost[o] = "dying" => \E i \in DOMAIN stack : stack[i] = o
  /\ "handler" \notin Env =>
       \A i \in DOMAIN stack : stack[i] \in Objs => i = Len(stack)

\* The delete hooks of an object are those of the bindings on its triples.
OrderOK ==
  /\ \A o \in Objs : \A i \in DOMAIN order[o] :
       Bound(order[o][i]) /\ Owner[grp[order[o][i]]] = o
  /\ \A o \in Objs : \A i, j \in DOMAIN order[o] :
       order[o][i] = order[o][j] => i = j
  /\ \A b \in Bindings : Bound(b) =>
       \E i \in DOMAIN order[Owner[grp[b]]] : order[Owner[grp[b]]][i] = b
  /\ \A o \in Objs : ost[o] = "gone" => order[o] = <<>>

LiveGroups ==
  \A b \in Bindings : Bound(b) /\ ost[Owner[grp[b]]] = "live" => gst[grp[b]] = "alive"

\* What has not been told of a change will be, within the notification.
BindingsTold ==
  \A b \in Bindings :
    /\ Bound(b) /\ subs[b] = Deps[expr[b]] /\ slot[b] # NoSlot
    /\ ost[Owner[grp[b]]] = "live"
    /\ ~(slot[b] \in held[grp[b]] <=> True(b))
    => \E s \in Subjects : b \in todo[s]

DerivedTold ==
  \A d \in Derived :
    def[d] # NoExpr /\ val[d] # Eval[def[d]][val] => \E s \in Subjects : d \in todo[s]

WornIsOr ==
  \A g \in Groups :
    /\ gst[g] = "alive" /\ ost[Owner[g]] = "live" /\ g \notin dirty
    /\ \A b \in OnGroup(g) : slot[b] # NoSlot
    => (worn[g] <=> held[g] # {})

IInv ==
  /\ TypeOK /\ RefsKnown /\ SubsExact /\ TodoSound /\ StackOK /\ OrderOK
  /\ LiveGroups /\ BindingsTold /\ DerivedTold /\ WornIsOr /\ SharesDistinct
=============================================================================
