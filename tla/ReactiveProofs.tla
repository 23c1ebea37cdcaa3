--------------------------- MODULE ReactiveProofs ---------------------------
(***************************************************************************)
(* Proofs about ReactiveBindings, for every set of subjects, expressions,  *)
(* widgets and bindings and every bound.  The argument: a binding whose    *)
(* share, or a derived subject whose value, disagrees with the subjects    *)
(* waits in `todo` for its turn (BindingsTold, DerivedTold), and only      *)
(* subjects under notification have anybody waiting (TodoSound); so when   *)
(* the stack is empty nothing disagrees.                                   *)
(***************************************************************************)
EXTENDS ReactiveBindings, TLAPS

\* What Append does to a sequence.
LEMMA PushFacts ==
  ASSUME NEW T, NEW q \in Seq(T), NEW x \in T
  PROVE  /\ Append(q, x) \in Seq(T)
         /\ Len(Append(q, x)) = Len(q) + 1
         /\ DOMAIN Append(q, x) = 1 .. (Len(q) + 1)
         /\ DOMAIN q = 1 .. Len(q) /\ Len(q) \in Nat
         /\ \A i \in DOMAIN q : Append(q, x)[i] = q[i]
         /\ Append(q, x)[Len(q) + 1] = x
  OBVIOUS

\* What is left of a stack without its top.
LEMMA PopFacts ==
  ASSUME NEW T, NEW q \in Seq(T), q # <<>>
  PROVE  /\ SubSeq(q, 1, Len(q) - 1) \in Seq(T)
         /\ DOMAIN SubSeq(q, 1, Len(q) - 1) = 1 .. (Len(q) - 1)
         /\ Len(SubSeq(q, 1, Len(q) - 1)) = Len(q) - 1
         /\ DOMAIN q = 1 .. Len(q) /\ Len(q) \in Nat \ {0}
         /\ Len(q) \in DOMAIN q /\ q[Len(q)] \in T
         /\ \A i \in 1 .. (Len(q) - 1) : SubSeq(q, 1, Len(q) - 1)[i] = q[i]
<1>1. DOMAIN q = 1 .. Len(q) /\ Len(q) \in Nat \ {0} /\ Len(q) \in DOMAIN q
  OBVIOUS
<1>2. \A i \in 1 .. Len(q) : q[i] \in T
  OBVIOUS
<1>3. SubSeq(q, 1, Len(q) - 1) = [i \in 1 .. (Len(q) - 1) |-> q[i]]
  BY <1>1
<1>4. SubSeq(q, 1, Len(q) - 1) \in Seq(T)
  BY <1>1, <1>2, <1>3
<1>5. DOMAIN SubSeq(q, 1, Len(q) - 1) = 1 .. (Len(q) - 1)
  BY <1>3
<1>6. Len(SubSeq(q, 1, Len(q) - 1)) = Len(q) - 1
  BY <1>1, <1>4, <1>5
<1> QED BY <1>1, <1>2, <1>3, <1>4, <1>5, <1>6

\* What is left of a queue without its head.
LEMMA TailFacts ==
  ASSUME NEW T, NEW q \in Seq(T), q # <<>>
  PROVE  /\ Tail(q) \in Seq(T)
         /\ Head(q) = q[1] /\ Head(q) \in T
         /\ DOMAIN q = 1 .. Len(q) /\ Len(q) \in Nat \ {0}
         /\ DOMAIN Tail(q) = 1 .. (Len(q) - 1)
         /\ \A i \in 1 .. (Len(q) - 1) : Tail(q)[i] = q[i + 1]
  OBVIOUS

\* An expression keeps its value when a subject changes that it does not read.
LEMMA EvalUnmoved ==
  ASSUME val \in [Subjects -> Values], val' \in [Subjects -> Values],
         NEW s, \A x \in Subjects : x # s => val'[x] = val[x],
         NEW e \in Exprs, s \notin Deps[e]
  PROVE  Eval[e][val'] = Eval[e][val]
<1>1. \A x \in Deps[e] : val'[x] = val[x]
  BY ReactiveAssumption
<1>2. \A u, w \in [Subjects -> Values] :
        (\A x \in Deps[e] : u[x] = w[x]) => Eval[e][u] = Eval[e][w]
  BY DepsAssumption
<1> QED BY <1>1, <1>2, Zenon

\* A condition is a Boolean, and an expression has a value.
LEMMA EvalTyped ==
  ASSUME NEW e \in Exprs, NEW u \in [Subjects -> Values], NEW i \in BOOLEAN
  PROVE  Eval[e][u] \in Values /\ Holds(e, i, u) \in BOOLEAN
BY ReactiveAssumption DEF Holds

\* The initial states satisfy the invariant.
LEMMA InitIInv == Init => IInv
<1> SUFFICES ASSUME Init PROVE IInv
  OBVIOUS
<1> USE ReactiveAssumption DEF Init
<1>1. TypeOK
  BY DEF TypeOK, Subjects, Slots, NoSlot
<1>2. RefsKnown /\ SubsExact
  BY DEF RefsKnown, SubsExact, Bound, Known
<1>3. TodoSound /\ StackOK
  BY DEF TodoSound, StackOK, Observers
<1>4. OrderOK /\ LiveGroups
  BY DEF OrderOK, LiveGroups, Bound
<1>5. BindingsTold /\ DerivedTold /\ WornIsOr /\ SharesDistinct
  BY DEF BindingsTold, DerivedTold, WornIsOr, SharesDistinct, OnGroup, Bound
<1> QED BY <1>1, <1>2, <1>3, <1>4, <1>5 DEF IInv
-----------------------------------------------------------------------------
(* Subjects.                                                                *)

\* A subject is set while the observers of the last one still wait as in p, of
\* which only those of D, told by this very change, have gone.
LEMMA SetSubjectKeeps ==
  ASSUME IInv, NEW s \in Subjects, NEW v \in Values, NEW p, NEW D,
         p \in [Subjects -> SUBSET (Bindings \cup Derived)],
         D \subseteq Derived,
         \A x \in Subjects : p[x] \subseteq todo[x] /\ todo[x] \ p[x] \subseteq D,
         s \in Derived => s \in D,
         \A d \in D : s = d /\ def[d] # NoExpr /\ v = Eval[def[d]][val],
         stack # <<>> /\ Top \in Objs => "handler" \in Env,
         val' = [val EXCEPT ![s] = v], NEW told \in BOOLEAN,
         told => stack' = Append(stack, s) /\ todo' = [p EXCEPT ![s] = Observers(s)],
         ~told => v = val[s] /\ stack' = stack /\ todo' = p,
         UNCHANGED <<def, bindVars, groupVars, ost>>
  PROVE  IInv'
<1> USE DEF IInv
<1>0. /\ def' = def /\ expr' = expr /\ inv' = inv /\ grp' = grp /\ slot' = slot
      /\ subs' = subs /\ order' = order /\ gst' = gst /\ count' = count
      /\ held' = held /\ worn' = worn /\ dirty' = dirty /\ ost' = ost
  BY DEF bindVars, groupVars
<1>2. /\ val \in [Subjects -> Values] /\ val' \in [Subjects -> Values]
      /\ ~told => val' = val
      /\ \A e \in Exprs : ~(told /\ s \in Deps[e]) => Eval[e][val'] = Eval[e][val]
  <2>1. val \in [Subjects -> Values] /\ val' \in [Subjects -> Values]
    BY DEF TypeOK
  <2>2. CASE told
    <3>1. ASSUME NEW e \in Exprs, s \notin Deps[e]
          PROVE  Eval[e][val'] = Eval[e][val]
      <4>1. \A x \in Subjects : x # s => val'[x] = val[x]
        BY <2>1
      <4> QED BY <2>1, <3>1, <4>1, EvalUnmoved
    <3> QED BY <2>1, <2>2, <3>1
  <2>3. CASE ~told
    <3>1. val' = val
      BY <2>1, <2>3
    <3> QED BY <2>1, <2>3, <3>1
  <2> QED BY <2>1, <2>2, <2>3
<1>3. \A x \in Subjects : Observers(x)' = Observers(x)
                          /\ Observers(x) \subseteq Bindings \cup Derived
  BY <1>0 DEF Observers
<1>4. /\ todo' \in [Subjects -> SUBSET (Bindings \cup Derived)]
      /\ \A x \in Subjects : x # s => todo'[x] = p[x]
      /\ told => todo'[s] = Observers(s)
      /\ ~told => todo'[s] = p[s]
  BY <1>3
<1>5. \A x \in Subjects : \A q \in todo[x] : q \notin D => q \in todo'[x]
  BY <1>4 DEF TodoSound
<1>6. stack \in Seq(Subjects \cup Objs) /\ s \in Subjects \cup Objs
  BY DEF TypeOK
<1>7. /\ stack' \in Seq(Subjects \cup Objs)
      /\ \A i \in DOMAIN stack : i \in DOMAIN stack' /\ stack'[i] = stack[i]
      /\ told => Len(stack') \in DOMAIN stack' /\ stack'[Len(stack')] = s
      /\ \A i \in DOMAIN stack' : stack'[i] \in Objs =>
           i \in DOMAIN stack /\ stack'[i] = stack[i]
      /\ told /\ stack # <<>> => Top = stack[Len(stack)] /\ Len(stack) \in DOMAIN stack
  <2>1. CASE ~told
    BY <1>6, <2>1
  <2>2. CASE told
    <3>1. stack' = Append(stack, s)
      BY <2>2
    <3>2. /\ stack' \in Seq(Subjects \cup Objs)
          /\ Len(stack) \in Nat /\ DOMAIN stack = 1 .. Len(stack)
          /\ DOMAIN stack' = 1 .. (Len(stack) + 1)
          /\ Len(stack') = Len(stack) + 1 /\ stack'[Len(stack) + 1] = s
          /\ \A i \in DOMAIN stack : stack'[i] = stack[i]
      BY <1>6, <3>1, PushFacts
    <3>3. \A i \in DOMAIN stack : i \in DOMAIN stack'
      BY <3>2
    <3>4. \A i \in DOMAIN stack' : i \in DOMAIN stack \/ i = Len(stack) + 1
      BY <3>2
    <3>5. s \notin Objs
      BY ReactiveAssumption
    <3>6. stack # <<>> => Len(stack) \in DOMAIN stack
      BY <1>6
    <3> QED BY <3>2, <3>3, <3>4, <3>5, <3>6 DEF Top
  <2> QED BY <2>1, <2>2
<1>8. TypeOK'
  BY <1>0, <1>2, <1>4, <1>7 DEF TypeOK
<1>9. RefsKnown' /\ SubsExact' /\ OrderOK' /\ LiveGroups'
  BY <1>0 DEF RefsKnown, SubsExact, OrderOK, LiveGroups, Bound, Known
<1>10. WornIsOr' /\ SharesDistinct'
  BY <1>0 DEF WornIsOr, SharesDistinct, OnGroup, Bound
<1>11. TodoSound'
  <2> SUFFICES ASSUME NEW x \in Subjects
               PROVE  /\ todo'[x] \subseteq Observers(x)
                      /\ todo'[x] # {} => \E i \in DOMAIN stack' : stack'[i] = x
    BY <1>3 DEF TodoSound
  <2>1. CASE x = s /\ told
    BY <1>4, <1>7, <2>1
  <2>2. CASE ~(x = s /\ told)
    <3>1. todo'[x] \subseteq todo[x]
      BY <1>4, <2>2
    <3> QED BY <3>1, <1>7 DEF TodoSound
  <2> QED BY <2>1, <2>2
<1>12. StackOK'
  <2>1. "handler" \notin Env =>
          \A i \in DOMAIN stack' : stack'[i] \in Objs => i = Len(stack')
    <3> SUFFICES ASSUME "handler" \notin Env, NEW i \in DOMAIN stack', stack'[i] \in Objs
                 PROVE  i = Len(stack')
      OBVIOUS
    <3>1. i \in DOMAIN stack /\ stack[i] \in Objs /\ i = Len(stack)
      BY <1>7 DEF StackOK
    <3>2. ~told
      BY <3>1, <1>7
    <3> QED BY <3>1, <3>2
  <2> QED BY <1>0, <1>7, <2>1 DEF StackOK
<1>13. BindingsTold'
  <2> SUFFICES ASSUME NEW b \in Bindings, expr[b] # NoExpr, subs[b] = Deps[expr[b]],
                      slot[b] # NoSlot, ost[Owner[grp[b]]] = "live",
                      ~(slot[b] \in held[grp[b]] <=> Holds(expr[b], inv[b], val'))
               PROVE  \E x \in Subjects : b \in todo'[x]
    BY <1>0 DEF BindingsTold, Bound, True
  <2>1. CASE told /\ s \in subs[b]
    BY <1>4, <2>1 DEF Observers
  <2>2. CASE ~(told /\ s \in subs[b])
    <3>1. expr[b] \in Exprs
      BY DEF TypeOK
    <3>2. Eval[expr[b]][val'] = Eval[expr[b]][val]
      BY <1>2, <2>2, <3>1
    <3>3. \E x \in Subjects : b \in todo[x]
      BY <3>2 DEF BindingsTold, Bound, True, Holds
    <3>4. b \notin D
      BY ReactiveAssumption DEF Subjects
    <3> QED BY <3>3, <3>4, <1>5
  <2> QED BY <2>1, <2>2
<1>14. DerivedTold'
  <2> SUFFICES ASSUME NEW d \in Derived, def[d] # NoExpr, val'[d] # Eval[def[d]][val']
               PROVE  \E x \in Subjects : d \in todo'[x]
    BY <1>0 DEF DerivedTold
  <2>1. def[d] \in Exprs /\ d \in Subjects /\ d \notin Deps[def[d]]
    BY DEF TypeOK, Subjects, RefsKnown
  <2>2. CASE told /\ s \in Deps[def[d]]
    BY <1>4, <2>2 DEF Observers
  <2>3. CASE ~(told /\ s \in Deps[def[d]])
    <3>1. Eval[def[d]][val'] = Eval[def[d]][val]
      BY <1>2, <2>1, <2>3
    <3>2. d \notin D
      <4> SUFFICES ASSUME d \in D PROVE FALSE
        OBVIOUS
      <4>1. val'[d] = v
        BY <1>2, <2>1
      <4> QED BY <4>1, <3>1
    <3>3. d # s
      BY <3>2
    <3>4. val'[d] = val[d]
      BY <1>2, <2>1, <3>3
    <3>5. \E x \in Subjects : d \in todo[x]
      BY <3>1, <3>4 DEF DerivedTold
    <3> QED BY <3>2, <3>5, <1>5
  <2> QED BY <2>2, <2>3
<1> QED BY <1>8, <1>9, <1>10, <1>11, <1>12, <1>13, <1>14

\* The application sets an input.
LEMMA NotifyKeeps ==
  ASSUME IInv, NEW s \in Inputs, NEW v \in Values, Notify(s, v)
  PROVE  IInv'
<1>1. s \in Subjects /\ s \notin Derived
  BY ReactiveAssumption DEF Subjects
<1>2. todo \in [Subjects -> SUBSET (Bindings \cup Derived)]
  BY DEF IInv, TypeOK
<1>3. stack # <<>> /\ Top \in Objs => "handler" \in Env
  BY ReactiveAssumption DEF Notify, AppRuns
<1>4. UNCHANGED <<def, bindVars, groupVars, ost>> /\ val' = [val EXCEPT ![s] = v]
  BY DEF Notify, SetSubject
<1>5. PICK told \in BOOLEAN :
        /\ told => stack' = Append(stack, s) /\ todo' = [todo EXCEPT ![s] = Observers(s)]
        /\ ~told => v = val[s] /\ stack' = stack /\ todo' = todo
  BY DEF Notify, SetSubject
<1> DEFINE D == {}
<1>6. /\ D \subseteq Derived /\ (s \in Derived => s \in D)
      /\ \A d \in D : s = d /\ def[d] # NoExpr /\ v = Eval[def[d]][val]
      /\ \A x \in Subjects : todo[x] \subseteq todo[x] /\ todo[x] \ todo[x] \subseteq D
  BY <1>1
<1> HIDE DEF D
<1> QED BY <1>1, <1>2, <1>3, <1>4, <1>5, <1>6, SetSubjectKeeps

\* A derived subject follows.
LEMMA ObserveDerivedKeeps ==
  ASSUME IInv, NEW d \in Derived, ObserveDerived(d)
  PROVE  IInv'
<1> DEFINE p == [todo EXCEPT ![Top] = @ \ {d}]
           v == Eval[def[d]][val]
<1>1. Top \in Subjects /\ d \in todo[Top] /\ d \in Subjects
  BY DEF ObserveDerived, Subjects
<1>2. def[d] # NoExpr /\ d \notin Bindings
  BY <1>1, ReactiveAssumption DEF IInv, TodoSound, Observers
<1>3. def[d] \in Exprs /\ v \in Values
  BY <1>2, EvalTyped, ReactiveAssumption DEF IInv, TypeOK
<1>4. p \in [Subjects -> SUBSET (Bindings \cup Derived)]
  BY <1>1 DEF IInv, TypeOK
<1>5. \A x \in Subjects : p[x] \subseteq todo[x] /\ todo[x] \ p[x] \subseteq {d}
  BY <1>1 DEF IInv, TypeOK
<1>6. ~(Top \in Objs)
  BY <1>1, ReactiveAssumption
<1>7. UNCHANGED <<def, bindVars, groupVars, ost>> /\ val' = [val EXCEPT ![d] = v]
  BY DEF ObserveDerived, SetSubject
<1>10. PICK told \in BOOLEAN :
        /\ told => stack' = Append(stack, d) /\ todo' = [p EXCEPT ![d] = Observers(d)]
        /\ ~told => v = val[d] /\ stack' = stack /\ todo' = p
  BY DEF ObserveDerived, SetSubject
<1>8. v = Eval[def[d]][val]
  OBVIOUS
<1> HIDE DEF p, v
<1> DEFINE D == {d}
<1>9. /\ D \subseteq Derived /\ (d \in Derived => d \in D)
      /\ \A x \in D : d = x /\ def[x] # NoExpr /\ v = Eval[def[x]][val]
      /\ \A x \in Subjects : p[x] \subseteq todo[x] /\ todo[x] \ p[x] \subseteq D
  BY <1>2, <1>5, <1>8
<1> HIDE DEF D
<1> QED BY <1>1, <1>3, <1>4, <1>6, <1>7, <1>9, <1>10, SetSubjectKeeps, ZenonT(40)

\* A new observer joins the notifications under way, or not.
LEMMA JoinFacts ==
  ASSUME TypeOK, NEW p \in Bindings \cup Derived, NEW S \in SUBSET Subjects,
         JoinNotified(p, S)
  PROVE  /\ todo' \in [Subjects -> SUBSET (Bindings \cup Derived)]
         /\ \A x \in Subjects : todo[x] \subseteq todo'[x]
         /\ \A x \in Subjects : \A q \in todo'[x] :
              \/ q \in todo[x]
              \/ q = p /\ x \in S /\ \E i \in DOMAIN stack : stack[i] = x
         /\ \A x \in Subjects :
              todo'[x] # {} => todo[x] # {} \/ \E i \in DOMAIN stack : stack[i] = x
<1>1. PICK late \in {{}, {p}} :
        todo' = [x \in Subjects |-> IF x \in S /\ \E i \in DOMAIN stack : stack[i] = x
                                    THEN todo[x] \cup late ELSE todo[x]]
  BY DEF JoinNotified
<1>2. todo \in [Subjects -> SUBSET (Bindings \cup Derived)]
  BY DEF TypeOK
<1> QED BY <1>1, <1>2

\* A derived subject is created.
LEMMA SubjectExprKeeps ==
  ASSUME IInv, NEW d \in Derived, NEW e \in Exprs, SubjectExpr(d, e)
  PROVE  IInv'
<1> USE DEF IInv
<1>0. /\ expr' = expr /\ inv' = inv /\ grp' = grp /\ slot' = slot
      /\ subs' = subs /\ order' = order /\ gst' = gst /\ count' = count
      /\ held' = held /\ worn' = worn /\ dirty' = dirty /\ ost' = ost /\ stack' = stack
  BY DEF SubjectExpr, bindVars, groupVars
<1>1. /\ def[d] = NoExpr /\ Deps[e] \subseteq Known
      /\ val' = [val EXCEPT ![d] = Eval[e][val]] /\ def' = [def EXCEPT ![d] = e]
      /\ JoinNotified(d, Deps[e])
  BY DEF SubjectExpr
<1>2. /\ val \in [Subjects -> Values] /\ val' \in [Subjects -> Values] /\ d \in Subjects
      /\ \A x \in Subjects : x # d => val'[x] = val[x]
      /\ val'[d] = Eval[e][val]
  BY <1>1, EvalTyped DEF TypeOK, Subjects
<1>3. /\ def' \in [Derived -> Exprs \cup {NoExpr}] /\ def'[d] = e
      /\ \A c \in Derived : c # d => def'[c] = def[c]
  BY <1>1 DEF TypeOK
<1>4. d \notin Known /\ Known' = Known \cup {d} /\ e # NoExpr
  BY <1>1, <1>3, ReactiveAssumption DEF Known
<1>5. Deps[e] \in SUBSET Subjects /\ d \in Bindings \cup Derived
  BY ReactiveAssumption
<1>6. /\ todo' \in [Subjects -> SUBSET (Bindings \cup Derived)]
      /\ \A x \in Subjects : todo[x] \subseteq todo'[x]
      /\ \A x \in Subjects : \A q \in todo'[x] :
           \/ q \in todo[x]
           \/ q = d /\ x \in Deps[e] /\ \E i \in DOMAIN stack : stack[i] = x
      /\ \A x \in Subjects :
           todo'[x] # {} => todo[x] # {} \/ \E i \in DOMAIN stack : stack[i] = x
  BY <1>1, <1>5, JoinFacts
<1>7. \A x \in Exprs : Deps[x] \subseteq Known => Eval[x][val'] = Eval[x][val]
  BY <1>2, <1>4, EvalUnmoved
<1>8. TypeOK'
  BY <1>0, <1>2, <1>3, <1>6 DEF TypeOK
<1>9. RefsKnown'
  BY <1>0, <1>1, <1>3, <1>4 DEF RefsKnown, Bound
<1>10. SubsExact' /\ OrderOK' /\ LiveGroups' /\ StackOK'
  BY <1>0 DEF SubsExact, OrderOK, LiveGroups, StackOK, Bound
<1>11. WornIsOr' /\ SharesDistinct'
  BY <1>0 DEF WornIsOr, SharesDistinct, OnGroup, Bound
<1>12. TodoSound'
  <2> SUFFICES ASSUME NEW x \in Subjects
               PROVE  /\ todo'[x] \subseteq Observers(x)'
                      /\ todo'[x] # {} => \E i \in DOMAIN stack : stack[i] = x
    BY <1>0 DEF TodoSound
  <2>1. Observers(x) \subseteq Observers(x)'
    BY <1>0, <1>1, <1>3 DEF Observers
  <2>2. x \in Deps[e] => d \in Observers(x)'
    BY <1>3, <1>4 DEF Observers
  <2> QED BY <1>6, <2>1, <2>2 DEF TodoSound
<1>13. BindingsTold'
  <2> SUFFICES ASSUME NEW b \in Bindings, expr[b] # NoExpr, subs[b] = Deps[expr[b]],
                      slot[b] # NoSlot, ost[Owner[grp[b]]] = "live",
                      ~(slot[b] \in held[grp[b]] <=> Holds(expr[b], inv[b], val'))
               PROVE  \E x \in Subjects : b \in todo'[x]
    BY <1>0 DEF BindingsTold, Bound, True
  <2>1. expr[b] \in Exprs /\ Deps[expr[b]] \subseteq Known
    BY DEF TypeOK, RefsKnown, Bound
  <2>2. Eval[expr[b]][val'] = Eval[expr[b]][val]
    BY <1>7, <2>1
  <2>3. \E x \in Subjects : b \in todo[x]
    BY <2>2 DEF BindingsTold, Bound, True, Holds
  <2> QED BY <2>3, <1>6
<1>14. DerivedTold'
  <2> SUFFICES ASSUME NEW c \in Derived, def'[c] # NoExpr, val'[c] # Eval[def'[c]][val']
               PROVE  \E x \in Subjects : c \in todo'[x]
    BY DEF DerivedTold
  <2>1. c # d
    BY <1>1, <1>2, <1>3, <1>7
  <2>2. def'[c] = def[c] /\ val'[c] = val[c]
    BY <1>2, <1>3, <2>1 DEF Subjects
  <2>3. def[c] \in Exprs /\ Deps[def[c]] \subseteq Known
    BY <2>2 DEF TypeOK, RefsKnown
  <2>4. \E x \in Subjects : c \in todo[x]
    BY <1>7, <2>2, <2>3 DEF DerivedTold
  <2> QED BY <2>4, <1>6
<1> QED BY <1>8, <1>9, <1>10, <1>11, <1>12, <1>13, <1>14

-----------------------------------------------------------------------------
(* Bindings.                                                                *)

\* What lv_xml_bind_target_set() leaves alone.
LEMMA TargetSetFacts ==
  ASSUME TypeOK, NEW g \in Groups, NEW k \in Slots \cup {NoSlot}, NEW on \in BOOLEAN,
         TargetSet(g, k, on)
  PROVE  /\ held' \in [Groups -> SUBSET Slots] /\ worn' \in [Groups -> BOOLEAN]
         /\ dirty' \subseteq Groups
         /\ \A x \in Groups : x # g =>
              held'[x] = held[x] /\ worn'[x] = worn[x] /\ (x \in dirty' <=> x \in dirty)
         /\ k # NoSlot => /\ worn'[g] <=> held'[g] # {}
                          /\ k \in held'[g] <=> on
                          /\ \A j \in Slots : j # k => (j \in held'[g] <=> j \in held[g])
         /\ k = NoSlot => held' = held
<1>1. /\ held \in [Groups -> SUBSET Slots] /\ worn \in [Groups -> BOOLEAN]
      /\ dirty \subseteq Groups
  BY DEF TypeOK
<1>2. CASE k = NoSlot
  BY <1>1, <1>2 DEF TargetSet
<1>3. CASE k # NoSlot
  <2> DEFINE h == IF on THEN held[g] \cup {k} ELSE held[g] \ {k}
  <2>1. /\ held' = [held EXCEPT ![g] = h] /\ worn' = [worn EXCEPT ![g] = h # {}]
        /\ dirty' = dirty \ {g}
    BY <1>3 DEF TargetSet
  <2>2. h \in SUBSET Slots
    BY <1>1, <1>3
  <2>3. held'[g] = h /\ (worn'[g] <=> h # {})
    BY <1>1, <2>1
  <2>4. (k \in h <=> on) /\ \A j \in Slots : j # k => (j \in h <=> j \in held[g])
    OBVIOUS
  <2> HIDE DEF h
  <2> QED BY <1>1, <1>3, <2>1, <2>2, <2>3, <2>4
<1> QED BY <1>2, <1>3

\* A binding is created: its share is a bit nobody else on the triple has, and
\* says what its condition says.
LEMMA BindKeeps ==
  ASSUME IInv, NEW b \in Bindings, NEW g \in Groups, NEW e \in Exprs,
         NEW i \in BOOLEAN, Bind(b, g, e, i)
  PROVE  IInv'
<1> USE DEF IInv
<1> DEFINE k == Claimed(g)
           on == Holds(e, i, val)
<1>0. val' = val /\ def' = def /\ ost' = ost /\ stack' = stack
  BY DEF Bind
<1>1. /\ ~Bound(b) /\ ost[Owner[g]] = "live" /\ Deps[e] \subseteq Known
      /\ expr' = [expr EXCEPT ![b] = e] /\ inv' = [inv EXCEPT ![b] = i]
      /\ grp' = [grp EXCEPT ![b] = g] /\ slot' = [slot EXCEPT ![b] = k]
      /\ gst' = [gst EXCEPT ![g] = "alive"]
      /\ count' = [count EXCEPT ![g] = IF count[g] < MaxReasons THEN count[g] + 1 ELSE count[g]]
      /\ order' = [order EXCEPT ![Owner[g]] = Append(order[Owner[g]], b)]
  BY DEF Bind
<1>2. TargetSet(g, k, on)
  BY DEF Bind
<1>3. PICK S \in {Deps[e], {}} : subs' = [subs EXCEPT ![b] = S] /\ JoinNotified(b, S)
  BY DEF Bind, Subscribed
<1>4. count[g] \in 0 .. MaxReasons /\ MaxReasons \in Nat \ {0}
  BY ReactiveAssumption DEF TypeOK
<1>5. /\ k \in Slots \cup {NoSlot} /\ (k # NoSlot => k = count[g] /\ count[g] < MaxReasons)
      /\ \A j \in Slots : j # NoSlot
  BY <1>4 DEF Claimed, Slots, NoSlot
<1>6. val \in [Subjects -> Values] /\ on \in BOOLEAN /\ Deps[e] \in SUBSET Subjects
  BY EvalTyped, ReactiveAssumption DEF TypeOK
<1> HIDE DEF k, on
<1>7. /\ held' \in [Groups -> SUBSET Slots] /\ worn' \in [Groups -> BOOLEAN]
      /\ dirty' \subseteq Groups
      /\ \A x \in Groups : x # g =>
           held'[x] = held[x] /\ worn'[x] = worn[x] /\ (x \in dirty' <=> x \in dirty)
      /\ k # NoSlot => /\ worn'[g] <=> held'[g] # {}
                       /\ k \in held'[g] <=> on
                       /\ \A j \in Slots : j # k => (j \in held'[g] <=> j \in held[g])
      /\ k = NoSlot => held' = held
  BY <1>2, <1>5, <1>6, TargetSetFacts
<1>8. /\ todo' \in [Subjects -> SUBSET (Bindings \cup Derived)]
      /\ \A x \in Subjects : todo[x] \subseteq todo'[x]
      /\ \A x \in Subjects : \A q \in todo'[x] :
           \/ q \in todo[x]
           \/ q = b /\ x \in S /\ \E n \in DOMAIN stack : stack[n] = x
      /\ \A x \in Subjects :
           todo'[x] # {} => todo[x] # {} \/ \E n \in DOMAIN stack : stack[n] = x
  <2>1. S \in SUBSET Subjects /\ b \in Bindings \cup Derived /\ JoinNotified(b, S)
    BY <1>3, <1>6
  <2> QED BY <2>1, JoinFacts
<1>9. /\ expr'[b] = e /\ inv'[b] = i /\ grp'[b] = g /\ slot'[b] = k /\ subs'[b] = S
      /\ \A c \in Bindings : c # b =>
           /\ expr'[c] = expr[c] /\ inv'[c] = inv[c] /\ grp'[c] = grp[c]
           /\ slot'[c] = slot[c] /\ subs'[c] = subs[c]
      /\ gst'[g] = "alive" /\ \A x \in Groups : x # g => gst'[x] = gst[x] /\ count'[x] = count[x]
      /\ count'[g] = IF count[g] < MaxReasons THEN count[g] + 1 ELSE count[g]
  BY <1>1, <1>3 DEF TypeOK
<1>10. /\ Owner[g] \in Objs /\ order[Owner[g]] \in Seq(Bindings)
       /\ e # NoExpr /\ expr[b] = NoExpr
  BY <1>1, ReactiveAssumption DEF TypeOK, Bound
<1>11. /\ order' \in [Objs -> Seq(Bindings)]
       /\ \A o \in Objs : o # Owner[g] => order'[o] = order[o]
       /\ order'[Owner[g]] = Append(order[Owner[g]], b)
  BY <1>1, <1>10 DEF TypeOK
<1>12. TypeOK'
  <2>1. /\ expr' \in [Bindings -> Exprs \cup {NoExpr}] /\ inv' \in [Bindings -> BOOLEAN]
        /\ grp' \in [Bindings -> Groups] /\ slot' \in [Bindings -> Slots \cup {NoSlot}]
        /\ subs' \in [Bindings -> SUBSET Subjects]
        /\ gst' \in [Groups -> {"none", "alive", "freed"}]
    BY <1>1, <1>3, <1>5, <1>6 DEF TypeOK
  <2>2. count' \in [Groups -> 0 .. MaxReasons]
    BY <1>1, <1>4 DEF TypeOK
  <2> QED BY <1>0, <1>7, <1>8, <1>11, <2>1, <2>2 DEF TypeOK
<1>13. RefsKnown' /\ SubsExact'
  <2>1. RefsKnown'
    <3>1. Known' = Known
      BY <1>0 DEF Known
    <3>2. \A c \in Bindings : expr'[c] # NoExpr => Deps[expr'[c]] \subseteq Known
      BY <1>1, <1>9 DEF RefsKnown, Bound
    <3> QED BY <1>0, <3>1, <3>2 DEF RefsKnown, Bound
  <2>2. SubsExact'
    <3>1. \A c \in Bindings : c # b =>
            /\ expr'[c] # NoExpr => subs'[c] \in {Deps[expr'[c]], {}}
            /\ expr'[c] = NoExpr => subs'[c] = {}
      BY <1>9 DEF SubsExact, Bound
    <3> QED BY <1>3, <1>9, <1>10, <3>1 DEF SubsExact, Bound
  <2> QED BY <2>1, <2>2
<1>14. TodoSound'
  <2> SUFFICES ASSUME NEW x \in Subjects
               PROVE  /\ todo'[x] \subseteq Observers(x)'
                      /\ todo'[x] # {} => \E n \in DOMAIN stack : stack[n] = x
    BY <1>0 DEF TodoSound
  <2>1. Observers(x) \subseteq Observers(x)'
    <3>1. subs[b] = {}
      BY <1>1 DEF SubsExact
    <3> QED BY <1>0, <1>9, <3>1 DEF Observers
  <2>2. x \in S => b \in Observers(x)'
    BY <1>9 DEF Observers
  <2> QED BY <1>8, <2>1, <2>2 DEF TodoSound
<1>15. StackOK'
  BY <1>0 DEF StackOK
<1>16. OrderOK'
  <2> DEFINE O == Owner[g]
  <2>1. /\ DOMAIN order[O] = 1 .. Len(order[O]) /\ Len(order[O]) \in Nat
        /\ DOMAIN order'[O] = 1 .. (Len(order[O]) + 1)
        /\ \A n \in DOMAIN order[O] : order'[O][n] = order[O][n]
        /\ order'[O][Len(order[O]) + 1] = b
    BY <1>10, <1>11, PushFacts
  <2>2. /\ \A n \in DOMAIN order[O] : n \in DOMAIN order'[O]
        /\ Len(order[O]) + 1 \in DOMAIN order'[O]
        /\ \A n \in DOMAIN order'[O] : n \in DOMAIN order[O] \/ n = Len(order[O]) + 1
    BY <2>1
  <2>3. \A o \in Objs : \A n \in DOMAIN order[o] : order[o][n] # b /\ order[o][n] \in Bindings
    BY <1>1 DEF OrderOK, TypeOK
  <2>4. \A o \in Objs : \A n \in DOMAIN order'[o] :
          expr'[order'[o][n]] # NoExpr /\ Owner[grp'[order'[o][n]]] = o
    <3> SUFFICES ASSUME NEW o \in Objs, NEW n \in DOMAIN order'[o]
                 PROVE  expr'[order'[o][n]] # NoExpr /\ Owner[grp'[order'[o][n]]] = o
      OBVIOUS
    <3>1. CASE o = O /\ n = Len(order[O]) + 1
      BY <3>1, <2>1, <1>9, <1>10
    <3>2. CASE ~(o = O /\ n = Len(order[O]) + 1)
      <4>1. n \in DOMAIN order[o] /\ order'[o][n] = order[o][n]
        BY <3>2, <2>1, <2>2, <1>11
      <4> QED BY <4>1, <2>3, <1>9 DEF OrderOK, Bound
    <3> QED BY <3>1, <3>2
  <2>5. \A o \in Objs : \A m, n \in DOMAIN order'[o] : order'[o][m] = order'[o][n] => m = n
    <3> SUFFICES ASSUME NEW o \in Objs, NEW m \in DOMAIN order'[o],
                        NEW n \in DOMAIN order'[o], order'[o][m] = order'[o][n]
                 PROVE  m = n
      OBVIOUS
    <3>1. CASE o = O
      BY <3>1, <2>1, <2>2, <2>3 DEF OrderOK
    <3>2. CASE o # O
      BY <3>2, <1>11 DEF OrderOK
    <3> QED BY <3>1, <3>2
  <2>6. \A c \in Bindings : expr'[c] # NoExpr =>
          \E n \in DOMAIN order'[Owner[grp'[c]]] : order'[Owner[grp'[c]]][n] = c
    <3> SUFFICES ASSUME NEW c \in Bindings, expr'[c] # NoExpr
                 PROVE  \E n \in DOMAIN order'[Owner[grp'[c]]] : order'[Owner[grp'[c]]][n] = c
      OBVIOUS
    <3>1. CASE c = b
      BY <3>1, <1>9, <2>1, <2>2
    <3>2. CASE c # b
      <4>1. /\ grp'[c] = grp[c] /\ expr[c] # NoExpr /\ Owner[grp[c]] \in Objs
        BY <3>2, <1>9, ReactiveAssumption DEF TypeOK
      <4>2. PICK n \in DOMAIN order[Owner[grp[c]]] : order[Owner[grp[c]]][n] = c
        BY <4>1 DEF OrderOK, Bound
      <4>3. n \in DOMAIN order'[Owner[grp[c]]] /\ order'[Owner[grp[c]]][n] = c
        <5>1. CASE Owner[grp[c]] = O
          BY <4>2, <5>1, <2>1, <2>2
        <5>2. CASE Owner[grp[c]] # O
          BY <4>1, <4>2, <5>2, <1>11
        <5> QED BY <5>1, <5>2
      <4> QED BY <4>1, <4>3
    <3> QED BY <3>1, <3>2
  <2>7. \A o \in Objs : ost'[o] = "gone" => order'[o] = <<>>
    BY <1>0, <1>1, <1>11 DEF OrderOK
  <2> QED BY <2>4, <2>5, <2>6, <2>7 DEF OrderOK, Bound
<1>17. LiveGroups'
  <2> SUFFICES ASSUME NEW c \in Bindings, expr'[c] # NoExpr, ost[Owner[grp'[c]]] = "live"
               PROVE  gst'[grp'[c]] = "alive"
    BY <1>0 DEF LiveGroups, Bound
  <2>1. c # b => grp'[c] = grp[c] /\ expr[c] # NoExpr /\ grp[c] \in Groups
    BY <1>9 DEF TypeOK
  <2> QED BY <1>9, <2>1 DEF LiveGroups, Bound
<1>18. \A c \in OnGroup(g) : (c # b /\ slot[c] # k) \/ slot[c] = NoSlot
  <2>1. \A c \in OnGroup(g) : c # b
    BY <1>1 DEF OnGroup
  <2>2. \A c \in OnGroup(g) : slot[c] = NoSlot \/ slot[c] < count[g]
    BY <1>1 DEF SharesDistinct
  <2>3. \A c \in OnGroup(g) : c \in Bindings /\ slot[c] \in Slots \cup {NoSlot}
    BY DEF OnGroup, TypeOK
  <2>4. \A n \in Slots : n \in Nat
    BY DEF Slots
  <2> QED BY <1>4, <1>5, <2>1, <2>2, <2>3, <2>4
<1>19. BindingsTold'
  <2> SUFFICES ASSUME NEW c \in Bindings, expr'[c] # NoExpr, subs'[c] = Deps[expr'[c]],
                      slot'[c] # NoSlot, ost[Owner[grp'[c]]] = "live",
                      ~(slot'[c] \in held'[grp'[c]] <=> Holds(expr'[c], inv'[c], val))
               PROVE  \E x \in Subjects : c \in todo'[x]
    BY <1>0 DEF BindingsTold, Bound, True
  <2>1. c # b
    BY <1>7, <1>9 DEF on
  <2>2. /\ expr[c] # NoExpr /\ subs[c] = Deps[expr[c]] /\ slot[c] # NoSlot
        /\ ost[Owner[grp[c]]] = "live" /\ slot[c] \in Slots /\ grp[c] \in Groups
        /\ ~(slot[c] \in held'[grp[c]] <=> Holds(expr[c], inv[c], val))
    BY <2>1, <1>9 DEF TypeOK
  <2>3. slot[c] \in held'[grp[c]] <=> slot[c] \in held[grp[c]]
    <3>1. CASE grp[c] = g /\ k # NoSlot
      BY <3>1, <2>2, <1>7, <1>18 DEF OnGroup, Bound
    <3>2. CASE ~(grp[c] = g /\ k # NoSlot)
      BY <3>2, <2>2, <1>7
    <3> QED BY <3>1, <3>2
  <2>4. \E x \in Subjects : c \in todo[x]
    BY <2>2, <2>3 DEF BindingsTold, Bound, True
  <2> QED BY <2>4, <1>8
<1>20. DerivedTold'
  BY <1>0, <1>8 DEF DerivedTold
<1>21. \A h \in Groups : OnGroup(h)' = IF h = g THEN OnGroup(h) \cup {b} ELSE OnGroup(h)
  BY <1>9, <1>10 DEF OnGroup, Bound
<1>22. WornIsOr'
  <2> SUFFICES ASSUME NEW h \in Groups, gst'[h] = "alive", ost[Owner[h]] = "live",
                      h \notin dirty', \A c \in OnGroup(h)' : slot'[c] # NoSlot
               PROVE  worn'[h] <=> held'[h] # {}
    BY <1>0 DEF WornIsOr
  <2>1. CASE h = g
    BY <2>1, <1>7, <1>9, <1>21
  <2>2. CASE h # g
    <3>1. \A c \in OnGroup(h) : c # b /\ slot[c] # NoSlot
      BY <2>2, <1>9, <1>10, <1>21 DEF OnGroup, Bound
    <3> QED BY <2>2, <3>1, <1>7, <1>9 DEF WornIsOr
  <2> QED BY <2>1, <2>2
<1>23. SharesDistinct'
  <2> SUFFICES ASSUME NEW h \in Groups, ost[Owner[h]] = "live"
               PROVE  /\ \A c, d \in OnGroup(h)' :
                           slot'[c] = slot'[d] => c = d \/ slot'[c] = NoSlot
                      /\ \A c \in OnGroup(h)' : slot'[c] = NoSlot \/ slot'[c] < count'[h]
                      /\ \A n \in held'[h] : \E c \in OnGroup(h)' : slot'[c] = n
    BY <1>0 DEF SharesDistinct
  <2>1. \A c \in OnGroup(h) : c \in Bindings /\ c # b /\ slot'[c] = slot[c]
    BY <1>1, <1>9 DEF OnGroup
  <2>2. CASE h = g
    <3>1. \A c \in OnGroup(h) : slot[c] = NoSlot \/ slot[c] < count'[h]
      <4>1. \A c \in OnGroup(h) : slot[c] \in Nat
        BY <1>4, <2>1 DEF TypeOK, Slots, NoSlot
      <4> QED BY <4>1, <1>4, <1>9, <2>2 DEF SharesDistinct
    <3>2. k = NoSlot \/ k < count'[h]
      BY <1>4, <1>5, <1>9, <2>2
    <3>3. \A n \in held'[h] : n \in held[h] \/ n = k
      BY <2>2, <1>7
    <3>4. \A n \in held'[h] : n = k => k # NoSlot
      BY <1>5, <1>7
    <3> QED BY <1>9, <1>18, <1>21, <2>1, <2>2, <3>1, <3>2, <3>3, <3>4 DEF SharesDistinct
  <2>3. CASE h # g
    BY <2>1, <2>3, <1>7, <1>9, <1>21 DEF SharesDistinct
  <2> QED BY <2>2, <2>3
<1> QED BY <1>12, <1>13, <1>14, <1>15, <1>16, <1>17, <1>19, <1>20, <1>22, <1>23

\* A binding is told: its share says what its condition says, and the others
\* keep theirs.
LEMMA ObserveBindingKeeps ==
  ASSUME IInv, NEW b \in Bindings, ObserveBinding(b)
  PROVE  IInv'
<1> USE DEF IInv
<1> DEFINE g == grp[b]
           k == slot[b]
           on == Holds(expr[b], inv[b], val)
<1>0. /\ val' = val /\ def' = def /\ ost' = ost /\ stack' = stack
      /\ expr' = expr /\ inv' = inv /\ grp' = grp /\ slot' = slot /\ subs' = subs
      /\ order' = order /\ gst' = gst /\ count' = count
  BY DEF ObserveBinding, bindVars
<1>1. /\ Top \in Subjects /\ b \in todo[Top]
      /\ todo' = [todo EXCEPT ![Top] = todo[Top] \ {b}]
      /\ TargetSet(g, k, on)
  BY DEF ObserveBinding
<1>2. b \notin Derived
  BY ReactiveAssumption DEF Subjects
<1>3. Top \in subs[b] /\ expr[b] # NoExpr
  BY <1>1, <1>2 DEF TodoSound, Observers, SubsExact, Bound
<1>4. /\ g \in Groups /\ k \in Slots \cup {NoSlot} /\ on \in BOOLEAN
  <2>1. expr[b] \in Exprs /\ val \in [Subjects -> Values] /\ inv[b] \in BOOLEAN
    BY <1>3 DEF TypeOK
  <2> QED BY <2>1, EvalTyped DEF TypeOK
<1>5. \A j \in Slots : j # NoSlot
  BY ReactiveAssumption DEF Slots, NoSlot
<1>6. b \in OnGroup(g) /\ \A h \in Groups : OnGroup(h)' = OnGroup(h)
  BY <1>0, <1>3 DEF OnGroup, Bound
<1>7. True(b) <=> on
  BY DEF True
<1> HIDE DEF g, k, on
<1>8. /\ held' \in [Groups -> SUBSET Slots] /\ worn' \in [Groups -> BOOLEAN]
      /\ dirty' \subseteq Groups
      /\ \A x \in Groups : x # g =>
           held'[x] = held[x] /\ worn'[x] = worn[x] /\ (x \in dirty' <=> x \in dirty)
      /\ k # NoSlot => /\ worn'[g] <=> held'[g] # {}
                       /\ k \in held'[g] <=> on
                       /\ \A j \in Slots : j # k => (j \in held'[g] <=> j \in held[g])
      /\ k = NoSlot => held' = held
  BY <1>1, <1>4, TargetSetFacts
<1>9. /\ todo' \in [Subjects -> SUBSET (Bindings \cup Derived)]
      /\ \A x \in Subjects : todo'[x] \subseteq todo[x]
      /\ \A x \in Subjects : \A q \in todo[x] : q # b => q \in todo'[x]
  BY <1>1 DEF TypeOK
<1>10. TypeOK'
  BY <1>0, <1>8, <1>9 DEF TypeOK
<1>11. RefsKnown' /\ SubsExact' /\ OrderOK' /\ LiveGroups' /\ StackOK'
  BY <1>0 DEF RefsKnown, SubsExact, OrderOK, LiveGroups, StackOK, Bound, Known
<1>12. TodoSound'
  <2>1. \A x \in Subjects : Observers(x)' = Observers(x)
    BY <1>0 DEF Observers
  <2> QED BY <1>0, <1>9, <2>1 DEF TodoSound
<1>13. BindingsTold'
  <2> SUFFICES ASSUME NEW c \in Bindings, expr[c] # NoExpr, subs[c] = Deps[expr[c]],
                      slot[c] # NoSlot, ost[Owner[grp[c]]] = "live",
                      ~(slot[c] \in held'[grp[c]] <=> True(c))
               PROVE  \E x \in Subjects : c \in todo'[x]
    BY <1>0 DEF BindingsTold, Bound, True
  <2>1. c # b
    BY <1>7, <1>8 DEF g, k
  <2>2. slot[c] \in Slots /\ grp[c] \in Groups
    BY DEF TypeOK
  <2>3. slot[c] \in held'[grp[c]] <=> slot[c] \in held[grp[c]]
    <3>1. CASE grp[c] = g /\ k # NoSlot
      <4>1. c \in OnGroup(g)
        BY <3>1 DEF OnGroup, Bound
      <4>2. slot[c] # k
        BY <4>1, <3>1, <1>4, <1>6, <2>1 DEF SharesDistinct, k
      <4> QED BY <3>1, <4>2, <2>2, <1>8
    <3>2. CASE ~(grp[c] = g /\ k # NoSlot)
      BY <3>2, <2>2, <1>8
    <3> QED BY <3>1, <3>2
  <2>4. \E x \in Subjects : c \in todo[x]
    BY <2>3 DEF BindingsTold, Bound
  <2> QED BY <2>1, <2>4, <1>9
<1>14. DerivedTold'
  BY <1>0, <1>2, <1>9 DEF DerivedTold
<1>15. WornIsOr'
  <2> SUFFICES ASSUME NEW h \in Groups, gst[h] = "alive", ost[Owner[h]] = "live",
                      h \notin dirty', \A c \in OnGroup(h) : slot[c] # NoSlot
               PROVE  worn'[h] <=> held'[h] # {}
    BY <1>0, <1>6 DEF WornIsOr
  <2>1. CASE h = g
    BY <2>1, <1>6, <1>8 DEF k
  <2>2. CASE h # g
    BY <2>2, <1>8 DEF WornIsOr
  <2> QED BY <2>1, <2>2
<1>16. SharesDistinct'
  <2> SUFFICES ASSUME NEW h \in Groups, ost[Owner[h]] = "live", NEW n \in held'[h]
               PROVE  \E c \in OnGroup(h) : slot[c] = n
    BY <1>0, <1>6 DEF SharesDistinct
  <2>1. CASE n \in held[h]
    BY <2>1 DEF SharesDistinct
  <2>2. CASE n \notin held[h]
    <3>1. h = g /\ k # NoSlot
      BY <2>2, <1>8
    <3>2. n = k
      BY <2>2, <3>1, <1>8
    <3> QED BY <3>1, <3>2, <1>6 DEF k
  <2> QED BY <2>1, <2>2
<1> QED BY <1>10, <1>11, <1>12, <1>13, <1>14, <1>15, <1>16

\* A notification ends: nobody waits for its subject any more.
LEMMA NotifiedKeeps ==
  ASSUME IInv, Notified
  PROVE  IInv'
<1> USE DEF IInv
<1>0. /\ val' = val /\ def' = def /\ ost' = ost /\ todo' = todo
      /\ expr' = expr /\ inv' = inv /\ grp' = grp /\ slot' = slot /\ subs' = subs
      /\ order' = order /\ gst' = gst /\ count' = count
      /\ held' = held /\ worn' = worn /\ dirty' = dirty
  BY DEF Notified, bindVars, groupVars
<1>1. /\ stack # <<>> /\ stack[Len(stack)] \in Subjects /\ todo[stack[Len(stack)]] = {}
      /\ stack' = SubSeq(stack, 1, Len(stack) - 1)
      /\ stack \in Seq(Subjects \cup Objs)
  BY DEF Notified, Top, Pop, TypeOK
<1>2. /\ stack' \in Seq(Subjects \cup Objs)
      /\ DOMAIN stack' = 1 .. (Len(stack) - 1) /\ Len(stack') = Len(stack) - 1
      /\ DOMAIN stack = 1 .. Len(stack) /\ Len(stack) \in Nat \ {0}
      /\ \A i \in DOMAIN stack' : stack'[i] = stack[i]
  BY <1>1, PopFacts
<1>3. /\ \A i \in DOMAIN stack' : i \in DOMAIN stack /\ i # Len(stack)
      /\ \A i \in DOMAIN stack : i # Len(stack) => i \in DOMAIN stack'
  BY <1>2
<1>4. stack[Len(stack)] \notin Objs
  BY <1>1, ReactiveAssumption
<1>5. TypeOK'
  BY <1>0, <1>2 DEF TypeOK
<1>6. RefsKnown' /\ SubsExact' /\ OrderOK' /\ LiveGroups'
  BY <1>0 DEF RefsKnown, SubsExact, OrderOK, LiveGroups, Bound, Known
<1>7. BindingsTold' /\ DerivedTold' /\ WornIsOr' /\ SharesDistinct'
  BY <1>0 DEF BindingsTold, DerivedTold, WornIsOr, SharesDistinct, OnGroup, Bound, True
<1>8. TodoSound'
  <2>1. \A x \in Subjects : Observers(x)' = Observers(x)
    BY <1>0 DEF Observers
  <2>2. ASSUME NEW x \in Subjects, todo[x] # {}
        PROVE  \E i \in DOMAIN stack' : stack'[i] = x
    <3>1. PICK i \in DOMAIN stack : stack[i] = x
      BY <2>2 DEF TodoSound
    <3>2. i # Len(stack)
      BY <3>1, <2>2, <1>1
    <3>3. i \in DOMAIN stack' /\ stack'[i] = x
      BY <3>1, <3>2, <1>2, <1>3
    <3> QED BY <3>3
  <2> QED BY <1>0, <2>1, <2>2 DEF TodoSound
<1>9. StackOK'
  BY <1>0, <1>2, <1>3, <1>4 DEF StackOK
<1> QED BY <1>5, <1>6, <1>7, <1>8, <1>9

\* The application writes bits itself.
LEMMA TouchKeeps ==
  ASSUME IInv, NEW g \in Groups, Touch(g)
  PROVE  IInv'
<1> USE DEF IInv
<1>0. /\ val' = val /\ def' = def /\ ost' = ost /\ todo' = todo /\ stack' = stack
      /\ expr' = expr /\ inv' = inv /\ grp' = grp /\ slot' = slot /\ subs' = subs
      /\ order' = order /\ gst' = gst /\ count' = count /\ held' = held
      /\ worn' = [worn EXCEPT ![g] = ~worn[g]] /\ dirty' = dirty \cup {g}
  BY DEF Touch, bindVars
<1>1. TypeOK'
  BY <1>0 DEF TypeOK
<1>2. RefsKnown' /\ SubsExact' /\ OrderOK' /\ LiveGroups' /\ StackOK'
  BY <1>0 DEF RefsKnown, SubsExact, OrderOK, LiveGroups, StackOK, Bound, Known
<1>3. BindingsTold' /\ DerivedTold' /\ SharesDistinct'
  BY <1>0 DEF BindingsTold, DerivedTold, SharesDistinct, OnGroup, Bound, True
<1>4. TodoSound'
  BY <1>0 DEF TodoSound, Observers
<1>5. WornIsOr'
  <2>1. \A h \in Groups : h \notin dirty' => h \notin dirty /\ worn'[h] = worn[h]
    BY <1>0 DEF TypeOK
  <2> QED BY <1>0, <2>1 DEF WornIsOr, OnGroup, Bound
<1> QED BY <1>1, <1>2, <1>3, <1>4, <1>5

-----------------------------------------------------------------------------
(* Deletion.                                                                *)

\* The deletion of a widget starts.
LEMMA DeleteKeeps ==
  ASSUME IInv, NEW o \in Objs, Delete(o)
  PROVE  IInv'
<1> USE DEF IInv
<1>0. /\ val' = val /\ def' = def /\ todo' = todo
      /\ expr' = expr /\ inv' = inv /\ grp' = grp /\ slot' = slot /\ subs' = subs
      /\ order' = order /\ gst' = gst /\ count' = count
      /\ held' = held /\ worn' = worn /\ dirty' = dirty
  BY DEF Delete, bindVars, groupVars
<1>1. /\ ost[o] = "live" /\ ost' = [ost EXCEPT ![o] = "dying"]
      /\ stack' = Append(stack, o) /\ stack \in Seq(Subjects \cup Objs)
      /\ ost \in [Objs -> {"live", "dying", "gone"}]
  BY DEF Delete, TypeOK
<1>2. /\ stack' \in Seq(Subjects \cup Objs) /\ Len(stack) \in Nat
      /\ DOMAIN stack = 1 .. Len(stack) /\ DOMAIN stack' = 1 .. (Len(stack) + 1)
      /\ Len(stack') = Len(stack) + 1 /\ stack'[Len(stack) + 1] = o
      /\ \A i \in DOMAIN stack : stack'[i] = stack[i]
  BY <1>1, PushFacts
<1>3. /\ \A i \in DOMAIN stack : i \in DOMAIN stack'
      /\ Len(stack) + 1 \in DOMAIN stack'
      /\ \A i \in DOMAIN stack' : i \in DOMAIN stack \/ i = Len(stack) + 1
  BY <1>2
<1>4. /\ ost' \in [Objs -> {"live", "dying", "gone"}] /\ ost'[o] = "dying"
      /\ \A x \in Objs : x # o => ost'[x] = ost[x]
      /\ \A x \in Objs : ost'[x] = "live" => ost[x] = "live"
  BY <1>1
<1>5. \A i \in DOMAIN stack : stack[i] # o
  BY <1>1 DEF StackOK
<1>6. TypeOK'
  BY <1>0, <1>2, <1>4 DEF TypeOK
<1>7. RefsKnown' /\ SubsExact' /\ DerivedTold'
  BY <1>0 DEF RefsKnown, SubsExact, DerivedTold, Bound, Known
<1>8. Owner \in [Groups -> Objs] /\ grp \in [Bindings -> Groups]
  BY ReactiveAssumption DEF TypeOK
<1>9. LiveGroups' /\ BindingsTold'
  BY <1>0, <1>4, <1>8 DEF LiveGroups, BindingsTold, Bound, True
<1>10. WornIsOr' /\ SharesDistinct'
  BY <1>0, <1>4, <1>8 DEF WornIsOr, SharesDistinct, OnGroup, Bound
<1>11. OrderOK'
  <2>1. \A x \in Objs : ost'[x] = "gone" => ost[x] = "gone"
    BY <1>4
  <2> QED BY <1>0, <2>1 DEF OrderOK, Bound
<1>12. TodoSound'
  <2>1. \A x \in Subjects : Observers(x)' = Observers(x)
    BY <1>0 DEF Observers
  <2> QED BY <1>0, <1>2, <1>3, <2>1 DEF TodoSound
<1>13. StackOK'
  <2>1. \A i \in DOMAIN stack' : stack'[i] \in Objs => ost'[stack'[i]] = "dying"
    BY <1>2, <1>3, <1>4 DEF StackOK
  <2>2. \A i, j \in DOMAIN stack' : stack'[i] = stack'[j] /\ stack'[i] \in Objs => i = j
    BY <1>2, <1>3, <1>5 DEF StackOK
  <2>3. \A x \in Objs : ost'[x] = "dying" => \E i \in DOMAIN stack' : stack'[i] = x
    <3> SUFFICES ASSUME NEW x \in Objs, ost'[x] = "dying"
                 PROVE  \E i \in DOMAIN stack' : stack'[i] = x
      OBVIOUS
    <3>1. CASE x = o
      BY <3>1, <1>2, <1>3
    <3>2. CASE x # o
      <4>1. PICK i \in DOMAIN stack : stack[i] = x
        BY <3>2, <1>4 DEF StackOK
      <4> QED BY <4>1, <1>2, <1>3
    <3> QED BY <3>1, <3>2
  <2>4. "handler" \notin Env =>
          \A i \in DOMAIN stack' : stack'[i] \in Objs => i = Len(stack')
    <3> SUFFICES ASSUME "handler" \notin Env, NEW i \in DOMAIN stack, stack[i] \in Objs
                 PROVE  FALSE
      BY <1>2, <1>3
    <3>1. i = Len(stack) /\ stack # <<>>
      BY <1>2 DEF StackOK
    <3>2. Top \in Objs
      BY <3>1 DEF Top
    <3> QED BY <3>1, <3>2, ReactiveAssumption DEF Delete, AppRuns
  <2> QED BY <2>1, <2>2, <2>3, <2>4 DEF StackOK
<1> QED BY <1>6, <1>7, <1>9, <1>10, <1>11, <1>12, <1>13

\* The hooks of one binding of a dying widget run.
LEMMA DeleteHooksKeeps ==
  ASSUME IInv, DeleteHooks
  PROVE  IInv'
<1> USE DEF IInv
<1> DEFINE o == Top
           b == Head(order[Top])
<1>0. /\ val' = val /\ def' = def /\ inv' = inv /\ grp' = grp /\ slot' = slot
      /\ worn' = worn /\ dirty' = dirty /\ ost' = ost /\ stack' = stack
  BY DEF DeleteHooks
<1>1. /\ o \in Objs /\ order[o] # <<>> /\ order[o] \in Seq(Bindings)
      /\ expr' = [expr EXCEPT ![b] = NoExpr] /\ subs' = [subs EXCEPT ![b] = {}]
      /\ todo' = [x \in Subjects |-> todo[x] \ {b}]
      /\ order' = [order EXCEPT ![o] = Tail(order[o])]
      /\ gst' = [gst EXCEPT ![grp[b]] = IF slot[b] = 0 THEN "freed" ELSE gst[grp[b]]]
      /\ count' = [count EXCEPT ![grp[b]] = IF slot[b] = 0 THEN 0 ELSE count[grp[b]]]
      /\ held' = [held EXCEPT ![grp[b]] = IF slot[b] = 0 THEN {} ELSE held[grp[b]]]
  BY DEF DeleteHooks, Unsubscribe, TypeOK
<1>2. ost[o] = "dying"
  <2>1. stack # <<>> /\ stack \in Seq(Subjects \cup Objs)
    BY DEF DeleteHooks, TypeOK
  <2>2. Len(stack) \in DOMAIN stack
    BY <2>1, PopFacts
  <2> QED BY <1>1, <2>2 DEF StackOK, Top
<1> HIDE DEF o, b
<1>3. /\ Tail(order[o]) \in Seq(Bindings) /\ b = order[o][1] /\ b \in Bindings
      /\ DOMAIN order[o] = 1 .. Len(order[o]) /\ Len(order[o]) \in Nat \ {0}
      /\ DOMAIN Tail(order[o]) = 1 .. (Len(order[o]) - 1)
      /\ \A n \in 1 .. (Len(order[o]) - 1) : Tail(order[o])[n] = order[o][n + 1]
  BY <1>1, TailFacts DEF b, o
<1>4. /\ 1 \in DOMAIN order[o]
      /\ \A n \in DOMAIN Tail(order[o]) : n + 1 \in DOMAIN order[o] /\ n + 1 # 1 /\ n \in Nat
      /\ \A n \in DOMAIN order[o] : n # 1 => n - 1 \in DOMAIN Tail(order[o]) /\ (n - 1) + 1 = n
  BY <1>3
<1>5. Owner[grp[b]] = o /\ expr[b] # NoExpr /\ grp[b] \in Groups
  <2>1. Owner[grp[order[o][1]]] = o /\ expr[order[o][1]] # NoExpr
    BY <1>1, <1>4 DEF OrderOK, Bound
  <2>2. grp \in [Bindings -> Groups]
    BY DEF TypeOK
  <2> QED BY <1>3, <2>1, <2>2
<1>6. /\ expr'[b] = NoExpr /\ subs'[b] = {}
      /\ \A c \in Bindings : c # b => expr'[c] = expr[c] /\ subs'[c] = subs[c]
      /\ \A h \in Groups : ost[Owner[h]] = "live" =>
           gst'[h] = gst[h] /\ count'[h] = count[h] /\ held'[h] = held[h]
  BY <1>1, <1>2, <1>3, <1>5 DEF TypeOK
<1>7. b \notin Derived
  BY <1>3, ReactiveAssumption DEF Subjects
<1>8. /\ order' \in [Objs -> Seq(Bindings)] /\ order'[o] = Tail(order[o])
      /\ \A x \in Objs : x # o => order'[x] = order[x]
  BY <1>1, <1>3 DEF TypeOK
<1>9. TypeOK'
  <2>1. /\ expr' \in [Bindings -> Exprs \cup {NoExpr}] /\ subs' \in [Bindings -> SUBSET Subjects]
        /\ todo' \in [Subjects -> SUBSET (Bindings \cup Derived)]
    BY <1>1 DEF TypeOK
  <2>2. /\ gst' \in [Groups -> {"none", "alive", "freed"}]
        /\ held' \in [Groups -> SUBSET Slots]
    BY <1>1 DEF TypeOK
  <2>3. count' \in [Groups -> 0 .. MaxReasons]
    <3>1. 0 \in 0 .. MaxReasons
      BY ReactiveAssumption
    <3>2. count \in [Groups -> 0 .. MaxReasons]
      BY DEF TypeOK
    <3> HIDE DEF IInv
    <3> QED BY <1>1, <1>5, <3>1, <3>2
  <2> QED BY <1>0, <1>8, <2>1, <2>2, <2>3 DEF TypeOK
<1>10. RefsKnown' /\ SubsExact' /\ StackOK'
  <2>1. Known' = Known
    BY <1>0 DEF Known
  <2> QED BY <1>0, <1>6, <2>1 DEF RefsKnown, SubsExact, StackOK, Bound
<1>11. TodoSound'
  <2>1. \A x \in Subjects : Observers(x) \ {b} \subseteq Observers(x)'
    BY <1>0, <1>6 DEF Observers
  <2>2. \A x \in Subjects : todo'[x] = todo[x] \ {b}
    BY <1>1
  <2> QED BY <1>0, <2>1, <2>2 DEF TodoSound
<1>12. \A h \in Groups : ost[Owner[h]] = "live" => OnGroup(h)' = OnGroup(h)
  <2>1. \A h \in Groups : ost[Owner[h]] = "live" => grp[b] # h
    BY <1>2, <1>5
  <2> QED BY <1>0, <1>6, <2>1 DEF OnGroup, Bound
<1>13. \A c \in Bindings : expr'[c] # NoExpr =>
         c # b /\ expr[c] # NoExpr /\ subs'[c] = subs[c] /\ expr'[c] = expr[c]
  BY <1>6
<1>14. OrderOK'
  <2>1. \A x \in Objs : \A n \in DOMAIN order'[x] :
          expr'[order'[x][n]] # NoExpr /\ Owner[grp[order'[x][n]]] = x
    <3> SUFFICES ASSUME NEW x \in Objs, NEW n \in DOMAIN order'[x]
                 PROVE  expr'[order'[x][n]] # NoExpr /\ Owner[grp[order'[x][n]]] = x
      OBVIOUS
    <3>1. CASE x = o
      <4>1. order'[x][n] = order[o][n + 1] /\ n + 1 \in DOMAIN order[o] /\ n + 1 # 1
        BY <3>1, <1>3, <1>4, <1>8
      <4>2. order[o][n + 1] # b /\ order[o][n + 1] \in Bindings
        BY <4>1, <1>1, <1>3, <1>4 DEF OrderOK
      <4> QED BY <3>1, <4>1, <4>2, <1>6 DEF OrderOK, Bound
    <3>2. CASE x # o
      <4>1. order'[x] = order[x] /\ order[x][n] \in Bindings
        BY <3>2, <1>8 DEF TypeOK
      <4>2. Owner[grp[order[x][n]]] = x /\ expr[order[x][n]] # NoExpr
        BY <4>1 DEF OrderOK, Bound
      <4>3. order[x][n] # b
        BY <4>2, <3>2, <1>5
      <4> QED BY <4>1, <4>2, <4>3, <1>6
    <3> QED BY <3>1, <3>2
  <2>2. \A x \in Objs : \A m, n \in DOMAIN order'[x] : order'[x][m] = order'[x][n] => m = n
    <3> SUFFICES ASSUME NEW x \in Objs, NEW m \in DOMAIN order'[x],
                        NEW n \in DOMAIN order'[x], order'[x][m] = order'[x][n]
                 PROVE  m = n
      OBVIOUS
    <3>1. CASE x = o
      <4>1. /\ order[o][m + 1] = order[o][n + 1] /\ m \in Nat /\ n \in Nat
            /\ m + 1 \in DOMAIN order[o] /\ n + 1 \in DOMAIN order[o]
        BY <3>1, <1>3, <1>4, <1>8
      <4>2. m + 1 = n + 1
        BY <4>1, <1>1 DEF OrderOK
      <4> QED BY <4>1, <4>2
    <3>2. CASE x # o
      BY <3>2, <1>8 DEF OrderOK
    <3> QED BY <3>1, <3>2
  <2>3. \A c \in Bindings : expr'[c] # NoExpr =>
          \E n \in DOMAIN order'[Owner[grp[c]]] : order'[Owner[grp[c]]][n] = c
    <3> SUFFICES ASSUME NEW c \in Bindings, expr'[c] # NoExpr
                 PROVE  \E n \in DOMAIN order'[Owner[grp[c]]] : order'[Owner[grp[c]]][n] = c
      OBVIOUS
    <3>1. c # b /\ Owner[grp[c]] \in Objs
      BY <1>6, ReactiveAssumption DEF TypeOK
    <3>2. PICK n \in DOMAIN order[Owner[grp[c]]] : order[Owner[grp[c]]][n] = c
      BY <1>13 DEF OrderOK, Bound
    <3>3. CASE Owner[grp[c]] = o
      <4>1. n # 1
        BY <3>1, <3>2, <3>3, <1>3
      <4>2. n - 1 \in DOMAIN order'[o] /\ order'[o][n - 1] = c
        BY <3>2, <3>3, <4>1, <1>3, <1>4, <1>8
      <4> QED BY <3>3, <4>2
    <3>4. CASE Owner[grp[c]] # o
      BY <3>1, <3>2, <3>4, <1>8
    <3> QED BY <3>3, <3>4
  <2>4. \A x \in Objs : ost[x] = "gone" => order'[x] = <<>>
    BY <1>2, <1>8 DEF OrderOK
  <2> QED BY <1>0, <2>1, <2>2, <2>3, <2>4 DEF OrderOK, Bound
<1>15. LiveGroups'
  <2>1. \A c \in Bindings : grp[c] \in Groups
    BY DEF TypeOK
  <2> QED BY <1>0, <1>6, <1>13, <2>1 DEF LiveGroups, Bound
<1>16. BindingsTold'
  <2> SUFFICES ASSUME NEW c \in Bindings, expr'[c] # NoExpr, subs'[c] = Deps[expr'[c]],
                      slot[c] # NoSlot, ost[Owner[grp[c]]] = "live",
                      ~(slot[c] \in held'[grp[c]] <=> Holds(expr'[c], inv[c], val))
               PROVE  \E x \in Subjects : c \in todo'[x]
    BY <1>0 DEF BindingsTold, Bound, True
  <2>1. grp[c] \in Groups
    BY DEF TypeOK
  <2>2. \E x \in Subjects : c \in todo[x]
    BY <2>1, <1>6, <1>13 DEF BindingsTold, Bound, True
  <2> QED BY <2>2, <1>1, <1>13
<1>17. DerivedTold'
  BY <1>0, <1>1, <1>7 DEF DerivedTold
<1>18. WornIsOr'
  BY <1>0, <1>6, <1>12 DEF WornIsOr
<1>19. SharesDistinct'
  BY <1>0, <1>6, <1>12 DEF SharesDistinct
<1> QED BY <1>9, <1>10, <1>11, <1>14, <1>15, <1>16, <1>17, <1>18, <1>19

\* The deletion of a widget ends.
LEMMA DeletedKeeps ==
  ASSUME IInv, Deleted
  PROVE  IInv'
<1> USE DEF IInv
<1> DEFINE o == stack[Len(stack)]
<1>0. /\ val' = val /\ def' = def /\ todo' = todo
      /\ expr' = expr /\ inv' = inv /\ grp' = grp /\ slot' = slot /\ subs' = subs
      /\ order' = order /\ gst' = gst /\ count' = count
      /\ held' = held /\ worn' = worn /\ dirty' = dirty
  BY DEF Deleted, bindVars, groupVars
<1>1. /\ stack # <<>> /\ o \in Objs /\ order[o] = <<>>
      /\ ost' = [ost EXCEPT ![o] = "gone"]
      /\ stack' = SubSeq(stack, 1, Len(stack) - 1)
      /\ stack \in Seq(Subjects \cup Objs)
      /\ ost \in [Objs -> {"live", "dying", "gone"}]
  BY DEF Deleted, Top, Pop, TypeOK
<1>2. /\ stack' \in Seq(Subjects \cup Objs)
      /\ DOMAIN stack' = 1 .. (Len(stack) - 1) /\ Len(stack') = Len(stack) - 1
      /\ DOMAIN stack = 1 .. Len(stack) /\ Len(stack) \in Nat \ {0}
      /\ \A i \in DOMAIN stack' : stack'[i] = stack[i]
  BY <1>1, PopFacts
<1>3. /\ \A i \in DOMAIN stack' : i \in DOMAIN stack /\ i # Len(stack)
      /\ \A i \in DOMAIN stack : i # Len(stack) => i \in DOMAIN stack'
      /\ Len(stack) \in DOMAIN stack
  BY <1>2
<1> HIDE DEF o
<1>4. /\ ost' \in [Objs -> {"live", "dying", "gone"}] /\ ost'[o] = "gone"
      /\ \A x \in Objs : x # o => ost'[x] = ost[x]
      /\ \A x \in Objs : ost'[x] = "live" => ost[x] = "live"
  BY <1>1
<1>5. \A i \in DOMAIN stack' : stack[i] # o
  BY <1>1, <1>3 DEF StackOK, o
<1>6. TypeOK'
  BY <1>0, <1>2, <1>4 DEF TypeOK
<1>7. RefsKnown' /\ SubsExact' /\ DerivedTold'
  BY <1>0 DEF RefsKnown, SubsExact, DerivedTold, Bound, Known
<1>8. Owner \in [Groups -> Objs] /\ grp \in [Bindings -> Groups]
  BY ReactiveAssumption DEF TypeOK
<1>9. LiveGroups' /\ BindingsTold'
  BY <1>0, <1>4, <1>8 DEF LiveGroups, BindingsTold, Bound, True
<1>10. WornIsOr' /\ SharesDistinct'
  BY <1>0, <1>4, <1>8 DEF WornIsOr, SharesDistinct, OnGroup, Bound
<1>11. OrderOK'
  <2>1. \A x \in Objs : ost'[x] = "gone" => order[x] = <<>>
    BY <1>1, <1>4 DEF OrderOK
  <2> QED BY <1>0, <2>1 DEF OrderOK, Bound
<1>12. TodoSound'
  <2>1. \A x \in Subjects : Observers(x)' = Observers(x)
    BY <1>0 DEF Observers
  <2>2. ASSUME NEW x \in Subjects, todo[x] # {}
        PROVE  \E i \in DOMAIN stack' : stack'[i] = x
    <3>1. PICK i \in DOMAIN stack : stack[i] = x
      BY <2>2 DEF TodoSound
    <3>2. i # Len(stack)
      BY <3>1, <1>1, ReactiveAssumption DEF o
    <3>3. i \in DOMAIN stack' /\ stack'[i] = x
      BY <3>1, <3>2, <1>2, <1>3
    <3> QED BY <3>3
  <2> QED BY <1>0, <2>1, <2>2 DEF TodoSound
<1>13. StackOK'
  <2>1. \A i \in DOMAIN stack' : stack'[i] \in Objs => ost'[stack'[i]] = "dying"
    BY <1>2, <1>3, <1>4, <1>5 DEF StackOK
  <2>2. \A i, j \in DOMAIN stack' : stack'[i] = stack'[j] /\ stack'[i] \in Objs => i = j
    BY <1>2, <1>3 DEF StackOK
  <2>3. \A x \in Objs : ost'[x] = "dying" => \E i \in DOMAIN stack' : stack'[i] = x
    <3> SUFFICES ASSUME NEW x \in Objs, ost'[x] = "dying"
                 PROVE  \E i \in DOMAIN stack' : stack'[i] = x
      OBVIOUS
    <3>1. x # o /\ ost[x] = "dying"
      BY <1>4
    <3>2. PICK i \in DOMAIN stack : stack[i] = x
      BY <3>1 DEF StackOK
    <3>3. i # Len(stack)
      BY <3>1, <3>2 DEF o
    <3> QED BY <3>2, <3>3, <1>2, <1>3
  <2>4. "handler" \notin Env =>
          \A i \in DOMAIN stack' : stack'[i] \in Objs => i = Len(stack')
    BY <1>2, <1>3 DEF StackOK
  <2> QED BY <2>1, <2>2, <2>3, <2>4 DEF StackOK
<1> QED BY <1>6, <1>7, <1>9, <1>10, <1>11, <1>12, <1>13

-----------------------------------------------------------------------------
(* The invariant, and what follows from it.                                 *)

\* Every step of the system keeps the invariant.
LEMMA NextKeeps == IInv /\ [Next]_vars => IInv'
<1> SUFFICES ASSUME IInv, [Next]_vars PROVE IInv'
  OBVIOUS
<1>1. ASSUME NEW s \in Inputs, NEW v \in Values, Notify(s, v) PROVE IInv'
  BY <1>1, NotifyKeeps
<1>2. ASSUME NEW d \in Derived, NEW e \in Exprs, SubjectExpr(d, e) PROVE IInv'
  BY <1>2, SubjectExprKeeps
<1>3. ASSUME NEW b \in Bindings, NEW g \in Groups, NEW e \in Exprs,
             NEW i \in BOOLEAN, Bind(b, g, e, i)
      PROVE  IInv'
  BY <1>3, BindKeeps
<1>4. ASSUME NEW b \in Bindings, ObserveBinding(b) PROVE IInv'
  BY <1>4, ObserveBindingKeeps
<1>5. ASSUME NEW d \in Derived, ObserveDerived(d) PROVE IInv'
  BY <1>5, ObserveDerivedKeeps
<1>6. ASSUME NEW g \in Groups, Touch(g) PROVE IInv'
  BY <1>6, TouchKeeps
<1>7. ASSUME NEW o \in Objs, Delete(o) PROVE IInv'
  BY <1>7, DeleteKeeps
<1>8. CASE Notified
  BY <1>8, NotifiedKeeps
<1>9. CASE DeleteHooks
  BY <1>9, DeleteHooksKeeps
<1>10. CASE Deleted
  BY <1>10, DeletedKeeps
<1>11. CASE UNCHANGED vars
  <2>1. /\ val' = val /\ def' = def /\ ost' = ost /\ stack' = stack /\ todo' = todo
        /\ expr' = expr /\ inv' = inv /\ grp' = grp /\ slot' = slot /\ subs' = subs
        /\ order' = order /\ gst' = gst /\ count' = count
        /\ held' = held /\ worn' = worn /\ dirty' = dirty
    BY <1>11 DEF vars, bindVars, groupVars
  <2>2. TypeOK'
    BY <2>1 DEF IInv, TypeOK
  <2>5. RefsKnown' /\ SubsExact'
    BY <2>1 DEF IInv, RefsKnown, SubsExact, Bound, Known
  <2>6. TodoSound'
    <3>1. \A s \in Subjects : Observers(s)' = Observers(s)
      BY <2>1 DEF Observers
    <3> QED BY <2>1, <3>1 DEF IInv, TodoSound
  <2>7. StackOK'
    BY <2>1 DEF IInv, StackOK
  <2>3. OrderOK' /\ LiveGroups' /\ BindingsTold'
    BY <2>1 DEF IInv, OrderOK, LiveGroups, BindingsTold, Bound, True
  <2>4. DerivedTold' /\ WornIsOr' /\ SharesDistinct'
    BY <2>1 DEF IInv, DerivedTold, WornIsOr, SharesDistinct, OnGroup, Bound
  <2> QED BY <2>2, <2>3, <2>4, <2>5, <2>6, <2>7 DEF IInv
<1> QED BY <1>1, <1>2, <1>3, <1>4, <1>5, <1>6, <1>7, <1>8, <1>9, <1>10, <1>11 DEF Next

\* The invariant holds in every reachable state.
LEMMA Invariance == Spec => []IInv
BY InitIInv, NextKeeps, PTL DEF Spec

\* The variables of the reactive layer keep their types.
THEOREM ReactiveTypeCorrect == Spec => []TypeOK
<1>1. IInv => TypeOK
  BY DEF IInv
<1> QED BY <1>1, Invariance, PTL

\* The shares of a triple stay distinct bits, each held by a binding that is
\* still there (lv_xml_bind_target_init(), lv_xml_bind_target_set()).
THEOREM SharesStayDistinct == Spec => []SharesDistinct
<1>1. IInv => SharesDistinct
  BY DEF IInv
<1> QED BY <1>1, Invariance, PTL

\* A derived subject equals its expression when nothing is being notified.
THEOREM DerivedAlwaysSettles == Spec => []DerivedSettled
<1>1. IInv => DerivedSettled
  <2> SUFFICES ASSUME IInv, stack = <<>>, NEW d \in Derived, def[d] # NoExpr,
                      val[d] # Eval[def[d]][val]
               PROVE  FALSE
    BY DEF DerivedSettled, Quiet
  <2>1. PICK s \in Subjects : d \in todo[s]
    BY DEF IInv, DerivedTold
  <2>2. \E i \in DOMAIN stack : stack[i] = s
    BY <2>1 DEF IInv, TodoSound
  <2>3. DOMAIN stack = {}
    OBVIOUS
  <2> QED BY <2>2, <2>3
<1> QED BY <1>1, Invariance, PTL

\* What a widget wears is the OR of the conditions on it when nothing is being
\* notified: the promise of lv_xml_bind_compose.h.
THEOREM BindingsAlwaysCompose == Spec => []ComposedWhenQuiet
<1>1. IInv => ComposedWhenQuiet
  <2> SUFFICES ASSUME IInv, stack = <<>>, NEW g \in Groups, Composes(g),
                      OnGroup(g) # {}, g \notin dirty
               PROVE  worn[g] <=> \E b \in OnGroup(g) : True(b)
    BY DEF ComposedWhenQuiet, Quiet
  <2>1. DOMAIN stack = {}
    OBVIOUS
  <2>2. \A s \in Subjects : todo[s] = {}
    BY <2>1 DEF IInv, TodoSound
  <2>3. \A b \in OnGroup(g) :
          /\ b \in Bindings /\ Bound(b) /\ grp[b] = g /\ slot[b] # NoSlot
          /\ subs[b] = Deps[expr[b]] /\ ost[Owner[g]] = "live"
    BY DEF IInv, SubsExact, Composes, OnGroup
  <2>4. \A b \in OnGroup(g) : slot[b] \in held[g] <=> True(b)
    BY <2>2, <2>3 DEF IInv, BindingsTold
  <2>5. gst[g] = "alive" /\ ost[Owner[g]] = "live"
    BY <2>3 DEF IInv, LiveGroups
  <2>6. worn[g] <=> held[g] # {}
    BY <2>3, <2>5 DEF IInv, WornIsOr
  <2>7. \A k \in held[g] : \E b \in OnGroup(g) : slot[b] = k
    BY <2>5 DEF IInv, SharesDistinct
  <2> QED BY <2>4, <2>6, <2>7
<1> QED BY <1>1, Invariance, PTL

\* Bits are never cleared over the head of a condition that is true and knows.
THEOREM NothingClearedFalsely == Spec => NoFalseClear
<1> DEFINE Safe ==
      \A g \in Groups :
        /\ Composes(g)' /\ worn[g] /\ ~worn'[g] /\ g \notin dirty'
        => \A b \in OnGroup(g)' : True(b)' => \E s \in Subjects : b \in todo'[s]
<1>1. IInv' => Safe
  <2> SUFFICES ASSUME IInv', NEW g \in Groups, Composes(g)', ~worn'[g], g \notin dirty',
                      NEW b \in OnGroup(g)', True(b)'
               PROVE  \E s \in Subjects : b \in todo'[s]
    OBVIOUS
  <2>1. \A c \in OnGroup(g)' :
          /\ c \in Bindings /\ Bound(c)' /\ grp'[c] = g /\ slot'[c] # NoSlot
          /\ subs'[c] = Deps[expr'[c]] /\ ost'[Owner[g]] = "live"
    BY DEF IInv, SubsExact, Composes, OnGroup
  <2>2. gst'[g] = "alive" /\ ost'[Owner[g]] = "live"
    BY <2>1 DEF IInv, LiveGroups
  <2>3. held'[g] = {}
    BY <2>1, <2>2 DEF IInv, WornIsOr
  <2>4. ~(slot'[b] \in held'[grp'[b]] <=> True(b)')
    BY <2>1, <2>3
  <2> QED BY <2>1, <2>2, <2>4 DEF IInv, BindingsTold
<1>2. IInv /\ [Next]_vars => [Safe]_vars
  BY <1>1, NextKeeps
<1> QED BY <1>2, Invariance, PTL DEF Spec, NoFalseClear

\* Without DELETE handlers that set subjects, a binding that is told of a change
\* finds its group: no observer is called while an object's hooks run.
THEOREM GroupsOutliveBindings ==
  ASSUME "handler" \notin Env
  PROVE  Spec => GroupOutlivesBindings
<1> DEFINE Safe == \A b \in Bindings : ObserveBinding(b) =>
                     slot[b] = NoSlot \/ gst[grp[b]] = "alive"
<1>1. IInv => Safe
  <2> SUFFICES ASSUME IInv, NEW b \in Bindings, ObserveBinding(b)
               PROVE  gst[grp[b]] = "alive"
    OBVIOUS
  <2>1. stack # <<>> /\ Top \in Subjects /\ b \in todo[Top]
    BY DEF ObserveBinding
  <2>2. b \notin Derived
    BY ReactiveAssumption DEF Subjects
  <2>3. expr[b] # NoExpr
    BY <2>1, <2>2 DEF IInv, TodoSound, Observers, SubsExact, Bound
  <2> DEFINE o == Owner[grp[b]]
  <2>4. o \in Objs
    BY ReactiveAssumption DEF IInv, TypeOK
  <2>5. ost[o] # "dying"
    <3> SUFFICES ASSUME ost[o] = "dying" PROVE FALSE
      OBVIOUS
    <3>1. PICK i \in DOMAIN stack : stack[i] = o
      BY <2>4 DEF IInv, StackOK
    <3>2. i = Len(stack)
      BY <2>4, <3>1 DEF IInv, StackOK
    <3> QED BY <2>1, <2>4, <3>1, <3>2, ReactiveAssumption DEF Top
  <2>6. ost[o] # "gone"
    <3>1. DOMAIN order[o] # {}
      BY <2>3 DEF IInv, OrderOK, Bound
    <3>2. DOMAIN <<>> = {}
      OBVIOUS
    <3> QED BY <2>4, <3>1, <3>2 DEF IInv, OrderOK
  <2>7. ost[o] = "live"
    BY <2>4, <2>5, <2>6 DEF IInv, TypeOK
  <2> QED BY <2>3, <2>7 DEF IInv, LiveGroups, Bound
<1>2. IInv /\ [Next]_vars => [Safe]_vars
  BY <1>1
<1> QED BY <1>2, Invariance, PTL DEF Spec, GroupOutlivesBindings
=============================================================================
