------------------------ MODULE ScopeLifecycleProofs ------------------------
(***************************************************************************)
(* Type correctness, the lifetime invariants and the storage promise of     *)
(* ScopeLifecycle, for any number of names, scopes and objects.            *)
(***************************************************************************)
EXTENDS ScopeLifecycle, FiniteSetTheorems, TLAPS

USE ScopeAssumption

-----------------------------------------------------------------------------
(* The initial states.                                                      *)

\* The invariant holds before anything is registered.
LEMMA InitIInv == Init => IInv
<1> SUFFICES ASSUME Init PROVE IInv
  OBVIOUS
<1>1. TypeOK
  BY DEF Init, TypeOK, Screens, Frame
<1>2. Fresh /\ TreeOK /\ StackOK /\ MadeOK
  BY DEF Init, Fresh, TreeOK, IsForest, StackOK, MadeOK, Exists
<1>3. FiniteInsts /\ CountExact
  BY FS_EmptySet DEF Init, FiniteInsts, CountExact, Allocated
<1>4. HooksValid /\ LookupsExact /\ QueuedFreeSound
  BY DEF Init, HooksValid, LookupsExact, QueuedFreeSound
<1> QED BY <1>1, <1>2, <1>3, <1>4 DEF IInv

\* The frames of the parse stack are typed.
LEMMA FrameTyped ==
  ASSUME TypeOK, NEW i \in DOMAIN stack
  PROVE  /\ stack[i] = [scope |-> stack[i].scope, root |-> stack[i].root]
         /\ stack[i].scope \in Scopes /\ stack[i].root \in Objs
<1>1. stack \in Seq(Frame) /\ DOMAIN stack = 1..Len(stack)
  BY DEF TypeOK
<1>2. stack[i] \in Frame
  BY <1>1
<1> QED BY <1>2 DEF Frame

-----------------------------------------------------------------------------
(* Registration and unregistration.                                         *)

\* A scope that is retired with a live instance is not freed.
LEMMA FreedHasNoInstances ==
  ASSUME IInv, NEW s \in Scopes, Allocated(s), ~Held(s)
  PROVE  insts[s] = {} /\ cnt[s] = 0 /\ \A o \in Objs : hook[o] # s
<1>1. cnt[s] = 0
  BY DEF IInv, TypeOK, Held
<1>2. insts[s] = {}
  BY <1>1, FS_EmptySet DEF IInv, CountExact, FiniteInsts
<1> QED BY <1>1, <1>2 DEF IInv, CountExact

\* Registration retires the older scopes of the name, and keeps the invariant.
LEMMA RegisterKeeps ==
  ASSUME IInv, NEW n \in Names, NEW s \in Scopes, Register(n, s)
  PROVE  IInv'
<1> DEFINE others == {x \in Scopes : st[x] = "live" /\ name[x] = n}
           freed == {x \in others : ~Held(x)}
<1> USE DEF IInv
<1>0. /\ st[s] = "unused"
      /\ st' = [x \in Scopes |-> IF x \in freed THEN "freed"
                                 ELSE IF x \in others THEN "pending"
                                 ELSE IF x = s THEN "live" ELSE st[x]]
      /\ name' = [name EXCEPT ![s] = n]
      /\ index' = [index EXCEPT ![n] = s]
      /\ UNCHANGED <<up, cnt, made, borrowed, freeQ, objVars, active, stack>>
  BY DEF Register, Retired, TypeOK
<1>1. \A x \in freed : insts[x] = {} /\ \A o \in Objs : hook[o] # x
  BY FreedHasNoInstances DEF Allocated
<1>2. hook' = hook /\ insts' = insts
  BY <1>1 DEF Register, Disarm, TypeOK
<1>3. \A x \in Scopes : Allocated(x) /\ x \notin freed => Allocated(x)'
  BY <1>0 DEF Allocated, TypeOK
<1>4. \A x \in Scopes : Allocated(x)' => x = s \/ (Allocated(x) /\ x \notin freed)
  BY <1>0 DEF Allocated, TypeOK
<1>5. stack # <<>> => others = {}
  BY DEF Register, AppRuns, LoaderRuns, LookupsExact
<1>6. TypeOK'
  BY <1>0, <1>2 DEF TypeOK, objVars
<1>7. Fresh' /\ FiniteInsts'
  BY <1>0, <1>2 DEF Fresh, FiniteInsts, TypeOK
<1>8. TreeOK' /\ MadeOK'
  BY <1>0, <1>2 DEF TreeOK, MadeOK, objVars, Exists
<1>9. StackOK'
  <2>1. freed = {} \/ stack = <<>>
    BY <1>5
  <2>2. \A i \in DOMAIN stack : Allocated(stack[i].scope)'
    BY <2>1, <1>0, <1>3, FrameTyped DEF StackOK
  <2> QED BY <2>2, <1>0, <1>2 DEF StackOK, objVars
<1>10. HooksValid'
  BY <1>0, <1>1, <1>2, <1>3 DEF HooksValid, objVars, TypeOK
<1>11. CountExact'
  <2>0. s # NoScope
    BY ScopeAssumption
  <2>1. insts[s] = {} /\ cnt[s] = 0 /\ \A o \in Objs : hook[o] # s
    BY <2>0, <1>0 DEF Fresh, HooksValid, Allocated, TypeOK
  <2>2. insts'[s] = {o \in Objs : hook'[o] = s} /\ cnt'[s] = Cardinality(insts'[s])
    BY <2>1, <1>0, <1>2, FS_EmptySet
  <2> QED BY <2>2, <1>0, <1>2, <1>4 DEF CountExact
<1>12. LookupsExact'
  BY <1>0 DEF LookupsExact, TypeOK
<1>13. QueuedFreeSound'
  BY <1>0 DEF QueuedFreeSound, TypeOK
<1> QED BY <1>6, <1>7, <1>8, <1>9, <1>10, <1>11, <1>12, <1>13

\* A failed registration hands the name back, and keeps the invariant.
LEMMA RegisterFailsKeeps ==
  ASSUME IInv, NEW n \in Names, NEW s \in Scopes, RegisterFails(n, s)
  PROVE  IInv'
<1> USE DEF IInv
<1>0. /\ st[s] = "unused"
      /\ st' = [st EXCEPT ![s] = "freed"]
      /\ name' = [name EXCEPT ![s] = n]
      /\ index' = [index EXCEPT ![n] = Successor(n, {s})]
      /\ UNCHANGED <<up, countVars, borrowed, freeQ, objVars, active, stack>>
  BY DEF RegisterFails
<1>1. \A x \in Scopes : Allocated(x)' <=> Allocated(x)
  BY <1>0 DEF Allocated, TypeOK
<1>2. index' = index
  <2>1. \A x \in Scopes : st[x] = "live" /\ name[x] = n => x = index[n]
    BY DEF LookupsExact
  <2>2. index[n] # NoScope => index[n] \in Scopes \ {s} /\ st[index[n]] = "live" /\ name[index[n]] = n
    BY <1>0 DEF LookupsExact, TypeOK
  <2>3. Successor(n, {s}) = index[n]
    BY <2>1, <2>2 DEF Successor, TypeOK
  <2> QED BY <2>3, <1>0 DEF TypeOK
<1>3. TypeOK'
  BY <1>0, <1>2 DEF TypeOK, objVars, countVars
<1>4. Fresh' /\ FiniteInsts' /\ TreeOK' /\ MadeOK'
  BY <1>0 DEF Fresh, FiniteInsts, TreeOK, MadeOK, Exists, objVars, countVars, TypeOK
<1>5. StackOK'
  BY <1>0, <1>1, FrameTyped DEF StackOK, objVars, countVars
<1>6. HooksValid' /\ CountExact'
  BY <1>0, <1>1 DEF HooksValid, CountExact, objVars, countVars, TypeOK
<1>7. LookupsExact'
  <2>1. \A x \in Scopes : st'[x] = "live" <=> st[x] = "live"
    BY <1>0 DEF TypeOK
  <2>2. \A x \in Scopes : st[x] = "live" => name'[x] = name[x]
    BY <1>0 DEF TypeOK
  <2>3. \A m \in Names : index[m] # NoScope => index[m] \in Scopes
    BY DEF TypeOK
  <2> QED BY <2>1, <2>2, <2>3, <1>2 DEF LookupsExact
<1>8. QueuedFreeSound'
  BY <1>0 DEF QueuedFreeSound, TypeOK, countVars
<1> QED BY <1>3, <1>4, <1>5, <1>6, <1>7, <1>8

\* Unregistration keeps the invariant.
LEMMA UnregisterKeeps ==
  ASSUME IInv, NEW n \in Names, Unregister(n)
  PROVE  IInv'
<1> DEFINE s == index[n]
           held == Held(s)
<1> USE DEF IInv
<1>0. /\ s \in Scopes /\ st[s] = "live" /\ name[s] = n
      /\ stack = <<>>
      /\ st' = [st EXCEPT ![s] = IF held THEN "pending" ELSE "freed"]
      /\ index' = [index EXCEPT ![n] = Successor(n, {s})]
      /\ UNCHANGED <<up, name, cnt, made, borrowed, freeQ, objVars, active, stack>>
  <2>1. s \in Scopes /\ st[s] = "live" /\ name[s] = n
    BY DEF Unregister, LookupsExact, TypeOK
  <2>2. st' = [st EXCEPT ![s] = IF held THEN "pending" ELSE "freed"]
    BY <2>1 DEF Unregister, Retired, TypeOK
  <2> QED BY <2>1, <2>2 DEF Unregister, AppRuns
<1>1. ~held => insts[s] = {} /\ \A o \in Objs : hook[o] # s
  BY <1>0, FreedHasNoInstances DEF Allocated
<1>2. hook' = hook /\ insts' = insts
  BY <1>0, <1>1 DEF Unregister, Disarm, TypeOK
<1>3. \A x \in Scopes : Allocated(x)' <=> Allocated(x) /\ (x = s => held)
  BY <1>0 DEF Allocated, TypeOK
<1>4. Successor(n, {s}) = NoScope
  BY <1>0 DEF Successor, LookupsExact
<1>5. TypeOK'
  BY <1>0, <1>2, <1>4 DEF TypeOK, objVars
<1>6. Fresh' /\ FiniteInsts'
  BY <1>0, <1>2 DEF Fresh, FiniteInsts, TypeOK
<1>7. TreeOK' /\ MadeOK' /\ StackOK'
  BY <1>0, <1>2 DEF TreeOK, MadeOK, StackOK, Exists, objVars
<1>8. HooksValid' /\ CountExact'
  BY <1>0, <1>1, <1>2, <1>3 DEF HooksValid, CountExact, objVars, TypeOK
<1>9. LookupsExact'
  BY <1>0, <1>4 DEF LookupsExact, TypeOK
<1>10. QueuedFreeSound'
  BY <1>0 DEF QueuedFreeSound, TypeOK
<1> QED BY <1>5, <1>6, <1>7, <1>8, <1>9, <1>10
-----------------------------------------------------------------------------
(* How the forest of objects changes.                                       *)

\* A new object o under p (or a new root, when p is o).
LEMMA GrowForest ==
  ASSUME NEW E \in SUBSET Objs, NEW w \in [Objs -> SUBSET Objs], IsForest(E, w),
         NEW o \in Objs \ E, NEW p \in E \cup {o}
  PROVE  IsForest(E \cup {o}, [w EXCEPT ![o] = {o} \cup w[p]])
<1> DEFINE v == [w EXCEPT ![o] = {o} \cup w[p]]
<1>1. /\ v[o] = {o} \cup w[p]
      /\ \A x \in Objs : x # o => v[x] = w[x]
  OBVIOUS
<1>2. w[o] = {} /\ \A x \in E : x \in w[x] /\ w[x] \subseteq E /\ o \notin w[x]
  BY DEF IsForest
<1>3. w[p] \subseteq E
  BY <1>2
<1>4. \A x \in Objs \ (E \cup {o}) : v[x] = {}
  BY <1>1 DEF IsForest
<1>5. \A x \in E \cup {o} : x \in v[x] /\ v[x] \subseteq E \cup {o}
  BY <1>1, <1>2, <1>3
<1>6. ASSUME NEW x \in E \cup {o}, NEW y \in v[x]
      PROVE  /\ v[y] \subseteq v[x]
             /\ x \in v[y] => x = y
             /\ \A z \in v[x] : y \in v[z] \/ z \in v[y]
  <2>1. CASE x \in E
    <3>1. y \in E /\ v[x] = w[x] /\ v[y] = w[y] /\ \A z \in v[x] : v[z] = w[z]
      BY <2>1, <1>1, <1>2
    <3> QED BY <3>1, <2>1 DEF IsForest
  <2>2. CASE x = o
    <3>1. \A z \in w[p] : z \in E /\ p \in E /\ v[z] = w[z]
      BY <1>1, <1>2, <1>3
    <3>2. CASE y = o
      BY <3>1, <3>2, <2>2, <1>1, <1>2, <1>5
    <3>3. CASE y \in w[p]
      <4>1. w[y] \subseteq w[p] /\ \A z \in w[p] : y \in w[z] \/ z \in w[y]
        BY <3>1, <3>3 DEF IsForest
      <4>2. o \notin v[y]
        BY <3>1, <3>3, <1>2
      <4> QED BY <4>1, <4>2, <3>1, <3>3, <2>2, <1>1
    <3> QED BY <3>2, <3>3, <2>2, <1>1
  <2> QED BY <2>1, <2>2
<1> QED BY <1>4, <1>5, <1>6 DEF IsForest

\* o and what is below it become a tree of their own.
LEMMA MoveForest ==
  ASSUME NEW E \in SUBSET Objs, NEW w \in [Objs -> SUBSET Objs], IsForest(E, w),
         NEW o \in E
  PROVE  IsForest(E, [x \in Objs |-> IF x \in E /\ o \in w[x]
                                     THEN (w[x] \ w[o]) \cup {o} ELSE w[x]])
<1> DEFINE v == [x \in Objs |-> IF x \in E /\ o \in w[x]
                                THEN (w[x] \ w[o]) \cup {o} ELSE w[x]]
           U == {x \in E : o \in w[x]}
<1>1. /\ \A x \in Objs : v[x] = IF x \in U THEN (w[x] \ w[o]) \cup {o} ELSE w[x]
      /\ \A x \in U : x \in E /\ o \in w[x]
  OBVIOUS
<1> HIDE DEF v
<1>2. \A x \in E : x \in w[x] /\ w[x] \subseteq E
  BY DEF IsForest
<1>3. \A x \in E : \A y \in w[x] : w[y] \subseteq w[x] /\ (x \in w[y] => x = y)
  BY DEF IsForest
<1>4. \A x \in Objs \ E : v[x] = {}
  BY <1>1 DEF IsForest
<1>5. \A x \in E : x \in v[x] /\ v[x] \subseteq E
  <2> TAKE x \in E
  <2>1. x \in U /\ x # o => x \notin w[o]
    BY <1>3
  <2> QED BY <1>1, <1>2, <2>1
<1>6. \A x \in U : \A y \in w[x] \ w[o] : y \in U
  <2> TAKE x \in U
  <2> TAKE y \in w[x] \ w[o]
  <2>1. y \in w[o] \/ o \in w[y]
    BY <1>1 DEF IsForest
  <2> QED BY <2>1, <1>1, <1>2
<1>7. \A x \in E \ U : \A y \in w[x] : y \in E \ U
  BY <1>1, <1>2, <1>3
<1>8. o \in U /\ v[o] = {o}
  BY <1>1, <1>2
<1>9. ASSUME NEW x \in E, NEW y \in v[x]
      PROVE  /\ v[y] \subseteq v[x]
             /\ x \in v[y] => x = y
             /\ \A z \in v[x] : y \in v[z] \/ z \in v[y]
  <2>1. CASE x \notin U
    <3>1. v[x] = w[x] /\ \A z \in w[x] : v[z] = w[z]
      BY <2>1, <1>1, <1>2, <1>7
    <3> QED BY <3>1 DEF IsForest
  <2>2. CASE x \in U /\ y = o
    <3>1. \A z \in v[x] : z \in U
      BY <2>2, <1>1, <1>6, <1>8
    <3>2. \A z \in v[x] : o \in v[z]
      BY <3>1, <1>1, <1>2
    <3> QED BY <3>2, <2>2, <1>1, <1>8
  <2>3. CASE x \in U /\ y # o
    <3>1. y \in w[x] \ w[o] /\ y \in U
      BY <2>3, <1>1, <1>6
    <3>2. v[x] = (w[x] \ w[o]) \cup {o} /\ v[y] = (w[y] \ w[o]) \cup {o}
      BY <3>1, <2>3, <1>1, <1>2
    <3>3. w[y] \subseteq w[x] /\ (x \in w[y] => x = y)
      BY <3>1, <1>3
    <3>4. x = o => y = o
      BY <3>1
    <3>5. ASSUME NEW z \in w[x] \ w[o] PROVE y \in v[z] \/ z \in v[y]
      <4>1. z \in U /\ v[z] = (w[z] \ w[o]) \cup {o}
        BY <3>5, <2>3, <1>1, <1>2, <1>6
      <4>2. y \in w[z] \/ z \in w[y]
        BY <3>1 DEF IsForest
      <4> QED BY <4>1, <4>2, <3>1, <3>2
    <3> QED BY <3>2, <3>3, <3>4, <3>5, <2>3
  <2> QED BY <2>1, <2>2, <2>3
<1> QED BY <1>4, <1>5, <1>9 DEF IsForest, v

\* The objects of D go, with everything below them.
LEMMA PruneForest ==
  ASSUME NEW E \in SUBSET Objs, NEW w \in [Objs -> SUBSET Objs], IsForest(E, w),
         NEW D \in SUBSET E, \A x \in E \ D : w[x] \cap D = {}
  PROVE  IsForest(E \ D, [x \in Objs |-> IF x \in D THEN {} ELSE w[x]])
BY DEF IsForest

\* What the shape of the object tree says of one object and its ancestors.
LEMMA TreeFacts ==
  ASSUME TypeOK, TreeOK, NEW x \in Objs, NEW y \in within[x]
  PROVE  /\ y \in Objs /\ Exists(x) /\ Exists(y)
         /\ y \in within[y] /\ x \in within[x]
         /\ within[y] \subseteq within[x]
         /\ x \in within[y] => x = y
         /\ ost[x] = "live" => ost[y] = "live"
BY DEF TypeOK, TreeOK, IsForest
-----------------------------------------------------------------------------
(* Creation.                                                                *)

\* An object is built under a live one or as a root; what else the step does
\* leaves the forest alone.
LEMMA BuildKeepsTree ==
  ASSUME TypeOK, TreeOK, NEW o \in Objs, NEW p \in Objs, NEW H \in SUBSET Scopes,
         Build(o, p, H), p = o \/ ost[p] = "live"
  PROVE  /\ TreeOK'
         /\ ost' \in [Objs -> {"unused", "live", "dying", "gone"}]
         /\ within' \in [Objs -> SUBSET Objs]
         /\ holds' \in [Objs -> SUBSET Scopes]
<1> DEFINE E == {x \in Objs : Exists(x)}
<1>0. /\ ost[o] = "unused"
      /\ ost' = [ost EXCEPT ![o] = "live"]
      /\ within' = [within EXCEPT ![o] = {o} \cup within[p]]
      /\ holds' = [holds EXCEPT ![o] = H]
  BY DEF Build
<1>1. {x \in Objs : Exists(x)}' = E \cup {o}
  BY <1>0 DEF Exists, TypeOK
<1>2. o \in Objs \ E /\ p \in E \cup {o}
  BY <1>0 DEF Exists
<1>3. IsForest(E \cup {o}, within')
  BY <1>0, <1>2, GrowForest DEF TreeOK, TypeOK
<1>4. \A x \in Objs : \A y \in within'[x] : ost'[x] = "live" => ost'[y] = "live"
  <2> TAKE x \in Objs
  <2>1. CASE x # o
    BY <2>1, <1>0, TreeFacts DEF TypeOK
  <2>2. CASE x = o
    <3>1. ASSUME NEW y \in within'[o], y # o PROVE ost'[y] = "live"
      <4>1. y \in within[p]
        BY <3>1, <1>0 DEF TypeOK
      <4>2. ost[p] = "live"
        BY <4>1, <1>0, TreeFacts DEF Exists
      <4>3. y \in Objs /\ ost[y] = "live"
        BY <4>1, <4>2, TreeFacts
      <4> QED BY <4>3, <1>0 DEF TypeOK
    <3>2. ost'[o] = "live"
      BY <1>0 DEF TypeOK
    <3> QED BY <3>1, <3>2, <2>2
  <2> QED BY <2>1, <2>2
<1>5. TreeOK'
  BY <1>1, <1>3, <1>4 DEF TreeOK
<1> QED BY <1>5, <1>0 DEF TypeOK

\* What Build does to the rest of the invariant.
LEMMA BuildKeeps ==
  ASSUME IInv, NEW o \in Objs, NEW p \in Objs, NEW H \in SUBSET Scopes,
         Build(o, p, H), p = o \/ ost[p] = "live",
         UNCHANGED <<up, st, name, index, countVars, freeQ, active>>
  PROVE  Fresh' /\ FiniteInsts' /\ TreeOK' /\ MadeOK' /\ HooksValid' /\ CountExact'
         /\ LookupsExact' /\ QueuedFreeSound'
<1> USE DEF IInv
<1>0. /\ ost[o] = "unused"
      /\ ost' = [ost EXCEPT ![o] = "live"]
  BY DEF Build
<1>1. \A s \in Scopes : Allocated(s)' <=> Allocated(s)
  BY DEF Allocated
<1>2. made[o] = NoScope
  BY <1>0 DEF MadeOK, Exists
<1>3. TreeOK'
  BY BuildKeepsTree
<1>4. MadeOK'
  BY <1>0, <1>2 DEF MadeOK, Exists, TypeOK, countVars
<1>5. HooksValid'
  BY <1>0, <1>1 DEF HooksValid, Allocated, TypeOK, countVars
<1>6. Fresh' /\ FiniteInsts' /\ CountExact'
  BY <1>1 DEF Fresh, FiniteInsts, CountExact, countVars
<1>7. LookupsExact' /\ QueuedFreeSound'
  BY DEF LookupsExact, QueuedFreeSound, countVars
<1> QED BY <1>3, <1>4, <1>5, <1>6, <1>7

\* The start of a view keeps the invariant.
LEMMA CreateBeginKeeps ==
  ASSUME IInv, NEW s \in Scopes, NEW o \in Objs, CreateBegin(s, o)
  PROVE  IInv'
<1> DEFINE p == IF stack = <<>> THEN o ELSE Top.root
           f == [scope |-> s, root |-> o]
<1> USE DEF IInv
<1>1. PICK H \in SUBSET Scopes : Build(o, p, H)
  BY DEF CreateBegin, OwnStyles
<1>2. stack # <<>> => /\ Len(stack) \in DOMAIN stack /\ Top.root \in Objs
                      /\ ost[Top.root] = "live"
  <2> SUFFICES ASSUME stack # <<>> PROVE Len(stack) \in DOMAIN stack
    BY FrameTyped DEF StackOK, Top
  <2>1. stack \in Seq(Frame)
    BY DEF TypeOK
  <2> QED BY <2>1
<1>3. p \in Objs /\ (p = o \/ ost[p] = "live")
  BY <1>2
<1>4. /\ UNCHANGED <<up, registryVars, countVars, freeQ, active, sinkQ>>
      /\ stack' = Append(stack, f)
      /\ up
      /\ Allocated(s)
  BY DEF CreateBegin, Allocated
<1>5. Fresh' /\ FiniteInsts' /\ TreeOK' /\ MadeOK' /\ HooksValid' /\ CountExact'
      /\ LookupsExact' /\ QueuedFreeSound'
  BY <1>1, <1>3, <1>4, BuildKeeps DEF registryVars
<1>6. TypeOK'
  <2>1. screen' \in [Objs -> Screens \cup {"layer"}]
    <3>1. \E d \in Screens \cup {"layer"} : screen' = [screen EXCEPT ![o] = d]
      BY <1>2 DEF CreateBegin, TypeOK, Screens
    <3> QED BY <3>1 DEF TypeOK
  <2>2. stack' \in Seq(Frame)
    <3>1. f \in Frame /\ stack \in Seq(Frame)
      BY DEF Frame, TypeOK
    <3> QED BY <3>1, <1>4
  <2>3. /\ ost' \in [Objs -> {"unused", "live", "dying", "gone"}]
        /\ within' \in [Objs -> SUBSET Objs]
        /\ holds' \in [Objs -> SUBSET Scopes]
    BY <1>1, <1>3, BuildKeepsTree
  <2> QED BY <2>1, <2>2, <2>3, <1>4 DEF TypeOK, registryVars, countVars
<1>7. StackOK'
  <2>1. /\ stack \in Seq(Frame) /\ DOMAIN stack = 1..Len(stack) /\ Len(stack) \in Nat
        /\ DOMAIN stack' = 1..(Len(stack) + 1)
        /\ stack'[Len(stack) + 1] = f
        /\ \A i \in DOMAIN stack : stack'[i] = stack[i]
    BY <1>4 DEF TypeOK
  <2>2. /\ ost[o] = "unused" /\ ost' = [ost EXCEPT ![o] = "live"]
        /\ within' = [within EXCEPT ![o] = {o} \cup within[p]]
    BY <1>1 DEF Build
  <2>3. \A x \in Scopes : Allocated(x)' <=> Allocated(x)
    BY <1>4 DEF Allocated, registryVars
  <2>4. hook[o] = NoScope /\ made[o] = NoScope
    BY <2>2 DEF HooksValid, MadeOK, Exists
  <2>5. \A i \in DOMAIN stack : /\ stack[i].root \in Objs /\ stack[i].scope \in Scopes
                                /\ stack[i].root # o
                                /\ o \notin within[stack[i].root]
    BY <2>2, FrameTyped, TreeFacts DEF StackOK, Exists
  <2>6. ASSUME NEW i \in DOMAIN stack'
        PROVE  /\ Allocated(stack[i].scope)'
               /\ ost'[stack'[i].root] = "live"
               /\ hook'[stack'[i].root] = NoScope
               /\ made'[stack'[i].root] = NoScope
    <3>1. CASE i \in DOMAIN stack
      <4>1. stack'[i] = stack[i] /\ Allocated(stack[i].scope)
        BY <3>1, <2>1 DEF StackOK
      <4>2. ost'[stack[i].root] = "live" /\ stack[i].scope \in Scopes
        BY <3>1, <2>2, <2>5 DEF StackOK, TypeOK
      <4> QED BY <3>1, <4>1, <4>2, <1>4 DEF StackOK, countVars, Allocated, registryVars
    <3>2. CASE i = Len(stack) + 1
      <4>1. stack'[i] = f /\ ost'[o] = "live"
        BY <3>2, <2>1, <2>2 DEF TypeOK
      <4>2. hook'[o] = NoScope /\ made'[o] = NoScope
        BY <2>4, <1>4 DEF countVars
      <4> QED BY <4>1, <4>2, <1>4 DEF Allocated, registryVars
    <3> QED BY <3>1, <3>2, <2>1
  <2>7. ASSUME NEW i \in DOMAIN stack', NEW j \in DOMAIN stack', i < j
        PROVE  stack'[j].root \notin within'[stack'[i].root]
    <3>0. i \in DOMAIN stack
      BY <2>1, <2>7
    <3>1. within'[stack'[i].root] = within[stack[i].root]
      BY <3>0, <2>1, <2>2, <2>5 DEF TypeOK
    <3>2. CASE j \in DOMAIN stack
      BY <3>0, <3>1, <3>2, <2>1, <2>7 DEF StackOK
    <3>3. CASE j = Len(stack) + 1
      BY <3>0, <3>1, <3>3, <2>1, <2>5
    <3> QED BY <3>2, <3>3, <2>1
  <2> QED BY <2>6, <2>7, <1>4 DEF StackOK
<1> QED BY <1>5, <1>6, <1>7

\* A widget of the view being parsed keeps the invariant.
LEMMA AddChildKeeps ==
  ASSUME IInv, NEW o \in Objs, AddChild(o)
  PROVE  IInv'
<1> USE DEF IInv
<1>0. /\ stack # <<>> /\ UNCHANGED <<up, st, name, index, countVars, freeQ, active, sinkQ, stack>>
      /\ screen' = [screen EXCEPT ![o] = screen[Top.root]]
  BY DEF AddChild
<1>1. Len(stack) \in DOMAIN stack /\ Top.root \in Objs /\ Top.scope \in Scopes
      /\ ost[Top.root] = "live"
  <2>1. Len(stack) \in DOMAIN stack
    <3>1. stack \in Seq(Frame)
      BY DEF TypeOK
    <3> QED BY <3>1, <1>0
  <2> QED BY <2>1, FrameTyped DEF StackOK, Top
<1>2. PICK H \in SUBSET Scopes : Lookup(Top.scope, H) /\ Build(o, Top.root, H)
  BY DEF AddChild
<1>3. borrowed' \in [Scopes -> BOOLEAN]
  <2>1. CASE UNCHANGED borrowed
    BY <2>1 DEF TypeOK
  <2>2. CASE ~UNCHANGED borrowed
    <3>1. PICK n \in Names : borrowed' = [borrowed EXCEPT ![index[n]] =
                               @ \/ name[index[n]] # name[Top.scope]]
      BY <2>2, <1>2 DEF Lookup
    <3> QED BY <3>1 DEF TypeOK
  <2> QED BY <2>1, <2>2
<1>4. Fresh' /\ FiniteInsts' /\ TreeOK' /\ MadeOK' /\ HooksValid' /\ CountExact'
      /\ LookupsExact' /\ QueuedFreeSound'
  BY <1>0, <1>1, <1>2, BuildKeeps
<1>5. TypeOK'
  BY <1>0, <1>1, <1>2, <1>3, BuildKeepsTree DEF TypeOK, countVars
<1>6. StackOK'
  <2>1. /\ ost[o] = "unused" /\ ost' = [ost EXCEPT ![o] = "live"]
        /\ within' = [within EXCEPT ![o] = {o} \cup within[Top.root]]
    BY <1>2 DEF Build
  <2>2. \A i \in DOMAIN stack : /\ stack[i].root \in Objs /\ stack[i].root # o
    BY <2>1, FrameTyped DEF StackOK
  <2>3. \A i \in DOMAIN stack : /\ ost'[stack[i].root] = "live"
                                /\ within'[stack[i].root] = within[stack[i].root]
    BY <2>1, <2>2 DEF StackOK, TypeOK
  <2> QED BY <2>3, <1>0 DEF StackOK, countVars, Allocated
<1> QED BY <1>4, <1>5, <1>6

\* The end of a view, tracked or not, keeps the invariant.
LEMMA CreateEndKeeps ==
  ASSUME IInv, CreateEnd
  PROVE  IInv'
<1> DEFINE s == Top.scope
           o == Top.root
<1> USE DEF IInv
<1>0. /\ up /\ stack # <<>> /\ UNCHANGED <<up, registryVars, objVars, active>>
      /\ stack' = SubSeq(stack, 1, Len(stack) - 1)
  BY DEF CreateEnd
<1>1. /\ stack \in Seq(Frame) /\ DOMAIN stack = 1..Len(stack) /\ Len(stack) \in Nat \ {0}
      /\ stack' \in Seq(Frame)
      /\ DOMAIN stack' = 1..(Len(stack) - 1)
      /\ \A i \in DOMAIN stack' : stack'[i] = stack[i]
  <2>1. stack \in Seq(Frame)
    BY DEF TypeOK
  <2>2. Len(stack) \in Nat \ {0} /\ DOMAIN stack = 1..Len(stack)
    BY <2>1, <1>0
  <2> QED BY <2>1, <2>2, <1>0
<1>2. /\ s \in Scopes /\ o \in Objs
      /\ Allocated(s) /\ ost[o] = "live" /\ hook[o] = NoScope /\ made[o] = NoScope
  BY <1>1, FrameTyped DEF StackOK, Top
<1>3. \A x \in Scopes : Allocated(x)' <=> Allocated(x)
  BY <1>0 DEF Allocated, registryVars
<1>4. \A i \in DOMAIN stack' : /\ stack[i].root \in Objs /\ stack[i].root # o
                               /\ i \in DOMAIN stack
  BY <1>1, <1>2, FrameTyped, TreeFacts DEF StackOK, Top, Exists, TreeOK, IsForest
<1>5. TreeOK'
  BY <1>0 DEF TreeOK, Exists, objVars
<1>6. LookupsExact'
  BY <1>0 DEF LookupsExact, registryVars
<1>7. CASE UNCHANGED <<countVars, freeQ>>
  <2>1. TypeOK' /\ Fresh' /\ FiniteInsts' /\ MadeOK'
    BY <1>7, <1>0, <1>1 DEF TypeOK, Fresh, FiniteInsts, MadeOK, Exists, registryVars, objVars, countVars
  <2>2. StackOK'
    BY <1>7, <1>0, <1>1, <1>3, <1>4, FrameTyped DEF StackOK, objVars, countVars
  <2>3. HooksValid' /\ CountExact' /\ QueuedFreeSound'
    BY <1>7, <1>0, <1>3 DEF HooksValid, CountExact, QueuedFreeSound, registryVars, objVars, countVars, TypeOK
  <2> QED BY <2>1, <2>2, <2>3, <1>5, <1>6
<1>8. CASE Attach(s, o)
  <2>0. /\ hook' = [hook EXCEPT ![o] = s]
        /\ made' = [made EXCEPT ![o] = s]
        /\ insts' = [insts EXCEPT ![s] = @ \cup {o}]
        /\ cnt' = [cnt EXCEPT ![s] = @ + 1]
        /\ freeQ' = IF st[s] = "pending" /\ cnt[s] = 0 THEN freeQ \ {s} ELSE freeQ
        /\ s # NoScope
    BY <1>2, <1>8, ScopeAssumption DEF Attach
  <2>1. TypeOK'
    BY <2>0, <1>0, <1>1, <1>2 DEF TypeOK, registryVars, objVars
  <2>2. Fresh'
    BY <2>0, <1>0, <1>2 DEF Fresh, Allocated, TypeOK, registryVars
  <2>3. FiniteInsts'
    <3>1. IsFiniteSet(insts[s] \cup {o})
      BY <1>2, FS_AddElement DEF FiniteInsts
    <3> QED BY <3>1, <2>0 DEF FiniteInsts, TypeOK
  <2>4. MadeOK'
    BY <2>0, <1>0, <1>2 DEF MadeOK, Exists, TypeOK, objVars
  <2>5. StackOK'
    <3>1. \A i \in DOMAIN stack' : /\ hook'[stack[i].root] = hook[stack[i].root]
                                   /\ made'[stack[i].root] = made[stack[i].root]
      BY <2>0, <1>4 DEF TypeOK
    <3> QED BY <3>1, <1>0, <1>1, <1>3, <1>4, FrameTyped DEF StackOK, objVars
  <2>6. HooksValid'
    BY <2>0, <1>0, <1>2, <1>3 DEF HooksValid, TypeOK, objVars
  <2>7. CountExact'
    <3>1. insts[s] = {x \in Objs : hook[x] = s} /\ o \notin insts[s]
      BY <1>2, <2>0 DEF CountExact
    <3>2. insts'[s] = insts[s] \cup {o} /\ cnt'[s] = cnt[s] + 1
      BY <2>0, <1>2 DEF TypeOK
    <3>3. cnt'[s] = Cardinality(insts'[s])
      <4>1. IsFiniteSet(insts[s]) /\ cnt[s] = Cardinality(insts[s])
        BY <1>2 DEF FiniteInsts, CountExact
      <4>2. Cardinality(insts[s] \cup {o}) = Cardinality(insts[s]) + 1
        BY <4>1, <3>1, FS_AddElement
      <4> QED BY <4>1, <4>2, <3>2
    <3>4. \A x \in Objs : hook'[x] = IF x = o THEN s ELSE hook[x]
      BY <2>0 DEF TypeOK
    <3>5. insts'[s] = {x \in Objs : hook'[x] = s}
      BY <3>1, <3>2, <3>4, <1>2
    <3>6. \A x \in Scopes : Allocated(x) /\ x # s =>
            insts'[x] = {y \in Objs : hook'[y] = x} /\ cnt'[x] = Cardinality(insts'[x])
      <4> TAKE x \in Scopes
      <4> HAVE Allocated(x) /\ x # s
      <4>1. insts'[x] = insts[x] /\ cnt'[x] = cnt[x]
        BY <2>0 DEF TypeOK
      <4>2. {y \in Objs : hook'[y] = x} = {y \in Objs : hook[y] = x}
        <5>1. x # NoScope
          BY ScopeAssumption
        <5> QED BY <5>1, <3>4, <1>2
      <4> QED BY <4>1, <4>2 DEF CountExact
    <3> QED
      <4> SUFFICES ASSUME NEW x \in Scopes, Allocated(x)
                   PROVE  insts'[x] = {y \in Objs : hook'[y] = x}
                          /\ cnt'[x] = Cardinality(insts'[x])
        BY <1>3 DEF CountExact
      <4> QED BY <3>3, <3>5, <3>6
  <2>8. QueuedFreeSound'
    BY <2>0, <1>0, <1>2 DEF QueuedFreeSound, TypeOK, registryVars
  <2> QED BY <2>1, <2>2, <2>3, <2>4, <2>5, <2>6, <2>7, <2>8, <1>5, <1>6
<1> QED BY <1>7, <1>8 DEF CreateEnd
-----------------------------------------------------------------------------
(* Deletion.                                                                *)

\* The instances that a deletion takes along: the new count is the size of the
\* new set of records, and it is zero for what gets queued.
LEMMA SendDeleteCounts ==
  ASSUME IInv, NEW D \in SUBSET Objs, SendDelete(D), NEW s \in Scopes
  PROVE  /\ cnt'[s] \in Nat
         /\ insts'[s] = insts[s] \ D
         /\ IsFiniteSet(insts'[s])
         /\ Allocated(s) => cnt'[s] = Cardinality(insts'[s])
         /\ cnt[s] = 0 => cnt'[s] = 0
         /\ s \in freeQ' \ freeQ => cnt'[s] = 0 /\ st[s] = "pending"
<1> DEFINE left == {o \in D : hook[o] = s}
<1> USE DEF IInv
<1>1. /\ cnt'[s] = cnt[s] - Cardinality(left)
      /\ insts'[s] = insts[s] \ D
  BY DEF SendDelete
<1>2. IsFiniteSet(insts[s]) /\ cnt[s] \in Nat
  BY DEF FiniteInsts, TypeOK
<1>3. IsFiniteSet(insts'[s])
  BY <1>1, <1>2, FS_Difference
<1>4. s \in freeQ' \ freeQ => cnt'[s] = 0 /\ st[s] = "pending"
  BY DEF SendDelete
<1>5. CASE Allocated(s)
  <2>1. insts[s] = {o \in Objs : hook[o] = s} /\ cnt[s] = Cardinality(insts[s])
    BY <1>5 DEF CountExact
  <2>2. left = insts[s] \cap D
    BY <2>1
  <2>3. Cardinality(insts[s] \ D) = Cardinality(insts[s]) - Cardinality(left)
    BY <2>2, <1>2, FS_Difference
  <2>4. cnt'[s] = Cardinality(insts'[s])
    BY <2>1, <2>3, <1>1
  <2>5. cnt'[s] \in Nat
    BY <2>4, <1>3, FS_CardinalityType
  <2>6. cnt[s] = 0 => cnt'[s] = 0
    <3> HAVE cnt[s] = 0
    <3>1. insts[s] = {}
      BY <2>1, <1>2, FS_EmptySet
    <3>2. insts'[s] = {}
      BY <3>1, <1>1
    <3> QED BY <3>2, <2>4, FS_EmptySet
  <2> QED BY <2>4, <2>5, <2>6, <1>1, <1>3, <1>4
<1>6. CASE ~Allocated(s)
  <2>1. s # NoScope
    BY ScopeAssumption
  <2>2. left = {}
    BY <2>1, <1>6 DEF HooksValid
  <2>3. cnt'[s] = cnt[s]
    BY <2>2, <1>1, <1>2, FS_EmptySet
  <2> QED BY <2>3, <1>1, <1>2, <1>3, <1>4, <1>6
<1> QED BY <1>5, <1>6

\* Deleting a tree keeps everything but what is said of the stack.
LEMMA SendDeleteKeeps ==
  ASSUME IInv, NEW r \in Objs, SendDelete(Under(r)),
         UNCHANGED <<up, registryVars, made, within, holds, screen, active>>,
         stack' \in Seq(Frame)
  PROVE  /\ TypeOK' /\ Fresh' /\ FiniteInsts' /\ TreeOK' /\ MadeOK'
         /\ HooksValid' /\ CountExact' /\ LookupsExact' /\ QueuedFreeSound'
<1> DEFINE D == Under(r)
<1> USE DEF IInv
<1>0. /\ ost' = [o \in Objs |-> IF o \in D THEN "dying" ELSE ost[o]]
      /\ insts' = [s \in Scopes |-> insts[s] \ D]
      /\ hook' = [o \in Objs |-> IF o \in D THEN NoScope ELSE hook[o]]
      /\ cnt' \in [Scopes -> Nat]
      /\ freeQ' \subseteq Scopes
      /\ sinkQ' = sinkQ \ D
  <2>1. D \in SUBSET Objs
    BY DEF Under
  <2>2. \A s \in Scopes : cnt'[s] \in Nat
    BY <2>1, SendDeleteCounts
  <2>3. cnt' \in [Scopes -> Nat]
    BY <2>2 DEF SendDelete
  <2>4. freeQ' \subseteq Scopes
    BY DEF SendDelete, TypeOK
  <2> QED BY <2>3, <2>4 DEF SendDelete
<1>1. D \in SUBSET Objs /\ \A o \in D : ost[o] = "live" /\ r \in within[o]
  BY DEF Under
<1>2. \A o \in Objs : ost'[o] = IF o \in D THEN "dying" ELSE ost[o]
  BY <1>0
<1>3. \A s \in Scopes : Allocated(s)' <=> Allocated(s)
  BY DEF Allocated, registryVars
<1>4. \A o \in Objs : Exists(o)' <=> Exists(o)
  BY <1>1, <1>2 DEF Exists
<1>5. TypeOK'
  BY <1>0 DEF TypeOK, registryVars
<1>6. Fresh'
  <2> SUFFICES ASSUME NEW s \in Scopes, st[s] = "unused"
               PROVE  cnt'[s] = 0 /\ insts'[s] = {}
    BY DEF Fresh, registryVars
  <2> QED BY <1>0, <1>1, SendDeleteCounts DEF Fresh
<1>7. FiniteInsts'
  BY <1>1, SendDeleteCounts DEF FiniteInsts
<1>8. TreeOK'
  <2>1. IsForest({x \in Objs : Exists(x)}, within)'
    <3>1. {x \in Objs : Exists(x)}' = {x \in Objs : Exists(x)}
      BY <1>4
    <3> QED BY <3>1 DEF TreeOK, IsForest
  <2>2. ASSUME NEW x \in Objs, NEW y \in within[x], ost'[x] = "live"
        PROVE  ost'[y] = "live"
    <3>1. x \notin D /\ ost[x] = "live"
      BY <2>2, <1>2
    <3>2. y \in Objs /\ ost[y] = "live" /\ within[y] \subseteq within[x]
      BY <2>2, <3>1, TreeFacts
    <3>3. y \notin D
      BY <3>1, <3>2 DEF Under
    <3> QED BY <3>2, <3>3, <1>2
  <2> QED BY <2>1, <2>2 DEF TreeOK
<1>9. MadeOK'
  BY <1>0, <1>2, <1>4 DEF MadeOK
<1>10. HooksValid'
  <2> SUFFICES ASSUME NEW o \in Objs, hook'[o] # NoScope
               PROVE  ost'[o] = "live" /\ o \in insts'[hook'[o]] /\ Allocated(hook[o])'
    BY DEF HooksValid
  <2>1. o \notin D /\ hook'[o] = hook[o]
    BY <1>0
  <2>2. hook[o] \in Scopes
    BY <2>1 DEF TypeOK
  <2> QED BY <2>1, <2>2, <1>0, <1>3 DEF HooksValid, Allocated, registryVars
<1>11. CountExact'
  <2> SUFFICES ASSUME NEW s \in Scopes, Allocated(s)
               PROVE  insts'[s] = {o \in Objs : hook'[o] = s}
                      /\ cnt'[s] = Cardinality(insts'[s])
    BY <1>3 DEF CountExact
  <2>1. cnt'[s] = Cardinality(insts'[s])
    BY <1>1, SendDeleteCounts
  <2>2. insts[s] = {o \in Objs : hook[o] = s} /\ s # NoScope
    BY ScopeAssumption DEF CountExact
  <2>3. \A o \in Objs : hook'[o] = s <=> hook[o] = s /\ o \notin D
    BY <1>0, <2>2
  <2>4. insts'[s] = insts[s] \ D
    BY <1>0
  <2> QED BY <2>1, <2>2, <2>3, <2>4
<1>12. LookupsExact'
  BY DEF LookupsExact, registryVars
<1>13. QueuedFreeSound'
  <2> SUFFICES ASSUME NEW s \in freeQ' PROVE st[s] = "pending" /\ cnt'[s] = 0
    BY DEF QueuedFreeSound, registryVars
  <2>1. s \in Scopes
    BY <1>0
  <2> QED BY <2>1, <1>1, SendDeleteCounts DEF QueuedFreeSound
<1> QED BY <1>5, <1>6, <1>7, <1>8, <1>9, <1>10, <1>11, <1>12, <1>13

\* No view is being parsed: the application, or a timer, deletes the object.
LEMMA DeleteKeeps ==
  ASSUME IInv, NEW o \in Objs, Delete(o) \/ SinkDelete(o)
  PROVE  IInv'
<1>0. /\ stack = <<>> /\ SendDelete(Under(o))
      /\ UNCHANGED <<up, registryVars, made, within, holds, screen, active, stack>>
  BY DEF Delete, SinkDelete, Idle
<1>1. stack' \in Seq(Frame)
  BY <1>0 DEF IInv, TypeOK
<1>2. StackOK'
  BY <1>0 DEF StackOK
<1> QED BY <1>0, <1>1, <1>2, SendDeleteKeeps DEF IInv

\* The views around the one that failed do not lie in it.
LEMMA CreateFailsKeeps ==
  ASSUME IInv, CreateFails
  PROVE  IInv'
<1> USE DEF IInv
<1>0. /\ up /\ stack # <<>> /\ SendDelete(Under(Top.root))
      /\ UNCHANGED <<up, registryVars, made, within, holds, screen, active>>
      /\ stack' = SubSeq(stack, 1, Len(stack) - 1)
  BY DEF CreateFails
<1>1. /\ stack \in Seq(Frame) /\ DOMAIN stack = 1..Len(stack) /\ Len(stack) \in Nat \ {0}
      /\ stack' \in Seq(Frame)
      /\ DOMAIN stack' = 1..(Len(stack) - 1)
      /\ \A i \in DOMAIN stack' : stack'[i] = stack[i]
  <2>1. stack \in Seq(Frame)
    BY DEF TypeOK
  <2>2. Len(stack) \in Nat \ {0} /\ DOMAIN stack = 1..Len(stack)
    BY <2>1, <1>0
  <2> QED BY <2>1, <2>2, <1>0
<1>2. Top.root \in Objs /\ ost[Top.root] = "live"
  BY <1>1, FrameTyped DEF StackOK, Top
<1>3. \A i \in DOMAIN stack' :
        /\ i \in DOMAIN stack /\ stack[i].root \in Objs
        /\ stack[i].root \notin Under(Top.root)
  BY <1>1, FrameTyped DEF StackOK, Top, Under
<1>4. \A i \in DOMAIN stack' : /\ ost'[stack[i].root] = ost[stack[i].root]
                               /\ hook'[stack[i].root] = hook[stack[i].root]
  BY <1>0, <1>3 DEF SendDelete
<1>5. StackOK'
  BY <1>0, <1>1, <1>3, <1>4 DEF StackOK, Allocated, registryVars
<1> QED BY <1>0, <1>1, <1>2, <1>5, SendDeleteKeeps

\* The end of a deletion keeps the invariant.
LEMMA DestroyedKeeps ==
  ASSUME IInv, Destroyed
  PROVE  IInv'
<1> DEFINE E == {x \in Objs : Exists(x)}
<1> USE DEF IInv
<1>0. /\ ost' = [o \in Objs |-> IF o \in Dying THEN "gone" ELSE ost[o]]
      /\ within' = [o \in Objs |-> IF o \in Dying THEN {} ELSE within[o]]
      /\ made' = [o \in Objs |-> IF o \in Dying THEN NoScope ELSE made[o]]
      /\ UNCHANGED <<up, registryVars, cnt, insts, hook, freeQ, active, sinkQ, stack>>
  BY DEF Destroyed
<1>1. \A o \in Objs : o \in Dying <=> ost[o] = "dying"
  BY DEF Dying
<1>2. TypeOK'
  <2>1. /\ holds' \in [Objs -> SUBSET Scopes]
        /\ screen' \in [Objs -> Screens \cup {"layer"}]
    BY DEF Destroyed, TypeOK, Screens
  <2> QED BY <2>1, <1>0 DEF TypeOK, registryVars
<1>3. {x \in Objs : Exists(x)}' = E \ Dying
  BY <1>0, <1>1 DEF Exists, TypeOK
<1>4. \A x \in E \ Dying : within[x] \cap Dying = {}
  BY <1>1, TreeFacts DEF Exists
<1>5. TreeOK'
  <2>1. IsForest(E \ Dying, within')
    <3>1. Dying \in SUBSET E
      BY DEF Dying, Exists
    <3>2. IsForest(E, within) /\ within \in [Objs -> SUBSET Objs] /\ E \in SUBSET Objs
      BY DEF TreeOK, TypeOK
    <3> HIDE DEF E
    <3>3. IsForest(E \ Dying, [o \in Objs |-> IF o \in Dying THEN {} ELSE within[o]])
      BY <3>1, <3>2, <1>4, PruneForest
    <3> QED BY <3>3, <1>0
  <2>2. ASSUME NEW x \in Objs, NEW y \in within'[x], ost'[x] = "live" PROVE ost'[y] = "live"
    <3>1. x \notin Dying /\ ost[x] = "live" /\ y \in within[x]
      BY <2>2, <1>0
    <3>2. y \in Objs /\ ost[y] = "live"
      BY <3>1, TreeFacts
    <3> QED BY <3>2, <1>0, <1>1
  <2> QED BY <2>1, <2>2, <1>3 DEF TreeOK
<1>6. Fresh' /\ FiniteInsts' /\ CountExact' /\ LookupsExact' /\ QueuedFreeSound'
  BY <1>0 DEF Fresh, FiniteInsts, CountExact, LookupsExact, QueuedFreeSound, Allocated, registryVars
<1>7. MadeOK'
  BY <1>0, <1>1 DEF MadeOK, Exists
<1>8. HooksValid'
  BY <1>0, <1>1 DEF HooksValid, Allocated, registryVars
<1>9. StackOK'
  <2>1. \A i \in DOMAIN stack :
          LET r == stack[i].root IN
          r \in Objs /\ ost'[r] = ost[r] /\ within'[r] = within[r] /\ made'[r] = made[r]
    BY <1>0, <1>1, FrameTyped DEF StackOK
  <2> QED BY <2>1, <1>0 DEF StackOK, Allocated, registryVars
<1> QED BY <1>2, <1>5, <1>6, <1>7, <1>8, <1>9
-----------------------------------------------------------------------------
(* The timers, the application and deinit.                                  *)

\* The queue holds retired scopes without instances only, so nothing hangs on
\* the scope that the timer frees.
LEMMA ScopeFreeAsyncKeeps ==
  ASSUME IInv, NEW s \in Scopes, ScopeFreeAsync(s)
  PROVE  IInv'
<1> USE DEF IInv
<1>0. /\ stack = <<>> /\ s \in freeQ
      /\ freeQ' = freeQ \ {s}
      /\ st' = [st EXCEPT ![s] = "freed"]
      /\ UNCHANGED <<up, name, cnt, made, borrowed, index, objVars, active, stack>>
  BY DEF ScopeFreeAsync, Idle
<1>1. st[s] = "pending" /\ cnt[s] = 0
  BY <1>0 DEF QueuedFreeSound
<1>2. insts[s] = {} /\ \A o \in Objs : hook[o] # s
  <2>1. insts[s] = {o \in Objs : hook[o] = s} /\ cnt[s] = Cardinality(insts[s])
    BY <1>1 DEF CountExact, Allocated
  <2>2. insts[s] = {}
    BY <2>1, <1>1, FS_EmptySet DEF FiniteInsts
  <2> QED BY <2>1, <2>2
<1>3. hook' = hook /\ insts' = insts
  BY <1>2 DEF ScopeFreeAsync, Disarm, TypeOK
<1>4. \A x \in Scopes : Allocated(x)' <=> Allocated(x) /\ x # s
  BY <1>0 DEF Allocated, TypeOK
<1>5. TypeOK'
  BY <1>0, <1>3 DEF TypeOK, objVars
<1>6. Fresh' /\ FiniteInsts'
  BY <1>0, <1>1, <1>2, <1>3 DEF Fresh, FiniteInsts, TypeOK
<1>7. TreeOK' /\ MadeOK' /\ StackOK'
  BY <1>0, <1>3 DEF TreeOK, MadeOK, StackOK, Exists, objVars
<1>8. HooksValid' /\ CountExact'
  <2>1. HooksValid'
    <3>1. \A o \in Objs : hook[o] # NoScope => hook[o] \in Scopes \ {s}
      BY <1>2 DEF TypeOK
    <3> QED BY <3>1, <1>0, <1>3, <1>4 DEF HooksValid, Allocated, objVars
  <2>2. CountExact'
    BY <1>0, <1>3, <1>4 DEF CountExact
  <2> QED BY <2>1, <2>2
<1>9. LookupsExact'
  <2>1. \A x \in Scopes : st'[x] = "live" <=> st[x] = "live"
    BY <1>0, <1>1 DEF TypeOK
  <2>2. \A n \in Names : index[n] # NoScope => index[n] \in Scopes
    BY DEF TypeOK
  <2> QED BY <2>1, <2>2, <1>0 DEF LookupsExact
<1>10. QueuedFreeSound'
  BY <1>0 DEF QueuedFreeSound, TypeOK
<1> QED BY <1>5, <1>6, <1>7, <1>8, <1>9, <1>10

\* Moving a live tree leaves the roots and the scopes alone.
LEMMA OrphanKeeps ==
  ASSUME IInv, NEW o \in Objs, Orphan(o)
  PROVE  IInv'
<1> DEFINE E == {x \in Objs : Exists(x)}
<1> USE DEF IInv
<1>0. /\ stack = <<>> /\ ost[o] = "live" /\ Dying = {}
      /\ UNCHANGED <<up, registryVars, countVars, freeQ, ost, holds, active, sinkQ, stack>>
  BY DEF Orphan, Idle
<1>1. within' = [x \in Objs |-> IF x \in Under(o) THEN (within[x] \ within[o]) \cup {o}
                                ELSE within[x]]
  BY DEF Orphan, Reparent
<1>2. \A x \in Objs : x \in Under(o) <=> x \in E /\ o \in within[x]
  BY <1>0 DEF Under, Exists, Dying
<1>3. TreeOK'
  <2>1. IsForest(E, within')
    <3>1. E \in SUBSET Objs /\ o \in E
      BY <1>0 DEF Exists
    <3>2. IsForest(E, within) /\ within \in [Objs -> SUBSET Objs]
      BY DEF TreeOK, TypeOK
    <3>3. within' = [x \in Objs |-> IF x \in E /\ o \in within[x]
                                    THEN (within[x] \ within[o]) \cup {o} ELSE within[x]]
      BY <1>1, <1>2
    <3> HIDE DEF E
    <3> QED BY <3>1, <3>2, <3>3, MoveForest
  <2>2. {x \in Objs : Exists(x)}' = E
    BY <1>0 DEF Exists
  <2>3. \A x \in Objs : within'[x] \subseteq E
    BY <2>1 DEF IsForest
  <2>4. \A x \in E : ost'[x] = "live"
    BY <1>0 DEF Exists, Dying
  <2> QED BY <2>1, <2>2, <2>3, <2>4 DEF TreeOK
<1>4. TypeOK'
  <2>1. screen' \in [Objs -> Screens \cup {"layer"}]
    BY DEF Orphan, Reparent, TypeOK
  <2>2. within' \in [Objs -> SUBSET Objs]
    BY <1>1 DEF TypeOK
  <2> QED BY <2>1, <2>2, <1>0 DEF TypeOK, registryVars, countVars
<1>5. Fresh' /\ FiniteInsts' /\ MadeOK' /\ StackOK' /\ HooksValid' /\ CountExact'
      /\ LookupsExact' /\ QueuedFreeSound'
  BY <1>0 DEF Fresh, FiniteInsts, MadeOK, StackOK, HooksValid, CountExact, LookupsExact,
              QueuedFreeSound, Exists, Allocated, registryVars, countVars
<1> QED BY <1>3, <1>4, <1>5

\* The old expansion moves to its sink, the new one grows under the instance.
LEMMA FragRebuildKeeps ==
  ASSUME IInv, NEW r \in Objs, NEW x \in Objs, NEW o \in Objs, FragRebuild(r, x, o)
  PROVE  IInv'
<1> DEFINE E == {y \in Objs : Exists(y)}
           v == [y \in Objs |-> IF y \in E /\ x \in within[y]
                                THEN (within[y] \ within[x]) \cup {x} ELSE within[y]]
<1> USE DEF IInv
<1>0. /\ stack = <<>> /\ Dying = {} /\ ost[o] = "unused" /\ hook[r] # NoScope
      /\ x \in Under(r) \ {r}
      /\ ost' = [ost EXCEPT ![o] = "live"]
      /\ UNCHANGED <<up, st, name, index, countVars, freeQ, active, stack>>
  BY DEF FragRebuild, Idle
<1>1. ost[r] = "live" /\ ost[x] = "live" /\ r \in within[x]
  BY <1>0 DEF HooksValid, Under
<1>2. \A y \in Objs : y \in Under(x) <=> y \in E /\ x \in within[y]
  BY <1>0 DEF Under, Exists, Dying
<1>3. o \notin E /\ r \in E /\ x \in E
  BY <1>0, <1>1 DEF Exists
<1>4. IsForest(E, v) /\ v \in [Objs -> SUBSET Objs]
  <2>1. IsForest(E, within) /\ within \in [Objs -> SUBSET Objs] /\ E \in SUBSET Objs
    BY DEF TreeOK, TypeOK
  <2>2. v \in [Objs -> SUBSET Objs]
    BY <2>1
  <2> HIDE DEF E
  <2> QED BY <2>1, <2>2, <1>3, MoveForest
<1>5. within' = [v EXCEPT ![o] = {o} \cup v[r]]
  <2>1. x \notin within[r]
    BY <1>0, <1>1, TreeFacts
  <2>2. v[r] = within[r]
    BY <2>1
  <2>3. within' = [y \in Objs |->
                    IF y = o THEN {o} \cup within[r]
                    ELSE IF y \in Under(x) THEN (within[y] \ within[x]) \cup {x}
                    ELSE within[y]]
    BY DEF FragRebuild
  <2> QED BY <2>2, <2>3, <1>2
<1>6. {y \in Objs : Exists(y)}' = E \cup {o}
  BY <1>0 DEF Exists, TypeOK
<1>7. IsForest(E \cup {o}, within')
  <2>1. E \in SUBSET Objs /\ o \in Objs \ E /\ r \in E \cup {o}
    BY <1>3
  <2> HIDE DEF E, v
  <2> QED BY <2>1, <1>4, <1>5, GrowForest
<1>8. TreeOK'
  <2>1. \A y \in Objs : within'[y] \subseteq E \cup {o}
    BY <1>7 DEF IsForest
  <2>2. \A y \in E \cup {o} : ost'[y] = "live"
    BY <1>0 DEF Exists, Dying, TypeOK
  <2> QED BY <2>1, <2>2, <1>6, <1>7 DEF TreeOK
<1>9. PICK H \in SUBSET Scopes : Lookup(hook[r], H) /\ holds' = [holds EXCEPT ![o] = H]
  BY DEF FragRebuild
<1>10. borrowed' \in [Scopes -> BOOLEAN]
  <2>1. CASE UNCHANGED borrowed
    BY <2>1 DEF TypeOK
  <2>2. CASE ~UNCHANGED borrowed
    <3>1. PICK n \in Names : borrowed' = [borrowed EXCEPT ![index[n]] =
                               @ \/ name[index[n]] # name[hook[r]]]
      BY <2>2, <1>9 DEF Lookup
    <3> QED BY <3>1 DEF TypeOK
  <2> QED BY <2>1, <2>2
<1>11. TypeOK'
  <2>1. screen' \in [Objs -> Screens \cup {"layer"}] /\ sinkQ' \subseteq Objs
    BY DEF FragRebuild, TypeOK
  <2>2. within' \in [Objs -> SUBSET Objs]
    <3> HIDE DEF E, v
    <3> QED BY <1>4, <1>5
  <2> QED BY <2>1, <2>2, <1>0, <1>9, <1>10 DEF TypeOK, countVars
<1>12. MadeOK' /\ HooksValid'
  <2>1. made[o] = NoScope /\ hook[o] = NoScope
    BY <1>0 DEF MadeOK, HooksValid, Exists
  <2> QED BY <2>1, <1>0 DEF MadeOK, HooksValid, Exists, Allocated, countVars, TypeOK
<1>13. Fresh' /\ FiniteInsts' /\ StackOK' /\ CountExact' /\ LookupsExact' /\ QueuedFreeSound'
  BY <1>0 DEF Fresh, FiniteInsts, StackOK, CountExact, LookupsExact, QueuedFreeSound,
              Allocated, countVars
<1> QED BY <1>8, <1>11, <1>12, <1>13

\* Every hook names an allocated scope, so none is left.
LEMMA DeinitKeeps ==
  ASSUME IInv, Deinit
  PROVE  IInv'
<1> DEFINE all == {s \in Scopes : Allocated(s)}
<1> USE DEF IInv
<1>0. /\ stack = <<>> /\ up' = FALSE
      /\ st' = [s \in Scopes |-> IF s \in all THEN "freed" ELSE st[s]]
      /\ index' = [n \in Names |-> NoScope]
      /\ freeQ' = freeQ \ {s \in all : st[s] = "pending"}
      /\ hook' = [o \in Objs |-> IF hook[o] \in all THEN NoScope ELSE hook[o]]
      /\ insts' = [s \in Scopes |-> IF s \in all THEN {} ELSE insts[s]]
      /\ UNCHANGED <<name, cnt, made, borrowed, objVars, active, stack>>
  BY DEF Deinit, Idle, Disarm
<1>1. \A s \in Scopes : st'[s] \in {"unused", "freed"} /\ (st'[s] = "unused" => st[s] = "unused" /\ s \notin all)
  BY <1>0 DEF Allocated, TypeOK
<1>2. \A o \in Objs : hook'[o] = NoScope
  <2> TAKE o \in Objs
  <2>1. hook[o] # NoScope => hook[o] \in all
    BY DEF HooksValid, TypeOK
  <2> QED BY <2>1, <1>0
<1>3. freeQ' = {}
  BY <1>0 DEF QueuedFreeSound, Allocated, TypeOK
<1>4. TypeOK'
  <2>1. st' \in [Scopes -> {"unused", "live", "pending", "freed"}]
    BY <1>0 DEF TypeOK
  <2>2. hook' \in [Objs -> Scopes \cup {NoScope}]
    BY <1>0 DEF TypeOK
  <2>3. insts' \in [Scopes -> SUBSET Objs]
    BY <1>0 DEF TypeOK
  <2> QED BY <2>1, <2>2, <2>3, <1>0, <1>3 DEF TypeOK, objVars
<1>5. Fresh'
  BY <1>0, <1>1 DEF Fresh
<1>6. FiniteInsts'
  <2>1. \A s \in Scopes : insts'[s] = {} \/ insts'[s] = insts[s]
    BY <1>0
  <2> QED BY <2>1, FS_EmptySet DEF FiniteInsts
<1>7. TreeOK' /\ StackOK'
  BY <1>0 DEF TreeOK, StackOK, Exists, objVars
<1>8. MadeOK'
  BY <1>0 DEF MadeOK, Exists, objVars
<1>9. HooksValid' /\ CountExact' /\ LookupsExact' /\ QueuedFreeSound'
  BY <1>0, <1>1, <1>2, <1>3 DEF HooksValid, CountExact, LookupsExact, QueuedFreeSound, Allocated
<1> QED BY <1>4, <1>5, <1>6, <1>7, <1>8, <1>9

\* The change of the loaded screen, and a stutter, keep the invariant.
LEMMA IdleKeeps ==
  ASSUME IInv, LoadScreen \/ UNCHANGED vars
  PROVE  IInv'
<1>1. /\ UNCHANGED <<up, registryVars, countVars, freeQ, objVars, stack>>
      /\ active' \in Screens
  BY DEF LoadScreen, vars, registryVars, countVars, objVars, IInv, TypeOK, Screens
<1>2. TypeOK'
  BY <1>1 DEF IInv, TypeOK, registryVars, countVars, objVars
<1>3. (Fresh /\ FiniteInsts /\ TreeOK /\ StackOK /\ MadeOK)'
  BY <1>1 DEF IInv, Fresh, FiniteInsts, TreeOK, StackOK, MadeOK, Exists, Allocated,
              registryVars, countVars, objVars
<1>4. (HooksValid /\ CountExact /\ LookupsExact /\ QueuedFreeSound)'
  BY <1>1 DEF IInv, HooksValid, CountExact, LookupsExact, QueuedFreeSound, Allocated,
              registryVars, countVars, objVars
<1> QED BY <1>2, <1>3, <1>4 DEF IInv
-----------------------------------------------------------------------------
(* The theorems.                                                            *)

\* Every step keeps the invariant.
LEMMA NextKeeps == IInv /\ [Next]_vars => IInv'
<1> SUFFICES ASSUME IInv, [Next]_vars PROVE IInv'
  OBVIOUS
<1>1. CASE \E n \in Names, s \in Scopes : Register(n, s) \/ RegisterFails(n, s)
  BY <1>1, RegisterKeeps, RegisterFailsKeeps
<1>2. CASE \E n \in Names : Unregister(n)
  BY <1>2, UnregisterKeeps
<1>3. CASE \E s \in Scopes, o \in Objs : CreateBegin(s, o)
  BY <1>3, CreateBeginKeeps
<1>4. CASE \E o \in Objs : AddChild(o) \/ Delete(o) \/ Orphan(o) \/ SinkDelete(o)
  BY <1>4, AddChildKeeps, DeleteKeeps, OrphanKeeps
<1>5. CASE CreateEnd \/ CreateFails
  BY <1>5, CreateEndKeeps, CreateFailsKeeps
<1>6. CASE Destroyed \/ Deinit
  BY <1>6, DestroyedKeeps, DeinitKeeps
<1>7. CASE \E s \in Scopes : ScopeFreeAsync(s)
  BY <1>7, ScopeFreeAsyncKeeps
<1>8. CASE \E r, x, o \in Objs : FragRebuild(r, x, o)
  BY <1>8, FragRebuildKeeps
<1>9. CASE LoadScreen \/ UNCHANGED vars
  BY <1>9, IdleKeeps
<1> QED BY <1>1, <1>2, <1>3, <1>4, <1>5, <1>6, <1>7, <1>8, <1>9 DEF Next

\* The invariant holds in every reachable state.
LEMMA Invariance == Spec => []IInv
<1>1. Init => IInv
  BY InitIInv
<1>2. IInv /\ [Next]_vars => IInv'
  BY NextKeeps
<1> QED BY <1>1, <1>2, PTL DEF Spec

\* Every variable keeps its type: no count goes below zero, in particular.
THEOREM TypeCorrect == Spec => []TypeOK
<1>1. IInv => TypeOK
  BY DEF IInv
<1> QED BY <1>1, Invariance, PTL

\* No delete hook outlives its instance record or its scope (the hooks that
\* component_scope_free() takes off).
THEOREM HooksAlwaysValid == Spec => []HooksValid
<1>1. IInv => HooksValid
  BY DEF IInv
<1> QED BY <1>1, Invariance, PTL

\* instance_cnt counts the view roots that carry a hook.
THEOREM CountsAlwaysExact == Spec => []CountExact
<1>1. IInv => CountExact
  BY DEF IInv
<1> QED BY <1>1, Invariance, PTL

\* lv_xml_component_get_scope() answers with the live definition of a name.
THEOREM LookupsAlwaysExact == Spec => []LookupsExact
<1>1. IInv => LookupsExact
  BY DEF IInv
<1> QED BY <1>1, Invariance, PTL

\* scope_free_async_cb() never finds a scope that is freed or in use.
THEOREM QueuedFreesSound == Spec => []QueuedFreeSound
<1>1. IInv => QueuedFreeSound
  BY DEF IInv
<1> QED BY <1>1, Invariance, PTL

\* Whatever the application does, an object inside a tracked instance does not
\* point into freed style storage of the instance's own scope.
THEOREM OwnInstancesSafe == Spec => []OwnInstanceSafe
<1>1. IInv => OwnInstanceSafe
  <2> SUFFICES ASSUME IInv, up, NEW r \in Objs, NEW o \in Objs, ost[o] = "live",
                      r \in within[o], made[r] \in holds[o]
               PROVE  Allocated(made[r])
    BY DEF OwnInstanceSafe
  <2>1. ost[r] = "live"
    BY TreeFacts DEF IInv
  <2>2. made[r] # NoScope
    BY ScopeAssumption DEF IInv, TypeOK
  <2>3. hook[r] = made[r]
    BY <2>1, <2>2 DEF IInv, MadeOK
  <2> QED BY <2>2, <2>3 DEF IInv, HooksValid
<1> QED BY <1>1, Invariance, PTL
-----------------------------------------------------------------------------
(* No object points into freed storage, and the registry implements        *)
(* StyleStorage, when widgets stay in the instance that built them and use *)
(* styles of its scope only.                                               *)

\* The application neither moves widgets out of their instance, nor lends
\* styles, nor registers from delete handlers; views have no fragments.
Contained == Env \subseteq {"stale", "screens"}

SInv == IInv /\ HoldersSafe /\ HoldersOwned

-----------------------------------------------------------------------------
\* Nobody uses the storage of a scope without instances, between two calls of
\* the application.
LEMMA NoUsers ==
  ASSUME SInv, up, stack = <<>>, Dying = {}, NEW s \in Scopes, Allocated(s), cnt[s] = 0
  PROVE  \A o \in Objs : Exists(o) => s \notin holds[o]
<1> SUFFICES ASSUME NEW o \in Objs, Exists(o), s \in holds[o] PROVE FALSE
  OBVIOUS
<1>1. ost[o] = "live"
  BY DEF Dying, Exists
<1>2. PICK r \in within[o] : hook[r] = s
  BY <1>1 DEF SInv, HoldersOwned
<1>3. r \in Objs
  BY DEF SInv, IInv, TypeOK
<1>4. insts[s] = {x \in Objs : hook[x] = s} /\ cnt[s] = Cardinality(insts[s])
  BY DEF SInv, IInv, CountExact
<1>5. insts[s] = {}
  BY <1>4, FS_EmptySet DEF SInv, IInv, FiniteInsts
<1> QED BY <1>2, <1>3, <1>4, <1>5

\* The scopes that a registration frees, and those it leaves.
LEMMA RegisterFrees ==
  ASSUME SInv, Contained, NEW n \in Names, NEW s \in Scopes, Register(n, s)
  PROVE  LET freed == {x \in Scopes : st[x] = "live" /\ name[x] = n /\ ~Held(x)} IN
         /\ st[s] = "unused" /\ s \notin freed
         /\ \A x \in Scopes : Allocated(x)' <=> x = s \/ (Allocated(x) /\ x \notin freed)
         /\ \A x \in Scopes : st'[x] = "unused" <=> st[x] = "unused" /\ x # s
         /\ \A x \in freed : Allocated(x) /\ \A o \in Objs : Exists(o) => x \notin holds[o]
         /\ hook' = hook
<1> DEFINE freed == {x \in Scopes : st[x] = "live" /\ name[x] = n /\ ~Held(x)}
           others == {x \in Scopes : st[x] = "live" /\ name[x] = n}
<1>0. /\ st[s] = "unused"
      /\ st' = [x \in Scopes |-> IF x \in freed THEN "freed"
                                 ELSE IF x \in others THEN "pending"
                                 ELSE IF x = s THEN "live" ELSE st[x]]
  BY DEF Register, Retired, SInv, IInv, TypeOK
<1>1. \A x \in Scopes : Allocated(x)' <=> x = s \/ (Allocated(x) /\ x \notin freed)
  BY <1>0 DEF Allocated, SInv, IInv, TypeOK
<1>2. \A x \in Scopes : st'[x] = "unused" <=> st[x] = "unused" /\ x # s
  BY <1>0 DEF SInv, IInv, TypeOK
<1>3. up /\ Dying = {} /\ (freed # {} => stack = <<>>)
  <2>1. AppRuns \/ LoaderRuns(n)
    BY DEF Register
  <2>2. "handler" \notin Env
    BY DEF Contained
  <2>3. LoaderRuns(n) => freed = {}
    <3>1. \A x \in freed : index[n] = x
      BY DEF SInv, IInv, LookupsExact
    <3> QED BY <3>1, ScopeAssumption DEF LoaderRuns
  <2> QED BY <2>1, <2>2, <2>3 DEF AppRuns, LoaderRuns
<1>4. ASSUME NEW x \in freed
      PROVE  Allocated(x) /\ cnt[x] = 0 /\ \A o \in Objs : hook[o] # x
  BY FreedHasNoInstances DEF Allocated, SInv
<1>5. hook' = hook
  BY <1>4 DEF Register, Disarm, SInv, IInv, TypeOK
<1>6. \A x \in freed : Allocated(x) /\ \A o \in Objs : Exists(o) => x \notin holds[o]
  BY <1>3, <1>4, NoUsers
<1> QED BY <1>0, <1>1, <1>2, <1>5, <1>6

\* A step that builds nothing, takes no hook off an object that stays, and
\* leaves the parse alone.
LEMMA QuietKeeps ==
  ASSUME SInv, up' => up,
         UNCHANGED <<ost, within, holds, hook, stack>>,
         up' => \A s \in Scopes : Allocated(s) /\ ~Allocated(s)' =>
                   \A o \in Objs : Exists(o) => s \notin holds[o]
  PROVE  HoldersSafe' /\ HoldersOwned'
<1>1. HoldersOwned'
  BY DEF SInv, HoldersOwned
<1>2. HoldersSafe'
  BY DEF SInv, HoldersSafe, Exists, IInv, TypeOK
<1> QED BY <1>1, <1>2

\* A new object that uses styles of the view it is built in.
LEMMA BuildOwned ==
  ASSUME SInv, NEW o \in Objs, NEW p \in Objs, NEW H \in SUBSET Scopes, Build(o, p, H),
         UNCHANGED <<up, st, hook>>,
         \A i \in DOMAIN stack : i \in DOMAIN stack' /\ stack'[i] = stack[i],
         \A s \in H : Allocated(s) /\
            \E i \in DOMAIN stack' : stack'[i].scope = s /\ stack'[i].root \in {o} \cup within[p]
  PROVE  HoldersSafe' /\ HoldersOwned'
<1>0. /\ ost[o] = "unused"
      /\ ost' = [ost EXCEPT ![o] = "live"]
      /\ within' = [within EXCEPT ![o] = {o} \cup within[p]]
      /\ holds' = [holds EXCEPT ![o] = H]
  BY DEF Build
<1>1. HoldersSafe'
  BY <1>0 DEF SInv, HoldersSafe, IInv, TypeOK, Exists, Allocated
<1>2. HoldersOwned'
  <2> SUFFICES ASSUME up, NEW x \in Objs, ost'[x] = "live", NEW s \in holds'[x]
               PROVE  \/ \E r \in within'[x] : hook'[r] = s
                      \/ \E i \in DOMAIN stack' : stack'[i].scope = s
                                                  /\ stack'[i].root \in within'[x]
    BY DEF HoldersOwned
  <2>1. CASE x = o
    <3>1. s \in H /\ within'[x] = {o} \cup within[p]
      BY <2>1, <1>0 DEF SInv, IInv, TypeOK
    <3> QED BY <3>1
  <2>2. CASE x # o
    <3>1. s \in holds[x] /\ ost[x] = "live" /\ within'[x] = within[x]
      BY <2>2, <1>0 DEF SInv, IInv, TypeOK
    <3>2. CASE \E r \in within[x] : hook[r] = s
      BY <3>1, <3>2
    <3>3. CASE \E i \in DOMAIN stack : stack[i].scope = s /\ stack[i].root \in within[x]
      BY <3>1, <3>3
    <3> QED BY <3>1, <3>2, <3>3 DEF SInv, HoldersOwned
  <2> QED BY <2>1, <2>2
<1> QED BY <1>1, <1>2

\* The innermost frame of the parse stack is one of its frames.
LEMMA TopIn ==
  ASSUME TypeOK, stack # <<>>
  PROVE  /\ Len(stack) \in DOMAIN stack /\ Top = stack[Len(stack)]
         /\ Top.scope \in Scopes /\ Top.root \in Objs
<1>1. stack \in Seq(Frame)
  BY DEF TypeOK
<1>2. Len(stack) \in DOMAIN stack
  BY <1>1
<1> QED BY <1>2, FrameTyped DEF Top

\* What a new object of a view uses, and that it is one Use of StyleStorage.
LEMMA CreateBeginUses ==
  ASSUME SInv, NEW s \in Scopes, NEW o \in Objs, CreateBegin(s, o)
  PROVE  \E p \in Objs, H \in SUBSET Scopes :
           /\ Build(o, p, H) /\ H \subseteq {s} /\ Allocated(s) /\ up
           /\ UNCHANGED <<up, st, hook>>
           /\ stack' = Append(stack, [scope |-> s, root |-> o])
<1> DEFINE p == IF stack = <<>> THEN o ELSE Top.root
<1>1. PICK H \in OwnStyles(s) : Build(o, p, H)
  BY DEF CreateBegin
<1>2. p \in Objs
  BY TopIn DEF SInv, IInv
<1>3. Allocated(s) /\ up /\ UNCHANGED <<up, st, hook>>
      /\ stack' = Append(stack, [scope |-> s, root |-> o])
  BY DEF CreateBegin, Allocated, registryVars, countVars
<1>4. H \in SUBSET Scopes /\ H \subseteq {s}
  BY <1>1 DEF OwnStyles
<1> QED BY <1>1, <1>2, <1>3, <1>4

\* A widget of a contained view points into the scope of that view only.
LEMMA AddChildUses ==
  ASSUME SInv, Contained, NEW o \in Objs, AddChild(o)
  PROVE  \E H \in SUBSET Scopes :
           /\ stack # <<>> /\ Build(o, Top.root, H) /\ H \subseteq {Top.scope}
           /\ Allocated(Top.scope) /\ up
           /\ UNCHANGED <<up, st, hook, stack>>
<1>1. stack # <<>> /\ up /\ UNCHANGED <<up, st, hook, stack>>
  BY DEF AddChild, countVars
<1>2. Allocated(Top.scope)
  BY <1>1, TopIn DEF SInv, IInv, StackOK
<1>3. PICK H \in SUBSET Scopes : Lookup(Top.scope, H) /\ Build(o, Top.root, H)
  BY DEF AddChild
<1>4. H \subseteq {Top.scope}
  BY <1>3 DEF Lookup, OwnStyles, Contained
<1> QED BY <1>1, <1>2, <1>3, <1>4
-----------------------------------------------------------------------------
(* One step: the invariant is kept and the step is one of StyleStorage.     *)

AbsStep == [Abs!Next]_(Abs!absVars)

\* The mapping: what is allocated, and who uses it.
LEMMA Mapped ==
  ASSUME TypeOK, NEW s \in Scopes
  PROVE  /\ st[s] = "unused" \/ st[s] = "freed" \/ Allocated(s)
         /\ ~(st[s] = "unused" /\ Allocated(s)) /\ ~(st[s] = "freed" /\ Allocated(s))
BY DEF TypeOK, Allocated

\* What Storage maps each state of a scope to.
LEMMA StorageValue ==
  ASSUME TypeOK, NEW s \in Scopes
  PROVE  /\ Storage[s] = "none" <=> st[s] = "unused"
         /\ Storage[s] = "allocated" <=> Allocated(s)
         /\ Storage[s] = "released" <=> st[s] = "freed"
         /\ Storage[s] \in {"none", "allocated", "released"}
BY Mapped DEF Storage, Allocated

\* Steps that change neither the allocations nor the users.
LEMMA StutterStep ==
  ASSUME UNCHANGED <<up, st, holds>>, \A o \in Objs : Exists(o)' <=> Exists(o)
  PROVE  AbsStep
<1>1. Storage' = Storage
  BY DEF Storage, Allocated
<1>2. Users' = Users
  BY DEF Users
<1> QED BY <1>1, <1>2 DEF AbsStep, Abs!absVars

\* A step that releases s alone, which nobody uses.
LEMMA ReclaimStep ==
  ASSUME TypeOK, TypeOK', NEW s \in Scopes, up, Allocated(s),
         \A o \in Objs : Exists(o) => s \notin holds[o],
         st' = [st EXCEPT ![s] = "freed"], UNCHANGED <<up, ost, holds>>
  PROVE  AbsStep
<1>1. Users' = Users /\ Users[s] = {}
  BY DEF Users, Exists
<1>2. Storage' = [Storage EXCEPT ![s] = "released"]
  <2>1. \A x \in Scopes : Storage'[x] = IF x = s THEN "released" ELSE Storage[x]
    <3> TAKE x \in Scopes
    <3>1. CASE x = s
      <4>1. st'[s] = "freed"
        BY DEF TypeOK
      <4> QED BY <4>1, <3>1 DEF Storage, Allocated
    <3>2. CASE x # s
      <4>1. st'[x] = st[x]
        BY <3>2 DEF TypeOK
      <4> QED BY <4>1, <3>2 DEF Storage, Allocated
    <3> QED BY <3>1, <3>2
  <2>2. Storage = [x \in Scopes |-> Storage[x]] /\ Storage' = [x \in Scopes |-> Storage'[x]]
    BY DEF Storage
  <2> QED BY <2>1, <2>2
<1>3. Storage[s] = "allocated"
  BY StorageValue
<1>4. Abs!Reclaim(s)
  BY <1>1, <1>2, <1>3 DEF Abs!Reclaim
<1> QED BY <1>4 DEF AbsStep, Abs!Next

\* A step that builds o with styles of H.
LEMMA UseStep ==
  ASSUME TypeOK, NEW o \in Objs, NEW p \in Objs, NEW H \in SUBSET Scopes, Build(o, p, H),
         \A s \in H : Allocated(s), up, UNCHANGED <<up, st>>
  PROVE  AbsStep
<1>0. /\ ost[o] = "unused"
      /\ ost' = [ost EXCEPT ![o] = "live"]
      /\ holds' = [holds EXCEPT ![o] = H]
  BY DEF Build
<1>1. Storage' = Storage
  BY DEF Storage, Allocated
<1>2. \A s \in Scopes : o \notin Users[s]
  BY <1>0 DEF Users, Exists
<1>3. Users' = [s \in Scopes |-> IF s \in H THEN Users[s] \cup {o} ELSE Users[s]]
  <2>1. ASSUME NEW s \in Scopes
        PROVE  Users'[s] = IF s \in H THEN Users[s] \cup {o} ELSE Users[s]
    <3>1. \A x \in Objs : x # o => (Exists(x)' <=> Exists(x)) /\ holds'[x] = holds[x]
      BY <1>0 DEF Exists, TypeOK
    <3>2. Exists(o)' /\ holds'[o] = H
      BY <1>0 DEF Exists, TypeOK
    <3>3. \A x \in Objs : x \in Users'[s] <=> x \in Users[s] \/ (x = o /\ s \in H)
      BY <3>1, <3>2, <1>2 DEF Users
    <3>4. Users[s] \subseteq Objs /\ Users'[s] \subseteq Objs
      BY DEF Users
    <3> QED BY <3>3, <3>4
  <2> QED BY <2>1 DEF Users
<1>4. \A s \in H : Storage[s] = "allocated"
  BY StorageValue
<1>5. \A s \in H : Storage[s] = "allocated" /\ o \notin Users[s]
  BY <1>2, <1>4
<1>6. UNCHANGED <<up, Storage>>
  BY <1>1
<1>7. Abs!Use(o, H)
  BY <1>3, <1>5, <1>6 DEF Abs!Use
<1> QED BY <1>7 DEF AbsStep, Abs!Next
-----------------------------------------------------------------------------
(* The actions.                                                             *)

\* A registration is a Load of the abstract storage.
LEMMA RegisterStep ==
  ASSUME SInv, TypeOK', Contained, NEW n \in Names, NEW s \in Scopes, Register(n, s)
  PROVE  HoldersSafe' /\ HoldersOwned' /\ AbsStep
<1> DEFINE freed == {x \in Scopes : st[x] = "live" /\ name[x] = n /\ ~Held(x)}
<1>0. /\ st[s] = "unused" /\ s \notin freed
      /\ \A x \in Scopes : Allocated(x)' <=> x = s \/ (Allocated(x) /\ x \notin freed)
      /\ \A x \in Scopes : st'[x] = "unused" <=> st[x] = "unused" /\ x # s
      /\ \A x \in freed : Allocated(x) /\ \A o \in Objs : Exists(o) => x \notin holds[o]
      /\ hook' = hook
  BY RegisterFrees
<1>1. up /\ UNCHANGED <<up, ost, within, holds, stack>>
  BY DEF Register, AppRuns, LoaderRuns, objVars
<1>2. TypeOK
  BY DEF SInv, IInv
<1>3. freed \in SUBSET Scopes
  OBVIOUS
<1> HIDE DEF freed
<1>4. HoldersSafe' /\ HoldersOwned'
  BY <1>0, <1>1, QuietKeeps
<1>5. Users' = Users
  BY <1>1 DEF Users, Exists
<1>6. \A r \in freed : Storage[r] = "allocated" /\ Users[r] = {}
  BY <1>0, <1>2, <1>3, StorageValue DEF Users
<1>7. Storage' = [x \in Scopes |-> IF x = s THEN "allocated"
                                   ELSE IF x \in freed THEN "released" ELSE Storage[x]]
  <2>1. ASSUME NEW x \in Scopes
        PROVE  Storage'[x] = IF x = s THEN "allocated"
                             ELSE IF x \in freed THEN "released" ELSE Storage[x]
    <3>1. Storage'[x] = IF st'[x] = "unused" THEN "none"
                        ELSE IF Allocated(x)' THEN "allocated" ELSE "released"
      BY DEF Storage
    <3>2. Storage[x] = IF st[x] = "unused" THEN "none"
                       ELSE IF Allocated(x) THEN "allocated" ELSE "released"
      BY DEF Storage
    <3>3. x \in freed => st[x] # "unused"
      BY <1>0 DEF Allocated
    <3> QED BY <3>1, <3>2, <3>3, <1>0
  <2>2. Storage' = [x \in Scopes |-> Storage'[x]]
    BY DEF Storage
  <2> QED BY <2>1, <2>2
<1>8. Storage[s] = "none"
  BY <1>0 DEF Storage
<1>9. Abs!Load(s, freed)
  <2>1. UNCHANGED <<up, Users>>
    BY <1>1, <1>5
  <2> QED BY <2>1, <1>1, <1>6, <1>7, <1>8 DEF Abs!Load
<1> QED BY <1>3, <1>4, <1>9 DEF AbsStep, Abs!Next

\* A failed registration is a Load whose storage is released at once.
LEMMA RegisterFailsStep ==
  ASSUME SInv, NEW n \in Names, NEW s \in Scopes, RegisterFails(n, s)
  PROVE  HoldersSafe' /\ HoldersOwned' /\ AbsStep
<1>0. /\ st[s] = "unused" /\ st' = [st EXCEPT ![s] = "freed"] /\ up
      /\ UNCHANGED <<up, ost, within, holds, hook, stack>>
  BY DEF RegisterFails, AppRuns, LoaderRuns, objVars, countVars
<1>1. TypeOK
  BY DEF SInv, IInv
<1>2. \A x \in Scopes : Allocated(x)' <=> Allocated(x)
  BY <1>0, <1>1 DEF Allocated, TypeOK
<1>3. HoldersSafe' /\ HoldersOwned'
  BY <1>0, <1>2, QuietKeeps
<1>4. Storage' = [x \in Scopes |-> IF x = s THEN "released"
                                   ELSE IF x \in {} THEN "released" ELSE Storage[x]]
  <2>1. ASSUME NEW x \in Scopes
        PROVE  Storage'[x] = IF x = s THEN "released" ELSE Storage[x]
    <3>1. Storage'[x] = IF st'[x] = "unused" THEN "none"
                        ELSE IF Allocated(x)' THEN "allocated" ELSE "released"
      BY DEF Storage
    <3>2. Storage[x] = IF st[x] = "unused" THEN "none"
                       ELSE IF Allocated(x) THEN "allocated" ELSE "released"
      BY DEF Storage
    <3> QED BY <3>1, <3>2, <1>0, <1>1, <1>2 DEF TypeOK, Allocated
  <2>2. Storage' = [x \in Scopes |-> Storage'[x]]
    BY DEF Storage
  <2> QED BY <2>1, <2>2
<1>5. Abs!Load(s, {})
  <2>1. Users' = Users
    BY <1>0 DEF Users, Exists
  <2>2. Storage[s] = "none"
    BY <1>0 DEF Storage
  <2>3. UNCHANGED <<up, Users>>
    BY <2>1, <1>0
  <2> QED BY <2>2, <2>3, <1>0, <1>4 DEF Abs!Load
<1> QED BY <1>3, <1>5 DEF AbsStep, Abs!Next

\* Unregistration and the queued free release a scope that nobody uses.
LEMMA RetireStep ==
  ASSUME SInv, TypeOK', NEW s \in Scopes, up, stack = <<>>, Dying = {}, Allocated(s),
         \/ st' = [st EXCEPT ![s] = "freed"] /\ cnt[s] = 0
         \/ st' = [st EXCEPT ![s] = "pending"],
         UNCHANGED <<up, ost, within, holds, hook, stack>>
  PROVE  HoldersSafe' /\ HoldersOwned' /\ AbsStep
<1>1. TypeOK
  BY DEF SInv, IInv
<1>2. CASE st' = [st EXCEPT ![s] = "freed"] /\ cnt[s] = 0
  <2>1. \A o \in Objs : Exists(o) => s \notin holds[o]
    BY <1>2, NoUsers
  <2>2. \A x \in Scopes : Allocated(x) /\ ~Allocated(x)' => x = s
    BY <1>1, <1>2 DEF Allocated, TypeOK
  <2>3. HoldersSafe' /\ HoldersOwned'
    BY <2>1, <2>2, QuietKeeps
  <2>4. AbsStep
    BY <1>1, <1>2, <2>1, ReclaimStep
  <2> QED BY <2>3, <2>4
<1>3. CASE st' = [st EXCEPT ![s] = "pending"]
  <2>1. \A x \in Scopes : Allocated(x)' <=> Allocated(x)
    BY <1>1, <1>3 DEF Allocated, TypeOK
  <2>2. HoldersSafe' /\ HoldersOwned'
    BY <2>1, QuietKeeps
  <2>3. Storage' = Storage
    <3>1. \A x \in Scopes : st'[x] = "unused" <=> st[x] = "unused"
      BY <1>1, <1>3 DEF Allocated, TypeOK
    <3> QED BY <2>1, <3>1 DEF Storage
  <2>4. Users' = Users
    BY DEF Users, Exists
  <2> QED BY <2>2, <2>3, <2>4 DEF AbsStep, Abs!absVars
<1> QED BY <1>2, <1>3

\* An unregistration is a Reclaim, or a stutter when the free is deferred.
LEMMA UnregisterStep ==
  ASSUME SInv, TypeOK', Contained, NEW n \in Names, Unregister(n)
  PROVE  HoldersSafe' /\ HoldersOwned' /\ AbsStep
<1> DEFINE s == index[n]
<1>1. TypeOK
  BY DEF SInv, IInv
<1>2. "handler" \notin Env
  BY DEF Contained
<1>3. /\ up /\ stack = <<>> /\ Dying = {} /\ s \in Scopes
      /\ UNCHANGED <<up, ost, within, holds, stack>>
  BY <1>1, <1>2 DEF Unregister, AppRuns, TypeOK, objVars
<1>4. st[s] = "live"
  BY <1>3, ScopeAssumption DEF SInv, IInv, LookupsExact
<1>5. ~Held(s) => cnt[s] = 0 /\ \A o \in Objs : hook[o] # s
  BY <1>3, <1>4, FreedHasNoInstances DEF Allocated, SInv
<1>6. hook' = hook
  BY <1>1, <1>5 DEF Unregister, Disarm, TypeOK
<1>7. st' = [st EXCEPT ![s] = IF Held(s) THEN "pending" ELSE "freed"]
  BY <1>1, <1>3, ZenonT(40) DEF Unregister, Retired, TypeOK
<1>8. \/ st' = [st EXCEPT ![s] = "freed"] /\ cnt[s] = 0
      \/ st' = [st EXCEPT ![s] = "pending"]
  BY <1>5, <1>7
<1> QED BY <1>3, <1>4, <1>6, <1>8, RetireStep DEF Allocated

\* The deferred free is a Reclaim: the scope has no users left.
LEMMA ScopeFreeAsyncStep ==
  ASSUME SInv, TypeOK', NEW s \in Scopes, ScopeFreeAsync(s)
  PROVE  HoldersSafe' /\ HoldersOwned' /\ AbsStep
<1>1. st[s] = "pending" /\ cnt[s] = 0
  BY DEF ScopeFreeAsync, SInv, IInv, QueuedFreeSound
<1>2. \A o \in Objs : hook[o] # s
  <2>1. insts[s] = {o \in Objs : hook[o] = s} /\ cnt[s] = Cardinality(insts[s])
    BY <1>1 DEF SInv, IInv, CountExact, Allocated
  <2>2. insts[s] = {}
    BY <2>1, <1>1, FS_EmptySet DEF SInv, IInv, FiniteInsts
  <2> QED BY <2>1, <2>2
<1>3. hook' = hook
  BY <1>2 DEF ScopeFreeAsync, Disarm, SInv, IInv, TypeOK
<1>4. /\ up /\ stack = <<>> /\ Dying = {} /\ st' = [st EXCEPT ![s] = "freed"]
      /\ UNCHANGED <<up, ost, within, holds, stack>>
  BY DEF ScopeFreeAsync, Idle, objVars
<1> QED BY <1>1, <1>3, <1>4, RetireStep DEF Allocated

\* A view root is a Use of the storage of its scope.
LEMMA CreateBeginStep ==
  ASSUME SInv, NEW s \in Scopes, NEW o \in Objs, CreateBegin(s, o)
  PROVE  HoldersSafe' /\ HoldersOwned' /\ AbsStep
<1>1. PICK p \in Objs, H \in SUBSET Scopes :
           /\ Build(o, p, H) /\ H \subseteq {s} /\ Allocated(s) /\ up
           /\ UNCHANGED <<up, st, hook>>
           /\ stack' = Append(stack, [scope |-> s, root |-> o])
  BY CreateBeginUses
<1>2. TypeOK /\ stack \in Seq(Frame)
  BY DEF SInv, IInv, TypeOK
<1>3. /\ \A i \in DOMAIN stack : i \in DOMAIN stack' /\ stack'[i] = stack[i]
      /\ Len(stack) + 1 \in DOMAIN stack'
      /\ stack'[Len(stack) + 1] = [scope |-> s, root |-> o]
  BY <1>1, <1>2
<1>4. \A x \in H : Allocated(x) /\
         \E i \in DOMAIN stack' : stack'[i].scope = x /\ stack'[i].root \in {o} \cup within[p]
  BY <1>1, <1>3
<1>5. HoldersSafe' /\ HoldersOwned'
  BY <1>1, <1>3, <1>4, BuildOwned
<1>6. AbsStep
  BY <1>1, <1>2, <1>4, UseStep
<1> QED BY <1>5, <1>6

\* A widget of a view is a Use of the storage of its scope.
LEMMA AddChildStep ==
  ASSUME SInv, Contained, NEW o \in Objs, AddChild(o)
  PROVE  HoldersSafe' /\ HoldersOwned' /\ AbsStep
<1>1. PICK H \in SUBSET Scopes :
           /\ stack # <<>> /\ Build(o, Top.root, H) /\ H \subseteq {Top.scope}
           /\ Allocated(Top.scope) /\ up
           /\ UNCHANGED <<up, st, hook, stack>>
  BY AddChildUses
<1>2. TypeOK /\ Top.root \in Objs
  BY <1>1, TopIn DEF SInv, IInv
<1>3. Top.root \in within[Top.root] /\ Len(stack) \in DOMAIN stack /\ Top = stack[Len(stack)]
  <2>1. ost[Top.root] = "live"
    BY <1>1, <1>2, TopIn DEF SInv, IInv, StackOK
  <2> QED BY <2>1, <1>1, <1>2, TopIn DEF SInv, IInv, TreeOK, IsForest, Exists
<1>4. \A x \in H : Allocated(x) /\
         \E i \in DOMAIN stack' : stack'[i].scope = x /\ stack'[i].root \in {o} \cup within[Top.root]
  BY <1>1, <1>3
<1>5. HoldersSafe' /\ HoldersOwned'
  BY <1>1, <1>2, <1>4, BuildOwned
<1>6. AbsStep
  BY <1>1, <1>2, <1>4, UseStep
<1> QED BY <1>5, <1>6

\* The view that is finished hands what it holds over to its hook.
LEMMA CreateEndStep ==
  ASSUME SInv, Contained, CreateEnd
  PROVE  HoldersSafe' /\ HoldersOwned' /\ AbsStep
<1>1. TypeOK
  BY DEF SInv, IInv
<1>2. "oom" \notin Env
  BY DEF Contained
<1>3. /\ stack # <<>> /\ Attach(Top.scope, Top.root)
      /\ stack' = SubSeq(stack, 1, Len(stack) - 1)
      /\ UNCHANGED <<up, st, ost, within, holds>>
  BY <1>2 DEF CreateEnd, objVars, registryVars
<1>4. /\ hook' = [hook EXCEPT ![Top.root] = Top.scope]
      /\ Top.root \in Objs /\ Top.scope \in Scopes /\ hook[Top.root] = NoScope
  BY <1>1, <1>3, TopIn DEF Attach, SInv, IInv, StackOK
<1>5. \A i \in DOMAIN stack : i # Len(stack) => i \in DOMAIN stack' /\ stack'[i] = stack[i]
  <2>1. stack \in Seq(Frame) /\ DOMAIN stack = 1..Len(stack) /\ Len(stack) \in Nat
    BY <1>1 DEF TypeOK
  <2> QED BY <2>1, <1>3
<1>6. HoldersSafe'
  BY <1>3 DEF SInv, HoldersSafe, Exists, Allocated
<1>7. HoldersOwned'
  <2> SUFFICES ASSUME up, NEW x \in Objs, ost[x] = "live", NEW s \in holds[x]
               PROVE  \/ \E r \in within[x] : hook'[r] = s
                      \/ \E i \in DOMAIN stack' : stack'[i].scope = s
                                                  /\ stack'[i].root \in within[x]
    BY <1>3 DEF HoldersOwned
  <2>0. s \in Scopes /\ within[x] \subseteq Objs
    BY <1>1 DEF TypeOK
  <2>1. CASE \E r \in within[x] : hook[r] = s
    <3>1. PICK r \in within[x] : hook[r] = s
      BY <2>1
    <3>2. hook'[r] = s
      BY <3>1, <2>0, <1>1, <1>4, ScopeAssumption DEF TypeOK
    <3> QED BY <3>2
  <2>2. CASE \E i \in DOMAIN stack : stack[i].scope = s /\ stack[i].root \in within[x]
    <3>1. PICK i \in DOMAIN stack : stack[i].scope = s /\ stack[i].root \in within[x]
      BY <2>2
    <3>2. CASE i = Len(stack)
      <4>1. hook'[Top.root] = s /\ Top.root \in within[x]
        BY <3>1, <3>2, <1>1, <1>4 DEF Top, TypeOK
      <4> QED BY <4>1
    <3>3. CASE i # Len(stack)
      BY <3>1, <3>3, <1>5
    <3> QED BY <3>2, <3>3
  <2> QED BY <2>1, <2>2 DEF SInv, HoldersOwned
<1>8. AbsStep
  <2>1. \A o \in Objs : Exists(o)' <=> Exists(o)
    BY <1>3 DEF Exists
  <2> QED BY <2>1, <1>3, StutterStep
<1> QED BY <1>6, <1>7, <1>8

\* A deletion takes no object off the tree that an object outside it lies in.
LEMMA SendDeleteStep ==
  ASSUME SInv, NEW r \in Objs, SendDelete(Under(r)),
         UNCHANGED <<up, st, within, holds>>,
         \A i \in DOMAIN stack : stack[i].root # r => i \in DOMAIN stack' /\ stack'[i] = stack[i]
  PROVE  HoldersSafe' /\ HoldersOwned' /\ AbsStep
<1> DEFINE D == Under(r)
<1>0. /\ ost' = [o \in Objs |-> IF o \in D THEN "dying" ELSE ost[o]]
      /\ hook' = [o \in Objs |-> IF o \in D THEN NoScope ELSE hook[o]]
  BY DEF SendDelete
<1>1. \A o \in Objs : Exists(o)' <=> Exists(o)
  BY <1>0 DEF Exists, Under
<1>2. HoldersSafe'
  BY <1>1 DEF SInv, HoldersSafe, Allocated
<1>3. HoldersOwned'
  <2> SUFFICES ASSUME up, NEW x \in Objs, ost'[x] = "live", NEW s \in holds[x]
               PROVE  \/ \E y \in within[x] : hook'[y] = s
                      \/ \E i \in DOMAIN stack' : stack'[i].scope = s
                                                  /\ stack'[i].root \in within[x]
    BY DEF HoldersOwned
  <2>1. x \notin D /\ ost[x] = "live"
    BY <1>0
  <2>2. \A y \in within[x] : y \in Objs /\ y \notin D /\ y # r
    BY <2>1, TreeFacts DEF Under, SInv, IInv
  <2>3. CASE \E y \in within[x] : hook[y] = s
    BY <2>2, <2>3, <1>0
  <2>4. CASE \E i \in DOMAIN stack : stack[i].scope = s /\ stack[i].root \in within[x]
    BY <2>2, <2>4
  <2> QED BY <2>1, <2>3, <2>4 DEF SInv, HoldersOwned
<1> QED BY <1>1, <1>2, <1>3, StutterStep

\* The start of a deletion changes neither storage nor users.
LEMMA DeleteStep ==
  ASSUME SInv, NEW o \in Objs, Delete(o) \/ SinkDelete(o)
  PROVE  HoldersSafe' /\ HoldersOwned' /\ AbsStep
<1>1. SendDelete(Under(o)) /\ UNCHANGED <<up, st, within, holds, stack>>
  BY DEF Delete, SinkDelete, registryVars
<1> QED BY <1>1, SendDeleteStep

\* The start of the deletion of an aborted view changes neither.
LEMMA CreateFailsStep ==
  ASSUME SInv, CreateFails
  PROVE  HoldersSafe' /\ HoldersOwned' /\ AbsStep
<1>1. /\ stack # <<>> /\ SendDelete(Under(Top.root)) /\ UNCHANGED <<up, st, within, holds>>
      /\ stack' = SubSeq(stack, 1, Len(stack) - 1)
  BY DEF CreateFails, registryVars
<1>2. Top.root \in Objs
  BY <1>1, TopIn DEF SInv, IInv
<1>3. \A i \in DOMAIN stack : stack[i].root # Top.root
                              => i \in DOMAIN stack' /\ stack'[i] = stack[i]
  <2>1. stack \in Seq(Frame)
    BY DEF SInv, IInv, TypeOK
  <2>2. DOMAIN stack = 1..Len(stack) /\ Len(stack) \in Nat
    BY <2>1
  <2>3. \A i \in DOMAIN stack : stack[i].root # Top.root => i # Len(stack)
    BY DEF Top
  <2> QED BY <2>1, <2>2, <2>3, <1>1
<1> QED BY <1>1, <1>2, <1>3, SendDeleteStep

\* The end of a deletion is a Leave.
LEMMA DestroyedStep ==
  ASSUME SInv, Destroyed
  PROVE  HoldersSafe' /\ HoldersOwned' /\ AbsStep
<1>0. /\ ost' = [o \in Objs |-> IF o \in Dying THEN "gone" ELSE ost[o]]
      /\ within' = [o \in Objs |-> IF o \in Dying THEN {} ELSE within[o]]
      /\ holds' = [o \in Objs |-> IF o \in Dying THEN {} ELSE holds[o]]
      /\ UNCHANGED <<up, st, hook, stack>>
  BY DEF Destroyed, registryVars
<1>1. \A o \in Objs : /\ o \in Dying <=> ost[o] = "dying"
                      /\ Exists(o)' <=> Exists(o) /\ o \notin Dying
  BY <1>0 DEF Dying, Exists
<1>2. HoldersSafe'
  BY <1>0, <1>1 DEF SInv, HoldersSafe, Allocated
<1>3. HoldersOwned'
  <2> SUFFICES ASSUME up, NEW x \in Objs, ost[x] = "live", x \notin Dying
               PROVE  /\ holds'[x] = holds[x] /\ within'[x] = within[x]
                      /\ \A s \in holds[x] :
                           \/ \E y \in within[x] : hook[y] = s
                           \/ \E i \in DOMAIN stack : stack[i].scope = s
                                                      /\ stack[i].root \in within[x]
    BY <1>0 DEF HoldersOwned
  <2> QED BY <1>0 DEF SInv, HoldersOwned
<1>4. Storage' = Storage
  BY <1>0 DEF Storage, Allocated
<1>5. Users' = [s \in Scopes |-> Users[s] \ Dying]
  <2>1. ASSUME NEW s \in Scopes PROVE Users'[s] = Users[s] \ Dying
    <3>1. \A o \in Objs : Exists(o)' /\ s \in holds'[o]
                          <=> Exists(o) /\ s \in holds[o] /\ o \notin Dying
      BY <1>0, <1>1
    <3> QED BY <3>1 DEF Users
  <2> QED BY <2>1 DEF Users
<1>6. Abs!Leave(Dying) /\ Dying \in SUBSET Objs
  <2>1. UNCHANGED <<up, Storage>>
    BY <1>0, <1>4
  <2> QED BY <2>1, <1>5 DEF Abs!Leave, Dying
<1> QED BY <1>2, <1>3, <1>6 DEF AbsStep, Abs!Next

\* lv_xml_component_deinit() is the Shutdown.
LEMMA DeinitStep ==
  ASSUME SInv, Deinit
  PROVE  HoldersSafe' /\ HoldersOwned' /\ AbsStep
<1>0. /\ up /\ up' = FALSE
      /\ st' = [s \in Scopes |-> IF Allocated(s) THEN "freed" ELSE st[s]]
      /\ UNCHANGED <<ost, holds>>
  BY DEF Deinit, Idle, objVars
<1>1. HoldersSafe' /\ HoldersOwned'
  BY <1>0 DEF HoldersSafe, HoldersOwned
<1>2. TypeOK
  BY DEF SInv, IInv
<1>3. Users' = Users
  BY <1>0 DEF Users, Exists
<1>4. Storage' = [s \in Scopes |-> IF Storage[s] = "allocated" THEN "released"
                                   ELSE Storage[s]]
  <2>1. ASSUME NEW s \in Scopes
        PROVE  Storage'[s] = IF Storage[s] = "allocated" THEN "released" ELSE Storage[s]
    <3>1. Storage'[s] = IF st'[s] = "unused" THEN "none"
                        ELSE IF Allocated(s)' THEN "allocated" ELSE "released"
      BY DEF Storage
    <3>2. st'[s] = IF Allocated(s) THEN "freed" ELSE st[s]
      BY <1>0
    <3>3. ~Allocated(s)'
      BY <3>2 DEF Allocated
    <3> QED BY <3>1, <3>2, <3>3, <1>2, StorageValue
  <2>2. Storage' = [s \in Scopes |-> Storage'[s]]
    BY DEF Storage
  <2> QED BY <2>1, <2>2
<1>5. Abs!Shutdown
  BY <1>0, <1>3, <1>4 DEF Abs!Shutdown
<1> QED BY <1>1, <1>5 DEF AbsStep, Abs!Next

\* The change of the loaded screen, and a stutter, map to a stutter.
LEMMA IdleStep ==
  ASSUME SInv, LoadScreen \/ UNCHANGED vars
  PROVE  HoldersSafe' /\ HoldersOwned' /\ AbsStep
<1>1. UNCHANGED <<up, st, ost, within, holds, hook, stack>>
  BY DEF LoadScreen, vars, registryVars, objVars, countVars
<1>2. \A s \in Scopes : Allocated(s)' <=> Allocated(s)
  BY <1>1 DEF Allocated
<1>3. HoldersSafe' /\ HoldersOwned'
  BY <1>1, <1>2, QuietKeeps
<1>4. \A o \in Objs : Exists(o)' <=> Exists(o)
  BY <1>1 DEF Exists
<1> QED BY <1>1, <1>3, <1>4, StutterStep
-----------------------------------------------------------------------------
(* The theorems.                                                            *)

\* The initial states map to initial states of StyleStorage.
LEMMA StorageInit == Init => SInv /\ Abs!Init
<1> SUFFICES ASSUME Init PROVE SInv /\ Abs!Init
  OBVIOUS
<1>1. IInv
  BY InitIInv
<1>2. HoldersSafe /\ HoldersOwned
  BY DEF Init, HoldersSafe, HoldersOwned, Exists
<1>3. Abs!Init
  BY DEF Init, Abs!Init, Storage, Users, Exists
<1> QED BY <1>1, <1>2, <1>3 DEF SInv

\* Every step maps to a step of StyleStorage or to a stutter.
LEMMA StorageNext ==
  ASSUME Contained
  PROVE  SInv /\ [Next]_vars => SInv' /\ AbsStep
<1> SUFFICES ASSUME SInv, [Next]_vars
             PROVE  HoldersSafe' /\ HoldersOwned' /\ AbsStep
  BY NextKeeps DEF SInv
<1>0. TypeOK'
  BY NextKeeps DEF SInv, IInv
<1>1. CASE \E n \in Names, s \in Scopes : Register(n, s) \/ RegisterFails(n, s)
  BY <1>0, <1>1, RegisterStep, RegisterFailsStep
<1>2. CASE \E n \in Names : Unregister(n)
  BY <1>0, <1>2, UnregisterStep
<1>3. CASE \E s \in Scopes, o \in Objs : CreateBegin(s, o)
  BY <1>3, CreateBeginStep
<1>4. CASE \E o \in Objs : AddChild(o) \/ Delete(o) \/ SinkDelete(o)
  BY <1>4, AddChildStep, DeleteStep
<1>5. CASE CreateEnd \/ CreateFails
  BY <1>5, CreateEndStep, CreateFailsStep
<1>6. CASE Destroyed \/ Deinit
  BY <1>6, DestroyedStep, DeinitStep
<1>7. CASE \E s \in Scopes : ScopeFreeAsync(s)
  BY <1>0, <1>7, ScopeFreeAsyncStep
<1>8. CASE LoadScreen \/ UNCHANGED vars
  BY <1>8, IdleStep
<1>9. ~\E o \in Objs : Orphan(o)
  BY DEF Orphan, Contained
<1>10. ~\E r, x, o \in Objs : FragRebuild(r, x, o)
  BY DEF FragRebuild, Contained
<1> QED BY <1>1, <1>2, <1>3, <1>4, <1>5, <1>6, <1>7, <1>8, <1>9, <1>10 DEF Next

\* While the engine is up no object, dying ones included, points into style
\* storage that component_scope_free() has released.
THEOREM HoldersAlwaysSafe ==
  ASSUME Contained
  PROVE  Spec => []HoldersSafe
<1>1. Init => SInv
  BY StorageInit
<1>2. SInv /\ [Next]_vars => SInv'
  BY StorageNext
<1>3. SInv => HoldersSafe
  BY DEF SInv
<1> QED BY <1>1, <1>2, <1>3, PTL DEF Spec

\* The registry implements StyleStorage: storage is released without users only,
\* and nothing released is used again.
THEOREM KeepsStoragePromise ==
  ASSUME Contained
  PROVE  Spec => StoragePromise
<1>1. Init => SInv /\ Abs!Init
  BY StorageInit
<1>2. SInv /\ [Next]_vars => SInv' /\ [Abs!Next]_(Abs!absVars)
  BY StorageNext DEF AbsStep
<1> QED BY <1>1, <1>2, PTL DEF Spec, StoragePromise, Abs!Spec
=============================================================================
