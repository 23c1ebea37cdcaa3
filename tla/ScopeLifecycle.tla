--------------------------- MODULE ScopeLifecycle ---------------------------
(***************************************************************************)
(* The life of a component scope (lv_xml_component.c): registration,       *)
(* replacement, unregistration, the per-instance reference count, the      *)
(* deferred free and the forced free of lv_xml_component_deinit().         *)
(*                                                                         *)
(* A scope owns lv_style_t storage; widgets hold raw pointers into it.     *)
(* What is at stake is that no widget outlives the storage it points to.   *)
(*                                                                         *)
(* An object o is described by `within[o]`, the objects of the tree that   *)
(* are o itself or an ancestor of o: deleting r takes every o with         *)
(* r \in within[o].  Scope and object identities are never reused, so a    *)
(* pointer to a freed scope stays recognisable.                            *)
(***************************************************************************)
EXTENDS Naturals, Sequences, FiniteSets

CONSTANTS
  Names,      (* component names (never "globals", which is not retired)   *)
  Scopes,     (* scope allocations                                         *)
  Objs,       (* LVGL objects                                              *)
  NoScope,
  Env,        (* what the application does, a subset of EnvKinds           *)
  MaxDepth    (* nesting of component views in one another                 *)

\* "lend"    views use component.style references to other components
\* "orphan"  the application reparents an object out of its view
\* "frag"    views have subject-bound <repeat>/<if> fragments
\* "screens" there is a second screen, and the loaded one changes
\* "handler" LV_EVENT_DELETE handlers of the application (un)register
\* "stale"   instances are created from a caller-held scope pointer
\* "oom"     the delete hook or the async call may fail to be allocated
EnvKinds == {"lend", "orphan", "frag", "screens", "handler", "stale", "oom"}

ASSUME ScopeAssumption ==
  /\ NoScope \notin Scopes
  /\ Env \subseteq EnvKinds
  /\ MaxDepth \in Nat \ {0}
  /\ Names # {}

VARIABLES
  up,         (* between lv_xml_init() and lv_xml_deinit()                 *)
  st,         (* unused, live (component_scope_ll), pending                *)
              (* (pending_free_scope_ll, the pending_free bit) or freed    *)
  name,       (* scope->name                                               *)
  cnt,        (* scope->instance_cnt                                       *)
  insts,      (* scope->instance_ll, as the set of their view roots        *)
  borrowed,   (* scope->styles_borrowed                                    *)
  index,      (* component_scope_index                                     *)
  freeQ,      (* scopes with scope_free_async_cb queued                    *)
  ost,        (* unused, live, dying (LV_EVENT_DELETE sent, not destroyed  *)
              (* yet) or gone                                              *)
  within,     (* the object and its ancestors                              *)
  holds,      (* scopes whose style storage the object points into         *)
  hook,       (* the scope of its scope_instance_delete_cb hook            *)
  made,       (* history: the scope it was attached to as a view root      *)
  screen,     (* where the tree hangs: a screen or a display layer         *)
  active,     (* the loaded screen                                         *)
  sinkQ,      (* objects condemned by a fragment rebuild, delete queued    *)
  stack       (* views being parsed, innermost first                       *)

registryVars == <<st, name, borrowed, index>>
countVars == <<cnt, insts, hook, made>>
objVars == <<ost, within, holds, screen, sinkQ>>
vars == <<up, st, name, cnt, insts, borrowed, index, freeQ, ost, within,
          holds, hook, made, screen, active, sinkQ, stack>>

Screens == {"A", "B"}
Frame == [scope : Scopes, root : Objs]

TypeOK ==
  /\ up \in BOOLEAN
  /\ st \in [Scopes -> {"unused", "live", "pending", "freed"}]
  /\ name \in [Scopes -> Names]
  /\ cnt \in [Scopes -> Nat]
  /\ insts \in [Scopes -> SUBSET Objs]
  /\ borrowed \in [Scopes -> BOOLEAN]
  /\ index \in [Names -> Scopes \cup {NoScope}]
  /\ freeQ \subseteq Scopes
  /\ ost \in [Objs -> {"unused", "live", "dying", "gone"}]
  /\ within \in [Objs -> SUBSET Objs]
  /\ holds \in [Objs -> SUBSET Scopes]
  /\ hook \in [Objs -> Scopes \cup {NoScope}]
  /\ made \in [Objs -> Scopes \cup {NoScope}]
  /\ screen \in [Objs -> Screens \cup {"layer"}]
  /\ active \in Screens
  /\ sinkQ \subseteq Objs
  /\ stack \in Seq(Frame)

Init ==
  /\ up = TRUE
  /\ st = [s \in Scopes |-> "unused"]
  /\ name = [s \in Scopes |-> CHOOSE n \in Names : TRUE]
  /\ cnt = [s \in Scopes |-> 0]
  /\ insts = [s \in Scopes |-> {}]
  /\ borrowed = [s \in Scopes |-> FALSE]
  /\ index = [n \in Names |-> NoScope]
  /\ freeQ = {}
  /\ ost = [o \in Objs |-> "unused"]
  /\ within = [o \in Objs |-> {}]
  /\ holds = [o \in Objs |-> {}]
  /\ hook = [o \in Objs |-> NoScope]
  /\ made = [o \in Objs |-> NoScope]
  /\ screen = [o \in Objs |-> "A"]
  /\ active = "A"
  /\ sinkQ = {}
  /\ stack = <<>>

-----------------------------------------------------------------------------
Dying == {o \in Objs : ost[o] = "dying"}
Exists(o) == ost[o] \in {"live", "dying"}
Allocated(s) == st[s] \in {"live", "pending"}

\* o and everything below it in the object tree.
Under(o) == {x \in Objs : ost[x] = "live" /\ o \in within[x]}

\* The timer handler runs when no parse and no deletion is on the stack.
Idle == up /\ stack = <<>> /\ Dying = {}
\* Where the application may call the registry; the DELETE handlers it
\* installed run in the middle of a deletion.
AppRuns == up /\ stack = <<>> /\ (Dying = {} \/ "handler" \in Env)
\* The component loader runs inside a parse, for a name nothing answers.
LoaderRuns(n) == up /\ stack # <<>> /\ Dying = {} /\ index[n] = NoScope

Top == stack[Len(stack)]

\* scope_styles_are_live(): the walk starts at the loaded screen and the layers.
StylesLive(s) ==
  \E o \in Objs : Exists(o) /\ s \in holds[o] /\ screen[o] \in {active, "layer"}

\* Variant with a bug: the live instances do not hold the scope.
HeldWithoutCount(s) == borrowed[s]

\* The condition of component_scope_retire() for deferring the free.
Held(s) == cnt[s] # 0 \/ borrowed[s] \/ StylesLive(s)

\* Variant with a bug: the delete hooks stay on the view roots.
DisarmNothing(F) ==
  /\ hook' = hook
  /\ insts' = [s \in Scopes |-> IF s \in F THEN {} ELSE insts[s]]

\* What component_scope_free() does for the instances of the scopes F.
Disarm(F) ==
  /\ hook' = [o \in Objs |-> IF hook[o] \in F THEN NoScope ELSE hook[o]]
  /\ insts' = [s \in Scopes |-> IF s \in F THEN {} ELSE insts[s]]

\* component_scope_retire() of every scope of R, in a registry lists.
Retired(lists, R) ==
  [s \in Scopes |-> IF s \notin R THEN lists[s]
                    ELSE IF Held(s) THEN "pending" ELSE "freed"]

\* Variant with a bug: the name is forgotten with its newest scope.
SuccessorNone(n, R) == NoScope

\* Who answers for n once the scopes of R have left component_scope_ll.
Successor(n, R) ==
  IF \E s \in Scopes \ R : st[s] = "live" /\ name[s] = n
  THEN CHOOSE s \in Scopes \ R : st[s] = "live" /\ name[s] = n
  ELSE NoScope

\* lv_xml_register_component_from_data(): the new scope goes to the head of the
\* list and into the index, then every other scope of that name is retired.
Register(n, s) ==
  LET others == {x \in Scopes : st[x] = "live" /\ name[x] = n} IN
  /\ AppRuns \/ LoaderRuns(n)
  /\ st[s] = "unused"
  /\ st' = Retired([st EXCEPT ![s] = "live"], others)
  /\ name' = [name EXCEPT ![s] = n]
  /\ index' = [index EXCEPT ![n] = s]
  /\ Disarm({x \in others : ~Held(x)})
  /\ UNCHANGED <<up, cnt, made, borrowed, freeQ, objVars, active, stack>>

\* The same call when the view cannot be extracted: the scope just linked is
\* the one lv_xml_component_unregister() finds, and the name is handed back.
RegisterFails(n, s) ==
  /\ AppRuns \/ LoaderRuns(n)
  /\ st[s] = "unused"
  /\ st' = [st EXCEPT ![s] = "freed"]
  /\ name' = [name EXCEPT ![s] = n]
  /\ index' = [index EXCEPT ![n] = Successor(n, {s})]
  /\ UNCHANGED <<up, countVars, borrowed, freeQ, objVars, active, stack>>

Unregister(n) ==
  LET s == index[n] IN
  /\ AppRuns
  /\ s # NoScope
  /\ st' = Retired(st, {s})
  /\ index' = [index EXCEPT ![n] = Successor(n, {s})]
  /\ Disarm({x \in {s} : ~Held(x)})
  /\ UNCHANGED <<up, name, cnt, made, borrowed, freeQ, objVars, active, stack>>
-----------------------------------------------------------------------------
\* A new object o, a child of p (of a screen when p is o itself), pointing
\* into the style storage of the scopes H.
Build(o, p, H) ==
  /\ ost[o] = "unused"
  /\ ost' = [ost EXCEPT ![o] = "live"]
  /\ within' = [within EXCEPT ![o] = {o} \cup within[p]]
  /\ holds' = [holds EXCEPT ![o] = H]

\* lv_xml_get_style_by_name() for a widget of scope s: a style of its own, or
\* of the component called n.  Requester and owner are compared by name.
OwnStyles(s) == {{}, {s}}
Lookup(s, H) ==
  \/ H \in OwnStyles(s) /\ UNCHANGED borrowed
  \/ /\ "lend" \in Env
     /\ \E n \in Names :
          /\ index[n] # NoScope
          /\ H = {index[n]}
          /\ borrowed' = [borrowed EXCEPT
                            ![index[n]] = @ \/ name[index[n]] # name[s]]

\* lv_xml_create_in_scope(), up to the parse: the view root of s, a child of
\* the innermost view being parsed or of the application's choice of screen.
CreateBegin(s, o) ==
  /\ up /\ Dying = {}
  /\ Len(stack) < MaxDepth
  /\ \/ index[name[s]] = s /\ st[s] = "live"
     \/ "stale" \in Env /\ st[s] = "pending" /\ stack = <<>>
  /\ \E H \in OwnStyles(s) : Build(o, IF stack = <<>> THEN o ELSE Top.root, H)
  /\ IF stack = <<>>
     THEN \E d \in IF "screens" \in Env THEN Screens ELSE {"A"} :
            screen' = [screen EXCEPT ![o] = d]
     ELSE screen' = [screen EXCEPT ![o] = screen[Top.root]]
  /\ stack' = Append(stack, [scope |-> s, root |-> o])
  /\ UNCHANGED <<up, registryVars, countVars, freeQ, active, sinkQ>>

\* A widget of the view being parsed.
AddChild(o) ==
  /\ up /\ Dying = {}
  /\ stack # <<>>
  /\ \E H \in SUBSET Scopes : Lookup(Top.scope, H) /\ Build(o, Top.root, H)
  /\ screen' = [screen EXCEPT ![o] = screen[Top.root]]
  /\ UNCHANGED <<up, st, name, index, countVars, freeQ, active, sinkQ, stack>>

\* Variant with a bug: the queued free of the scope is not cancelled.
AttachKeepsQueue(s, o) ==
  /\ hook' = [hook EXCEPT ![o] = s]
  /\ made' = [made EXCEPT ![o] = s]
  /\ insts' = [insts EXCEPT ![s] = @ \cup {o}]
  /\ cnt' = [cnt EXCEPT ![s] = @ + 1]
  /\ UNCHANGED freeQ

\* The end of the parse: lv_xml_component_scope_instance_attach().  A queued
\* free of a retired scope is cancelled.
Attach(s, o) ==
  /\ hook' = [hook EXCEPT ![o] = s]
  /\ made' = [made EXCEPT ![o] = s]
  /\ insts' = [insts EXCEPT ![s] = @ \cup {o}]
  /\ cnt' = [cnt EXCEPT ![s] = @ + 1]
  /\ freeQ' = IF st[s] = "pending" /\ cnt[s] = 0 THEN freeQ \ {s} ELSE freeQ

\* Without memory for the hook the instance stays untracked.
CreateEnd ==
  /\ up /\ Dying = {}
  /\ stack # <<>>
  /\ \/ Attach(Top.scope, Top.root)
     \/ "oom" \in Env /\ UNCHANGED <<countVars, freeQ>>
  /\ stack' = SubSeq(stack, 1, Len(stack) - 1)
  /\ UNCHANGED <<up, registryVars, objVars, active>>
-----------------------------------------------------------------------------
\* Variant with a bug: one decrement for a deletion, whatever it takes along.
SendDeleteOnce(D) ==
  LET left == [s \in Scopes |-> {o \in D : hook[o] = s}]
      rest == [s \in Scopes |-> IF left[s] = {} THEN cnt[s] ELSE cnt[s] - 1]
      due  == {s \in Scopes : left[s] # {} /\ rest[s] = 0 /\ st[s] = "pending"}
  IN
  /\ ost' = [o \in Objs |-> IF o \in D THEN "dying" ELSE ost[o]]
  /\ insts' = [s \in Scopes |-> insts[s] \ D]
  /\ cnt' = rest
  /\ hook' = [o \in Objs |-> IF o \in D THEN NoScope ELSE hook[o]]
  /\ freeQ' = freeQ \cup due
  /\ sinkQ' = sinkQ \ D

\* LV_EVENT_DELETE for every object of D: scope_instance_delete_cb() on those
\* that are view roots.  Nothing of D is destroyed yet.
SendDelete(D) ==
  LET left == [s \in Scopes |-> {o \in D : hook[o] = s}]
      rest == [s \in Scopes |-> cnt[s] - Cardinality(left[s])]
      due  == {s \in Scopes : left[s] # {} /\ rest[s] = 0 /\ st[s] = "pending"}
  IN
  /\ ost' = [o \in Objs |-> IF o \in D THEN "dying" ELSE ost[o]]
  /\ insts' = [s \in Scopes |-> insts[s] \ D]
  /\ cnt' = rest
  /\ hook' = [o \in Objs |-> IF o \in D THEN NoScope ELSE hook[o]]
  /\ \E queued \in IF "oom" \in Env THEN SUBSET due ELSE {due} :
       freeQ' = freeQ \cup queued
  /\ sinkQ' = sinkQ \ D

\* lv_obj_delete() of an object, by the application or with its screen.
Delete(o) ==
  /\ stack = <<>> /\ Dying = {}
  /\ ost[o] = "live"
  /\ SendDelete(Under(o))
  /\ UNCHANGED <<up, registryVars, made, within, holds, screen, active, stack>>

\* The parse fails: destroy_partial_view(), then NULL for the caller.
CreateFails ==
  /\ up /\ Dying = {}
  /\ stack # <<>>
  /\ SendDelete(Under(Top.root))
  /\ stack' = SubSeq(stack, 1, Len(stack) - 1)
  /\ UNCHANGED <<up, registryVars, made, within, holds, screen, active>>

\* The deletion unwinds: the destructors have run, reading the styles.
Destroyed ==
  /\ Dying # {}
  /\ ost' = [o \in Objs |-> IF o \in Dying THEN "gone" ELSE ost[o]]
  /\ within' = [o \in Objs |-> IF o \in Dying THEN {} ELSE within[o]]
  /\ holds' = [o \in Objs |-> IF o \in Dying THEN {} ELSE holds[o]]
  /\ made' = [o \in Objs |-> IF o \in Dying THEN NoScope ELSE made[o]]
  /\ screen' = [o \in Objs |-> IF o \in Dying THEN "A" ELSE screen[o]]
  /\ UNCHANGED <<up, registryVars, cnt, insts, hook, freeQ, active, sinkQ,
                 stack>>

\* scope_free_async_cb(), from the timer handler.
ScopeFreeAsync(s) ==
  /\ Idle
  /\ s \in freeQ
  /\ freeQ' = freeQ \ {s}
  /\ st' = [st EXCEPT ![s] = "freed"]
  /\ Disarm({s})
  /\ UNCHANGED <<up, name, cnt, made, borrowed, index, objVars, active, stack>>

\* o and what is below it now hang at the top of screen d.
Reparent(o, d) ==
  /\ within' = [x \in Objs |-> IF x \in Under(o)
                               THEN (within[x] \ within[o]) \cup {o}
                               ELSE within[x]]
  /\ screen' = [x \in Objs |-> IF x \in Under(o) THEN d ELSE screen[x]]

\* The application moves an object to a layer or to another screen.
Orphan(o) ==
  /\ "orphan" \in Env
  /\ Idle
  /\ ost[o] = "live"
  /\ \E d \in IF "screens" \in Env THEN Screens \cup {"layer"} ELSE {"layer"} :
       Reparent(o, d)
  /\ UNCHANGED <<up, registryVars, countVars, freeQ, ost, holds, active, sinkQ,
                 stack>>

\* A rebuild of a fragment of the instance r: its old expansion x goes to a
\* sink on the top layer, whose deletion is queued, and o is built instead.
FragRebuild(r, x, o) ==
  /\ "frag" \in Env
  /\ Idle
  /\ hook[r] # NoScope
  /\ x \in Under(r) \ {r}
  /\ ost[o] = "unused"
  /\ ost' = [ost EXCEPT ![o] = "live"]
  /\ \E H \in SUBSET Scopes :
       Lookup(hook[r], H) /\ holds' = [holds EXCEPT ![o] = H]
  /\ within' = [y \in Objs |->
                  IF y = o THEN {o} \cup within[r]
                  ELSE IF y \in Under(x) THEN (within[y] \ within[x]) \cup {x}
                  ELSE within[y]]
  /\ screen' = [y \in Objs |-> IF y = o THEN screen[r]
                               ELSE IF y \in Under(x) THEN "layer"
                               ELSE screen[y]]
  /\ sinkQ' = sinkQ \cup {x}
  /\ UNCHANGED <<up, st, name, index, countVars, freeQ, active, stack>>

\* lv_obj_delete_async() of a sink, from the timer handler.
SinkDelete(o) ==
  /\ Idle
  /\ o \in sinkQ
  /\ SendDelete(Under(o))
  /\ UNCHANGED <<up, registryVars, made, within, holds, screen, active, stack>>

LoadScreen ==
  /\ "screens" \in Env
  /\ Idle
  /\ active' = IF active = "A" THEN "B" ELSE "A"
  /\ UNCHANGED <<up, registryVars, countVars, freeQ, objVars, stack>>

\* lv_xml_component_deinit(): every scope of both lists is freed, live instances
\* or not; the hooks come off and the queued frees are cancelled.
Deinit ==
  LET all == {s \in Scopes : Allocated(s)} IN
  /\ Idle
  /\ up' = FALSE
  /\ st' = [s \in Scopes |-> IF s \in all THEN "freed" ELSE st[s]]
  /\ index' = [n \in Names |-> NoScope]
  /\ freeQ' = freeQ \ {s \in all : st[s] = "pending"}
  /\ Disarm(all)
  /\ UNCHANGED <<name, cnt, made, borrowed, objVars, active, stack>>

Next ==
  \/ \E n \in Names, s \in Scopes : Register(n, s) \/ RegisterFails(n, s)
  \/ \E n \in Names : Unregister(n)
  \/ \E s \in Scopes, o \in Objs : CreateBegin(s, o)
  \/ \E o \in Objs : AddChild(o) \/ Delete(o) \/ Orphan(o) \/ SinkDelete(o)
  \/ CreateEnd \/ CreateFails \/ Destroyed \/ LoadScreen \/ Deinit
  \/ \E s \in Scopes : ScopeFreeAsync(s)
  \/ \E r, x, o \in Objs : FragRebuild(r, x, o)

Spec == Init /\ [][Next]_vars

\* The main loop runs the timers, a deletion and a parse come to their end.
Fairness ==
  /\ \A s \in Scopes : WF_vars(ScopeFreeAsync(s))
  /\ \A o \in Objs : WF_vars(SinkDelete(o))
  /\ WF_vars(Destroyed)
  /\ WF_vars(CreateEnd)

FairSpec == Spec /\ Fairness
-----------------------------------------------------------------------------
\* Every delete hook names an instance record that still exists, of a scope
\* that still exists: the forced free of deinit leaves no hook behind that
\* would write through freed memory when the widget tree goes later.
HooksValid ==
  \A o \in Objs : hook[o] # NoScope =>
    /\ ost[o] = "live"
    /\ o \in insts[hook[o]]
    /\ Allocated(hook[o])

\* The count that gates the free is the number of instance records, and there
\* is a record exactly for each view root with a hook, nested ones included.
CountExact ==
  \A s \in Scopes : Allocated(s) =>
    /\ insts[s] = {o \in Objs : hook[o] = s}
    /\ cnt[s] = Cardinality(insts[s])

\* While the engine is up, no object inside a tracked instance points into
\* style storage of the instance's own scope that has been freed: hot reload,
\* unregistration and the queued free wait for the instance.
OwnInstanceSafe ==
  up => \A r, o \in Objs :
          /\ ost[o] = "live" /\ r \in within[o]
          /\ made[r] \in holds[o]
          => Allocated(made[r])

\* A lookup by name finds the live definition, there is one per name, and a
\* retired or freed scope is never handed out.
LookupsExact ==
  /\ \A n \in Names : index[n] # NoScope =>
       st[index[n]] = "live" /\ name[index[n]] = n
  /\ \A s \in Scopes : st[s] = "live" => index[name[s]] = s

\* A queued free names a retired scope without instances, whatever happened
\* between the last deletion and the timer: the timer neither frees twice nor
\* frees a scope that was instantiated again.
QueuedFreeSound == \A s \in freeQ : st[s] = "pending" /\ cnt[s] = 0

\* No object, not even one whose destructor is still to run, points into freed
\* style storage.  Holds when widgets stay inside the instance that built them
\* and use styles of its scope only.
HoldersSafe ==
  up => \A o \in Objs : Exists(o) => \A s \in holds[o] : Allocated(s)

\* The registry implements the promise of StyleStorage, under the same
\* conditions.
Storage == [s \in Scopes |-> IF st[s] = "unused" THEN "none"
                             ELSE IF Allocated(s) THEN "allocated" ELSE "released"]
Users == [s \in Scopes |-> {o \in Objs : Exists(o) /\ s \in holds[o]}]
Abs == INSTANCE StyleStorage WITH running <- up, storage <- Storage, users <- Users
StoragePromise == Abs!Spec

\* A retired scope does not stay on the pending list for good once its last
\* instance is gone.
RetiredReclaimed ==
  \A s \in Scopes :
    st[s] = "pending" /\ insts[s] = {} ~> st[s] = "freed" \/ insts[s] # {}

\* "a borrowed-from scope is held until lv_xml_component_deinit()".
LenderHeldUntilDeinit ==
  [][\A s \in Scopes : borrowed[s] /\ st[s] = "pending" /\ st'[s] = "freed"
                       => ~up']_vars

\* "the instance tree is fully destroyed by now, so the scope's styles have no
\* readers left", when the queued free of a scope runs.
NoReadersAtAsyncFree ==
  [][\A s \in Scopes : ScopeFreeAsync(s) =>
       \A o \in Objs : Exists(o) => s \notin holds[o]]_vars
-----------------------------------------------------------------------------
(* The parts of the inductive invariant that the properties above need.     *)

\* A scope nobody registered yet has no instances.
Fresh == \A s \in Scopes : st[s] = "unused" => cnt[s] = 0 /\ insts[s] = {}

FiniteInsts == \A s \in Scopes : IsFiniteSet(insts[s])

\* w maps each object of E to itself and its ancestors, a chain of them, as in
\* a forest; the others are nowhere in it.
IsForest(E, w) ==
  /\ \A x \in Objs \ E : w[x] = {}
  /\ \A x \in E : x \in w[x] /\ w[x] \subseteq E
  /\ \A x \in E : \A y \in w[x] :
       /\ w[y] \subseteq w[x]
       /\ x \in w[y] => x = y
       /\ \A z \in w[x] : y \in w[z] \/ z \in w[y]

\* The objects that exist form a forest, and none dies before what is below it.
TreeOK ==
  /\ IsForest({x \in Objs : Exists(x)}, within)
  /\ \A x \in Objs : \A y \in within[x] : ost[x] = "live" => ost[y] = "live"

\* The view roots being parsed exist, are untracked, and are nested; their
\* scopes are allocated.
StackOK ==
  /\ ~up => stack = <<>>
  /\ \A i \in DOMAIN stack :
       /\ Allocated(stack[i].scope)
       /\ ost[stack[i].root] = "live"
       /\ hook[stack[i].root] = NoScope
       /\ made[stack[i].root] = NoScope
       /\ \A j \in DOMAIN stack :
            i < j => stack[j].root \notin within[stack[i].root]

\* A tracked view root keeps its hook for as long as the engine is up.
MadeOK ==
  \A o \in Objs :
    /\ made[o] # NoScope => Exists(o)
    /\ up /\ ost[o] = "live" /\ made[o] # NoScope => hook[o] = made[o]

\* What a live object points into belongs to a tracked instance around it, or
\* to a view around it that is still being parsed.
HoldersOwned ==
  up => \A o \in Objs : ost[o] = "live" => \A s \in holds[o] :
          \/ \E r \in within[o] : hook[r] = s
          \/ \E i \in DOMAIN stack : stack[i].scope = s /\ stack[i].root \in within[o]

IInv ==
  /\ TypeOK /\ Fresh /\ FiniteInsts /\ TreeOK /\ StackOK /\ MadeOK
  /\ HooksValid /\ CountExact /\ LookupsExact /\ QueuedFreeSound
=============================================================================
