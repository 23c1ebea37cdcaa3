--------------------------- MODULE SubjectRegistry ---------------------------
(***************************************************************************)
(* Who owns a subject, and who still points at it.  Scopes hold records    *)
(* (name, subject, owned).  A <subject_expr> has a record as well, with    *)
(* the handles of the observers it put on its inputs, and writes into the  *)
(* subject it derives.  Conditions of widgets read subjects too.           *)
(*                                                                         *)
(* What is modelled is every way a subject is released: re-registration of *)
(* its name, lv_xml_unregister_subject(), the free of its scope, deferred  *)
(* or not, and the drain of lv_xml_component_deinit().                     *)
(*                                                                         *)
(* Component names are left out (ScopeLifecycle has them): a scope is      *)
(* retired by its identity.  Subject identities are never reused, so that  *)
(* a pointer to a released subject stays recognisable.                     *)
(***************************************************************************)
EXTENDS FiniteSets

CONSTANTS
  Scopes,     (* component scope allocations                               *)
  Globals,    (* the "globals" scope                                       *)
  Names,      (* subject names                                             *)
  Made,       (* subjects the parser allocates                             *)
  App,        (* subjects of the application                               *)
  Widgets,    (* instances, each with at most one condition                *)
  NoSub,
  NoScope,
  Env         (* what happens besides, a subset of EnvKinds                *)

\* "inputs"    subjects that an expression reads are released by name
\* "derived"   lv_xml_unregister_subject() of a <subject_expr>
\* "held"      lv_xml_deinit() while a retired scope waits to be freed whose
\*             expressions read subjects that "globals" owns
\* "instances" lv_xml_deinit() while there are widgets
\* "malformed" the XML of a component breaks off after some of its subjects
\* "oom"       the handles of a <subject_expr> cannot be allocated
EnvKinds == {"inputs", "derived", "held", "instances", "malformed", "oom"}

AllScopes == Scopes \cup {Globals}
Subs == Made \cup App
Readers == Made \cup Widgets

ASSUME SubjectAssumption ==
  /\ Globals \notin Scopes /\ NoScope \notin AllScopes
  /\ Made \cap App = {} /\ Made \cap Widgets = {} /\ NoSub \notin Subs
  /\ Env \subseteq EnvKinds

VARIABLES
  phase,      (* up, draining in lv_xml_component_deinit(), or down        *)
  sst,        (* a scope: unused, parsing, live, pending, freed, or lost   *)
              (* when its XML broke off                                    *)
  rec,        (* subjects_ll: the subject registered under a name          *)
  own,        (* lv_xml_subject_t.owned                                    *)
  sub,        (* a subject: unused, live, released, or the application's   *)
  expr,       (* the record in subject_expr_ll that feeds a subject        *)
  obs,        (* the observers of a subject                                *)
  inst,       (* the scope a widget was built from                         *)
  cond        (* the subjects its condition references                     *)

vars == <<phase, sst, rec, own, sub, expr, obs, inst, cond>>

\* lv_xml_subject_expr_t: its scope, the subjects of the expression, and the
\* inputs whose observer handle is retained.
ExprRecord ==
  [scope : AllScopes \cup {NoScope}, reads : SUBSET Subs, kept : SUBSET Subs]
NoRecord == [scope |-> NoScope, reads |-> {}, kept |-> {}]

TypeOK ==
  /\ phase \in {"up", "draining", "down"}
  /\ sst \in [AllScopes -> {"unused", "parsing", "live", "pending", "freed", "lost"}]
  /\ rec \in [AllScopes -> [Names -> Subs \cup {NoSub}]]
  /\ own \in [AllScopes -> [Names -> BOOLEAN]]
  /\ sub \in [Subs -> {"unused", "live", "released", "app"}]
  /\ expr \in [Made -> ExprRecord]
  /\ obs \in [Subs -> SUBSET Readers]
  /\ inst \in [Widgets -> Scopes \cup {NoScope}]
  /\ cond \in [Widgets -> SUBSET Subs]

Empty == [n \in Names |-> NoSub]

Init ==
  /\ phase = "up"
  /\ sst = [s \in AllScopes |-> IF s = Globals THEN "live" ELSE "unused"]
  /\ rec = [s \in AllScopes |-> Empty]
  /\ own = [s \in AllScopes |-> [n \in Names |-> FALSE]]
  /\ sub = [x \in Subs |-> IF x \in App THEN "app" ELSE "unused"]
  /\ expr = [d \in Made |-> NoRecord]
  /\ obs = [x \in Subs |-> {}]
  /\ inst = [w \in Widgets |-> NoScope]
  /\ cond = [w \in Widgets |-> {}]
-----------------------------------------------------------------------------
Parsing == \E s \in Scopes : sst[s] = "parsing"
\* Where the application runs: nothing is parsed, deinit has not begun.
AppRuns == phase = "up" /\ ~Parsing
\* The scopes whose metadata is being parsed.  That of "globals" is added to the
\* scope that exists.
Filled(s) == phase = "up" /\ (sst[s] = "parsing" \/ (s = Globals /\ ~Parsing))

Reads(r) == IF r \in Made THEN expr[r].reads ELSE cond[r]

\* What the application owes: nothing that is read is released by name.
Unread(X) ==
  "inputs" \in Env \/ \A x \in X : \A r \in Readers : x \notin Reads(r)

\* lv_xml_find_subject(): the scope itself, then "globals".
Find(s, n) == IF rec[s][n] # NoSub THEN rec[s][n] ELSE rec[Globals][n]

\* What the names N of an expression resolve to in s.
Resolved(s, N) == {Find(s, n) : n \in N}

\* Variant with a bug: a record owns its subject, whoever made it.
OwnedAny(s, n) == {rec[s][n]}

\* Variant with a bug: nobody owns a subject.
OwnedNone(s, n) == {}

\* lv_xml_subject_record_release_storage(): what a record owns.
Owned(s, n) == IF own[s][n] THEN {rec[s][n]} ELSE {}

\* Variant with a bug: the record of the displaced subject stays.
FeedingNothing(s, X) == {}

\* lv_xml_subject_expr_drop_for_subject(): the records of s that feed X.
Feeding(s, X) == {d \in X \cap Made : expr[d].scope = s}

\* Variant with a bug: the observers of the expression records stay attached.
DetachedReleasedOnly(D, X) == [x \in Subs |-> IF x \in X THEN {} ELSE obs[x]]

\* The expression records of D come off their inputs, then lv_subject_deinit()
\* detaches whatever still observes the subjects X.
Detached(D, X) == [x \in Subs |-> IF x \in X THEN {} ELSE obs[x] \ D]

Dropped(D) == [d \in Made |-> IF d \in D THEN NoRecord ELSE expr[d]]
Released(X) == [x \in Subs |-> IF x \in X THEN "released" ELSE sub[x]]

\* register_subject_impl(): a record with that name is kept, and what it owned is
\* released unless it is registered over itself.
RegisterSubject(s, n, x, owned) ==
  LET X == Owned(s, n) \ {x} IN
  /\ Unread(X)
  /\ rec' = [rec EXCEPT ![s][n] = x]
  /\ own' = [own EXCEPT ![s][n] = owned]
  /\ sub' = [Released(X) EXCEPT ![x] = IF owned THEN "live" ELSE "app"]

\* <subject>: process_subject_element().
Subject(s, n, x) ==
  LET X == Owned(s, n) \ {x} IN
  /\ Filled(s)
  /\ sub[x] = "unused"
  /\ RegisterSubject(s, n, x, TRUE)
  /\ expr' = Dropped(Feeding(s, X))
  /\ obs' = Detached(Feeding(s, X), X)
  /\ UNCHANGED <<phase, sst, inst, cond>>

\* <subject_expr>: process_subject_expr_element().  The names are resolved before
\* the subject is registered, the observers added after.
SubjectExpr(s, n, x, N) ==
  LET I == Resolved(s, N)
      X == Owned(s, n) \ {x}
      D == Feeding(s, X)
  IN
  /\ Filled(s)
  /\ sub[x] = "unused"
  /\ NoSub \notin I
  /\ "inputs" \in Env \/ I \cap X = {}
  /\ RegisterSubject(s, n, x, TRUE)
  /\ \E K \in {I} \cup (IF "oom" \in Env THEN {{}} ELSE {}) :
       /\ expr' = [Dropped(D) EXCEPT ![x] = [scope |-> s, reads |-> I, kept |-> K]]
       /\ obs' = [y \in Subs |-> Detached(D, X)[y] \cup (IF y \in K THEN {x} ELSE {})]
  /\ UNCHANGED <<phase, sst, inst, cond>>

\* lv_xml_register_component_from_data() begins, ends, or meets malformed XML:
\* the scope it was filling is then forgotten.
ParseBegin(s) ==
  /\ AppRuns
  /\ sst[s] = "unused"
  /\ sst' = [sst EXCEPT ![s] = "parsing"]
  /\ UNCHANGED <<phase, rec, own, sub, expr, obs, inst, cond>>

ParseEnd(s) ==
  /\ sst[s] = "parsing"
  /\ \E end \in {"live"} \cup (IF "malformed" \in Env THEN {"lost"} ELSE {}) :
       sst' = [sst EXCEPT ![s] = end]
  /\ UNCHANGED <<phase, rec, own, sub, expr, obs, inst, cond>>

\* lv_xml_register_subject() by the application: a subject of its own, or the one
\* it found under the name, which it takes over.
AppRegister(s, n, x) ==
  LET X == Owned(s, n) \ {x} IN
  /\ AppRuns
  /\ sst[s] = "live"
  /\ x \in App \cup ({rec[s][n]} \ {NoSub})
  /\ RegisterSubject(s, n, x, FALSE)
  /\ expr' = Dropped(Feeding(s, X))
  /\ obs' = Detached(Feeding(s, X), X)
  /\ UNCHANGED <<phase, sst, inst, cond>>

\* lv_xml_unregister_subject(): the record of a <subject_expr> stays.
AppUnregister(s, n) ==
  LET X == Owned(s, n) IN
  /\ AppRuns
  /\ sst[s] = "live"
  /\ rec[s][n] # NoSub
  /\ Unread(X)
  /\ "derived" \in Env \/ \A x \in X : expr[x].scope = NoScope
  /\ rec' = [rec EXCEPT ![s][n] = NoSub]
  /\ own' = [own EXCEPT ![s][n] = FALSE]
  /\ sub' = Released(X)
  /\ obs' = Detached({}, X)
  /\ UNCHANGED <<phase, sst, expr, inst, cond>>
-----------------------------------------------------------------------------

\* An instance of s, whose condition resolves the names N.
Create(w, s, N) ==
  /\ AppRuns
  /\ sst[s] = "live"
  /\ inst[w] = NoScope
  /\ NoSub \notin Resolved(s, N)
  /\ inst' = [inst EXCEPT ![w] = s]
  /\ cond' = [cond EXCEPT ![w] = Resolved(s, N)]
  /\ obs' = [x \in Subs |-> IF x \in Resolved(s, N) THEN obs[x] \cup {w} ELSE obs[x]]
  /\ UNCHANGED <<phase, sst, rec, own, sub, expr>>

\* Its observers go with the widget, in whatever order it and they came.
Delete(w) ==
  /\ phase # "draining" /\ ~Parsing
  /\ inst[w] # NoScope
  /\ inst' = [inst EXCEPT ![w] = NoScope]
  /\ cond' = [cond EXCEPT ![w] = {}]
  /\ obs' = [x \in Subs |-> obs[x] \ {w}]
  /\ UNCHANGED <<phase, sst, rec, own, sub, expr>>

\* Variant with a bug: nothing holds a scope.
HasInstancesNever(s) == FALSE

\* scope->instance_cnt, the gate of the free.
HasInstances(s) == \E w \in Widgets : inst[w] = s

\* component_scope_free(): the expression records, then the subjects.
Free(s) ==
  LET X == UNION {Owned(s, n) : n \in Names}
      D == {d \in Made : expr[d].scope = s}
  IN
  /\ sst' = [sst EXCEPT ![s] = "freed"]
  /\ rec' = [rec EXCEPT ![s] = Empty]
  /\ own' = [own EXCEPT ![s] = [n \in Names |-> FALSE]]
  /\ sub' = Released(X)
  /\ expr' = Dropped(D)
  /\ obs' = Detached(D, X)
  /\ UNCHANGED <<inst, cond>>

\* component_scope_retire(): unregistered or replaced.  A scope without instances
\* is held as well when its styles are in use elsewhere.
Retire(s) ==
  /\ AppRuns
  /\ sst[s] = "live" /\ s # Globals
  /\ \/ ~HasInstances(s) /\ Free(s)
     \/ /\ sst' = [sst EXCEPT ![s] = "pending"]
        /\ UNCHANGED <<rec, own, sub, expr, obs, inst, cond>>
  /\ UNCHANGED phase

\* scope_free_async_cb().
FreeAsync(s) ==
  /\ AppRuns
  /\ sst[s] = "pending" /\ ~HasInstances(s)
  /\ Free(s)
  /\ UNCHANGED phase

\* lv_xml_deinit().
DeinitBegin ==
  /\ AppRuns
  /\ "instances" \in Env \/ \A w \in Widgets : inst[w] = NoScope
  /\ \/ "held" \in Env
     \/ \A d \in Made : \A n \in Names :
          expr[d].scope # NoScope /\ sst[expr[d].scope] = "pending"
            => expr[d].reads \cap Owned(Globals, n) = {}
  /\ phase' = "draining"
  /\ UNCHANGED <<sst, rec, own, sub, expr, obs, inst, cond>>

\* lv_xml_component_deinit() drains component_scope_ll from its head, "globals"
\* last, and then pending_free_scope_ll.
Drain(s) ==
  /\ phase = "draining"
  /\ \/ sst[s] = "live" /\ (s = Globals => \A t \in Scopes : sst[t] # "live")
     \/ sst[s] = "pending" /\ \A t \in AllScopes : sst[t] # "live"
  /\ Free(s)
  /\ UNCHANGED phase

DeinitEnd ==
  /\ phase = "draining"
  /\ \A s \in AllScopes : sst[s] \notin {"live", "pending"}
  /\ phase' = "down"
  /\ UNCHANGED <<sst, rec, own, sub, expr, obs, inst, cond>>

Next ==
  \/ \E s \in AllScopes, n \in Names, x \in Made :
       Subject(s, n, x) \/ \E N \in SUBSET Names : SubjectExpr(s, n, x, N)
  \/ \E s \in Scopes : ParseBegin(s) \/ ParseEnd(s) \/ Retire(s) \/ FreeAsync(s)
  \/ \E s \in AllScopes, n \in Names :
       AppUnregister(s, n) \/ \E x \in Subs : AppRegister(s, n, x)
  \/ \E w \in Widgets, s \in Scopes, N \in SUBSET Names : Create(w, s, N)
  \/ \E w \in Widgets : Delete(w)
  \/ \E s \in AllScopes : Drain(s)
  \/ DeinitBegin \/ DeinitEnd

Spec == Init /\ [][Next]_vars
-----------------------------------------------------------------------------
Usable(x) == sub[x] \in {"live", "app"}

\* "They must come off first or the next input change writes into a reclaimed
\* subject": what a subject that can be set may write into is not released.
TargetsAlive ==
  \A x \in Subs : \A d \in obs[x] \cap Made : Usable(x) => Usable(d)

\* Nobody frees what a broken-off component left behind, nor detaches it.
LeftBehind(r) ==
  r \in Made /\ expr[r].scope # NoScope /\ sst[expr[r].scope] = "lost"

\* The expression of whatever a subject that can be set will evaluate reads no
\* subject that was released; what a broken-off component left behind, only
\* until deinit.
ReadsAlive ==
  \A x \in Subs : \A r \in obs[x] :
    Usable(x) /\ (phase = "up" \/ ~LeftBehind(r)) => \A y \in Reads(r) : Usable(y)

\* The handles a <subject_expr> retains are those of its observers, all of them
\* still attached: its release detaches each exactly once, and leaves none.
HandlesAttached ==
  \A d \in Made : phase = "up" \/ ~LeftBehind(d) =>
    \A x \in Subs : d \in obs[x] <=> x \in expr[d].kept

\* A subject the parser made is owned by one record of one scope until it is
\* released or the application takes it over: none is leaked, none freed twice.
OwnedOnce ==
  \A x \in Made :
    /\ sub[x] = "live" => \E s \in AllScopes, n \in Names :
         /\ rec[s][n] = x /\ own[s][n] /\ sst[s] # "freed"
         /\ \A t \in AllScopes, m \in Names :
              rec[t][m] = x => <<t, m>> = <<s, n>>
    /\ \A s \in AllScopes, n \in Names : rec[s][n] = x => Usable(x)

\* What the application registered stays attached to whoever observes it, other
\* components' widgets included, whatever is unregistered or freed around it.
BorrowedIntact ==
  \A x \in Subs : sub[x] = "app" =>
    /\ sub'[x] = "app"
    /\ \A r \in obs[x] \ obs'[x] : r \in Widgets => inst'[r] = NoScope

\* No step loses the storage of a subject: what XML declared keeps its one owner
\* until it is released, what the application lent is never taken from it.
OwnershipKept == [][OwnedOnce' /\ BorrowedIntact]_vars
-----------------------------------------------------------------------------
(* The inductive invariant: why the properties above hold.                 *)

\* Deinit begins when nothing is parsed, "globals" outlives every instance, and
\* an instance holds the scope it was built from.
ScopesStand ==
  /\ sst[Globals] \in {"live", "freed"}
  /\ phase = "up" => sst[Globals] = "live"
  /\ phase # "up" => ~Parsing
  /\ \A w \in Widgets :
       inst[w] # NoScope /\ phase = "up" => sst[inst[w]] \in {"live", "pending"}

\* A record names a usable subject of a scope that stands.  What it owns no other
\* record names, and what XML declared some record owns until it is released.
OwnersSound ==
  /\ \A x \in App : sub[x] = "app"
  /\ \A s \in AllScopes, n \in Names :
       /\ own[s][n] => rec[s][n] \in Made /\ sub[rec[s][n]] = "live"
       /\ rec[s][n] \in Subs => Usable(rec[s][n]) /\ sst[s] \notin {"unused", "freed"}
  /\ \A s, t \in AllScopes, n, m \in Names :
       own[s][n] /\ rec[t][m] = rec[s][n] => t = s /\ m = n
  /\ \A x \in Made :
       sub[x] = "live" => \E s \in AllScopes, n \in Names : own[s][n] /\ rec[s][n] = x

\* The record of a <subject_expr> stands in the scope that owns the subject it
\* feeds, and goes no later than that subject is released.
FeedsSound ==
  /\ \A d \in Made :
       /\ expr[d].kept \subseteq expr[d].reads
       /\ expr[d].scope = NoScope => expr[d].reads = {}
       /\ expr[d].scope # NoScope =>
            /\ sst[expr[d].scope] \notin {"unused", "freed"}
            /\ sub[d] # "unused"
            /\ "derived" \notin Env => Usable(d)
  /\ \A s \in AllScopes, n \in Names :
       own[s][n] => expr[rec[s][n]].scope \in {NoScope, s}

\* Who observes a subject reads it.
ReadersSound ==
  /\ \A x \in Subs : \A d \in obs[x] \cap Made : x \in expr[d].kept
  /\ \A x \in Subs : \A w \in obs[x] \cap Widgets : x \in cond[w]
  /\ \A w \in Widgets : inst[w] = NoScope => cond[w] = {}
  /\ \A r \in Readers : \A y \in Reads(r) : sub[y] # "unused"

Home(r) == IF r \in Made THEN expr[r].scope ELSE inst[r]

\* What a scope owns is read from that scope only, unless it is "globals".
ReadsLocal ==
  \A t \in AllScopes, n \in Names : \A r \in Readers :
    own[t][n] /\ rec[t][n] \in Reads(r) => t \in {Globals, Home(r)}

\* What is read is not released, and the handle of an input stays attached.
InputsKept ==
  "inputs" \notin Env =>
    /\ "held" \notin Env =>
         \A d \in Made : phase = "up" \/ ~LeftBehind(d) =>
           /\ \A y \in expr[d].reads : Usable(y)
           /\ \A y \in expr[d].kept : d \in obs[y]
    /\ "instances" \notin Env => \A w \in Widgets : \A y \in cond[w] : Usable(y)

\* What lv_xml_deinit() may count on, until the last scope is drained.
DeinitQuiet ==
  phase # "up" =>
    /\ "held" \notin Env =>
         \A d \in Made, n \in Names :
           expr[d].scope # NoScope /\ sst[expr[d].scope] = "pending" /\ own[Globals][n]
             => rec[Globals][n] \notin expr[d].reads
    /\ "instances" \notin Env => \A w \in Widgets : inst[w] = NoScope

IInv ==
  /\ TypeOK /\ ScopesStand /\ OwnersSound /\ FeedsSound
  /\ ReadersSound /\ ReadsLocal /\ InputsKept /\ DeinitQuiet
=============================================================================
