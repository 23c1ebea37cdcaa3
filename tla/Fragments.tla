------------------------------ MODULE Fragments ------------------------------
(***************************************************************************)
(* The view parser and its fragments (lv_xml.c).  A view is a stream of    *)
(* start and end tags.  A tag creates an object under the top of           *)
(* `parent_ll` and pushes it; its end tag pops.  The body of a <repeat> or *)
(* an <if> is captured instead and replayed through the same two handlers: *)
(* once, or again whenever the subject it is bound to changes.             *)
(*                                                                         *)
(* One instance of one view is modelled, whose document is chosen while it *)
(* is parsed, and one subject, which all bound fragments of it use.        *)
(*                                                                         *)
(* An element of the document is the number of its start tag; element 1 is *)
(* <view>.  `stack` is the C stack: parser states, each parsing the        *)
(* document or replaying a captured body, and notifications of the subject.*)
(***************************************************************************)
EXTENDS Integers, Sequences, FiniteSets

CONSTANTS
  Values,     (* what the subject, or a literal count or cond, may be      *)
  MaxTags,    (* bound: start tags of the document but <else>              *)
  MaxElses,   (* bound: <else> tags                                        *)
  MaxObjs,    (* bound: objects at a time                                  *)
  MaxNest,    (* bound: notifications within one another                   *)
  Env         (* what happens besides, a subset of EnvKinds                *)

\* "reenter" creating a widget runs a handler that sets the subject
\* "loose"   an unknown tag, or a stray <else>, is at the top level of a bound fragment
\* "oom"     a record, or the binding of a condition, cannot be allocated
\* "broken"  the XML of the view breaks off
\* "early"   the subject goes before the instance
\* "sweep"   the scope that keeps the records goes before the instance
\* "drained" the subject first, then the scope, both before the instance: at deinit,
\*           where the globals go before the scopes that were retired
EnvKinds == {"reenter", "loose", "oom", "broken", "early", "sweep", "drained"}

ASSUME FragmentAssumption ==
  /\ Values \subseteq Nat /\ Values # {}
  /\ MaxTags \in Nat \ {0} /\ MaxElses \in Nat /\ MaxObjs \in Nat \ {0} /\ MaxNest \in Nat
  /\ Env \subseteq EnvKinds

VARIABLES
  doc,        (* the start tags so far, with what a reader expects of them *)
  open,       (* the elements that expat has open                          *)
  cap,        (* state->context of the document's parser: the capture      *)
  stack,      (* parser states and notifications, innermost last           *)
  obj,        (* the objects                                               *)
  rec,        (* frag_ll: the records of bound fragments                   *)
  val,        (* the value of the subject, or Gone                         *)
  todo        (* the records the notification under way has yet to call    *)

vars == <<doc, open, cap, stack, obj, rec, val, todo>>

Ids == 1 .. MaxObjs
Outer == 0                      \* the object that receives the view
Nothing == 0                    \* NULL, or no element
Gone == -1
Fragment == {"repeat", "if"}
Kinds == {"obj", "unknown", "else"} \cup Fragment

NoCapture ==
  [frag |-> Nothing, base |-> 0, events |-> <<>>, split |-> -1, skip |-> 0]
NoObject == [elem |-> Nothing, par |-> Outer, above |-> {}, sunk |-> FALSE]
\* What is replayed: events lo + 1 .. hi, `left` more times, next the one after
\* `pos`, at depth `nest`; for the record `rec`, if any.
NoReplay == [on |-> FALSE, rec |-> Nothing, events |-> <<>>, lo |-> 0, hi |-> 0,
             pos |-> 0, left |-> 0, nest |-> 0, roots |-> {}]

\* A parser state of the document or of a rebuild; a notification has an empty one.
Frame(kind, parents, play) ==
  [kind |-> kind, parents |-> parents, item |-> Nothing, play |-> play]

\* The element <view> has been started.
Init ==
  /\ doc = << [kind |-> "obj", bound |-> FALSE, num |-> 0, up |-> Nothing,
               enc |-> Nothing, frag |-> Nothing, nested |-> FALSE] >>
  /\ open = <<1>>
  /\ cap = NoCapture
  /\ stack = << Frame("doc", <<Outer, 1>>, NoReplay) >>
  /\ obj = [o \in Ids |->
             IF o = 1 THEN [NoObject EXCEPT !.elem = 1, !.above = {1}] ELSE NoObject]
  /\ rec = <<>>
  /\ val \in Values
  /\ todo = {}
-----------------------------------------------------------------------------
Last(s) == s[Len(s)]
Front(s) == SubSeq(s, 1, Len(s) - 1)
Top == Last(stack)
WithTop(f) == [stack EXCEPT ![Len(stack)] = f]

Idle == stack = <<>>
Parsing == ~Idle /\ Top.kind = "doc" /\ ~Top.play.on
Replaying == ~Idle /\ Top.play.on
Capturing == cap.frag # Nothing
Alive == obj[1].elem = 1 /\ ~obj[1].sunk
Free == {o \in Ids : obj[o].elem = Nothing}
NewId == CHOOSE o \in Free : \A x \in Free : o <= x

\* The new start tag as a reader of the document takes it: the widget around it,
\* the outermost fragment around it, and whether it is in a nested one, which is
\* not supported.
Read(kind, bound, num) ==
  LET W == {i \in DOMAIN open : doc[open[i]].kind = "obj"}
      F == {i \in DOMAIN open : doc[open[i]].kind \in Fragment}
  IN [kind |-> kind, bound |-> bound, num |-> num, up |-> Last(open),
      enc |-> open[CHOOSE i \in W : \A j \in W : j <= i],
      frag |-> IF F = {} THEN Nothing ELSE open[CHOOSE i \in F : \A j \in F : i <= j],
      nested |-> Cardinality(F) > 1 \/ (F # {} /\ kind \in Fragment)]

\* The documents considered: a fragment in a fragment has no binding of its own to
\* tell, and an <else> belongs to the <if> it is in.
Writable(e) ==
  LET f == e.frag
      owner == IF f = Nothing THEN "obj" ELSE doc[f].kind
      topLevel == e.up = f \/ (owner = "if" /\ doc[e.up].kind = "else")
      wrapper == e.kind = "unknown" \/ (e.kind = "else" /\ owner = "repeat")
  IN
  /\ e.kind \notin Fragment \/ e.nested => ~e.bound /\ e.num = 0
  /\ e.bound => e.num = 0
  /\ owner = "if" /\ e.kind = "else" /\ ~e.nested => e.up = f
  /\ f # Nothing /\ doc[f].bound /\ topLevel /\ wrapper => "loose" \in Env
-----------------------------------------------------------------------------
\* The tail of view_start_element_handler(): an unknown tag pushes the parent it
\* has, <else> pushes nothing.
Pushed(P, kind) ==
  CASE kind = "obj" -> [P EXCEPT !.item = NewId, !.parents = Append(@, NewId)]
    [] kind = "unknown" -> [P EXCEPT !.item = Nothing, !.parents = Append(@, Last(@))]
    [] OTHER -> P

Created(P, e, kind) ==
  LET top == Last(P.parents) IN
  IF kind # "obj" THEN obj
  ELSE [obj EXCEPT ![NewId] =
         IF top = Outer THEN [NoObject EXCEPT !.elem = e, !.above = {NewId}]
         ELSE [elem |-> e, par |-> top, above |-> {NewId} \cup obj[top].above,
               sunk |-> obj[top].sunk]]

\* Variant with a bug: a stray end of an <else> pops what its start did not push.
PoppedElse(P, kind) ==
  IF P.parents = <<>> THEN P ELSE [P EXCEPT !.parents = Front(@)]

\* The tail of view_end_element_handler().
Popped(P, kind) ==
  IF kind = "else" \/ P.parents = <<>> THEN P ELSE [P EXCEPT !.parents = Front(@)]


\* The head of view_start_element_handler(): a fragment opens a capture, or is
\* skipped with all that is in it when one is open; <else> is where the events
\* of an <if> split, the first one counts.
Captured(e, kind) ==
  IF cap.skip > 0 THEN [cap EXCEPT !.skip = IF kind \in Fragment THEN @ + 1 ELSE @]
  ELSE IF kind \in Fragment
    THEN IF Capturing THEN [cap EXCEPT !.skip = 1]
         ELSE [NoCapture EXCEPT !.frag = e, !.base = Len(Top.parents)]
  ELSE IF kind = "else" /\ doc[cap.frag].kind = "if"
    THEN [cap EXCEPT !.split = IF @ = -1 THEN Len(cap.events) ELSE @]
  ELSE [cap EXCEPT !.events = Append(@, [elem |-> e, end |-> FALSE])]

StartTag(kind, bound, num) ==
  LET e == Len(doc) + 1
      captured == Capturing \/ kind \in Fragment
  IN
  /\ Parsing /\ open # <<>>
  /\ Cardinality({x \in DOMAIN doc : (doc[x].kind = "else") = (kind = "else")})
       < (IF kind = "else" THEN MaxElses ELSE MaxTags)
  /\ Free # {}
  /\ Writable(Read(kind, bound, num))
  /\ doc' = Append(doc, Read(kind, bound, num))
  /\ open' = Append(open, e)
  /\ cap' = IF captured THEN Captured(e, kind) ELSE cap
  /\ stack' = IF captured THEN stack ELSE WithTop(Pushed(Top, kind))
  /\ obj' = IF captured THEN obj ELSE Created(Top, e, kind)
  /\ UNCHANGED <<rec, val, todo>>


\* The head of view_end_element_handler().
CapturedEnd(e, kind) ==
  IF cap.skip > 0 THEN [cap EXCEPT !.skip = IF kind \in Fragment THEN @ - 1 ELSE @]
  ELSE IF kind = "else" /\ doc[cap.frag].kind = "if" THEN cap
  ELSE [cap EXCEPT !.events = Append(@, [elem |-> e, end |-> TRUE])]

\* The end tag of the innermost open element, unless it closes the capture.
Closes ==
  /\ Capturing /\ cap.skip = 0
  /\ doc[Last(open)].kind = doc[cap.frag].kind
  /\ Len(Top.parents) = cap.base

EndTag ==
  LET e == Last(open)
      kind == doc[e].kind
  IN
  /\ Parsing /\ open # <<>> /\ ~Closes
  /\ open' = Front(open)
  /\ cap' = IF Capturing THEN CapturedEnd(e, kind) ELSE cap
  /\ stack' = IF Capturing THEN stack ELSE WithTop(Popped(Top, kind))
  /\ UNCHANGED <<doc, obj, rec, val, todo>>
-----------------------------------------------------------------------------
\* xml_frag_expand() of the captured c: v times the body of a <repeat>, once the
\* branch of an <if>.
Play(r, c, v) ==
  LET n == Len(c.events)
      isIf == doc[c.frag].kind = "if"
      split == IF c.split = -1 THEN n ELSE c.split
      lo == IF isIf /\ v = 0 THEN split ELSE 0
  IN [NoReplay EXCEPT !.on = TRUE, !.rec = r, !.events = c.events,
        !.lo = lo, !.pos = lo, !.hi = IF isIf /\ v # 0 THEN split ELSE n,
        !.left = IF isIf THEN 1 ELSE v]

\* xml_frag_retain().  `obs` says that the observer is there, `handle` that the record
\* keeps a handle of it; `twice` is a history: the observer was freed twice.
Record(observed) ==
  [frag |-> cap.frag, parent |-> Last(Top.parents), events |-> cap.events,
   split |-> cap.split, roots |-> {}, busy |-> TRUE, missed |-> FALSE,
   live |-> TRUE, obs |-> observed, handle |-> observed, hook |-> TRUE, twice |-> FALSE]

\* The end tag of the fragment that is captured.  One that is bound is retained and
\* built by the first call of its observer; any other is expanded in place.
EndFragment ==
  LET f == doc[cap.frag]
      r == Len(rec) + 1
  IN
  /\ Parsing /\ open # <<>> /\ Closes
  /\ open' = Front(open)
  /\ \/ /\ ~f.bound \/ "oom" \in Env
        /\ stack' = WithTop([Top EXCEPT !.play =
                              Play(Nothing, cap, IF f.bound THEN val ELSE f.num)])
        /\ UNCHANGED <<cap, rec>>
     \/ /\ f.bound
        /\ \E observed \in {TRUE} \cup (IF "oom" \in Env /\ f.kind = "if" THEN {FALSE} ELSE {}) :
             rec' = Append(rec, Record(observed))
        /\ stack' = Append(stack, Frame("build", <<Last(Top.parents)>>, Play(r, cap, val)))
        /\ cap' = NoCapture
  /\ UNCHANGED <<doc, obj, val, todo>>

\* One event is replayed.  The top-level objects are the roots of the expansion.
Replay ==
  LET P == Top
      ev == P.play.events[P.play.pos + 1]
      kind == doc[ev.elem].kind
      Q == IF ev.end THEN Popped(P, kind) ELSE Pushed(P, kind)
      root == ~ev.end /\ P.play.nest = 0 /\ P.play.rec # Nothing /\ Q.item # Nothing
      next == [P.play EXCEPT !.pos = @ + 1, !.nest = IF ev.end THEN @ - 1 ELSE @ + 1,
                             !.roots = IF root THEN @ \cup {Q.item} ELSE @]
  IN
  /\ Replaying /\ P.play.left > 0 /\ P.play.pos < P.play.hi
  /\ Free # {}
  /\ obj' = IF ev.end THEN obj ELSE Created(P, ev.elem, kind)
  /\ stack' = WithTop([Q EXCEPT !.play = next])
  /\ UNCHANGED <<doc, open, cap, rec, val, todo>>

ReplayAgain ==
  /\ Replaying /\ Top.play.left > 0 /\ Top.play.pos = Top.play.hi
  /\ stack' = WithTop([Top EXCEPT !.play =
                        [Top.play EXCEPT !.pos = Top.play.lo, !.left = @ - 1, !.nest = 0]])
  /\ UNCHANGED <<doc, open, cap, obj, rec, val, todo>>

\* The expansion is complete: the capture is freed, or the rebuild returns.
ReplayDone ==
  /\ Replaying /\ Top.play.left = 0
  /\ \/ /\ Top.kind = "doc"
        /\ stack' = WithTop([Top EXCEPT !.play = NoReplay])
        /\ cap' = NoCapture
        /\ UNCHANGED rec
     \/ /\ Top.kind = "build"
        /\ stack' = Front(stack)
        /\ rec' = [rec EXCEPT ![Top.play.rec] =
                              [@ EXCEPT !.roots = Top.play.roots, !.busy = FALSE]]
        /\ UNCHANGED cap
  /\ UNCHANGED <<doc, open, obj, val, todo>>

ParseEnd ==
  /\ Parsing /\ open = <<>>
  /\ stack' = Front(stack)
  /\ UNCHANGED <<doc, open, cap, obj, rec, val, todo>>
-----------------------------------------------------------------------------
\* Bound: a rebuild has room for what it creates.
Room == Cardinality(Free) >= 2 * MaxTags
Notifications == {i \in DOMAIN stack : stack[i].kind = "notify"}

\* lv_subject_set_int() and the notification it begins.  Within one, it makes all
\* observers due again.
SetSubject(v) ==
  /\ ~Idle => "reenter" \in Env /\ Top.kind # "notify" /\ Top.item # Nothing
  /\ val # Gone /\ Alive
  /\ Cardinality(Notifications) < MaxNest /\ Room
  /\ val' = v
  /\ todo' = {r \in DOMAIN rec : rec[r].obs}
  /\ stack' = Append(stack, Frame("notify", <<>>, NoReplay))
  /\ UNCHANGED <<doc, open, cap, obj, rec>>

\* xml_frag_teardown(): the roots go to a sink off the tree, to be deleted later.
Teardown(R) ==
  [o \in Ids |-> IF obj[o].above \cap R # {} THEN [obj[o] EXCEPT !.sunk = TRUE] ELSE obj[o]]

\* Variant with a bug: a rebuild within a rebuild of the same record.
GuardedNot(r) == FALSE

\* The guard in_rebuild.
Guarded(r) == rec[r].busy

\* xml_frag_rebuild_cb(), if_cond_changed_cb(): the record is rebuilt, or the call
\* is dropped because a rebuild of it is under way.
Observe(r) ==
  /\ ~Idle /\ Top.kind = "notify" /\ r \in todo
  /\ todo' = todo \ {r}
  /\ IF Guarded(r)
     THEN /\ rec' = [rec EXCEPT ![r].missed = TRUE]
          /\ UNCHANGED <<obj, stack>>
     ELSE /\ rec' = [rec EXCEPT ![r] = [@ EXCEPT !.busy = TRUE, !.missed = FALSE, !.roots = {}]]
          /\ obj' = Teardown(rec[r].roots)
          /\ stack' = Append(stack, Frame("build", <<rec[r].parent>>, Play(r, rec[r], val)))
  /\ UNCHANGED <<doc, open, cap, val>>

Notified ==
  /\ ~Idle /\ Top.kind = "notify" /\ todo = {}
  /\ stack' = Front(stack)
  /\ UNCHANGED <<doc, open, cap, obj, rec, val, todo>>
-----------------------------------------------------------------------------
\* Variant with a bug: the free of the scope leaves the delete hook.
FreedHooked(r) == [r EXCEPT !.live = FALSE, !.obs = FALSE, !.handle = FALSE, !.roots = {}]

\* lv_xml_frag_record_free(), and what xml_frag_instance_delete_cb() and the
\* unsubscription of its observer by LVGL amount to.
Freed(r) ==
  [r EXCEPT !.live = FALSE, !.obs = FALSE, !.handle = FALSE, !.hook = FALSE, !.roots = {}]

\* The view root is deleted: whatever is below it, the hooks of the records first.
Deleted ==
  /\ obj' = [o \in Ids |-> IF obj[o].sunk THEN obj[o] ELSE NoObject]
  /\ rec' = [r \in DOMAIN rec |-> IF rec[r].hook THEN Freed(rec[r]) ELSE rec[r]]

Delete ==
  /\ Idle /\ Alive
  /\ Deleted
  /\ UNCHANGED <<doc, open, cap, stack, val, todo>>

\* A parse error: the capture is freed, then destroy_partial_view().
ParseFails ==
  /\ "broken" \in Env
  /\ Parsing /\ open # <<>>
  /\ Deleted
  /\ cap' = NoCapture
  /\ open' = <<>>
  /\ stack' = Front(stack)
  /\ UNCHANGED <<doc, val, todo>>

\* The timer deletes the sinks.
SinkDelete ==
  /\ Idle
  /\ \E o \in Ids : obj[o].sunk
  /\ obj' = [o \in Ids |-> IF obj[o].sunk THEN NoObject ELSE obj[o]]
  /\ UNCHANGED <<doc, open, cap, stack, rec, val, todo>>

\* lv_subject_deinit() by the owner of the subject: it frees the observers, and the
\* records keep the handles.
SubjectGone ==
  /\ "early" \in Env
  /\ Idle /\ val # Gone
  /\ val' = Gone
  /\ rec' = [r \in DOMAIN rec |-> [rec[r] EXCEPT !.obs = FALSE]]
  /\ UNCHANGED <<doc, open, cap, stack, obj, todo>>

\* lv_xml_frag_record_free(): the observer is removed through the handle, if there is
\* one, whether or not the observer still is.
Swept(r) == [Freed(r) EXCEPT !.twice = r.handle /\ ~r.obs]

\* component_scope_free() while the instance lives.
Sweep ==
  /\ "sweep" \in Env
  /\ val = Gone => "drained" \in Env
  /\ Idle
  /\ \E r \in DOMAIN rec : rec[r].live
  /\ rec' = [r \in DOMAIN rec |-> IF rec[r].live THEN Swept(rec[r]) ELSE rec[r]]
  /\ UNCHANGED <<doc, open, cap, stack, obj, val, todo>>

Next ==
  \/ \E kind \in Kinds, bound \in BOOLEAN, num \in Values \cup {0} :
       StartTag(kind, bound, num)
  \/ EndTag \/ EndFragment \/ ParseEnd \/ ParseFails
  \/ Replay \/ ReplayAgain \/ ReplayDone
  \/ \E v \in Values : SetSubject(v)
  \/ \E r \in DOMAIN rec : Observe(r)
  \/ Notified
  \/ Delete \/ SinkDelete \/ SubjectGone \/ Sweep

Spec == Init /\ [][Next]_vars
-----------------------------------------------------------------------------
\* One type invariant: what refers to objects, elements and records refers to
\* those there are.
TypeOK ==
  /\ Len(doc) <= MaxTags + MaxElses
  /\ \A i \in DOMAIN open : open[i] \in DOMAIN doc
  /\ cap.skip \in Nat /\ cap.frag \in 0 .. Len(doc) /\ cap.split <= Len(cap.events)
  /\ \A i \in DOMAIN stack :
       /\ \A j \in DOMAIN stack[i].parents : stack[i].parents[j] \in Ids \cup {Outer}
       /\ stack[i].play.nest \in Nat
       /\ stack[i].play.rec \in 0 .. Len(rec)
  /\ \A o \in Ids : obj[o].elem \in 0 .. Len(doc)
  /\ val \in Values \cup {Gone}
  /\ todo \subseteq DOMAIN rec

\* Every end tag pops what its start tag pushed: between two tags, the parser's
\* parent stack has one entry for each open element outside fragments, known or
\* not, besides the one it began with.
StackBalanced ==
  Parsing => Len(Top.parents) = 1 + Cardinality({i \in DOMAIN open :
    /\ doc[open[i]].kind \in {"obj", "unknown"}
    /\ \A j \in 1 .. i : doc[open[j]].kind \notin Fragment})

\* An object hangs below the one that the widget around it in the document made,
\* replayed or not: unknown tags and fragments are transparent, and no sibling
\* slips into or out of them; and the parser's stack is balanced for what follows.
WellPlaced ==
  /\ StackBalanced
  /\ \A o \in Ids : obj[o].elem # Nothing /\ ~obj[o].sunk =>
       IF o = 1 THEN obj[o].par = Outer
       ELSE /\ obj[o].par # Outer
            /\ obj[obj[o].par].elem = doc[obj[o].elem].enc /\ ~obj[obj[o].par].sunk

\* How many objects the document calls for, of element e, in view of the subject.
AfterElse(e) == \E x \in 1 .. (e - 1) : doc[x].kind = "else" /\ doc[x].up = doc[e].frag
Copies(e) ==
  LET f == doc[doc[e].frag]
      v == IF f.bound THEN val ELSE f.num
  IN IF doc[e].frag = Nothing THEN 1
     ELSE IF doc[e].nested THEN 0
     ELSE IF f.kind = "repeat" THEN v
     ELSE IF (v # 0) # AfterElse(e) THEN 1 ELSE 0

\* The fragment of e follows the subject and no change was dropped, or it need not.
Follows(e) ==
  LET f == doc[e].frag IN
  \/ f = Nothing \/ ~doc[f].bound \/ doc[e].nested
  \/ \E r \in DOMAIN rec : rec[r].frag = f /\ rec[r].obs /\ ~rec[r].missed

\* "Not three stacked expansions - exactly one": once every notification has
\* returned, the tree of a live instance holds exactly the objects that the
\* document calls for, whatever was rebuilt, nested or dropped before.
TreeCurrent ==
  Idle /\ Alive => \A e \in DOMAIN doc : doc[e].kind = "obj" /\ Follows(e) =>
    Cardinality({o \in Ids : obj[o].elem = e /\ ~obj[o].sunk}) = Copies(e)

\* A record is freed once, by its instance or by its scope, and so is its observer, by
\* either of these, the view root or the subject: the delete hook and the observer refer
\* to a record that is there, a record is there only with its instance, its roots are
\* objects of the tree, and no observer is removed that was freed before ("detaching
\* every observer while its subject is still valid", lv_xml_component.c:1012).
RecordsSound ==
  \A r \in DOMAIN rec :
    /\ ~rec[r].twice
    /\ rec[r].hook \/ rec[r].obs => rec[r].live
    /\ rec[r].live => Alive /\ rec[r].hook
    /\ \A o \in rec[r].roots : obj[o].elem # Nothing /\ ~obj[o].sunk
=============================================================================
