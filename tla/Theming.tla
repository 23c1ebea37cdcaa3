------------------------------- MODULE Theming -------------------------------
(***************************************************************************)
(* Colors and transitions that follow a theme (lv_xml_style.c,             *)
(* lv_xml_component.c, lv_xml.c, parsers/lv_xml_obj_parser.c).  A color     *)
(* that is written as a global constant, in a named style or inline on a   *)
(* widget, is set at once and noted with the name of the constant; when    *)
(* the constant is changed the application asks for all of them to be set   *)
(* again.  A transition is built from the attributes of a style element    *)
(* and retimed whenever the scale of all motion changes.                   *)
(*                                                                         *)
(* The globals are read from a document too: it works on a copy of their   *)
(* scope, while every look at the globals by name sees the original, whose *)
(* index shares its table with the one of the copy.                        *)
(***************************************************************************)
EXTENDS Integers, Sequences, FiniteSets

CONSTANTS
  Consts,     (* the names of constants                                    *)
  Colors,     (* colors                                                    *)
  None,       (* no color, no constant, no transition                      *)
  Props,      (* color properties, with their selectors                    *)
  FirstCap,   (* the slots of a new name index (64 in the code)            *)
  TokenSlots, (* LV_XML_TOKEN_SLOTS (8 in the code)                        *)
  MaxAttrs,   (* bound: attributes of an element                           *)
  Parts,      (* a behaviour is about "styles", "inline" or "motion"       *)
  Bad,        (* an attribute value that is refused                        *)
  Bounce,     (* an easing; the default is linear                          *)
  Env         (* "own", "refused": see EnvKinds                            *)

\* "own"      a document of the globals has styles behind constants of its own
\* "refused"  a shorthand that is refused stands next to longhand attributes
EnvKinds == {"own", "refused"}

\* What the attributes of a transition can ask for.
Motions == [props : {"width", "opa"}, duration : {0, 100, 300}, delay : {0, 50},
            easing : {"linear", Bounce}]

ASSUME ThemingAssumption ==
  /\ None \notin Consts \cup Colors
  /\ FirstCap \in Nat /\ FirstCap >= 2 /\ TokenSlots \in Nat /\ MaxAttrs \in Nat
  /\ Bad # None /\ Bad \notin {"width", "opa"} /\ Bad \notin {50, 100, 300}
  /\ Bounce # Bad /\ Bounce # 50 /\ None \notin {"width", "opa"} \cup Motions
  /\ Parts \subseteq {"styles", "inline", "motion"} /\ Env \subseteq EnvKinds

Owners == {"globals", "component"}

VARIABLES
  part,    (* what this behaviour is about                                 *)
  value,   (* the constants of the globals, in the copy if there is one    *)
  index,   (* their index: slots, and whether growing it has failed        *)
  view,    (* what the registered scope sees while a document is read      *)
  own,     (* the constants that the component declares itself             *)
  style,   (* the colors of a named style of each owner, and their tokens  *)
  obj,     (* the local colors of a widget, and its record of them         *)
  fresh,   (* no constant has changed since the colors were set again      *)
  scale,   (* transition_scale                                             *)
  trans    (* the transition of the component's style                      *)

vars == <<part, value, index, view, own, style, obj, fresh, scale, trans>>

--------------------------------------------------------------------------------
(* The constants of the globals.                                            *)

NoColors == [p \in Props |-> None]
\* How an author wrote a color last: a history, not state of the program.
Unwritten == [p \in Props |-> <<"none", None>>]
NoTransition == [props |-> None, time |-> 0, delay |-> 0, easing |-> "linear", live |-> 0,
                 wrote |-> None]

Registered == {n \in Consts : value[n] # None}
Settled == [kind |-> "settled", base |-> {}]

Init ==
  /\ part \in Parts
  /\ value = [n \in Consts |-> None]
  /\ index = [cap |-> 0, failed |-> FALSE]
  /\ view = Settled
  /\ own \in {[n \in Consts |-> IF n = m THEN c ELSE None] :
                 m \in Consts, c \in Colors \cup {None}}
  /\ style = [o \in Owners |-> [color |-> NoColors, token |-> NoColors, wrote |-> Unwritten]]
  /\ obj = [color |-> NoColors, token |-> NoColors, last |-> NoColors,
            authored |-> {}, wrote |-> Unwritten, put |-> NoColors]
  /\ fresh = TRUE
  /\ scale = 256
  /\ trans = NoTransition


\* lv_xml_name_index_insert(): the table grows when it would be more than half full,
\* and is dropped for good when there is no memory for that.
Crowded == (Cardinality(Registered) + 1) * 2 > index.cap
Inserted(oom) ==
  CASE index.failed \/ ~Crowded -> index
    [] ~index.failed /\ Crowded /\ oom -> [cap |-> 0, failed |-> TRUE]
    [] OTHER -> [index EXCEPT !.cap = IF @ = 0 THEN FirstCap ELSE 2 * @]

\* The table that the original shares goes when the copy grows or drops its own.
ViewAfter(new) ==
  IF view.kind = "shared" /\ new # index THEN [view EXCEPT !.kind = "freed"] ELSE view

\* lv_xml_register_const(), from the application or a document: a constant that is
\* there is left alone.
RegisterConst(n, c, oom) ==
  /\ value[n] = None
  /\ value' = [value EXCEPT ![n] = c]
  /\ index' = Inserted(oom)
  /\ view' = ViewAfter(Inserted(oom))
  /\ UNCHANGED <<part, own, style, obj, fresh, scale, trans>>

\* lv_xml_set_const(), lv_xml_update_const(): the value in place.
SetConst(n, c) ==
  /\ view = Settled
  /\ value[n] # None
  /\ value' = [value EXCEPT ![n] = c]
  /\ fresh' = FALSE
  /\ UNCHANGED <<part, index, view, own, style, obj, scale, trans>>

\* lv_xml_register_component_from_data() for the globals: the copy.
BeginGlobals ==
  /\ view = Settled /\ part = "styles"
  /\ view' = [kind |-> CASE index.failed -> "list"
                         [] ~index.failed /\ index.cap = 0 -> "empty"
                         [] OTHER -> "shared",
              base |-> Registered]
  /\ UNCHANGED <<part, value, index, own, style, obj, fresh, scale, trans>>

\* The copy replaces the original, also when the document is broken.
EndGlobals ==
  /\ view # Settled
  /\ view' = Settled
  /\ UNCHANGED <<part, value, index, own, style, obj, fresh, scale, trans>>

\* lv_xml_get_const_silent(NULL, n) through the registered scope: the sets of names
\* that it may find.  A freed table can answer anything.
Sights ==
  CASE view.kind \in {"settled", "shared"} -> {Registered}
    [] view.kind = "list" -> {view.base}
    [] view.kind = "empty" -> {{}}
    [] OTHER -> SUBSET Registered

--------------------------------------------------------------------------------
(* Attributes that are colors.                                              *)

\* A literal, a reference to a constant, a negated reference, or a removal.
ColorValues == {<<"lit", c>> : c \in Colors} \cup {<<"tok", n>> : n \in Consts}
                 \cup {<<"neg", None>>, <<"remove", None>>}
ColorAttrs == [prop : Props, val : ColorValues]

\* The constants of the owner come before the global ones.
ConstFor(owner, n) == IF owner = "component" /\ own[n] # None THEN own[n] ELSE value[n]
IsGlobal(owner, n) == value[n] # None /\ ~(owner = "component" /\ own[n] # None)

\* What an attribute says of its color: skipped, or the color and the constant.
Skipped(owner, val) ==
  val[1] = "neg" \/ (val[1] = "tok" /\ ConstFor(owner, val[2]) = None)
ColorOf(owner, val) ==
  CASE val[1] = "lit" -> val[2]
    [] val[1] = "tok" -> ConstFor(owner, val[2])
    [] OTHER -> None
AuthoredAs(owner, val) ==
  CASE val[1] = "tok" /\ IsGlobal(owner, val[2]) -> <<"tok", val[2]>>
    [] val[1] = "tok" /\ ~IsGlobal(owner, val[2]) -> <<"lit", ConstFor(owner, val[2])>>
    [] OTHER -> val

\* (mutant) a literal leaves the token of the property
NotedSticky(token, p, n) == IF n = None THEN token ELSE [token EXCEPT ![p] = n]

\* style_token_note(): the latest write of a property decides.
Noted(token, p, n) == [token EXCEPT ![p] = n]

\* One attribute in the loop of lv_xml_register_style(); `sees` are the constants
\* that are found through the registered scope.
StyleAttr(s, owner, sees, a) ==
  IF Skipped(owner, a.val) THEN s
  ELSE LET n == a.val[2]
           named == a.val[1] = "tok" /\ IsGlobal(owner, n) /\ n \in sees
       IN  [color |-> [s.color EXCEPT ![a.prop] = ColorOf(owner, a.val)],
            token |-> Noted(s.token, a.prop, IF named THEN n ELSE None),
            wrote |-> [s.wrote EXCEPT ![a.prop] = AuthoredAs(owner, a.val)]]

\* XML has an attribute once.
AttrLists ==
  {l \in UNION {[1 .. k -> ColorAttrs] : k \in 1 .. MaxAttrs} :
     \A i, j \in 1 .. Len(l) : l[i].prop = l[j].prop => i = j}

\* The loop over the attributes of a style.
StyleAttrs(owner, attrs, sees) ==
  LET after[i \in 0 .. Len(attrs)] ==
        IF i = 0 THEN style[owner] ELSE StyleAttr(after[i - 1], owner, sees, attrs[i])
  IN  after[Len(attrs)]

\* lv_xml_register_style(), the colors.  Styles of the globals come from their
\* document or from the application.
RegisterStyle(owner, attrs, sees) ==
  /\ part = "styles"
  /\ view # Settled => /\ owner = "globals"
                       /\ "own" \in Env \/ Registered = view.base
                       /\ "own" \in Env \/ view.kind # "empty"
  /\ style' = [style EXCEPT ![owner] = StyleAttrs(owner, attrs, sees)]
  /\ UNCHANGED <<part, value, index, view, own, obj, fresh, scale, trans>>

\* scope_reapply_style_tokens(), over the listed and the held scopes.
StyleReapplied(s) ==
  [s EXCEPT !.color = [p \in Props |-> IF s.token[p] = None THEN s.color[p]
                                       ELSE value[s.token[p]]]]

\* (mutant) a color other code has set is replaced like any other
TouchedNever(o, p) == o.color[p] = None

\* A color that other code has changed, or removed, is not the engine's to replace.
Touched(o, p) == o.color[p] = None \/ o.color[p] # o.last[p]

\* token_style_reapply_cb().
ObjReapplied(o) ==
  LET moved == {p \in Props : o.token[p] # None /\ ~Touched(o, p)}
      now == [p \in Props |-> IF p \in moved THEN value[o.token[p]] ELSE o.color[p]]
  IN  [o EXCEPT !.color = now,
                !.last = [p \in Props |-> IF p \in moved THEN now[p] ELSE @[p]],
                !.put = [p \in Props |-> IF p \in moved THEN now[p] ELSE @[p]]]

\* lv_xml_reapply_style_tokens() and lv_xml_reapply_token_styles(), after one or
\* several changes.
Reapply ==
  /\ view = Settled /\ part \in {"styles", "inline"}
  /\ style' = [o \in Owners |-> StyleReapplied(style[o])]
  /\ obj' = ObjReapplied(obj)
  /\ fresh' = TRUE
  /\ UNCHANGED <<part, value, index, view, own, scale, trans>>

--------------------------------------------------------------------------------
(* Inline colors.                                                           *)

\* note_style_value(): the first constants of an element, as many as have a slot.
Slots(owner, attrs) ==
  LET names[i \in 0 .. Len(attrs)] ==
        IF i = 0 THEN <<>>
        ELSE LET n == attrs[i].val[2]
                 so == names[i - 1]
             IN  IF attrs[i].val[1] = "tok" /\ IsGlobal(owner, n)
                      /\ (\A k \in 1 .. Len(so) : so[k] # n) /\ Len(so) < TokenSlots
                 THEN Append(so, n) ELSE so
      all == names[Len(attrs)]
  IN  {all[k] : k \in 1 .. Len(all)}

\* apply_styles(), token_style_note(): the color, and the record of it.
InlineAttr(o, owner, slots, a) ==
  IF Skipped(owner, a.val) THEN o
  ELSE LET p == a.prop
           c == ColorOf(owner, a.val)
           n == IF a.val[1] = "tok" /\ IsGlobal(owner, a.val[2]) /\ a.val[2] \in slots
                THEN a.val[2] ELSE None
       IN  [color |-> [o.color EXCEPT ![p] = c],
            token |-> Noted(o.token, p, n),
            last |-> [o.last EXCEPT ![p] = c],
            authored |-> o.authored \cup {p},
            wrote |-> [o.wrote EXCEPT ![p] = IF n = None THEN <<"lit", c>>
                                             ELSE AuthoredAs(owner, a.val)],
            put |-> [o.put EXCEPT ![p] = c]]

\* The loop over the inline colors of an element.
InlineAttrs(owner, attrs, slots) ==
  LET after[i \in 0 .. Len(attrs)] ==
        IF i = 0 THEN obj ELSE InlineAttr(after[i - 1], owner, slots, attrs[i])
  IN  after[Len(attrs)]

\* An element with inline colors is applied to the widget; instance attributes are
\* applied to the view's root after the attributes of the view.
ApplyInline(owner, attrs) ==
  /\ part = "inline"
  /\ \A i \in 1 .. Len(attrs) : attrs[i].val[1] # "remove"
  /\ obj' = InlineAttrs(owner, attrs, Slots(owner, attrs))
  /\ UNCHANGED <<part, value, index, view, own, style, fresh, scale, trans>>

\* The application sets the local color of the widget, or removes it.
Paint(p, c) ==
  /\ part = "inline"
  /\ obj' = [obj EXCEPT !.color[p] = c]
  /\ UNCHANGED <<part, value, index, view, own, style, fresh, scale, trans>>

--------------------------------------------------------------------------------
(* Transitions.                                                             *)

\* A property may be unknown or not interpolable, a time or an easing malformed.
Times == {100, 300, Bad}
Delays == {50, Bad}
Easings == {Bounce, Bad}
\* What follows the properties and the duration in the shorthand.
Tails == {<<>>, <<Bounce>>, <<50>>, <<Bad>>, <<50, Bad>>}

MotionAttrs ==
  [kind : {"props"}, val : {"width", Bad}]
    \cup [kind : {"duration"}, val : Times]
    \cup [kind : {"delay"}, val : Delays]
    \cup [kind : {"easing"}, val : Easings]
    \cup [kind : {"transition"}, val : [props : {"opa"}, time : Times, tail : Tails]]

NoFields == [props |-> None, duration |-> 0, delay |-> 0, easing |-> "linear"]

\* transition_parse_shorthand(): the output parameters are set on the way, and what
\* has been set stays when a later token is refused.
ShortToken(out, x) ==
  CASE x = 50 -> [out EXCEPT !.delay = 50]
    [] x = Bounce -> [out EXCEPT !.easing = Bounce]
    [] OTHER -> out

Shorthand(v) ==
  IF v.time = Bad THEN [ok |-> FALSE, out |-> NoFields]
  ELSE LET out[k \in 0 .. Len(v.tail)] ==
             IF k = 0 THEN [NoFields EXCEPT !.props = v.props, !.duration = v.time]
             ELSE ShortToken(out[k - 1], v.tail[k])
       IN  [ok |-> \A k \in 1 .. Len(v.tail) : v.tail[k] # Bad, out |-> out[Len(v.tail)]]

\* The collected attributes: what longhand and shorthand say, which fields a
\* longhand has claimed, and whether there is anything to install.
Collected == [long |-> NoFields, claimed |-> {}, short |-> NoFields, seen |-> FALSE]

Collect(st, a) ==
  IF a.kind = "transition"
  THEN [st EXCEPT !.short = Shorthand(a.val).out, !.seen = @ \/ Shorthand(a.val).ok]
  ELSE IF a.val = Bad /\ a.kind # "props" THEN st
  ELSE [st EXCEPT !.long[a.kind] = a.val, !.claimed = @ \cup {a.kind}, !.seen = TRUE]

CollectedFrom(attrs) ==
  LET st[i \in 0 .. Len(attrs)] == IF i = 0 THEN Collected ELSE Collect(st[i - 1], attrs[i])
  IN  st[Len(attrs)]

\* (mutant) whichever attribute comes last has the field
MergedLast(attrs, st) ==
  IF attrs[Len(attrs)].kind = "transition" /\ Shorthand(attrs[Len(attrs)].val).ok THEN st.short
  ELSE [f \in DOMAIN NoFields |-> IF f \in st.claimed THEN st.long[f] ELSE st.short[f]]

\* A longhand attribute wins its own field over the shorthand.
Merged(attrs, st) ==
  [f \in DOMAIN NoFields |-> IF f \in st.claimed THEN st.long[f] ELSE st.short[f]]

Scaled(time) == (time * scale) \div 256

\* style_transition_install(): without properties, or with one that will not do, the
\* style keeps the transition it has.
Installed(f) ==
  IF f.props \in {None, Bad} THEN trans
  ELSE [trans EXCEPT !.props = f.props, !.time = f.duration, !.delay = f.delay,
                     !.easing = f.easing, !.live = Scaled(f.duration)]

\* What the author asks for: a longhand that is valid, or else the shorthand if it
\* is, has the field.
Valid(attrs, kind) == {a \in {attrs[i] : i \in 1 .. Len(attrs)} :
                         /\ a.kind = kind
                         /\ CASE kind = "transition" -> Shorthand(a.val).ok
                              [] kind = "props" -> TRUE
                              [] OTHER -> a.val # Bad}
Field(attrs, f) ==
  IF Valid(attrs, f) # {} THEN (CHOOSE a \in Valid(attrs, f) : TRUE).val
  ELSE IF Valid(attrs, "transition") # {}
       THEN Shorthand((CHOOSE a \in Valid(attrs, "transition") : TRUE).val).out[f]
       ELSE NoFields[f]
Asked(attrs) ==
  IF Field(attrs, "props") \in {None, Bad} THEN trans.wrote
  ELSE [f \in DOMAIN NoFields |-> Field(attrs, f)]

MotionLists ==
  {l \in UNION {[1 .. k -> MotionAttrs] : k \in 1 .. MaxAttrs + 1} :
     /\ \A i, j \in 1 .. Len(l) : l[i].kind = l[j].kind => i = j
     /\ "refused" \in Env \/ Len(l) = 1
          \/ \A i \in 1 .. Len(l) : l[i].kind = "transition" => Shorthand(l[i].val).ok
               \/ l[i].val.time = Bad}

\* lv_xml_register_style(), the transition.
RegisterMotion(attrs) ==
  LET all == CollectedFrom(attrs)
      to == IF all.seen THEN Installed(Merged(attrs, all)) ELSE trans
  IN  /\ part = "motion"
      /\ trans' = [to EXCEPT !.wrote = Asked(attrs)]
      /\ UNCHANGED <<part, value, index, view, own, style, obj, fresh, scale>>

\* scope_retime_transitions(), of listed and held scopes.
Retimed(s) == (trans.time * s) \div 256

\* lv_xml_set_transition_scale().
SetScale(s) ==
  /\ part = "motion"
  /\ scale' = s
  /\ trans' = IF trans.props = None THEN trans ELSE [trans EXCEPT !.live = Retimed(s)]
  /\ UNCHANGED <<part, value, index, view, own, style, obj, fresh>>

Scales == {0, 128, 256, 300}

Next ==
  \/ \E n \in Consts, c \in Colors, oom \in BOOLEAN : part # "motion" /\ RegisterConst(n, c, oom)
  \/ \E n \in Consts, c \in Colors : SetConst(n, c)
  \/ BeginGlobals \/ EndGlobals
  \/ \E o \in Owners, l \in AttrLists, sees \in Sights : RegisterStyle(o, l, sees)
  \/ Reapply
  \/ \E o \in Owners, l \in AttrLists : ApplyInline(o, l)
  \/ \E p \in Props, c \in Colors \cup {None} : Paint(p, c)
  \/ \E l \in MotionLists : RegisterMotion(l)
  \/ \E s \in Scales : SetScale(s)

Spec == Init /\ [][Next]_vars

--------------------------------------------------------------------------------
(* The properties.                                                          *)

\* Every variable keeps its type; a record of a transition has no holes.
Written == {"none", "lit", "tok", "remove"} \X (Consts \cup Colors \cup {None})
StyleRecords ==
  [color : [Props -> Colors \cup {None}], token : [Props -> Consts \cup {None}],
   wrote : [Props -> Written]]
ObjRecords ==
  [color : [Props -> Colors \cup {None}], token : [Props -> Consts \cup {None}],
   last : [Props -> Colors \cup {None}], authored : SUBSET Props,
   wrote : [Props -> Written], put : [Props -> Colors \cup {None}]]

TypeOK ==
  /\ part \in Parts
  /\ value \in [Consts -> Colors \cup {None}] /\ own \in [Consts -> Colors \cup {None}]
  /\ index \in [cap : Nat, failed : BOOLEAN]
  /\ view \in [kind : {"settled", "list", "empty", "shared", "freed"}, base : SUBSET Consts]
  /\ style \in [Owners -> StyleRecords] /\ obj \in ObjRecords
  /\ fresh \in BOOLEAN /\ scale \in Nat
  /\ trans \in [props : {"width", "opa", None}, time : {0, 100, 300}, delay : {0, 50},
                easing : {"linear", Bounce}, live : Nat, wrote : Motions \cup {None}]

\* Once the colors have been set again, a named style has, in every property that
\* was last written as a global constant, the value that the constant has now, and
\* what was last written as a literal, or as a constant of the component's own, has
\* that color at any time ("does the same for #const colors in named <style>s",
\* README.md:66), whatever documents and re-registrations came in between.
NamedFollow ==
  \A o \in Owners, p \in Props :
    LET w == style[o].wrote[p]
    IN  CASE w[1] = "tok" -> fresh => style[o].color[p] = value[w[2]]
          [] w[1] = "lit" -> style[o].color[p] = w[2]
          [] OTHER -> style[o].color[p] = None

\* Setting the colors again gives a widget's inline colors that were last written as
\* a global constant its value, and leaves alone what was written otherwise, and all
\* that other code has changed since ("skipping colors other code has changed since",
\* README.md:66): every color but the one that the engine has put there last.
InlineFollow ==
  [][Reapply =>
       \A p \in Props :
         obj'.color[p] = IF /\ obj.wrote[p][1] = "tok"
                            /\ obj.color[p] # None /\ obj.color[p] = obj.put[p]
                         THEN value[obj.wrote[p][2]]
                         ELSE obj.color[p]]_vars

\* A style's transition is what its attributes ask for, a valid longhand before the
\* shorthand in every field and whichever comes first, and an element that asks for
\* none, or is refused, leaves the one it had; what runs is always the authored
\* duration at the present scale, however often and in which order it is set.
MotionAsWritten ==
  /\ trans.live = Scaled(trans.time)
  /\ trans.wrote = None <=> trans.props = None
  /\ trans.wrote # None =>
       [f \in DOMAIN NoFields |-> IF f = "duration" THEN trans.time ELSE trans[f]] = trans.wrote

--------------------------------------------------------------------------------
(* The inductive invariant: why the properties above hold.                 *)

\* An index that has not failed is at most half full.
IndexSound ==
  /\ IsFiniteSet(Registered)
  /\ ~index.failed => Cardinality(Registered) * 2 <= index.cap

\* While the index of the copy is the one that the original sees, or the copy has
\* none, the document has registered nothing that the original does not find.
ViewSound ==
  /\ view.base \subseteq Registered
  /\ view.kind = "settled" => view = Settled
  /\ view.kind = "freed" => Registered # view.base

\* Of a named style, unless a document looked in vain for its own constants.
StyleSound(s) ==
  \A p \in Props :
    /\ s.token[p] # None => s.token[p] \in Registered
    /\ "own" \notin Env =>
         LET w == s.wrote[p]
         IN  CASE w[1] = "tok" -> /\ s.token[p] = w[2] /\ w[2] # None
                                  /\ fresh => s.color[p] = value[w[2]]
               [] w[1] = "lit" -> s.token[p] = None /\ s.color[p] = w[2]
               [] OTHER -> s.token[p] = None /\ s.color[p] = None

\* Of a widget: what the engine put there last is what its record remembers, and
\* it follows a constant exactly where one was written.
ObjSound(o) ==
  \A p \in Props :
    /\ o.token[p] # None => o.token[p] \in Registered
    /\ o.last[p] = o.put[p] /\ (p \in o.authored <=> o.last[p] # None)
    /\ IF o.wrote[p][1] = "tok" THEN o.token[p] = o.wrote[p][2] /\ o.token[p] # None
                                ELSE o.token[p] = None

\* The transition is the one asked for last; none takes no time.
MotionSound ==
  /\ trans.live = Scaled(trans.time) /\ (trans.props = None => trans.time = 0)
  /\ "refused" \notin Env => MotionAsWritten

IInv ==
  /\ TypeOK /\ IndexSound /\ ViewSound
  /\ \A o \in Owners : StyleSound(style[o])
  /\ ObjSound(obj) /\ MotionSound
================================================================================
