------------------------------- MODULE Metadata --------------------------------
(***************************************************************************)
(* Registration of a component (lv_xml_component.c, lv_xml_parser.c) and    *)
(* the registries of a scope (lv_xml.c).  An XML document is parsed once    *)
(* for its declarations; the parser state knows only the section it is in  *)
(* and the timeline it has seen last, never the document.  Documents for   *)
(* `globals` are parsed into a copy of the one global scope, which then    *)
(* takes its place; a component gets a scope of its own.  What an instance *)
(* of the component makes of its timelines is modelled too.                *)
(*                                                                         *)
(* An element of a document is the number of its start tag, over all       *)
(* documents; a call of the application that registers something counts as *)
(* an element outside of any document.                                     *)
(***************************************************************************)
EXTENDS Integers, Sequences, FiniteSets

CONSTANTS
  Names,      (* the names that declarations use                           *)
  NoName,     (* an attribute that is not there                            *)
  MaxStops,   (* LV_GRADIENT_MAX_STOPS                                     *)
  MaxTags,    (* bound: start tags and calls                               *)
  Families,   (* the sets of tags and calls that one behaviour uses        *)
  Mishaps     (* what happens besides, a subset of MishapKinds             *)

\* "broken"  the XML of a document breaks off
\* "oom"     a record cannot be allocated, once
\* "bare"    a declaration lacks an attribute that it needs
\* "latch"   a timeline is declared again, or without a name
MishapKinds == {"broken", "oom", "bare", "latch"}

Blocks == {"api", "consts", "gradients", "styles", "images", "fonts", "subjects"}
Elements == {"prop", "const", "grad", "stop", "style", "file", "bin", "subject",
             "timeline", "animation", "include_timeline", "view", "note"}

Calls == {"register_const", "set_const", "event"}

ASSUME MetadataAssumption ==
  /\ NoName \notin Names /\ MaxStops \in Nat /\ MaxTags \in Nat
  /\ Families \subseteq SUBSET (Blocks \cup Elements \cup Calls)
  /\ Mishaps \subseteq MishapKinds

VARIABLES
  tags,       (* what this behaviour uses                                  *)
  doc,        (* the elements so far, with what their tags say             *)
  open,       (* the elements of the document that are open                *)
  into,       (* what the document under way is: a kind of root, or "none" *)
  section,    (* state->section                                            *)
  context,    (* state->context: a timeline of state->scope or of globals  *)
  work,       (* state->scope                                              *)
  scopes,     (* the global scope and the component's, once it has one     *)
  inst,       (* the timelines of the last instance                        *)
  lost        (* the elements whose record could not be allocated          *)

metadataVars == <<tags, doc, open, into, section, context, work, scopes, inst, lost>>

--------------------------------------------------------------------------------
(* A scope and its lists.                                                   *)

Kinds == {"prop", "const", "grad", "style", "image", "font", "subject",
          "timeline", "event"}

\* `lists` has records [name, by, parts]: the element a record stems from, and
\* the stops, properties or animations it has collected.  `from` is a history:
\* the documents and calls that the scope has been given.
EmptyScope == [lists |-> [k \in Kinds |-> <<>>], view |-> 0, from |-> {}]
NoScope == [EmptyScope EXCEPT !.view = -1]
NoContext == [of |-> "none", name |-> NoName]
Roots == {"globals", "component"}
NoInstance == [from |-> {}, found |-> {}, lines |-> <<>>]

MetadataInit ==
  /\ tags \in Families
  /\ doc = <<>> /\ open = <<>> /\ into = "none"
  /\ section = "none" /\ context = NoContext
  /\ work = EmptyScope
  /\ scopes = [s \in Roots |-> IF s = "globals" THEN EmptyScope ELSE NoScope]
  /\ inst = NoInstance /\ lost = {}

Earliest(S) == CHOOSE e \in S : \A d \in S : e <= d
Latest(S) == CHOOSE e \in S : \A d \in S : d <= e

Has(list, n) == \E i \in 1 .. Len(list) : list[i].name = n
At(list, n) == CHOOSE i \in 1 .. Len(list) :
                 list[i].name = n /\ \A j \in 1 .. i - 1 : list[j].name # n
Record(n, e) == [name |-> n, by |-> e, parts |-> <<>>]

\* lv_xml_register_const(), _font(), _image(), _timeline(): a record of the name
\* is left as it is, a new one goes to the head.
PutFirst(list, n, e) == IF Has(list, n) THEN list ELSE <<Record(n, e)>> \o list

\* lv_xml_register_event_cb(), register_subject_impl(), lv_xml_set_const(): a
\* record of the name is given the new value.
PutLast(list, n, e) ==
  IF Has(list, n) THEN [list EXCEPT ![At(list, n)].by = e] ELSE PutFirst(list, n, e)

\* process_prop_element(), process_grad_element(): every one is listed, in order.
PutAlways(list, n, e) == Append(list, Record(n, e))

\* The record of the name collects the element.
PutPart(list, n, e) == [list EXCEPT ![At(list, n)].parts = Append(@, e)]

\* lv_xml_register_style(): a style that is there is extended.
PutMerged(list, n, e) ==
  PutPart(IF Has(list, n) THEN list ELSE PutAlways(list, n, e), n, e)

Put(kind, list, n, e) ==
  CASE kind \in {"const", "font", "image", "timeline"} -> PutFirst(list, n, e)
    [] kind \in {"subject", "event"} -> PutLast(list, n, e)
    [] kind \in {"prop", "grad"} -> PutAlways(list, n, e)
    [] kind = "style" -> PutMerged(list, n, e)

With(scope, kind, n, e) == [scope EXCEPT !.lists[kind] = Put(kind, @, n, e)]

\* lv_xml_get_const(), _font(), _image(), _timeline(), _event_cb(): the scope's
\* own record comes before the one of the globals.
Lookup(kind, scope, n) ==
  CASE Has(scope.lists[kind], n) -> <<"own", At(scope.lists[kind], n)>>
    [] ~Has(scope.lists[kind], n) /\ Has(scopes["globals"].lists[kind], n) /\ into # "globals"
         -> <<"globals", At(scopes["globals"].lists[kind], n)>>
    [] OTHER -> <<"none", 0>>

--------------------------------------------------------------------------------
(* The sections.                                                            *)

Openers == Blocks \cup {"animation", "include_timeline", "timeline", "view"}

\* lv_xml_parser_start_section(); a section has the name of its tag.
Opened(tag) ==
  IF tag \in Openers \/ (section = "gradients" /\ tag = "stop") THEN tag ELSE section

\* (mutant) the end tag of a gradient leaves the section at its stops
ClosedStop(tag) == IF tag \in Openers THEN "none" ELSE section

\* lv_xml_parser_end_section(): behind the last stop of a gradient, the end tag
\* of the gradient goes back to the gradients.
Closed(tag) ==
  CASE tag \in Openers -> "none"
    [] tag \notin Openers /\ section = "stop" /\ tag # "stop" -> "gradients"
    [] OTHER -> section

--------------------------------------------------------------------------------
(* The declarations.  `el` is the element, number `e`.                      *)


\* process_timeline_element(): a name that is there is left alone, and so is the
\* context.  Without memory the lookup finds none, or one of the globals.
Timeline(el, e, oom) ==
  IF ~el.ok \/ Has(work.lists["timeline"], el.name)
  THEN UNCHANGED <<work, context>>
  ELSE LET w == IF oom THEN work ELSE With(work, "timeline", el.name, e)
           found == Lookup("timeline", w, el.name)[1]
       IN  /\ work' = w
           /\ context' = IF found = "none" THEN NoContext
                         ELSE [of |-> found, name |-> el.name]

\* process_animation_element(), process_include_timeline_element(): constants are
\* resolved at once, and one that is unknown drops the element.
Animates(el, oom) ==
  /\ context # NoContext /\ el.ok /\ ~oom
  /\ el.ref = NoName \/ Lookup("const", work, el.ref)[1] # "none"

Animation(el, e, oom) ==
  IF ~Animates(el, oom) THEN UNCHANGED <<work, scopes>>
  ELSE IF context.of = "own"
  THEN /\ work' = [work EXCEPT !.lists["timeline"] = PutPart(@, context.name, e)]
       /\ UNCHANGED scopes
  ELSE /\ scopes' = [scopes EXCEPT !["globals"].lists["timeline"] = PutPart(@, context.name, e)]
       /\ UNCHANGED work

\* A gradient has room for so many stops: one more is ignored.
Stopped(stops, e) == IF Len(stops) = MaxStops THEN stops ELSE Append(stops, e)

\* process_grad_stop_element(): the stop is added to the last gradient there is.
\* Without any, which takes an allocation that failed, the program crashes.
Stop(e) ==
  LET grads == work.lists["grad"]
  IN  /\ grads # <<>>
      /\ work' = [work EXCEPT !.lists["grad"][Len(grads)].parts = Stopped(@, e)]

\* The registry that a section's elements go to.  Only the API looks at the tag.
Declares(sec, el) ==
  CASE sec = "api" /\ el.tag = "prop" -> "prop"
    [] sec = "consts" -> "const"
    [] sec = "gradients" -> "grad"
    [] sec = "styles" -> "style"
    [] sec = "images" -> "image"
    [] sec = "fonts" -> "font"
    [] sec = "subjects" -> "subject"
    [] OTHER -> "none"

\* start_metadata_handler(): the tag that opens a block declares nothing.
Declaration(sec, el, e, oom) ==
  LET kind == Declares(sec, el)
  IN  IF sec = section /\ kind # "none" /\ el.ok /\ ~oom
      THEN work' = With(work, kind, el.name, e)
      ELSE UNCHANGED work

--------------------------------------------------------------------------------
(* The document.                                                            *)

Allowed(up) ==
  CASE up \in Roots -> Blocks \cup {"timeline", "view", "note"}
    [] up = "api" -> {"prop", "note"}
    [] up = "consts" -> {"const"}
    [] up = "gradients" -> {"grad"}
    [] up = "grad" -> {"stop"}
    [] up = "styles" -> {"style"}
    [] up = "images" -> {"file"}
    [] up = "fonts" -> {"bin"}
    [] up = "subjects" -> {"subject"}
    [] up = "timeline" -> {"animation", "include_timeline"}
    [] up \in {"view", "prop"} -> {"note"}
    [] OTHER -> {}

Unnamed == Blocks \cup {"stop", "view", "note", "animation"}
Fallible == {"const", "style", "file", "bin", "subject", "timeline",
             "animation", "include_timeline"}
Allocating == Fallible \cup {"prop", "grad"}

\* The start tags that can come next.  A grad or a prop is always recorded.
NextTags ==
  {el \in [tag : tags \ Calls, name : Names \cup {NoName}, ok : BOOLEAN,
           ref : Names \cup {NoName}, up : {open[Len(open)]}, root : {open[1]}] :
     /\ el.tag \in Allowed(doc[el.up].tag)
     /\ el.name = NoName <=> el.tag \in Unnamed
     /\ el.ok \/ ("bare" \in Mishaps /\ el.tag \in Fallible)
     /\ el.ref = NoName \/ ("consts" \in tags /\ el.tag \in {"animation", "include_timeline"})
     /\ el.tag = "timeline" /\ "latch" \notin Mishaps =>
          el.ok /\ ~Has(work.lists["timeline"], el.name)}

\* lv_xml_register_component_from_data(): a state of its own, the scope of the
\* globals copied into it for a document of theirs.
Begin(root) ==
  LET e == Len(doc) + 1
  IN  /\ into = "none" /\ e <= MaxTags
      /\ doc' = Append(doc, [tag |-> root, name |-> NoName, ok |-> TRUE,
                             ref |-> NoName, up |-> 0, root |-> e])
      /\ open' = <<e>> /\ into' = root
      /\ section' = "none" /\ context' = NoContext
      /\ work' = [(IF root = "globals" THEN scopes["globals"] ELSE EmptyScope)
                    EXCEPT !.from = @ \cup {e}]
      /\ UNCHANGED <<tags, scopes, inst, lost>>

\* start_metadata_handler().
Start(el, oom) ==
  LET e   == Len(doc) + 1
      sec == Opened(el.tag)
  IN  /\ e <= MaxTags
      /\ oom => "oom" \in Mishaps /\ lost = {} /\ el.tag \in Allocating
      /\ doc' = Append(doc, el)
      /\ open' = Append(open, e)
      /\ section' = sec
      /\ lost' = IF oom THEN {e} ELSE lost
      /\ CASE el.tag = "view" ->
                /\ work' = [work EXCEPT !.view = e] /\ UNCHANGED <<context, scopes>>
           [] sec = "timeline" -> Timeline(el, e, oom) /\ UNCHANGED scopes
           [] sec \in {"animation", "include_timeline"} ->
                Animation(el, e, oom) /\ UNCHANGED context
           [] sec = "stop" -> Stop(e) /\ UNCHANGED <<context, scopes>>
           [] OTHER -> Declaration(sec, el, e, oom) /\ UNCHANGED <<context, scopes>>
      /\ UNCHANGED <<tags, into, inst>>

\* end_metadata_handler().
End ==
  /\ Len(open) > 1
  /\ open' = SubSeq(open, 1, Len(open) - 1)
  /\ section' = Closed(doc[open[Len(open)]].tag)
  /\ UNCHANGED <<tags, doc, into, context, work, scopes, inst, lost>>

\* (mutant) a document that breaks off leaves the globals as they were
TakenBroken(ok) ==
  IF into = "globals" THEN IF ok THEN work ELSE scopes["globals"]
  ELSE IF ok /\ work.view # 0 THEN work ELSE scopes["component"]

\* The copy takes the place of the global scope, also when the document breaks
\* off; the scope of a component is listed if it has a view, and then replaces
\* the one that was registered.
Taken(ok) ==
  IF into = "globals" THEN work
  ELSE IF ok /\ work.view # 0 THEN work ELSE scopes["component"]

\* The parse has come to the end of the document, or to an error.
Finish(ok) ==
  /\ into # "none"
  /\ ok => Len(open) = 1
  /\ ~ok => "broken" \in Mishaps
  /\ scopes' = [scopes EXCEPT ![into] = Taken(ok)]
  /\ open' = <<>> /\ into' = "none"
  /\ section' = "none" /\ context' = NoContext /\ work' = EmptyScope
  /\ UNCHANGED <<tags, doc, inst, lost>>

\* lv_xml_register_const(), lv_xml_set_const(), lv_xml_register_event_cb(), called
\* by the application.  A constant that is set where there is none is registered.
Call(fn, s, n) ==
  LET e == Len(doc) + 1
      kind == IF fn = "event" THEN "event" ELSE "const"
  IN  /\ fn \in tags /\ into = "none" /\ e <= MaxTags
      /\ scopes[s] # NoScope
      /\ doc' = Append(doc, [tag |-> fn, name |-> n, ok |-> TRUE, ref |-> NoName, up |-> 0, root |-> e])
      /\ scopes' = [scopes EXCEPT ![s].lists[kind] =
                      IF fn = "set_const" THEN PutLast(@, n, e) ELSE Put(kind, @, n, e),
                                  ![s].from = @ \cup {e}]
      /\ UNCHANGED <<tags, open, into, section, context, work, inst, lost>>

\* (mutant) an animation whose target is missing ends the timeline
PlaysUntilMissing(parts, found) ==
  LET end == {k \in 1 .. Len(parts) : parts[k] \notin found}
  IN  IF end = {} THEN parts ELSE SubSeq(parts, 1, Earliest(end) - 1)

\* create_timeline_instances(): an instance has a timeline for every one of its
\* scope, with the parts whose target is found, in their order.  A part that is an
\* include stands for all the animations of the timeline that it names, if
\* get_timeline_by_name() finds one: the target has been created, with its
\* timelines, unless it is the instance itself.
Plays(parts, found) ==
  LET upto[k \in 0 .. Len(parts)] ==
        IF k = 0 THEN <<>>
        ELSE IF parts[k] \in found THEN Append(upto[k - 1], parts[k]) ELSE upto[k - 1]
  IN  upto[Len(parts)]

Timed(s) ==
  UNION {{l.parts[k] : k \in 1 .. Len(l.parts)} :
           l \in {s.lists["timeline"][i] : i \in 1 .. Len(s.lists["timeline"])}}

Instantiate(found) ==
  LET s == scopes["component"]
      list == s.lists["timeline"]
  IN  /\ into = "none" /\ list # <<>>
      /\ inst' = [from |-> s.from, found |-> found,
                   lines |-> [i \in 1 .. Len(list) |->
                                [name |-> list[i].name,
                                 plays |-> Plays(list[i].parts, found)]]]
      /\ UNCHANGED <<tags, doc, open, into, section, context, work, scopes, lost>>

MetadataNext ==
  \/ \E root \in Roots : Begin(root)
  \/ into # "none" /\ \E el \in NextTags, oom \in BOOLEAN : Start(el, oom)
  \/ End
  \/ \E ok \in BOOLEAN : Finish(ok)
  \/ \E fn \in Calls, s \in Roots, n \in Names : Call(fn, s, n)
  \/ \E found \in SUBSET Timed(scopes["component"]) : Instantiate(found)

MetadataSpec == MetadataInit /\ [][MetadataNext]_metadataVars

--------------------------------------------------------------------------------
(* What the documents say, read from their structure alone.                 *)

\* The elements that a scope has been given, in the order of their numbers.
Given(s) == {e \in 1 .. Len(doc) : doc[e].root \in s.from}

UpTag(e) == IF doc[e].up = 0 THEN "" ELSE doc[doc[e].up].tag

IsKind(e, kind) ==
  CASE kind = "prop" -> UpTag(e) = "api" /\ doc[e].tag = "prop"
    [] kind = "const" -> UpTag(e) = "consts" \/ doc[e].tag \in {"register_const", "set_const"}
    [] kind = "grad" -> UpTag(e) = "gradients"
    [] kind = "style" -> UpTag(e) = "styles"
    [] kind = "image" -> UpTag(e) = "images"
    [] kind = "font" -> UpTag(e) = "fonts"
    [] kind = "subject" -> UpTag(e) = "subjects"
    [] kind = "timeline" -> doc[e].tag = "timeline"
    [] kind = "event" -> doc[e].tag = "event"

Declared(s, kind) == {e \in Given(s) : IsKind(e, kind) /\ doc[e].ok}
DeclaredAs(s, kind, n) == {e \in Declared(s, kind) : doc[e].name = n}

\* The set in its order, as far as the element n.
Ordered(S, n) ==
  LET upto[e \in 0 .. n] ==
        IF e = 0 THEN <<>>
        ELSE IF e \in S THEN Append(upto[e - 1], e) ELSE upto[e - 1]
  IN  upto[n]

InOrder(S) == Ordered(S, Len(doc))

\* The element that the value of a name stems from.
Valued(s, kind, n) ==
  LET all == DeclaredAs(s, kind, n)
      set == {e \in all : doc[e].tag = "set_const"}
  IN  CASE kind \in {"subject", "event"} -> Latest(all)
        [] kind = "const" /\ set # {} -> Latest(set)
        [] OTHER -> Earliest(all)

\* The parts that belong to the element: the stops in a gradient, the animations
\* in a timeline, all declarations of a style.
Belonging(s, kind, n, e) ==
  CASE kind = "style" -> DeclaredAs(s, "style", n)
    [] kind = "grad" -> {d \in Given(s) : doc[d].up = e}
    [] kind = "timeline" ->
         {d \in Given(s) : /\ doc[d].up = e /\ doc[d].ok
                           /\ doc[d].ref = NoName
                                \/ \E c \in Given(s) \cup Given(scopes["globals"]) :
                                      c < d /\ IsKind(c, "const") /\ doc[c].ok
                                            /\ doc[c].name = doc[d].ref}
    [] OTHER -> {}

\* Of the parts of a record, those that it has room for.
Kept(kind, parts) ==
  IF kind = "grad" /\ Len(parts) > MaxStops THEN SubSeq(parts, 1, MaxStops) ELSE parts

Matches(s) ==
  \A kind \in Kinds :
    LET list == s.lists[kind]
        names == {doc[e].name : e \in Declared(s, kind)}
        recs == {list[i] : i \in 1 .. Len(list)}
    IN  IF kind \in {"prop", "grad"}
        THEN [i \in 1 .. Len(list) |-> list[i].by] = InOrder(Declared(s, kind))
             /\ \A r \in recs : r.parts = Kept(kind, InOrder(Belonging(s, kind, r.name, r.by)))
        ELSE Len(list) = Cardinality(names)
             /\ \A n \in names : \E r \in recs :
                  /\ r.name = n /\ r.by = Valued(s, kind, n)
                  /\ r.parts = InOrder(Belonging(s, kind, n, r.by))

--------------------------------------------------------------------------------
(* The properties.                                                          *)

\* The variables have their types, and the context of a parse names a timeline
\* that is listed.
MetadataTypeOK ==
  /\ into \in Roots \cup {"none"}
  /\ section \in Openers \cup {"none", "stop"}
  /\ \A s \in {work, scopes["globals"], scopes["component"]} :
       \A k \in Kinds : \A i \in 1 .. Len(s.lists[k]) :
         s.lists[k][i].by \in 1 .. Len(doc) /\ s.lists[k][i].name \in Names
  /\ context.of \in {"none", "own", "globals"}
  /\ context.of = "own" => Has(work.lists["timeline"], context.name)
  /\ context.of = "globals" => Has(scopes["globals"].lists["timeline"], context.name)
  /\ open = <<>> <=> into = "none"

\* The scope under way, and every registered one, holds exactly what its
\* documents and the application's calls declare, each declaration in the
\* registry of the block that it stands in, the first stops with their gradient
\* and animations with their timeline; a constant, font, image or timeline keeps its
\* first declaration and a subject or event callback has the last.  The handlers
\* see one tag at a time, and have to find all this with a section and a pointer.
\* (With the memory for it: a gradient that is not allocated loses its stops to
\* the one before.)
MetadataMatches ==
  lost = {} =>
    /\ into # "none" => Matches(work)
    /\ \A s \in Roots : scopes[s] # NoScope => Matches(scopes[s])

NamesOf(list) == [i \in 1 .. Len(list) |-> list[i].name]

\* Nothing that is declared is ever taken out of the global scope, or changes its
\* place behind a newer record, whether a document for it ends well or breaks off
\* ("the copy is the only consistent state left", lv_xml_component.c:455), and
\* whatever other components are registered.
GlobalsKeep ==
  [][\A kind \in Kinds :
       LET old == scopes["globals"].lists[kind]
           new == scopes'["globals"].lists[kind]
       IN  /\ Len(old) <= Len(new)
           /\ kind \in {"prop", "grad", "style"} =>
                NamesOf(old) = SubSeq(NamesOf(new), 1, Len(old))
           /\ kind \notin {"prop", "grad", "style"} =>
                NamesOf(old) = SubSeq(NamesOf(new), Len(new) - Len(old) + 1, Len(new))
           /\ into = "globals" /\ into' = "none" => new = work.lists[kind]]_metadataVars

\* "If already registered skip all. Don't set state->context so animations won't be
\* added later either" (lv_xml_component.c:1432): a timeline only collects what
\* stands in its own element.
AnimationsAtHome ==
  \A i \in 1 .. Len(work.lists["timeline"]) :
    LET l == work.lists["timeline"][i]
    IN  \A k \in 1 .. Len(l.parts) : doc[l.parts[k]].up = l.by

\* An instance has one timeline for every name its component declares.  It plays
\* what the document has in the first timeline of the name, in its order, as far
\* as the targets exist; an include is one part of it.
InstancesPlayDeclared ==
  LET s == [EmptyScope EXCEPT !.from = inst.from]
  IN  lost = {} =>
        /\ {inst.lines[i].name : i \in 1 .. Len(inst.lines)} =
             {doc[e].name : e \in Declared(s, "timeline")}
        /\ \A i \in 1 .. Len(inst.lines) :
             LET line == inst.lines[i]
                 e == Valued(s, "timeline", line.name)
             IN  line.plays = InOrder(Belonging(s, "timeline", line.name, e) \cap inst.found)
================================================================================
