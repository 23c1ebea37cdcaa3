----------------------------- MODULE Resolution -----------------------------
(***************************************************************************)
(* Views inside views: an application creates a component, the elements of *)
(* its view are widgets or instances of other components with attributes   *)
(* of their own, and a <repeat> has its body replayed from a buffer.  What *)
(* a widget is given is compared with what the author of the component     *)
(* wrote, by its structure: a value means the same wherever it travels.    *)
(***************************************************************************)
EXTENDS Attributes

CONSTANTS
  Elements,     \* [Components -> the elements its view may have]; see Written
  Bodies,       \* those among them a <repeat> may have
  Callers,      \* what an application creates: [name, attrs], with texts
  Counts,       \* what the count of a <repeat> may be written as
  MaxNesting    \* instances inside each other

VARIABLES frames,       \* the views that are built, each inside the instance before it
          translating,  \* whether a language is selected
          applied       \* the last element: what it was given, what was reported, what was meant
attrVars == <<frames, translating, applied>>

Seqs == INSTANCE SequencesExt
----------------------------------------------------------------------------
(* A written value, by its form; parts are those of a composed one.        *)

Written(form, of, rest, parts) == [form |-> form, of |-> of, rest |-> rest, parts |-> parts]
Literal(text)     == Written("literal", text, <<>>, <<>>)
Parameter(name)   == Written("parameter", name, <<>>, <<>>)
Constant(name)    == Written("constant", name, <<>>, <<>>)
Negated(name)     == Written("negated", name, <<>>, <<>>)
Compared(p, ref)  == Written("compared", p, ref, <<>>)
Following(name)   == Written("following", name, <<>>, <<>>)
Composed(parts)   == Written("composed", <<>>, <<>>, parts)
SpellPart(w) == CASE w.form = "literal"   -> w.of
                  [] w.form = "parameter" -> <<"$", "{">> \o w.of \o <<"}">>
                  [] w.form = "following" -> <<"$", "{">> \o w.of \o <<"+", "1", "}">>
Spell(w) == CASE w.form = "literal"   -> w.of
              [] w.form = "parameter" -> <<"$">> \o w.of
              [] w.form = "constant"  -> <<"#">> \o w.of
              [] w.form = "negated"   -> <<"-", "#">> \o w.of
              [] w.form = "compared"  -> <<"$">> \o w.of \o <<"|">> \o w.rest
              [] w.form = "composed"  ->
                   Seqs!FlattenSeq([i \in DOMAIN w.parts |-> SpellPart(w.parts[i])])
Spelled(attrs) == [i \in DOMAIN attrs |-> <<attrs[i][1], Spell(attrs[i][2])>>]

----------------------------------------------------------------------------
(* What is meant.  f.given holds what the instance of a frame was given.   *)

Meant(given, p)   == (CHOOSE g \in given : g[1] = p)[2]
Given(f, p)       == \E g \in f.given : g[1] = p
ConstMeant(scope, t) == IF ~Begins(t, "#") \/ t = <<"#", Hex>> THEN t ELSE get_const(scope, Tail(t))
ArgMeant(f, p) ==
  IF Given(f, p) THEN Meant(f.given, p)
  ELSE IF get_param_default(f.scope, p) = Null THEN Null
  ELSE ConstMeant(f.scope, get_param_default(f.scope, p))
IndexMeant(f, p)  == p = <<"i">> /\ f.index # NoIndex
TextMeant(f, p)   == LET arg == ArgMeant(f, p)
                     IN  IF IndexMeant(f, p) THEN Decimal(f.index)
                         ELSE IF arg = Null THEN <<>> ELSE arg
NextMeant(f, p)   == LET t == TextMeant(f, p)
                     IN  IF is_integer(t) THEN Decimal(IntegerOf(t) + 1)
                         ELSE IF p \in DOMAIN SubjectValue /\ p # <<"i">>
                         THEN Decimal(SubjectValue[p] + 1) ELSE <<>>
PartMeant(f, w)   == CASE w.form = "literal"   -> w.of
                       [] w.form = "parameter" -> TextMeant(f, w.of)
                       [] w.form = "following" -> NextMeant(f, w.of)
Meaning(f, w) ==
  CASE w.form = "literal"   -> w.of
    [] w.form = "parameter" -> IF IndexMeant(f, w.of) THEN Decimal(f.index)
                               ELSE IF Declares(f.scope, w.of) THEN ArgMeant(f, w.of) ELSE Null
    [] w.form = "constant"  -> get_const(f.scope, w.of)
    [] w.form = "negated"   -> Null
    [] w.form = "compared"  -> IF Declares(f.scope, w.of) THEN TextMeant(f, w.of) \o <<"|">> \o w.rest
                               ELSE Null
    [] w.form = "composed"  ->
         Seqs!FlattenSeq([i \in DOMAIN w.parts |-> PartMeant(f, w.parts[i])])

\* Where a value is put together of several, one that begins with # makes the whole a
\* reference to the code, and a style stays the name that was passed: see README.
Reference(f, p) == \/ Given(f, p) /\ Begins(Meant(f.given, p), "#")
                   \/ Begins(Argument(f, p), "#")
Clear(f, attrs) ==
  \A i \in DOMAIN attrs :
    LET w == attrs[i][2]
    IN  /\ w.form = "compared" => ~Reference(f, w.of)
        /\ w.form = "composed" => \A k \in DOMAIN w.parts :
             /\ ~Reference(f, w.parts[k].of)
             /\ Declares(f.scope, w.parts[k].of) => ~ParamOf(f.scope, w.parts[k].of).style
             /\ w.parts[k].form = "literal" => ~Begins(w.parts[k].of, "#")

\* a literal text is its own translation key, unless the author gave one or binds the text
Partners(tag) == IF tag = TranslationTag THEN <<<<"text">>>>
                 ELSE <<<<tag[1]>>, <<tag[1], "_text">>>>
Wrote(attrs, name) == \E i \in DOMAIN attrs : attrs[i][1] = name
WrittenAt(attrs, name) == attrs[CHOOSE i \in DOMAIN attrs : attrs[i][1] = name][2]
Implied(name, attrs) ==
  {<<tag, key>> \in {TagsOf(name)[i] : i \in DOMAIN TagsOf(name)} \X Keys :
     /\ ~Wrote(attrs, tag) /\ ~Wrote(attrs, <<"bind_text">>)
     /\ LET named == SelectSeq(Partners(tag), LAMBDA p : Wrote(attrs, p))
        IN  named # <<>> /\ WrittenAt(attrs, named[1]) = Literal(key)}
\* constants inside the list of styles are left to the styles
MeaningIn(f, attr) == IF attr[1] = <<"styles">> /\ attr[2].form \in {"constant", "negated"}
                      THEN Spell(attr[2]) ELSE Meaning(f, attr[2])
Kept(f, e) == {i \in DOMAIN e.attrs : MeaningIn(f, e.attrs[i]) # Null}
AttrsMeant(f, e) ==
  {<<e.attrs[i][1], MeaningIn(f, e.attrs[i])>> : i \in Kept(f, e)}
    \cup (IF translating THEN Implied(e.name, e.attrs) ELSE {})
\* the words of an inline text, however the document is laid out
WordsOf(t) == LET solid == {i \in DOMAIN t : t[i] \notin White}
                 piece(i) == IF i \notin solid THEN <<>>
                             ELSE IF i - 1 \notin solid /\ \E j \in solid : j < i
                             THEN <<" ", t[i]>> ELSE <<t[i]>>
             IN  Seqs!FlattenSeq([i \in DOMAIN t |-> piece(i)])
Laid(w)   == IF w.form = "literal" THEN Literal(WordsOf(w.of)) ELSE w
InlineMeant(f, e) ==
  IF \/ Spell(Laid(e.inline)) = <<>> \/ Meaning(f, Laid(e.inline)) = Null
     \/ \E n \in {<<"text">>, <<"bind_text">>, TranslationTag} : Wrote(e.attrs, n)
  THEN {} ELSE {<<"text">>, TranslationTag} \X {Meaning(f, Laid(e.inline))}
\* how often a body is wanted: a number, or what a constant or a subject says
NumberIn(t) == IF t # Null /\ is_integer(t) THEN IntegerOf(t) ELSE 0
TimesMeant(f, w) ==
  LET n == IF w.form = "constant" THEN NumberIn(get_const(f.scope, w.of))
           ELSE IF w.of \in DOMAIN SubjectValue THEN SubjectValue[w.of] ELSE NumberIn(w.of)
  IN  CHOOSE k \in 0..MaxRepeats : \A m \in 0..MaxRepeats : (k - n) * (k - n) <= (m - n) * (m - n)
\* what nobody knows
Unknown(name, attrs) ==
  {n \in {attrs[i][1] : i \in DOMAIN attrs} :
     /\ n \notin framework_attrs
     /\ Chains[name] # <<>> /\ \A k \in DOMAIN Chains[name] : n \notin Chains[name][k]}
KeptOf(f, e) == LET kept == SelectSeq([i \in DOMAIN e.attrs |-> i], LAMBDA i : i \in Kept(f, e))
                IN  [k \in DOMAIN kept |-> e.attrs[kept[k]]]

----------------------------------------------------------------------------
NoBody  == [name |-> "none", attrs |-> <<>>, inline |-> Literal(<<>>), spelled |-> <<>>]
Buffer(e) == [name |-> e.name, attrs |-> e.attrs, inline |-> e.inline, spelled |-> Spelled(e.attrs)]
Frame(scope, parent, attrs, given, clear) ==
  [scope |-> scope, parent |-> parent, attrs |-> attrs, given |-> given, clear |-> clear,
   index |-> NoIndex, body |-> NoBody, left |-> 0, times |-> 0]
top    == frames[Len(frames)]
Pairs(attrs) == {attrs[i] : i \in {i \in DOMAIN attrs : attrs[i][1] # <<>>}}
Nothing == [given |-> {}, meant |-> {}, reported |-> {}, unknown |-> {}, clear |-> TRUE, many |-> FALSE]

\* the arguments among attributes, whose styles are those of the scope by: with long names
Arguments(component, by, pairs) ==
  LET value(a) == IF ParamOf(component, a[1]).style THEN get_style_by_name(by, a[2]) ELSE a[2]
  IN  {<<a[1], value(a)>> : a \in {a \in pairs : Declares(component, a[1]) /\ value(a) # Null}}

attrInit == /\ frames = <<>> /\ translating \in BOOLEAN /\ applied = Nothing

\* lv_xml_create() of a widget, and of a component, where an attribute with a $
\* counts as not given
CreateWidget(c) ==
  /\ frames = <<>> /\ applied = Nothing /\ c.name \notin Components
  /\ applied' = [Nothing EXCEPT !.given = Pairs(c.attrs), !.meant = Pairs(c.attrs),
                   !.reported = Reports(c.name, c.attrs, c.attrs),
                   !.unknown = Unknown(c.name, c.attrs), !.many = Len(c.attrs) > MaxAttributes]
  /\ UNCHANGED <<frames, translating>>
Create(c) ==
  LET meant == {<<a[1], ConstMeant(c.name, a[2])>> : a \in {a \in Pairs(c.attrs) : ~Begins(a[2], "$")}}
  IN  /\ frames = <<>> /\ applied = Nothing /\ c.name \in Components
      /\ frames' = <<Frame(c.name, "globals", c.attrs, Arguments(c.name, "globals", meant), TRUE)>>
      /\ UNCHANGED <<translating, applied>>

\* view_start_element_handler() and the end of the element, in the frame f
Handle(f, e) ==
  LET attrs  == imply_translation_tags(translating, e.name, e.spelled)
      given  == Resolve(f, attrs)
      clear  == f.clear /\ Clear(f, e.attrs \o <<<<<<"text">>, e.inline>>>>)
      strip  == SelectSeq(given, LAMBDA a : ~Declares(e.name, a[1]))
  IN  IF e.name \in Components
      THEN /\ Len(frames) < MaxNesting
           /\ frames' = [frames EXCEPT ![Len(frames)] = f]
                          \o <<Frame(e.name, f.scope, given, Arguments(e.name, f.scope, AttrsMeant(f, e)), clear)>>
           /\ applied' = [Nothing EXCEPT !.given = Pairs(strip), !.clear = clear,
                            !.meant = {a \in AttrsMeant(f, e) : ~Declares(e.name, a[1])}]
      ELSE /\ frames' = [frames EXCEPT ![Len(frames)] = f]
           /\ applied' = [given    |-> Pairs(given \o apply_pending_inline_text(f, e.spelled, Spell(e.inline))),
                          meant    |-> AttrsMeant(f, e) \cup InlineMeant(f, e),
                          reported |-> Reports(e.name, given, e.spelled),
                          unknown  |-> Unknown(e.name, KeptOf(f, e)),
                          clear    |-> clear,
                          many     |-> Len(attrs) > MaxAttributes]
Quiet == frames # <<>> /\ applied = Nothing
EndElement == applied # Nothing /\ applied' = Nothing /\ UNCHANGED <<frames, translating>>
Element(e) == /\ Quiet /\ top.body = NoBody
              /\ Handle(top, Buffer(e))
              /\ UNCHANGED translating

\* the body of a <repeat> is buffered, and replayed with copies of its attributes
Repeat(e, w) == /\ Quiet /\ top.body = NoBody
                /\ frames' = [frames EXCEPT
                     ![Len(frames)].body  = Buffer(e),
                     ![Len(frames)].left  = xml_repeat_resolve_count(top, Spell(w)),
                     ![Len(frames)].times = TimesMeant(top, w)]
                /\ UNCHANGED <<translating, applied>>
\* mutant: the buffered attributes are resolved in place
BufferedInPlace(f) == [f.body EXCEPT !.spelled = Resolve(f, @)]
Buffered(f) == f.body
Replay == /\ Quiet /\ top.left > 0
          /\ LET f == [top EXCEPT !.index = @ + 1, !.left = @ - 1]
             IN  Handle([f EXCEPT !.body = Buffered(f)], f.body)
          /\ UNCHANGED translating
EndRepeat == /\ Quiet /\ top.body # NoBody /\ top.left = 0
             /\ frames' = [frames EXCEPT ![Len(frames)].body = NoBody,
                                         ![Len(frames)].index = NoIndex,
                                         ![Len(frames)].times = 0]
             /\ UNCHANGED <<translating, applied>>
\* what an application created is given its attributes once more, as they are
EndView == /\ Quiet /\ top.body = NoBody
           /\ frames' = SubSeq(frames, 1, Len(frames) - 1)
           /\ applied' = IF Len(frames) > 1 THEN applied
                         ELSE [Nothing EXCEPT !.given = Pairs(top.attrs), !.meant = Pairs(top.attrs)]
           /\ UNCHANGED translating
attrNext == \/ \E c \in Callers : CreateWidget(c)
            \/ \E c \in Callers : Create(c)
            \/ frames # <<>> /\ \E e \in Elements[top.scope] : Element(e)
            \/ frames # <<>> /\ \E e \in Bodies[top.scope], w \in Counts : Repeat(e, w)
            \/ Replay \/ EndElement \/ EndRepeat \/ EndView

----------------------------------------------------------------------------
\* A widget is given what the author of its component wrote, neither less nor more: a
\* parameter is the value written at the instance, a constant or a style that of the
\* scope it was written in however far it is passed on, $i the index of this replay,
\* a literal text its own translation key, and inline text its words.  A body is replayed
\* as often as its <repeat> asks, within the limit.
\* (lv_xml.c:1144-1241, 1300-1371, 1420-1565, 1695-1720, 1739-1775)
ResolvedAsWritten ==
  /\ applied.clear => applied.given = applied.meant
  /\ \A i \in DOMAIN frames :
       LET f == frames[i] IN f.body # NoBody => f.index + 1 + f.left = f.times
\* The check reports what nothing of the widget knows, and no other attribute: neither
\* one a chain or the framework reads, nor one whose value could not be resolved, nor a
\* tag nobody wrote.  Beyond its table it reports nothing.  (lv_xml_attr_check.c:53-136)
ReportsOnlyUnknown ==
  applied.clear => applied.reported = IF applied.many THEN {} ELSE applied.unknown
=============================================================================
