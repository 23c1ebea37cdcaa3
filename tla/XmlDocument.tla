---------------------------- MODULE XmlDocument ----------------------------
(***************************************************************************)
(* One document through the XML parser of src/src/libs/expat as lv_xml     *)
(* uses it: one XML_Parse call with the whole text and isFinal set, no     *)
(* namespace processing, no general-entity expansion (XML_GE is 0) and     *)
(* handlers for start and end tags and character data only.  A step is one *)
(* turn of the loop of the current processor: doProlog, doContent,         *)
(* doCdataSection or epilogProcessor, with the token its tokenizer found.  *)
(*                                                                         *)
(* `peek' is the use the loader makes of the parser (lv_xml_load.c): a     *)
(* start handler alone, which stops the parser at the first tag.           *)
(***************************************************************************)
EXTENDS XmlRoles, Sequences, FiniteSets

CONSTANTS
  Families,      \* kinds of documents; a behaviour reads one of one kind
  Menu,          \* [Families -> [handlers -> sets of tokens offered there]]
  Tagged,        \* [Families -> sets of attribute lists a tag may have]
  Elements, Attributes,
  Entities,      \* names of entities the content refers to, none predefined
  Predefined,    \* lt, gt, amp, apos and quot
  BadPublic,     \* literals with a character no public identifier may have
  Text,          \* [Literals -> Seq(pieces)]: what a literal says as a value
  FirstGroup,    \* groupConnector's first size, 32 in the code
  FirstAtts,     \* INIT_ATTS_SIZE, 16 in the code
  MaxSentence,   \* [Families -> Nat], bound: tokens of one declaration
  MaxDecls,      \* [Families -> Nat], bound: finished declarations
  MaxEvents,     \* [Families -> Nat], bound: calls of the handlers
  MaxLevel,      \* bound: nesting of content models
  MaxTags        \* bound: nesting of elements

ASSUME DocumentAssumption ==
  /\ Elements \cup Attributes \cup Entities \cup Predefined \subseteq Words
  /\ Entities \cap Predefined = {}
  /\ BadPublic \subseteq Literals
  /\ FirstGroup \in Nat /\ FirstGroup >= 2 /\ FirstAtts \in Nat \ {0}
  /\ Text \in [Literals -> Seq(STRING)]
  /\ \A f \in Families : /\ Tagged[f] \subseteq Seq([id : Attributes, text : Literals])
                         /\ \A h \in DOMAIN Handlers : Menu[f][h] \subseteq Tokens

VARIABLES
  family, peek,
  processor,     \* m_processor
  prologState,   \* m_prologState
  groups,        \* m_groupConnector and m_groupSize
  attsSize,      \* m_attsSize, the length of m_atts
  dtd,           \* m_dtd: attribute defaults, entities, the two flags
  decl,          \* the m_decl* registers of the declaration being read
  tags,          \* m_tagStack
  events,        \* calls of the application's handlers
  outcome,       \* "parsing", "ok" or the error code
  sentence,      \* history: the tokens of the declaration being read
  declared       \* history: the finished declarations

vars == <<family, peek, processor, prologState, groups, attsSize, dtd, decl, tags, events,
          outcome, sentence, declared>>
history == <<sentence, declared>>

----------------------------------------------------------------------------
None == "none"
Ends == {">", "[", "PI", "comment", "%pe", "xmldecl", "standalone", "BOM"}
Finished(s) == s # <<>> /\ s[Len(s)] \in Ends

Init ==
  /\ family \in Families /\ peek = FALSE
  /\ processor = "prolog" /\ prologState = XmlPrologStateInit
  /\ groups = [size |-> 0, connector |-> <<>>] /\ attsSize = FirstAtts
  /\ dtd = [defaults |-> [e \in {} |-> <<>>], tokenized |-> {},
            entities |-> [n \in {} |-> None], external |-> FALSE, standalone |-> FALSE]
  /\ decl = [element |-> None, attribute |-> None, cdata |-> FALSE, id |-> FALSE,
             entity |-> None]
  /\ tags = <<>> /\ events = <<>> /\ outcome = "parsing"
  /\ sentence = <<>> /\ declared = <<>>

\* a processor that returns an error: errorProcessor takes its place
Fail(code) == outcome' = code /\ processor' = "error"

----------------------------------------------------------------------------
(* The prolog: the token, the role its handler gives it, what doProlog does *)

Token(tok) == XmlTokenRole(prologState, tok)
Note(tok) ==
  /\ sentence' = IF tok = "S" THEN sentence
                 ELSE IF Finished(sentence) THEN <<tok>> ELSE Append(sentence, tok)
  /\ declared' = IF tok # "S" /\ Finished(sentence') /\ Token(tok).role # "ERROR"
                 THEN Append(declared, sentence') ELSE declared
Read(tok, roles) ==
  /\ processor = "prolog" /\ tok \in Menu[family][prologState.handler]
  /\ Token(tok).role \in roles
  /\ Len(declared) < MaxDecls[family] \/ tok = "<e" \/ tok = "]" \/ ~Finished(sentence)
  /\ Len(sentence) < MaxSentence[family] \/ Finished(sentence)
  /\ tok = "(" => prologState.level < MaxLevel
  /\ prologState' = Token(tok).st
  /\ Note(tok)
  /\ UNCHANGED <<family, attsSize, tags, events>>
  /\ tok # "<e" => UNCHANGED peek
Silent == UNCHANGED <<processor, outcome>>

\* roles whose cases only call declaration handlers, which lv_xml never installs:
\* without them nothing is kept of a doctype's name, a notation, an enumerated
\* type or a content model (in_eldecl is never set, so no scaffold is built)
DoctypeRoles  == {"DOCTYPE_NAME", "DOCTYPE_INTERNAL_SUBSET"}
CloseRoles    == {"DOCTYPE_CLOSE"}
EnumRoles     == {"ATTRIBUTE_ENUM_VALUE", "ATTRIBUTE_NOTATION_VALUE"}
NotationRoles == {"NOTATION_NAME", "NOTATION_SYSTEM_ID", "NOTATION_NO_SYSTEM_ID"}
ModelRoles    == {"ELEMENT_NAME", "CONTENT_EMPTY", "CONTENT_ANY", "CONTENT_PCDATA",
                  "CONTENT_ELEMENT"}
GroupRoles    == {"GROUP_CLOSE"}
RefRoles      == {"PARAM_ENTITY_REF"}
NoneRoles     == {"NONE", "PI", "COMMENT", "DOCTYPE_NONE", "ENTITY_NONE", "NOTATION_NONE",
                  "ATTLIST_NONE", "ELEMENT_NONE"}
ReadQuietly(tok) ==
  /\ Read(tok, UNION {DoctypeRoles, CloseRoles, EnumRoles, NotationRoles, ModelRoles,
                      GroupRoles, RefRoles, NoneRoles})
  /\ Silent /\ UNCHANGED <<groups, dtd, decl>>

ReadError(tok) ==
  /\ Read(tok, {"ERROR"}) /\ UNCHANGED peek
  /\ Fail(CASE tok = "%pe" -> "PARAM_ENTITY_REF"
            [] tok \in {"xmldecl", "standalone"} -> "MISPLACED_XML_PI"
            [] OTHER -> "SYNTAX")
  /\ UNCHANGED <<groups, dtd, decl>>

XmlDecl(tok) ==
  /\ Read(tok, {"XML_DECL"})
  /\ dtd' = [dtd EXCEPT !.standalone = @ \/ tok = "standalone"]
  /\ Silent /\ UNCHANGED <<groups, decl>>

\* public and system identifiers
DoctypePublicId(tok) ==
  /\ Read(tok, {"DOCTYPE_PUBLIC_ID"})
  /\ dtd' = [dtd EXCEPT !.external = TRUE]
  /\ IF tok \in BadPublic THEN Fail("PUBLICID") ELSE Silent
  /\ UNCHANGED <<groups, decl>>
DoctypeSystemId(tok) ==
  /\ Read(tok, {"DOCTYPE_SYSTEM_ID"})
  /\ dtd' = [dtd EXCEPT !.external = TRUE]
  /\ Silent /\ UNCHANGED <<groups, decl>>
PublicId(tok) ==
  /\ Read(tok, {"ENTITY_PUBLIC_ID", "NOTATION_PUBLIC_ID"})
  /\ IF tok \in BadPublic THEN Fail("PUBLICID") ELSE Silent
  /\ UNCHANGED <<groups, dtd, decl>>

\* entities: a second declaration of a name leaves declEntity NULL, so that
\* nothing of it is stored
GeneralEntityName(tok) ==
  /\ Read(tok, {"GENERAL_ENTITY_NAME"})
  /\ IF tok \in DOMAIN dtd.entities \cup Predefined
     THEN decl' = [decl EXCEPT !.entity = None] /\ UNCHANGED dtd
     ELSE /\ decl' = [decl EXCEPT !.entity = tok]
          /\ dtd' = [dtd EXCEPT !.entities =
                       [n \in DOMAIN @ \cup {tok} |-> IF n = tok THEN "bare" ELSE @[n]]]
  /\ Silent /\ UNCHANGED groups
ParamEntityName(tok) ==
  /\ Read(tok, {"PARAM_ENTITY_NAME"})
  /\ decl' = [decl EXCEPT !.entity = None]
  /\ Silent /\ UNCHANGED <<groups, dtd>>
Store(kind) ==
  dtd' = IF decl.entity = None THEN dtd
         ELSE [dtd EXCEPT !.entities[decl.entity] = kind]
storeSelfEntityValue == Store("text")
EntityBody(tok) ==
  /\ Read(tok, {"ENTITY_VALUE", "ENTITY_SYSTEM_ID", "ENTITY_COMPLETE",
                "ENTITY_NOTATION_NAME"})
  /\ CASE Token(tok).role \in {"ENTITY_VALUE", "ENTITY_COMPLETE"} -> storeSelfEntityValue
       [] Token(tok).role = "ENTITY_NOTATION_NAME" -> Store("unparsed")
       [] OTHER -> UNCHANGED dtd
  /\ Silent /\ UNCHANGED <<groups, decl>>

----------------------------------------------------------------------------
(* Attribute values: appendAttributeValue and storeAttributeValue           *)

EntityError(n) ==
  IF n \in DOMAIN dtd.entities
  THEN IF dtd.entities[n] = "unparsed" THEN "BINARY_ENTITY_REF"
       ELSE IF dtd.entities[n] = "bare" THEN "ATTRIBUTE_EXTERNAL_ENTITY_REF" ELSE None
  ELSE IF ~dtd.external \/ dtd.standalone THEN "UNDEFINED_ENTITY" ELSE None

Space == " "
Blank(value) == value = <<>> \/ value[Len(value)] = Space
NoText == [value |-> <<>>, error |-> None]
appendPiece(so, p, cdata) ==
  LET put(c) == [so EXCEPT !.value = Append(@, c)]
  IN  IF so.error # None THEN so
      ELSE CASE p \in {Space, "#32"} -> IF ~cdata /\ Blank(so.value) THEN so ELSE put(Space)
             [] p = "#0" -> [so EXCEPT !.error = "BAD_CHAR_REF"]
             [] p \in Entities ->
                  IF EntityError(p) # None THEN [so EXCEPT !.error = EntityError(p)]
                  ELSE IF p \in DOMAIN dtd.entities THEN put(p) ELSE so
             [] OTHER -> put(p)
appendAttributeValue(text, cdata) ==
  LET add[i \in 0..Len(text)] ==
        IF i = 0 THEN NoText ELSE appendPiece(add[i - 1], text[i], cdata)
  IN  add[Len(text)]
storeAttributeValue(text, cdata) ==
  LET so == appendAttributeValue(text, cdata)
  IN  IF so.error = None /\ ~cdata /\ so.value # <<>> /\ Blank(so.value)
      THEN [so EXCEPT !.value = SubSeq(@, 1, Len(@) - 1)] ELSE so

----------------------------------------------------------------------------
(* Attribute-list declarations                                              *)

NoValue == <<"novalue">>
Has(list, a) == \E i \in DOMAIN list : list[i].id = a
Defaults(e)  == IF e \in DOMAIN dtd.defaults THEN dtd.defaults[e] ELSE <<>>

AttlistElementName(tok) ==
  /\ Read(tok, {"ATTLIST_ELEMENT_NAME"})
  /\ decl' = [decl EXCEPT !.element = tok]
  /\ Silent /\ UNCHANGED <<groups, dtd>>
AttributeName(tok) ==
  /\ Read(tok, {"ATTRIBUTE_NAME"})
  /\ decl' = [decl EXCEPT !.attribute = tok, !.cdata = FALSE, !.id = FALSE]
  /\ Silent /\ UNCHANGED <<groups, dtd>>
AttributeType(tok) ==
  /\ Read(tok, {"ATTRIBUTE_TYPE"})
  /\ decl' = [decl EXCEPT !.cdata = @ \/ tok = "CDATA", !.id = @ \/ tok = "ID"]
  /\ Silent /\ UNCHANGED <<groups, dtd>>

\* mutant: a definition is added whether the attribute has one or not
defineAttributeAgain(id, value) ==
  [dtd EXCEPT
     !.defaults = [e \in DOMAIN @ \cup {decl.element} |->
             IF e # decl.element THEN @[e]
             ELSE Append(Defaults(e), [id |-> decl.attribute, cdata |-> decl.cdata,
                                       value |-> value])],
     !.tokenized = IF decl.cdata THEN @ ELSE @ \cup {decl.attribute}]
defineAttribute(id, value) ==
  IF (value # NoValue \/ id) /\ Has(Defaults(decl.element), decl.attribute)
  THEN dtd
  ELSE [dtd EXCEPT
          !.defaults = [e \in DOMAIN @ \cup {decl.element} |->
             IF e # decl.element THEN @[e]
             ELSE Append(Defaults(e), [id |-> decl.attribute, cdata |-> decl.cdata,
                                       value |-> value])],
          !.tokenized = IF decl.cdata THEN @ ELSE @ \cup {decl.attribute}]
NoDefault(tok) ==
  /\ Read(tok, {"IMPLIED_ATTRIBUTE_VALUE", "REQUIRED_ATTRIBUTE_VALUE"})
  /\ dtd' = defineAttribute(decl.id, NoValue)
  /\ Silent /\ UNCHANGED <<groups, decl>>
DefaultValue(tok) ==
  /\ Read(tok, {"DEFAULT_ATTRIBUTE_VALUE", "FIXED_ATTRIBUTE_VALUE"})
  /\ LET so == storeAttributeValue(Text[tok], decl.cdata)
     IN  IF so.error # None THEN Fail(so.error) /\ UNCHANGED dtd
         ELSE dtd' = defineAttribute(FALSE, so.value) /\ Silent
  /\ UNCHANGED <<groups, decl>>

----------------------------------------------------------------------------
(* Content models: the connector of each open group                         *)

Grown(size) == IF size = 0 THEN FirstGroup ELSE 2 * size
\* mutant: the array is grown one level late
GroupOpenLate(tok) ==
  /\ Read(tok, {"GROUP_OPEN"})
  /\ LET level == prologState'.level
         size  == IF level > groups.size THEN Grown(groups.size) ELSE groups.size
     IN  groups' = [size |-> size,
                    connector |-> [l \in DOMAIN groups.connector \cup {level} |->
                                     IF l = level THEN None ELSE groups.connector[l]]]
  /\ Silent /\ UNCHANGED <<dtd, decl>>
GroupOpen(tok) ==
  /\ Read(tok, {"GROUP_OPEN"})
  /\ LET level == prologState'.level
         size  == IF level >= groups.size THEN Grown(groups.size) ELSE groups.size
     IN  groups' = [size |-> size,
                    connector |-> [l \in DOMAIN groups.connector \cup {level} |->
                                     IF l = level THEN None ELSE groups.connector[l]]]
  /\ Silent /\ UNCHANGED <<dtd, decl>>
Connect(tok, role, mine, other) ==
  /\ Read(tok, {role})
  /\ LET level == prologState.level
     IN  IF groups.connector[level] = other THEN Fail("SYNTAX") /\ UNCHANGED groups
         ELSE groups' = [groups EXCEPT !.connector[level] = mine] /\ Silent
  /\ UNCHANGED <<dtd, decl>>
GroupSequence(tok) == Connect(tok, "GROUP_SEQUENCE", Comma, "|")
GroupChoice(tok)   == Connect(tok, "GROUP_CHOICE", "|", Comma)

\* the first tag: contentProcessor reads it again.  Which of its two sets of
\* handlers the application installed matters from here on, and is chosen here
InstanceStart(tok) ==
  /\ Read(tok, {"INSTANCE_START"})
  /\ peek' \in BOOLEAN
  /\ processor' = "content"
  /\ UNCHANGED <<outcome, groups, dtd, decl>>

Prolog ==
  \E tok \in Menu[family][prologState.handler] :
    \/ ReadQuietly(tok) \/ ReadError(tok) \/ XmlDecl(tok)
    \/ DoctypePublicId(tok) \/ DoctypeSystemId(tok) \/ PublicId(tok)
    \/ GeneralEntityName(tok) \/ ParamEntityName(tok) \/ EntityBody(tok)
    \/ AttlistElementName(tok) \/ AttributeName(tok) \/ AttributeType(tok)
    \/ NoDefault(tok) \/ DefaultValue(tok)
    \/ GroupOpen(tok) \/ GroupSequence(tok) \/ GroupChoice(tok)
    \/ InstanceStart(tok)

----------------------------------------------------------------------------
(* Content                                                                  *)

docVars == <<family, peek, prologState, groups, dtd, decl, sentence, declared>>
dtdVars == <<docVars, attsSize>>
\* after a tag the application stopped at, the loop returns XML_ERROR_ABORTED
AfterTag(open) ==
  IF peek THEN Fail("ABORTED")
  ELSE outcome' = outcome /\ processor' = IF open = <<>> THEN "epilog" ELSE "content"

\* the type that counts is the one of the first definition
Tokenized(e, a) ==
  a \in dtd.tokenized /\
  \E i \in DOMAIN Defaults(e) :
     /\ Defaults(e)[i].id = a /\ ~Defaults(e)[i].cdata
     /\ \A j \in 1..(i - 1) : Defaults(e)[j].id # a

\* m_atts has room for the attributes given and for the defaults.  The tokenizer fills
\* it as far as it reaches, and once more when it was too short for what is given.
Slots(e, atts) == Len(atts) + Len(Defaults(e))
\* mutant: no room is made for the defaults
GrownAttsGiven(e, atts) ==
  IF Len(atts) > attsSize THEN Len(atts) + FirstAtts ELSE attsSize
GrownAtts(e, atts) ==
  IF Slots(e, atts) > attsSize THEN Slots(e, atts) + FirstAtts ELSE attsSize
Unread == [id |-> None, text |-> None]
FilledAtts(e, atts) ==
  LET filled == IF Slots(e, atts) > attsSize /\ Len(atts) > attsSize
                THEN GrownAtts(e, atts) ELSE attsSize
  IN  [i \in DOMAIN atts |-> IF i <= filled THEN atts[i] ELSE Unread]

\* the defaults of the attributes that were not given
WithDefault(atts, d) ==
  IF d.value = NoValue \/ Has(atts, d.id) THEN atts
  ELSE Append(atts, [id |-> d.id, value |-> d.value])
WithDefaults(e, atts) ==
  LET add[i \in 0..Len(Defaults(e))] ==
        IF i = 0 THEN atts ELSE WithDefault(add[i - 1], Defaults(e)[i])
  IN  add[Len(Defaults(e))]
\* the attributes given, each once and with the value its declared type asks for
storeAtts(e, atts) ==
  LET given(i)  == {atts[j].id : j \in 1..i}
      value(i)  == storeAttributeValue(Text[atts[i].text], ~Tokenized(e, atts[i].id))
      bad == {i \in DOMAIN atts : atts[i].id \in given(i - 1) \/ value(i).error # None}
      first == CHOOSE i \in bad : \A j \in bad : i <= j
      list == [j \in DOMAIN atts |-> [id |-> atts[j].id, value |-> value(j).value]]
  IN  IF bad = {} THEN [atts |-> WithDefaults(e, list), error |-> None]
      ELSE [atts |-> <<>>, error |-> IF atts[first].id \in given(first - 1)
                                     THEN "DUPLICATE_ATTRIBUTE" ELSE value(first).error]

\* calls of the handlers; `given' is the tag as written, kept as history
Call(kind, name)        == [call |-> kind, name |-> name, atts |-> <<>>, given |-> <<>>]
Begin(e, atts, given)   == [Call("start", e) EXCEPT !.atts = atts, !.given = given]
End(e)                  == Call("end", e)
Chars(c)                == Call("chars", c)

StartTag(e, atts) ==
  /\ processor = "content" /\ Len(tags) < MaxTags /\ Len(events) < MaxEvents[family]
  /\ attsSize' = GrownAtts(e, atts)
  /\ LET so == storeAtts(e, FilledAtts(e, atts))
     IN  /\ tags' = Append(tags, e)
         /\ IF so.error # None THEN Fail(so.error) /\ UNCHANGED events
            ELSE events' = Append(events, Begin(e, so.atts, atts)) /\ AfterTag(tags')
  /\ UNCHANGED docVars

EmptyElement(e, atts) ==
  /\ processor = "content" /\ Len(events) < MaxEvents[family]
  /\ attsSize' = GrownAtts(e, atts)
  /\ LET so == storeAtts(e, FilledAtts(e, atts))
     IN  IF so.error # None THEN Fail(so.error) /\ UNCHANGED events
         ELSE /\ events' = events \o (IF peek THEN <<Begin(e, so.atts, atts)>>
                                      ELSE <<Begin(e, so.atts, atts), End(e)>>)
              /\ AfterTag(tags)
  /\ UNCHANGED <<tags, docVars>>

\* mutant: the name in the end tag is not compared
EndTagAny(e) ==
  /\ processor = "content" /\ tags # <<>>
  /\ tags' = SubSeq(tags, 1, Len(tags) - 1)
  /\ events' = Append(events, End(e))
  /\ AfterTag(tags')
  /\ UNCHANGED dtdVars
EndTag(e) ==
  /\ processor = "content" /\ tags # <<>>
  /\ IF e # tags[Len(tags)] THEN Fail("TAG_MISMATCH") /\ UNCHANGED <<tags, events>>
     ELSE /\ tags' = SubSeq(tags, 1, Len(tags) - 1)
          /\ events' = Append(events, End(e))
          /\ AfterTag(tags')
  /\ UNCHANGED dtdVars

\* text, a line end, a character reference or a reference to a predefined entity
CharData(c) ==
  /\ processor \in {"content", "cdata"} /\ tags # <<>> /\ Len(events) < MaxEvents[family]
  /\ c = "#65" => processor = "content"
  /\ events' = Append(events, Chars(c))
  /\ Silent /\ UNCHANGED <<tags, dtdVars>>
BadCharRef ==
  /\ processor = "content" /\ tags # <<>>
  /\ Fail("BAD_CHAR_REF") /\ UNCHANGED <<tags, events, dtdVars>>
\* the text of an entity is what storeSelfEntityValue stored: the reference itself
processInternalEntity(n) == Append(events, Chars(n))
EntityRef(n) ==
  /\ processor = "content" /\ tags # <<>> /\ Len(events) < MaxEvents[family]
  /\ IF EntityError(n) # None THEN Fail(EntityError(n)) /\ UNCHANGED events
     ELSE /\ Silent
          /\ events' = IF n \in DOMAIN dtd.entities THEN processInternalEntity(n) ELSE events
  /\ UNCHANGED <<tags, dtdVars>>
CdataOpen ==
  /\ processor = "content" /\ tags # <<>>
  /\ processor' = "cdata" /\ UNCHANGED <<outcome, tags, events, dtdVars>>
CdataClose ==
  /\ processor = "cdata"
  /\ processor' = "content" /\ UNCHANGED <<outcome, tags, events, dtdVars>>
XmlDeclInContent ==
  /\ processor = "content" /\ tags # <<>>
  /\ Fail("MISPLACED_XML_PI") /\ UNCHANGED <<tags, events, dtdVars>>

\* after the root element: anything but comments, instructions and white space
Junk ==
  /\ processor = "epilog"
  /\ Fail("JUNK_AFTER_DOC_ELEMENT") /\ UNCHANGED <<tags, events, dtdVars>>

\* a token no scanner accepts, or the end of the text inside a token
BadToken ==
  /\ processor \in {"prolog", "content", "cdata", "epilog"}
  /\ Fail("INVALID_TOKEN")
  /\ UNCHANGED <<tags, events, dtdVars>>
EndOfText ==
  /\ processor \in {"prolog", "content", "cdata", "epilog"}
  /\ processor = "content" => tags # <<>>
  /\ CASE processor = "epilog" -> outcome' = "ok" /\ processor' = "finished"
       [] processor = "cdata"  -> Fail("UNCLOSED_CDATA_SECTION")
       [] OTHER                -> Fail("NO_ELEMENTS")
  /\ UNCHANGED <<tags, events, dtdVars>>

Content ==
  \/ \E e \in Elements, atts \in Tagged[family] : StartTag(e, atts) \/ EmptyElement(e, atts)
  \/ \E e \in Elements : EndTag(e)
  \/ \E c \in {"text", "#65"} : CharData(c)
  \/ BadCharRef \/ (\E n \in Entities : EntityRef(n))
  \/ CdataOpen \/ CdataClose \/ XmlDeclInContent

Next == Prolog \/ Content \/ Junk \/ BadToken \/ EndOfText
Spec == Init /\ [][Next]_vars
----------------------------------------------------------------------------
(* Properties *)

\* No handler is left to call after the prolog ended or failed: error(), which
\* xmlrole.c:1195-1211 calls a backstop nothing should reach, is never the
\* handler of a parser still in its prolog.
BackstopUnreached == processor = "prolog" => prologState.handler # "error"

\* The connector of every open group has its place in the array (the growth at
\* xmlparse.c:5405-5447): no group is deeper than the array is long.
GroupWithin ==
  /\ DOMAIN groups.connector \subseteq 0..(groups.size - 1)
  /\ processor = "prolog" /\ prologState.handler \in {"element6", "element7"}
       => prologState.level \in DOMAIN groups.connector

\* m_atts was long enough for what a start tag reports (storeAtts, xmlparse.c:3371-3430).
AttsWithin ==
  \A i \in DOMAIN events : Len(events[i].atts) <= attsSize

\* The parser stays within its tables.
TablesSafe == BackstopUnreached /\ GroupWithin /\ AttsWithin

\* The calls of the handlers: how many elements are open after the first i, and which
\* start an end belongs to.
Count(calls, kind, i, j) == Cardinality({k \in i..j : calls[k].call = kind})
Depth(calls, i) == Count(calls, "start", 1, i) - Count(calls, "end", 1, i)
Partner(calls, i, j) ==
  /\ i < j /\ calls[i].call = "start" /\ calls[j].call = "end"
  /\ Count(calls, "start", i, j) = Count(calls, "end", i, j)
  /\ \A k \in i..(j - 1) : Count(calls, "start", i, k) > Count(calls, "end", i, k)
Belongs(calls, j) ==
  /\ calls[j].call = "end" => \E i \in DOMAIN calls :
                                Partner(calls, i, j) /\ calls[i].name = calls[j].name
  /\ calls[j].call = "chars" => Depth(calls, j) > 0
  /\ calls[j].call = "start" /\ j > 1 => Depth(calls, j - 1) > 0
\* The tag stack (xmlparse.c:2984-3158) makes the calls of the handlers nest: each
\* end belongs to a start of the same name, there is one root, all text is inside
\* it, and a document that is accepted has ended every element.  The view parser's
\* own stack is pushed and popped by these calls.  A parser stopped at the first tag,
\* as the loader stops it, made one call, for the root, and says that it was stopped;
\* no other parser does (lv_xml_load.c:308-322, XML_StopParser).
CallsNest ==
  /\ peek => Len(events) <= 1 /\ (events # <<>> <=> outcome = "ABORTED")
  /\ outcome = "ABORTED" => peek
  /\ \A j \in DOMAIN events : Belongs(events, j)
  /\ outcome = "ok" => events # <<>> /\ Depth(events, Len(events)) = 0

----------------------------------------------------------------------------
(* The inductive invariant: why the parser stays within its tables          *)

\* The registers and tables have their types.
Processors == {"prolog", "content", "cdata", "epilog", "finished", "error"}
Codes == {"PARAM_ENTITY_REF", "MISPLACED_XML_PI", "SYNTAX", "PUBLICID", "BAD_CHAR_REF",
          "BINARY_ENTITY_REF", "ATTRIBUTE_EXTERNAL_ENTITY_REF", "UNDEFINED_ENTITY",
          "DUPLICATE_ATTRIBUTE", "TAG_MISMATCH", "JUNK_AFTER_DOC_ELEMENT", "INVALID_TOKEN",
          "NO_ELEMENTS", "UNCLOSED_CDATA_SECTION", "ABORTED"}
NoneKinds == {"NONE", "DOCTYPE_NONE", "ENTITY_NONE", "NOTATION_NONE", "ATTLIST_NONE",
              "ELEMENT_NONE"}
PrologStates == [handler : DOMAIN Handlers, level : Nat, role_none : NoneKinds]
Pieces      == {Space} \cup UNION {{Text[l][i] : i \in DOMAIN Text[l]} : l \in Literals}
Given       == [id : Attributes, text : Literals]
Reported    == [id : Tokens \cup {None}, value : Seq(Pieces)]
Definitions == [id : Tokens \cup {None}, cdata : BOOLEAN, value : Seq(Pieces) \cup {NoValue}]
Calls == [call : {"start", "end", "chars"}, name : Elements \cup Entities \cup {"text", "#65"},
          atts : Seq(Reported), given : Seq(Given)]
Registers == [element : Tokens \cup {None}, attribute : Tokens \cup {None}, cdata : BOOLEAN,
              id : BOOLEAN, entity : Tokens \cup {None}]
DtdTyped(d) ==
  /\ d = [defaults |-> d.defaults, tokenized |-> d.tokenized, entities |-> d.entities,
          external |-> d.external, standalone |-> d.standalone]
  /\ d.defaults \in [DOMAIN d.defaults -> Seq(Definitions)]
  /\ DOMAIN d.defaults \cup d.tokenized \subseteq Tokens \cup {None}
  /\ d.entities \in [DOMAIN d.entities -> {"bare", "text", "unparsed"}]
  /\ DOMAIN d.entities \subseteq Tokens
  /\ d.external \in BOOLEAN /\ d.standalone \in BOOLEAN
GroupsTyped(g) ==
  /\ g = [size |-> g.size, connector |-> g.connector]
  /\ g.size \in Nat
  /\ g.connector \in [DOMAIN g.connector -> {None, Comma, "|"}]

TypeOK ==
  /\ family \in Families /\ peek \in BOOLEAN /\ processor \in Processors
  /\ prologState \in PrologStates /\ GroupsTyped(groups)
  /\ attsSize \in Nat /\ DtdTyped(dtd) /\ decl \in Registers
  /\ tags \in Seq(Elements) /\ events \in Seq(Calls)
  /\ outcome \in {"parsing", "ok"} \cup Codes
  /\ sentence \in Seq(Tokens) /\ declared \in Seq(Seq(Tokens))

\* Where a group is open, all groups around it have their connector in the array, and
\* the level of the first group is one, wherever an earlier model left the level.
InModel == prologState.handler \in {"element2", "element6", "element7"}
GroupSound ==
  /\ groups.size = 0 \/ groups.size >= 2
  /\ DOMAIN groups.connector \subseteq 0..(groups.size - 1)
  /\ InModel => prologState.level >= 1 /\ 1..prologState.level \subseteq DOMAIN groups.connector
  /\ prologState.handler = "element2" => prologState.level = 1

IInv == TypeOK /\ BackstopUnreached /\ GroupSound /\ AttsWithin

\* The tag stack and the calls that were made agree: the element at height k was opened
\* by a call at depth k - 1, and the depth has not come back there since.
Nested(calls, open) ==
  /\ Depth(calls, Len(calls)) = Len(open)
  /\ \E at \in [1..Len(open) -> DOMAIN calls] : \A k \in 1..Len(open) :
       /\ calls[at[k]].call = "start" /\ calls[at[k]].name = open[k]
       /\ Depth(calls, at[k] - 1) = k - 1
       /\ \A j \in at[k]..Len(calls) : Depth(calls, j) >= k
\* Between two steps the calls nest and the stack says where; only the last end tag
\* leaves it empty, and a parser that peeks has called nobody.
NestSound ==
  /\ \A j \in DOMAIN events : Belongs(events, j)
  /\ processor \in {"prolog", "content", "cdata", "epilog"} =>
       outcome = "parsing" /\ Nested(events, tags)
  /\ processor = "prolog" => ~peek /\ tags = <<>> /\ events = <<>>
  /\ processor = "content" /\ tags = <<>> => events = <<>>
  /\ processor = "cdata" => tags # <<>>
  /\ processor = "epilog" => tags = <<>> /\ events # <<>>
  /\ peek => /\ processor \in {"content", "error"}
             /\ processor = "content" => tags = <<>>
             /\ Len(events) <= 1 /\ (events # <<>> <=> outcome = "ABORTED")
  /\ outcome = "ABORTED" => peek
  /\ outcome = "ok" => events # <<>> /\ Depth(events, Len(events)) = 0
=============================================================================
