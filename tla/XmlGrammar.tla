----------------------------- MODULE XmlGrammar -----------------------------
(***************************************************************************)
(* What the parser of XmlDocument must accept and report, stated from the  *)
(* productions of XML 1.0 and not from the parser's tables: the sentences  *)
(* of each declaration as a set built from its production, up to Longest   *)
(* tokens, and what a document says of its elements and entities.          *)
(***************************************************************************)
EXTENDS XmlDocument

CONSTANT Checked    \* the families that read their declarations token by token,
                    \* every token being offered everywhere

INSTANCE Patterns

\* the productions, over the tokens of one alphabet
Any(a, tokens) == OneOf(tokens \cap a)
Name(a)   == Any(a, Names)
Quote(a)  == Any(a, Literals)
Public(a) == Any(a, Literals \ BadPublic)
ExternalID(a) == Or(Cat(Is("SYSTEM"), Quote(a)), Cat3(Is("PUBLIC"), Public(a), Quote(a)))

Doctype(a) == Or(Cat3(Is("<!DOCTYPE"), Cat(Name(a), Opt(ExternalID(a))), OneOf({"[", ">"})),
                 Cat(Is("]"), Is(">")))
Entity(a) ==
  Cat3(Is("<!ENTITY"),
       Or(Cat(Name(a), Or(Quote(a), Cat(ExternalID(a), Opt(Cat(Is("NDATA"), Name(a)))))),
          Cat3(Is("%"), Name(a), Or(Quote(a), ExternalID(a)))),
       Is(">"))
Notation(a) ==
  Cat3(Is("<!NOTATION"),
       Cat(Name(a), Or(ExternalID(a), Cat(Is("PUBLIC"), Public(a)))), Is(">"))
Choice(A) == Cat3(Is("("), Cat(A, Many(Cat(Is("|"), A))), Is(")"))
AttType(a) == Either(<<Any(a, AttTypes), Choice(Any(a, Names \cup {"nmtoken"})),
                       Cat(Is("NOTATION"), Choice(Name(a)))>>)
AttDefault(a) == Or(Any(a, {"#IMPLIED", "#REQUIRED"}), Cat(Opt(Is("#FIXED")), Quote(a)))
Attlist(a) == Cat3(Is("<!ATTLIST"), Name(a),
                   Cat(Many(Cat3(Name(a), AttType(a), AttDefault(a))), Is(">")))
Mixed(a) == Cat3(Is("("), Is("#PCDATA"),
                 Or(Cat(Many(Cat(Is("|"), Name(a))), Is(")*")), Is(")")))
Flat(a) == Cat3(Is("<!ELEMENT"), Name(a),
                Cat(Or(Any(a, {"EMPTY", "ANY"}), Mixed(a)), Is(">")))

\* the declarations whose productions do not nest
Alphabet(f) == Menu[f]["internalSubset"]
Declarations == [f \in Checked |-> LET a == Alphabet(f) IN
  Either(<<Doctype(a), Entity(a), Notation(a), Attlist(a), Flat(a)>>)]

\* children: groups of particles, a group having one kind of connector
Connectors == {"|", Comma}
Particles  == Names \cup Prefixed \cup Quantified.n
Up(s, i) == Cardinality({k \in 1..i : s[k] = "("})
            - Cardinality({k \in 1..i : s[k] \in Quantified.close})
Siblings(s, i, j) == Up(s, i) = Up(s, j) /\ \A k \in i..j : Up(s, k) >= Up(s, i)
ChildrenSoFar(s) ==
  /\ Len(s) > 2 /\ s[1] = "<!ELEMENT" /\ s[2] \in Names /\ s[3] = "("
  /\ \A i \in 4..Len(s) :
       LET operand == s[i - 1] \in Connectors \cup {"("}
       IN  IF s[i] = ">" THEN i = Len(s) /\ ~operand /\ Up(s, i) = 0
           ELSE /\ s[i] \in IF operand THEN Particles \cup {"("}
                             ELSE Connectors \cup Quantified.close
                /\ Up(s, i - 1) > 0
  /\ \A i, j \in 4..Len(s) :
       {s[i], s[j]} \subseteq Connectors /\ i < j /\ Siblings(s, i, j) => s[i] = s[j]

IsPrefix(s)   == Begins(Declarations[family], s) \/ ChildrenSoFar(s)
IsSentence(s) == Matches(Declarations[family], s) \/ (ChildrenSoFar(s) /\ s[Len(s)] = ">")
Openers == {"<!DOCTYPE", "]", "<!ENTITY", "<!NOTATION", "<!ATTLIST", "<!ELEMENT"}
Opens(s) == s # <<>> /\ s[1] \in Openers

\* the finished declarations in order
First(i)   == declared[i][1]
Last(i)   == declared[i][Len(declared[i])]
Opening   == {i \in DOMAIN declared : First(i) = "<!DOCTYPE"}
Inside(i) == \E o \in Opening : o < i /\ Last(o) = "["
                             /\ \A c \in o..i : First(c) # "]"
PrologOrdered ==
  \A i \in DOMAIN declared :
    /\ First(i) \in {"xmldecl", "standalone"} => \A j \in 1..(i - 1) : First(j) = "BOM"
    /\ First(i) \in Openers \cup {"%pe"} => (First(i) # "<!DOCTYPE" /\ First(i) # "]"
                                              => Inside(i))
    /\ First(i) = "]" => Inside(i - 1) \/ (i - 1) \in Opening
    /\ Cardinality(Opening) <= 1

\* The tables of role handlers with the checks of doProlog (xmlrole.c, and
\* xmlparse.c:4694-5756) accept exactly the declarations of the grammar: what is
\* read without an error begins a declaration, what ends is one, and what is
\* refused as a syntax error begins none.  The parts of the prolog have their order:
\* the XML declaration in front, one document type declaration, and declarations only
\* inside its brackets.
AcceptsGrammar ==
  /\ PrologOrdered
  /\ family \in Checked /\ Opens(sentence) =>
       /\ outcome # "SYNTAX" /\ processor \in {"prolog", "content"}
            => IsPrefix(sentence)
       /\ Finished(sentence) /\ processor = "prolog" => IsSentence(sentence)
       /\ outcome = "SYNTAX" /\ Len(sentence) > 1 => ~IsPrefix(sentence)

----------------------------------------------------------------------------
(* What the calls of the handlers report                                    *)

Kind(i) == events[i].call

\* what the declarations read so far say, in the order they were read
Upto(k, head) == {i \in 1..k : First(i) = head}
EntityName(i) == declared[i][2]
FirstOf(n, k) == {i \in Upto(k, "<!ENTITY") :
                    /\ EntityName(i) = n
                    /\ \A j \in Upto(i - 1, "<!ENTITY") : EntityName(j) # n}
Unparsed(n, k) == \E i \in FirstOf(n, k) : \E p \in 4..Len(declared[i]) :
                    declared[i][p] = "NDATA" /\ p < Len(declared[i]) - 1
Known(n, k) == FirstOf(n, k) # {}
MaySkip == /\ \E o \in Opening : Len(declared[o]) > 3
           /\ \A i \in DOMAIN declared : First(i) # "standalone"
Now == Len(declared)
\* The first declaration of an entity is the one that counts (the lookup at
\* xmlparse.c:5268-5275): text is reported for an entity first declared with text,
\* and a reference is refused only for an unparsed entity, or for an undeclared one
\* when nothing outside the document could declare it.
EntitiesAsDeclared ==
  /\ \A i \in DOMAIN events : Kind(i) = "chars" /\ events[i].name \in Entities =>
       Known(events[i].name, Now) /\ ~Unparsed(events[i].name, Now)
  /\ outcome = "BINARY_ENTITY_REF" => \E n \in Entities : Unparsed(n, Now)
  /\ outcome = "UNDEFINED_ENTITY" => ~MaySkip

\* attribute definitions of an element, three tokens each in the alphabets that
\* declare attributes of the document's elements
Defs(e) == {<<i, p>> \in (1..Now) \X (1..MaxSentence[family]) :
              /\ First(i) = "<!ATTLIST" /\ declared[i][2] = e
              /\ p % 3 = 0 /\ p + 2 < Len(declared[i])}
Earlier(d, f) == d[1] < f[1] \/ (d[1] = f[1] /\ d[2] < f[2])
FirstDef(e, a) == {d \in Defs(e) : /\ declared[d[1]][d[2]] = a
                                   /\ \A f \in Defs(e) : declared[f[1]][f[2]] = a
                                                          => ~Earlier(f, d)}
IsCdata(e, a) == \A d \in FirstDef(e, a) : declared[d[1]][d[2] + 1] = "CDATA"

\* the value a literal has: references replaced, then, unless the type is CDATA,
\* no space in front, none behind, and no two together
Replaced(text, k) == LET f[i \in 0..Len(text)] ==
                    IF i = 0 THEN <<>>
                    ELSE f[i - 1] \o (IF text[i] = "#32" THEN <<Space>>
                                      ELSE IF text[i] \in Entities /\ ~Known(text[i], k)
                                      THEN <<>> ELSE <<text[i]>>)
              IN  f[Len(text)]
Normal(text, cdata, k) ==
  LET v == Replaced(text, k)
      keep == {i \in DOMAIN v : v[i] # Space \/ cdata
                 \/ (i > 1 /\ v[i - 1] # Space /\ \E j \in (i + 1)..Len(v) : v[j] # Space)}
      f[i \in 0..Len(v)] == IF i = 0 THEN <<>>
                            ELSE IF i \in keep THEN Append(f[i - 1], v[i]) ELSE f[i - 1]
  IN  f[Len(v)]
\* A start tag reports exactly the attributes it gives and the defaults of those it
\* leaves out, every value normalised by the type of the first declaration of that
\* attribute for that element (storeAtts, defineAttribute, storeAttributeValue).
AttributesAsDeclared ==
  \A i \in DOMAIN events : Kind(i) = "start" =>
    LET e == events[i].name
        given == events[i].given
        ids == {given[j].id : j \in DOMAIN given}
        default == {a \in Attributes \ ids : \E d \in FirstDef(e, a) :
                      declared[d[1]][d[2] + 2] \in Literals}
    IN  {<<events[i].atts[j].id, events[i].atts[j].value>> : j \in DOMAIN events[i].atts}
        = {<<given[j].id, Normal(Text[given[j].text], IsCdata(e, given[j].id), Now)>> :
             j \in DOMAIN given}
          \cup {<<a, Normal(Text[declared[d[1]][d[2] + 2]], IsCdata(e, a), d[1])>> :
                  <<a, d>> \in {<<b, f>> \in default \X ((1..Now) \X (1..MaxSentence[family])) :
                                 f \in FirstDef(e, b)}}
        /\ Len(events[i].atts) = Cardinality(ids) + Cardinality(default)

\* Of several declarations of one entity, or of one attribute of one element, the first
\* is the one every reference and every start tag goes by, whatever lies between them.
DeclaredFirst == EntitiesAsDeclared /\ AttributesAsDeclared
=============================================================================
