----------------------------- MODULE XmlLexemes -----------------------------
(***************************************************************************)
(* What the scanners of XmlTokens must accept, from the productions of     *)
(* XML 1.0 over characters and not from the scanners' switches.            *)
(***************************************************************************)
EXTENDS XmlTokens

INSTANCE Patterns

Two(c, d) == Cat(Is(c), Is(d))
Nm        == Cat(OneOf(NameStart), Many(OneOf(NameChars)))
S         == Some(OneOf(White))
Digits    == Or(Some(OneOf(Figures)), Cat(Is("x"), Some(OneOf(Hex \cup Figures))))
CharRef   == Cat3(Two("&", "#"), Digits, Is(";"))
EntityRef == Cat3(Is("&"), Nm, Is(";"))
Reference == Or(CharRef, EntityRef)
Value(q)  == Cat3(Is(q), Many(Or(OneOf(Any \ {"<", "&", q}), Reference)), Is(q))
Attribute == Cat3(Nm, Cat3(Opt(S), Is("="), Opt(S)), Or(Value("'"), Value("\"")))
Atts      == Some(Cat(S, Attribute))
Tag(atts, end) == Cat3(Is("<"), Nm, Cat3(atts, Opt(S), end))
Element   == Tag(Opt(Atts), Or(Is(">"), Two("/", ">")))
EndTag    == Cat3(Two("<", "/"), Nm, Cat(Opt(S), Is(">")))
Comment   == Cat3(Cat(Two("<", "!"), Two("-", "-")),
                  Many(Cat(Opt(Is("-")), OneOf(Any \ {"-"}))), Cat(Two("-", "-"), Is(">")))

\* a processing instruction's target is a name, but not xml in any case
X       == OneOf({"x", "X"})
Longer(but) == Cat(OneOf(NameChars \ {but}), Many(OneOf(NameChars)))
NotXml  == Either(<<Cat(OneOf(NameStart \ {"x", "X"}), Many(OneOf(NameChars))),
                    X, Cat(X, Or(Is("m"), Longer("m"))),
                    Cat3(X, Is("m"), Or(Longer("l"), Cat(Is("l"), Some(OneOf(NameChars)))))>>)
Xml     == Cat(Is("x"), Two("m", "l"))
NoClose == Many(Or(OneOf(Any \ {"?"}), Cat(Some(Is("?")), OneOf(Any \ {"?", ">"}))))
Instruction(target) ==
  Cat3(Two("<", "?"), target,
       Or(Two("?", ">"), Cat3(OneOf(White), NoClose, Cat(Some(Is("?")), Is(">")))))

\* text of plain characters and ] in which ]]> is nowhere
Free(plain) ==
  Many(Either(<<OneOf(plain), Cat(Is("]"), OneOf(plain)),
                Cat3(Is("]"), Some(Is("]")), OneOf(plain \ {">"}))>>))
CharData == Cat(Free(Any \ {"<", "&", "]"}), Many(Is("]")))
SectionOpen  == Cat3(Two("<", "!"), Is("["),
                     Cat3(Two("C", "D"), Two("A", "T"), Two("A", "[")))
SectionClose == Cat3(Is("]"), Some(Is("]")), Is(">"))
Section  == Cat3(SectionOpen, Free(Any \ {"]"}), SectionClose)
Content  == Cat(CharData,
                Many(Cat(Either(<<Element, EndTag, Comment, Section, Reference,
                                  Instruction(NotXml), Instruction(Xml)>>), CharData)))
Values   == Many(Or(OneOf(Chars \ {"<", "&"}), Reference))

\* the lexemes of a token
Word(first) == Cat(OneOf(first), Many(OneOf(NameChars)))
Literal(q) == Cat3(Is(q), Many(OneOf(Any \ {q})), Is(q))
Lexeme ==
  [START_TAG_NO_ATTS       |-> Tag(Empty, Is(">")),
   START_TAG_WITH_ATTS     |-> Tag(Atts, Is(">")),
   EMPTY_ELEMENT_NO_ATTS   |-> Tag(Empty, Two("/", ">")),
   EMPTY_ELEMENT_WITH_ATTS |-> Tag(Atts, Two("/", ">")),
   END_TAG |-> EndTag, COMMENT |-> Comment, PI |-> Instruction(NotXml),
   XML_DECL |-> Instruction(Xml), CHAR_REF |-> CharRef, ENTITY_REF |-> EntityRef,
   CDATA_SECT_OPEN |-> SectionOpen, CDATA_SECT_CLOSE |-> Cat(Two("]", "]"), Is(">")),
   DATA_NEWLINE |-> Or(Is("LF"), Cat(Is("CR"), Opt(Is("LF")))),
   DATA_CHARS   |-> Some(OneOf(Chars \ {"CR", "LF"})),
   ATTRIBUTE_VALUE_S |-> OneOf(Blank),
   PROLOG_S |-> S, DECL_OPEN |-> Cat(Two("<", "!"), Some(OneOf(NameStart))),
   COND_SECT_OPEN |-> Cat(Two("<", "!"), Is("[")),
   COND_SECT_CLOSE |-> Cat(Two("]", "]"), Is(">")),
   INSTANCE_START |-> Empty, PERCENT |-> Is("%"), PARAM_ENTITY_REF |-> Cat3(Is("%"), Nm, Is(";")),
   POUND_NAME |-> Cat(Is("#"), Nm), LITERAL |-> Or(Literal("'"), Literal("\"")),
   COMMA |-> Is(","), OR |-> Is("|"), DECL_CLOSE |-> Is(">"), OPEN_BRACKET |-> Is("["),
   CLOSE_BRACKET |-> Is("]"), OPEN_PAREN |-> Is("("), CLOSE_PAREN |-> Is(")"),
   CLOSE_PAREN_ASTERISK |-> Two(")", "*"), CLOSE_PAREN_QUESTION |-> Two(")", "?"),
   CLOSE_PAREN_PLUS |-> Two(")", "+"), NAME |-> Nm, NMTOKEN |-> Word(NameChars \ NameStart),
   NAME_ASTERISK |-> Cat(Nm, Is("*")), NAME_QUESTION |-> Cat(Nm, Is("?")),
   NAME_PLUS |-> Cat(Nm, Is("+"))]

\* in the prolog, what may stand directly behind a token, without a space
Words  == {"NAME", "NMTOKEN"}
Closes == {"CLOSE_PAREN", "CLOSE_PAREN_ASTERISK", "CLOSE_PAREN_QUESTION", "CLOSE_PAREN_PLUS"}
Percents == {"PERCENT", "PARAM_ENTITY_REF"}
InProlog == Words \cup Closes \cup Percents
            \cup {"PROLOG_S", "DECL_OPEN", "COND_SECT_OPEN", "COND_SECT_CLOSE", "COMMENT", "PI",
                  "XML_DECL", "POUND_NAME", "LITERAL", "COMMA", "OR", "DECL_CLOSE",
                  "OPEN_BRACKET", "CLOSE_BRACKET", "OPEN_PAREN", "NAME_ASTERISK",
                  "NAME_QUESTION", "NAME_PLUS", "INSTANCE"}
Behind(tok) ==
  CASE tok \in Words -> Closes \cup Percents \cup {"PROLOG_S", "DECL_CLOSE", "COMMA", "OR",
                                                   "OPEN_BRACKET"}
    [] tok = "POUND_NAME"  -> Closes \cup Percents \cup {"PROLOG_S", "DECL_CLOSE", "OR"}
    [] tok = "LITERAL"     -> Percents \cup {"PROLOG_S", "DECL_CLOSE", "OPEN_BRACKET"}
    [] tok = "CLOSE_PAREN" -> Closes \cup {"PROLOG_S", "DECL_CLOSE", "COMMA", "OR"}
    [] tok = "PERCENT"     -> Percents \cup {"PROLOG_S"}
    [] tok = "DECL_OPEN"   -> {"PROLOG_S", "PARAM_ENTITY_REF"}
    [] tok = "INSTANCE"    -> {}
    [] OTHER               -> InProlog
Pattern(tok) == IF tok = "INSTANCE" THEN Cat(Element, Content) ELSE Lexeme[tok]

\* where the tokens of a prolog can end in s, with the last token
RECURSIVE TokenEnds(_, _)
TokenEnds(s, P) ==
  LET more == UNION {UNION {{<<q, tok>> : q \in Reach(Pattern(tok), s, {p[1]}) \ {p[1]}} :
                              tok \in Behind(p[2])} : p \in {p \in P : p[1] \in 1..Len(s)}}
  IN  IF more \subseteq P THEN P ELSE TokenEnds(s, P \cup more)
PrologEnds(s) == {p[1] : p \in TokenEnds(s, {<<1, "PROLOG_S">>})}

Grammar == [f \in {"content", "attribute value"} |-> IF f = "content" THEN Content ELSE Values]
EndsOf(in, s) == IF in = "prolog" THEN PrologEnds(s) ELSE Reach(Grammar[in], s, {1})

Ended == place = scanner \/ (place # "INVALID" /\ AtEnd.tok # "PARTIAL")
Part(t) == SubSeq(text, t.from, t.to)
\* The scanners split a text into the tokens it has: what they return is a lexeme of
\* its kind, they refuse a text exactly if nothing well formed begins with it, and a
\* text is not taken as finished inside a token that is not.  (scanCdataSection takes
\* six characters before it compares.)
ScansGrammar ==
  Read =>
    LET ends == EndsOf(Scanner[family], text)
    IN  /\ \A i \in DOMAIN lexed : Matches(Lexeme[lexed[i].tok], Part(lexed[i]))
        /\ ends \cap {0, Len(text) + 1} # {} => place # "INVALID"
        /\ place \notin {CdataNot[k] : k \in 2..6} \cup {"INVALID"} =>
             ends \cap {0, Len(text) + 1} # {}
        /\ Ended /\ scanner # "cdata" => Len(text) + 1 \in ends

\* what the value of an attribute is, if its type is not CDATA
Plain(value) == /\ \A i \in DOMAIN value : value[i] \notin (White \ {" "}) \cup {"&"}
                /\ \A i \in DOMAIN value : value[i] = " " =>
                     i \notin {1, Len(value)} /\ value[i + 1] # " "
Tagged == {i \in DOMAIN lexed : lexed[i].tok \in {"START_TAG_WITH_ATTS",
                                                "EMPTY_ELEMENT_WITH_ATTS"}}
\* getAtts finds the attributes of a tag, and a value it calls normalized is the same
\* before and after normalisation, whatever the type the attribute is declared with:
\* storeAtts (xmlparse.c:3461) copies it unseen.
ShortcutSound ==
  \A i \in Tagged :
    LET tag  == Part(lexed[i])
        atts == getAtts(tag)
    IN  /\ atts # <<>>
        /\ \A k \in DOMAIN atts :
             LET a == atts[k]
                 behind == IF k = Len(atts) THEN Len(tag) + 1 ELSE atts[k + 1].name
             IN  /\ Matches(Attribute, SubSeq(tag, a.name, a.valueEnd))
                 /\ Matches(Or(Value("'"), Value("\"")), SubSeq(tag, a.valuePtr - 1, a.valueEnd))
                 /\ \A j \in (a.valueEnd + 1)..(behind - 1) : tag[j] \in White \cup {"/", ">"}
                 /\ a.normalized => Plain(SubSeq(tag, a.valuePtr, a.valueEnd - 1))

\* the character a reference names, as it is written, and the characters XML has
Power(b, k)  == LET p[i \in 0..k] == IF i = 0 THEN 1 ELSE b * p[i - 1] IN p[k]
Number(ref)  == LET base == IF ref[3] = "x" THEN 16 ELSE 10
                    last == Len(ref) - 1
                    sum[i \in 2..last] ==
                      IF i = 2 THEN 0
                      ELSE sum[i - 1] + (IF ref[i] = "x" THEN 0
                                         ELSE DigitOf[ref[i]] * Power(base, last - i))
                IN  sum[last]
IsChar(n) == \/ n \in {9, 10, 13} \/ n \in 32..55295 \/ n \in 57344..65533
             \/ n \in 65536..1114111
PubidChar == NameChars \cup {" ", "CR", "LF", "'", "(", ")", "+", ",", "/", "=", "?", ";", "!", "*",
                             "#", "$", "%"}
PubidLiteral == Or(Cat3(Is("'"), Many(OneOf(PubidChar \ {"'"})), Is("'")),
                   Cat3(Is("\""), Many(OneOf(PubidChar)), Is("\"")))
Entities == {<<<<"l", "t">>, "<">>, <<<<"g", "t">>, ">">>, <<<<"a", "m", "p">>, "&">>,
             <<<<"a", "p", "o", "s">>, "'">>, <<<<"q", "u", "o", "t">>, "\"">>}
Inner(t) == SubSeq(t, 2, Len(t) - 1)
\* A reference is the character it names, or refused: no run of digits, however long,
\* comes out as another number or as no character of XML (charRefNumber, which leaves
\* its loop before the int could overflow, and checkCharRefNumber); an entity is
\* predefined exactly if it is one of the five.
ReferencesMean ==
  \A i \in DOMAIN lexed :
    LET t == Part(lexed[i])
    IN  /\ lexed[i].tok = "CHAR_REF" =>
             charRefNumber(t) = IF IsChar(Number(t)) THEN Number(t) ELSE Refused
        /\ lexed[i].tok = "ENTITY_REF" =>
             \A n \in {"<", ">", "&", "'", "\""} :
               predefinedEntityName(Inner(t)) = n <=> <<Inner(t), n>> \in Entities
        /\ lexed[i].tok = "LITERAL" => (isPublicId(t) <=> Matches(PubidLiteral, t))

\* Whatever the second pass over a token makes of it is what the token says.
TokensMean == ShortcutSound /\ ReferencesMean
=============================================================================
