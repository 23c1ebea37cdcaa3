----------------------------- MODULE XmlTokens -----------------------------
(***************************************************************************)
(* The tokenizers of src/src/libs/expat/xmltok_impl.c, as the encoding     *)
(* UTF-8 without namespaces has them.  Every scan function reads from left *)
(* to right with a switch over the type of the character it is at; it is   *)
(* the set of rules of a finite automaton whose states are the places in   *)
(* the function.  A character no rule takes is the default of the switch:  *)
(* XML_TOK_INVALID.                                                        *)
(*                                                                         *)
(* A character stands for those of its byte type that no scanner tells     *)
(* apart: "n" is a name start, the other letters are the ones that are     *)
(* spelled out.  Bytes that are no XML character are "NUL".                *)
(***************************************************************************)
EXTENDS Integers, Sequences

CONSTANTS
  Families,      \* kinds of texts
  Scanner,       \* [Families -> {"content", "prolog", "attribute value"}]
  Opening,       \* [Families -> texts], what every text of a family begins with
  Alphabet,      \* [Families -> sets of characters]
  MaxText,       \* [Families -> Nat], bound on the length of a text
  MaxTokens      \* [Families -> Nat], bound on the tokens read

VARIABLES
  family,
  text,          \* what has been typed
  scanner,       \* the function that is asked for the next token
  eventPtr,      \* where the token begins, and where it is read
  ptr,
  place,         \* the place in the scanner, or "INVALID"
  lexed          \* the tokens returned

vars == <<family, text, scanner, eventPtr, ptr, place, lexed>>

Blank     == {" ", "TAB"}
White     == Blank \cup {"LF", "CR"}
Figures   == {"0", "1"}
Hex       == {"A", "C", "D", "a", "f"}
NameStart == Hex \cup {"n", "x", "m", "l", "X", "T", "g", "o", "p", "q", "s", "t", "u"}
NameChars == NameStart \cup Figures \cup {".", "-"}
Bad       == {"NUL"}
Quotes    == {"'", "\""}
Chars     == NameChars \cup White \cup Bad \cup Quotes
             \cup {"<", ">", "!", "?", "/", "&", ";", "#", "=", "[", "]", "%", "(", ")",
                   "|", ",", "*", "+", "$"}
Any       == Chars \ Bad

\* rules: go on, end a token with the character, end a token `back' characters
\* before the end of what was read
Rule(at, on, to, tok, back) ==
  {[at |-> at, on |-> c, to |-> to, tok |-> tok, back |-> back] : c \in on}
On(at, on, to)             == Rule(at, on, to, "none", 0)
Emit(at, on, tok)          == Rule(at, on, "end", tok, 0)
Before(at, on, tok, back)  == Rule(at, on, "end", tok, back)

----------------------------------------------------------------------------
scanComment ==
  On("<!-", {"-"}, "comment")
  \cup On("comment", Any \ {"-"}, "comment") \cup On("comment", {"-"}, "comment-")
  \cup On("comment-", Any \ {"-"}, "comment") \cup On("comment-", {"-"}, "comment--")
  \cup Emit("comment--", {">"}, "COMMENT")

scanDecl ==
  On("<!", {"-"}, "<!-") \cup Emit("<!", {"["}, "COND_SECT_OPEN")
  \cup On("<!", NameStart, "<!n") \cup On("<!n", NameStart, "<!n")
  \cup On("<!n", {"%"}, "<!n%") \cup Before("<!n", White, "DECL_OPEN", 1)
  \cup Before("<!n%", Chars \ (White \cup {"%"}), "DECL_OPEN", 2)

\* the target of a processing instruction: xml is reserved, in capitals too
Spelled == {<<"<?", "x", "<?x">>, <<"<?x", "m", "<?xm">>, <<"<?xm", "l", "<?xml">>,
            <<"<?", "X", "<?X">>, <<"<?X", "m", "<?Xm">>, <<"<?Xm", "l", "<?Xml">>}
Targets == {s[3] : s \in Spelled} \cup {"<?n"}
Spells(target) == {s[2] : s \in {t \in Spelled : t[1] = target}}
checkPiTarget(target) == IF target = "<?xml" THEN "XML_DECL" ELSE "PI"
scanPi ==
  UNION {On(s[1], {s[2]}, s[3]) : s \in Spelled}
  \cup On("<?", NameStart \ Spells("<?"), "<?n")
  \cup UNION {On(t, NameChars \ Spells(t), "<?n")
              \cup IF t = "<?Xml" THEN {}
                   ELSE On(t, White, checkPiTarget(t))
                        \cup On(t, {"?"}, checkPiTarget(t) \o "!?") : t \in Targets}
  \cup UNION {On(t, Any \ {"?"}, t) \cup On(t, {"?"}, t \o "?")
              \cup On(t \o "?", Any \ {"?", ">"}, t) \cup On(t \o "?", {"?"}, t \o "?")
              \cup Emit(t \o "?", {">"}, t) \cup Emit(t \o "!?", {">"}, t)
              : t \in {"PI", "XML_DECL"}}

\* six characters are read before the first of them is looked at
CDATA_LSQB == <<"C", "D", "A", "T", "A", "[">>
CdataAt  == <<"<![", "<![2", "<![3", "<![4", "<![5", "<![6">>
CdataNot == <<"", "<![2-", "<![3-", "<![4-", "<![5-", "<![6-">>
scanCdataSection ==
  UNION {On(CdataAt[k], {CDATA_LSQB[k]}, CdataAt[k + 1])
         \cup On(CdataAt[k], Chars \ {CDATA_LSQB[k]}, CdataNot[k + 1])
         \cup On(CdataNot[k], Chars, CdataNot[k + 1]) : k \in 1..5}
  \cup Emit(CdataAt[6], {CDATA_LSQB[6]}, "CDATA_SECT_OPEN")

InCdata(at) == Before(at, {"CR", "LF"} \cup Bad, "DATA_CHARS", 1)
               \cup On(at, Any \ {"CR", "LF", "]"}, "cdata data")
cdataSectionTok ==
  On("cdata", {"]"}, "cdata]") \cup On("cdata", {"CR"}, "CR")
  \cup Emit("cdata", {"LF"}, "DATA_NEWLINE")
  \cup On("cdata", Any \ {"]", "CR", "LF"}, "cdata data")
  \cup InCdata("cdata]") \cup On("cdata]", {"]"}, "cdata]]")
  \cup Emit("cdata]]", {">"}, "CDATA_SECT_CLOSE")
  \cup Before("cdata]]", Chars \ {">"}, "DATA_CHARS", 2)
  \cup InCdata("cdata data") \cup Before("cdata data", {"]"}, "DATA_CHARS", 1)
Newline == Emit("CR", {"LF"}, "DATA_NEWLINE")
           \cup Before("CR", Chars \ {"LF"}, "DATA_NEWLINE", 1)

scanEndTag ==
  On("</", NameStart, "</n") \cup On("</n", NameChars, "</n")
  \cup On("</n", White, "</n ") \cup On("</n ", White, "</n ")
  \cup Emit("</n", {">"}, "END_TAG") \cup Emit("</n ", {">"}, "END_TAG")

\* a reference in content is a token; in an attribute value, opened by `in', the
\* scan of the tag goes on behind it
Done(at, tok, in) == IF in = "" THEN Emit(at, {";"}, tok) ELSE On(at, {";"}, "value" \o in)
scanHexCharRef(in) ==
  On("&#x" \o in, Hex \cup Figures, "&#xf" \o in)
  \cup On("&#xf" \o in, Hex \cup Figures, "&#xf" \o in) \cup Done("&#xf" \o in, "CHAR_REF", in)
scanCharRef(in) ==
  On("&#" \o in, {"x"}, "&#x" \o in) \cup On("&#" \o in, Figures, "&#1" \o in)
  \cup On("&#1" \o in, Figures, "&#1" \o in) \cup Done("&#1" \o in, "CHAR_REF", in)
  \cup scanHexCharRef(in)
scanRef(in) ==
  On("&" \o in, NameStart, "&n" \o in) \cup On("&" \o in, {"#"}, "&#" \o in)
  \cup On("&n" \o in, NameChars, "&n" \o in) \cup Done("&n" \o in, "ENTITY_REF", in)
  \cup scanCharRef(in)

\* mutant: an attribute may follow the value of the one before it directly
scanAttsJoined ==
  On("att", NameChars, "att") \cup On("att", White, "att ") \cup On("att ", White, "att ")
  \cup On("att", {"="}, "att=") \cup On("att ", {"="}, "att=") \cup On("att=", White, "att=")
  \cup UNION {On("att=", {q}, "value" \o q)
              \cup On("value" \o q, Any \ {q, "&", "<"}, "value" \o q)
              \cup On("value" \o q, {"&"}, "&" \o q) \cup scanRef(q)
              \cup On("value" \o q, {q}, "value ") : q \in Quotes}
  \cup On("value ", White, "value ") \cup On("value ", NameStart, "att")
  \cup Emit("value ", {">"}, "START_TAG_WITH_ATTS") \cup On("value ", {"/"}, "value/")
  \cup Emit("value/", {">"}, "EMPTY_ELEMENT_WITH_ATTS")
scanAtts ==
  On("att", NameChars, "att") \cup On("att", White, "att ") \cup On("att ", White, "att ")
  \cup On("att", {"="}, "att=") \cup On("att ", {"="}, "att=") \cup On("att=", White, "att=")
  \cup UNION {On("att=", {q}, "value" \o q)
              \cup On("value" \o q, Any \ {q, "&", "<"}, "value" \o q)
              \cup On("value" \o q, {"&"}, "&" \o q) \cup scanRef(q)
              \cup On("value" \o q, {q}, "valued") : q \in Quotes}
  \cup On("valued", White, "value ") \cup On("value ", White, "value ")
  \cup On("value ", NameStart, "att")
  \cup UNION {Emit(at, {">"}, "START_TAG_WITH_ATTS") \cup On(at, {"/"}, "value/")
              : at \in {"valued", "value "}}
  \cup Emit("value/", {">"}, "EMPTY_ELEMENT_WITH_ATTS")

scanLt ==
  On("<", {"!"}, "<! ") \cup On("<! ", {"-"}, "<!-") \cup On("<! ", {"["}, "<![")
  \cup On("<", {"?"}, "<?") \cup On("<", {"/"}, "</") \cup On("<", NameStart, "<n")
  \cup On("<n", NameChars, "<n") \cup On("<n", White, "<n ") \cup On("<n ", White, "<n ")
  \cup On("<n ", NameStart, "att")
  \cup UNION {Emit(at, {">"}, "START_TAG_NO_ATTS") \cup On(at, {"/"}, "<n/")
              : at \in {"<n", "<n "}}
  \cup Emit("<n/", {">"}, "EMPTY_ELEMENT_NO_ATTS")

InData(at) == Before(at, {"&", "<", "CR", "LF"} \cup Bad, "DATA_CHARS", 1)
              \cup On(at, Any \ {"&", "<", "CR", "LF", "]"}, "data")
contentTok ==
  On("content", {"<"}, "<") \cup On("content", {"&"}, "&") \cup On("content", {"CR"}, "CR")
  \cup Emit("content", {"LF"}, "DATA_NEWLINE") \cup On("content", {"]"}, "]")
  \cup On("content", Any \ {"<", "&", "CR", "LF", "]"}, "data")
  \cup InData("]") \cup On("]", {"]"}, "]]")
  \cup (InData("]]") \ On("]]", {">"}, "data")) \cup On("]]", {"]"}, "data]]")
  \cup InData("data") \cup On("data", {"]"}, "data]")
  \cup InData("data]") \cup On("data]", {"]"}, "data]]")
  \cup (InData("data]]") \ On("data]]", {">"}, "data")) \cup On("data]]", {"]"}, "data]]")

----------------------------------------------------------------------------
scanPercent ==
  On("%", NameStart, "%n") \cup Before("%", White \cup {"%"}, "PERCENT", 1)
  \cup On("%n", NameChars, "%n") \cup Emit("%n", {";"}, "PARAM_ENTITY_REF")
scanPoundName ==
  On("#", NameStart, "#n") \cup On("#n", NameChars, "#n")
  \cup Before("#n", White \cup {")", ">", "%", "|"}, "POUND_NAME", 1)
scanLit ==
  UNION {On("literal" \o q, Any \ {q}, "literal" \o q) \cup On("literal" \o q, {q}, "literal")
         : q \in Quotes}
  \cup Before("literal", White \cup {">", "%", "["}, "LITERAL", 1)

InSpace(at) == On(at, Blank \cup {"LF"}, "S") \cup On(at, {"CR"}, "S CR")
               \cup Before(at, Chars \ White, "PROLOG_S", 1)
prologTok ==
  UNION {On("prolog", {q}, "literal" \o q) : q \in Quotes}
  \cup On("prolog", {"<"}, "<p") \cup On("<p", {"!"}, "<!") \cup On("<p", {"?"}, "<?")
  \cup Before("<p", NameStart, "INSTANCE_START", 2)
  \cup On("prolog", Blank \cup {"LF"}, "S") \cup On("prolog", {"CR"}, "CR S")
  \cup InSpace("S") \cup InSpace("S CR") \cup InSpace("CR S")
  \cup On("prolog", {"%"}, "%") \cup On("prolog", {"#"}, "#")
  \cup Emit("prolog", {","}, "COMMA") \cup Emit("prolog", {"["}, "OPEN_BRACKET")
  \cup Emit("prolog", {"("}, "OPEN_PAREN") \cup Emit("prolog", {"|"}, "OR")
  \cup Emit("prolog", {">"}, "DECL_CLOSE")
  \cup On("prolog", {"]"}, "p]") \cup On("p]", {"]"}, "p]]")
  \cup Before("p]", Chars \ {"]"}, "CLOSE_BRACKET", 1)
  \cup Emit("p]]", {">"}, "COND_SECT_CLOSE")
  \cup Before("p]]", Chars \ {">"}, "CLOSE_BRACKET", 2)
  \cup On("prolog", {")"}, "p)") \cup Emit("p)", {"*"}, "CLOSE_PAREN_ASTERISK")
  \cup Emit("p)", {"?"}, "CLOSE_PAREN_QUESTION") \cup Emit("p)", {"+"}, "CLOSE_PAREN_PLUS")
  \cup Before("p)", White \cup {">", ",", "|", ")"}, "CLOSE_PAREN", 1)
  \cup On("prolog", NameStart, "NAME") \cup On("prolog", NameChars \ NameStart, "NMTOKEN")
prologName ==
  UNION {On(t, NameChars, t)
         \cup Before(t, White \cup {">", ")", ",", "|", "[", "%"}, t, 1)
         : t \in {"NAME", "NMTOKEN"}}
  \cup Emit("NAME", {"+"}, "NAME_PLUS") \cup Emit("NAME", {"*"}, "NAME_ASTERISK")
  \cup Emit("NAME", {"?"}, "NAME_QUESTION")

attributeValueTok ==
  On("attribute value", {"&"}, "&") \cup Emit("attribute value", {"LF"}, "DATA_NEWLINE")
  \cup On("attribute value", {"CR"}, "CR")
  \cup Emit("attribute value", Blank, "ATTRIBUTE_VALUE_S")
  \cup UNION {On(at, Chars \ (White \cup {"&", "<"}), "value data")
              : at \in {"attribute value", "value data"}}
  \cup Before("value data", White \cup {"&"}, "DATA_CHARS", 1)

Rules == scanComment \cup scanDecl \cup scanPi \cup scanCdataSection \cup cdataSectionTok
         \cup Newline \cup scanEndTag \cup scanRef("") \cup scanAtts \cup scanLt
         \cup contentTok \cup scanPercent \cup scanPoundName \cup scanLit \cup prologTok
         \cup prologName \cup attributeValueTok

\* the text ends inside a token: some scanners return what they have, some return
\* it negated, since more text could make it longer, the others XML_TOK_PARTIAL
AtEnd ==
  CASE place \in {"cdata data", "data", "value data"} -> [tok |-> "DATA_CHARS", back |-> 0]
    [] place = "data]"          -> [tok |-> "DATA_CHARS", back |-> 1]
    [] place = "data]]"         -> [tok |-> "DATA_CHARS", back |-> 2]
    [] place \in {"]", "]]"}    -> [tok |-> "TRAILING_RSQB", back |-> 0]
    [] place = "CR" /\ scanner # "cdata" -> [tok |-> "TRAILING_CR", back |-> 0]
    [] place = "S"              -> [tok |-> "PROLOG_S", back |-> 0]
    [] place = "S CR"           -> [tok |-> "PROLOG_S", back |-> 1]
    [] place = "CR S"           -> [tok |-> "-PROLOG_S", back |-> 0]
    [] place = "#n"             -> [tok |-> "-POUND_NAME", back |-> 0]
    [] place = "literal"        -> [tok |-> "-LITERAL", back |-> 0]
    [] place = "p]"             -> [tok |-> "-CLOSE_BRACKET", back |-> 0]
    [] place = "p)"             -> [tok |-> "-CLOSE_PAREN", back |-> 0]
    [] place \in {"NAME", "NMTOKEN"} -> [tok |-> "-NAME", back |-> 0]
    [] OTHER                 -> [tok |-> "PARTIAL", back |-> 0]

Init == /\ family \in Families
        /\ text = Opening[family]
        /\ scanner = Scanner[family] /\ place = Scanner[family]
        /\ eventPtr = 1 /\ ptr = 1
        /\ lexed = <<>>

Read == ptr > Len(text)
Type(c) == /\ Read /\ place # "INVALID"
           /\ Len(text) < MaxText[family] /\ Len(lexed) < MaxTokens[family]
           /\ text' = Append(text, c)
           /\ UNCHANGED <<family, scanner, eventPtr, ptr, place, lexed>>

\* which scanner the processors of xmlparse.c ask after a token
Next(tok) == CASE tok = "CDATA_SECT_OPEN"  -> "cdata"
               [] tok \in {"CDATA_SECT_CLOSE", "INSTANCE_START"} -> "content"
               [] OTHER -> scanner

RulesAt == [p \in {r.at : r \in Rules} |-> {r \in Rules : r.at = p}]
Taken == IF place \in DOMAIN RulesAt THEN {r \in RulesAt[place] : r.on = text[ptr]} ELSE {}
GoOn(r) == /\ r.to # "end"
           /\ place' = r.to /\ ptr' = ptr + 1
           /\ UNCHANGED <<scanner, eventPtr, lexed>>
Return(r) == LET end == ptr + 1 - r.back
             IN  /\ r.to = "end"
                 /\ lexed' = Append(lexed, [tok |-> r.tok, from |-> eventPtr, to |-> end - 1])
                 /\ scanner' = Next(r.tok) /\ place' = scanner'
                 /\ eventPtr' = end /\ ptr' = end
Invalid == /\ Taken = {}
           /\ place' = "INVALID" /\ ptr' = Len(text) + 1
           /\ UNCHANGED <<scanner, eventPtr, lexed>>
Scan == /\ ~Read
        /\ (\E r \in Taken : GoOn(r) \/ Return(r)) \/ Invalid
        /\ UNCHANGED <<family, text>>

Step == Scan \/ \E c \in Alphabet[family] : Type(c)
Spec == Init /\ [][Step]_vars

----------------------------------------------------------------------------
(* getAtts goes over a start tag once more, for the names and values, and   *)
(* notes which values storeAtts may copy as they are.                       *)

Quoted(r) == r.in \in Quotes
This(r)   == r.atts[Len(r.atts)]
\* mutant: a value may begin with a space
PlainSpaceFirst(r, tag, i) == /\ tag[i] = " "
                              /\ tag[i + 1] \notin {" ", r.in}
PlainSpace(r, tag, i) == /\ tag[i] = " " /\ i # This(r).valuePtr
                         /\ tag[i + 1] \notin {" ", r.in}
Read1(r, tag, i) ==
  LET c == tag[i] IN
  CASE r.in = "other" /\ c \in NameStart ->
         [r EXCEPT !.in = "name",
                   !.atts = Append(@, [name |-> i, valuePtr |-> 0, valueEnd |-> 0,
                                       normalized |-> TRUE])]
    [] ~Quoted(r) /\ c \in Quotes ->
         [r EXCEPT !.in = c, !.atts[Len(r.atts)].valuePtr = i + 1]
    [] Quoted(r) /\ c = r.in -> [r EXCEPT !.in = "other", !.atts[Len(r.atts)].valueEnd = i]
    [] r.in = "name" /\ c \in White -> [r EXCEPT !.in = "other"]
    [] Quoted(r) /\ (c \in {"&", "CR", "LF"} \/ (c \in Blank /\ ~PlainSpace(r, tag, i))) ->
         [r EXCEPT !.atts[Len(r.atts)].normalized = FALSE]
    [] ~Quoted(r) /\ c \in {">", "/"} -> [r EXCEPT !.in = "done"]
    [] OTHER -> r
getAtts(tag) ==
  LET r[i \in 1..Len(tag)] == IF i = 1 THEN [in |-> "name", atts |-> <<>>]
                              ELSE IF r[i - 1].in = "done" THEN r[i - 1]
                              ELSE Read1(r[i - 1], tag, i)
  IN  r[Len(tag)].atts
----------------------------------------------------------------------------
(* What the parser makes of a token: the number of a character reference,   *)
(* the character a predefined entity stands for, and whether a literal can  *)
(* be a public identifier.                                                  *)

Refused == -1
checkCharRefNumber(n) ==
  IF n \div 256 \in 216..223 \/ n \in (0..31) \ {9, 10, 13} \/ n \in {65534, 65535}
  THEN Refused ELSE n
DigitOf == [c \in Hex \cup Figures |->
              CASE c = "0" -> 0 [] c = "1" -> 1 [] c \in {"A", "a"} -> 10
                [] c = "C" -> 12 [] c = "D" -> 13 [] c = "f" -> 15]
charRefNumber(ref) ==
  LET before == IF ref[3] = "x" THEN 3 ELSE 2
      base   == IF ref[3] = "x" THEN 16 ELSE 10
      result[i \in before..Len(ref)] ==
        IF i = before THEN 0
        ELSE IF ref[i] = ";" \/ result[i - 1] >= 1114112 THEN result[i - 1]
        ELSE base * result[i - 1] + DigitOf[ref[i]]
  IN  IF result[Len(ref)] >= 1114112 THEN Refused ELSE checkCharRefNumber(result[Len(ref)])
predefinedEntityName(n) ==
  CASE Len(n) = 2 /\ n[2] = "t" /\ n[1] = "l" -> "<"
    [] Len(n) = 2 /\ n[2] = "t" /\ n[1] = "g" -> ">"
    [] Len(n) = 3 /\ n = <<"a", "m", "p">> -> "&"
    [] Len(n) = 4 /\ n[1] = "q" /\ Tail(n) = <<"u", "o", "t">> -> "\""
    [] Len(n) = 4 /\ n[1] = "a" /\ Tail(n) = <<"p", "o", "s">> -> "'"
    [] OTHER -> "none"
isPublicId(literal) ==
  \A i \in 2..(Len(literal) - 1) :
     literal[i] \in NameChars \cup (White \ {"TAB"})
                      \cup {"'", "(", ")", "+", ",", "/", "=", "?", ";", "!", "*", "%", "#", "$"}
=============================================================================
