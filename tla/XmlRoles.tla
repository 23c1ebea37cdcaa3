------------------------------ MODULE XmlRoles ------------------------------
(***************************************************************************)
(* The grammar of the XML prolog as the parser of src/src/libs/expat keeps *)
(* it: one handler function per position in a declaration, each a switch   *)
(* over the token just read.  A handler is a record: the role it gives to  *)
(* white space and its rules, which are the cases of its switch.  A token  *)
(* no rule takes is the call to common(): role ERROR, and the handler      *)
(* becomes the function error().                                           *)
(*                                                                         *)
(* Tokens are strings.  A keyword is a name that XmlNameMatchesAscii       *)
(* recognises, so it is also accepted wherever any name is.                *)
(***************************************************************************)
EXTENDS Naturals

CONSTANTS Words,      \* names that are no keyword
          Literals    \* quoted literals

AttTypes == {"CDATA", "ID", "IDREF", "IDREFS", "ENTITY", "ENTITIES",
             "NMTOKEN", "NMTOKENS"}
Keywords == AttTypes \cup {"SYSTEM", "PUBLIC", "NDATA", "NOTATION", "EMPTY", "ANY"}
Names    == Words \cup Keywords
Prefixed == {"p:n"}
Quantified == [n |-> {"n?", "n*", "n+"}, close |-> {")", ")?", ")*", ")+"}]

Comma == ","

\* the tokens that are told by their signs
Signs ==
  {"S", "BOM", "xmldecl", "standalone", "PI", "comment", "%pe", "<e", "<!DOCTYPE", "<!ENTITY",
   "<!ATTLIST", "<!ELEMENT", "<!NOTATION", "[", "]", "%", ">", "(", "|", Comma, "nmtoken",
   "#PCDATA", "#IMPLIED", "#REQUIRED", "#FIXED"} \cup Quantified.n \cup Quantified.close
Tokens == Signs \cup Names \cup Prefixed \cup Literals

ASSUME RolesAssumption ==
  /\ Words \cap (Signs \cup Prefixed \cup Keywords \cup Literals) = {}
  /\ Literals \cap (Signs \cup Prefixed \cup Keywords) = {}

On(tokens, role, to) == {[on |-> t, role |-> role, to |-> to] : t \in tokens}

\* before the document type declaration: the first token, what follows it,
\* and what follows the declaration
Misc(here)   == On({"PI"}, "PI", here) \cup On({"comment"}, "COMMENT", here)
Instance     == On({"<e"}, "INSTANCE_START", "error")
prolog0 == [none  |-> "NONE",
            rules |-> On({"S"}, "NONE", "prolog1")
                      \cup On({"xmldecl", "standalone"}, "XML_DECL", "prolog1")
                      \cup Misc("prolog1") \cup On({"BOM"}, "NONE", "prolog0")
                      \cup On({"<!DOCTYPE"}, "DOCTYPE_NONE", "doctype0") \cup Instance]
prolog1 == [none  |-> "NONE",
            rules |-> Misc("prolog1") \cup On({"BOM"}, "NONE", "prolog1")
                      \cup On({"<!DOCTYPE"}, "DOCTYPE_NONE", "doctype0") \cup Instance]
prolog2 == [none |-> "NONE", rules |-> Misc("prolog2") \cup Instance]

\* <!DOCTYPE name (SYSTEM "s" | PUBLIC "p" "s")? ([ subset ])? >
Subset  == On({"["}, "DOCTYPE_INTERNAL_SUBSET", "internalSubset")
EndType == On({">"}, "DOCTYPE_CLOSE", "prolog2")
doctype0 == [none  |-> "DOCTYPE_NONE",
             rules |-> On(Names \cup Prefixed, "DOCTYPE_NAME", "doctype1")]
doctype1 == [none  |-> "DOCTYPE_NONE",
             rules |-> Subset \cup EndType
                       \cup On({"SYSTEM"}, "DOCTYPE_NONE", "doctype3")
                       \cup On({"PUBLIC"}, "DOCTYPE_NONE", "doctype2")]
doctype2 == [none  |-> "DOCTYPE_NONE",
             rules |-> On(Literals, "DOCTYPE_PUBLIC_ID", "doctype3")]
doctype3 == [none  |-> "DOCTYPE_NONE",
             rules |-> On(Literals, "DOCTYPE_SYSTEM_ID", "doctype4")]
doctype4 == [none |-> "DOCTYPE_NONE", rules |-> Subset \cup EndType]
doctype5 == [none |-> "DOCTYPE_NONE", rules |-> EndType]
internalSubset ==
  [none  |-> "NONE",
   rules |-> On({"<!ENTITY"}, "ENTITY_NONE", "entity0")
             \cup On({"<!ATTLIST"}, "ATTLIST_NONE", "attlist0")
             \cup On({"<!ELEMENT"}, "ELEMENT_NONE", "element0")
             \cup On({"<!NOTATION"}, "NOTATION_NONE", "notation0")
             \cup Misc("internalSubset")
             \cup On({"%pe"}, "PARAM_ENTITY_REF", "internalSubset")
             \cup On({"]"}, "DOCTYPE_NONE", "doctype5")]

\* <!ENTITY ... >: 0, 2-6 a general entity, 1, 7-10 a parameter entity
entity0 == [none  |-> "ENTITY_NONE",
            rules |-> On({"%"}, "ENTITY_NONE", "entity1")
                      \cup On(Names, "GENERAL_ENTITY_NAME", "entity2")]
entity1 == [none  |-> "ENTITY_NONE", rules |-> On(Names, "PARAM_ENTITY_NAME", "entity7")]
entity2 == [none  |-> "ENTITY_NONE",
            rules |-> On({"SYSTEM"}, "ENTITY_NONE", "entity4")
                      \cup On({"PUBLIC"}, "ENTITY_NONE", "entity3")
                      \cup On(Literals, "ENTITY_VALUE", "declClose")]
entity3 == [none  |-> "ENTITY_NONE", rules |-> On(Literals, "ENTITY_PUBLIC_ID", "entity4")]
entity4 == [none  |-> "ENTITY_NONE", rules |-> On(Literals, "ENTITY_SYSTEM_ID", "entity5")]
entity5 == [none  |-> "ENTITY_NONE",
            rules |-> On({">"}, "ENTITY_COMPLETE", "internalSubset")
                      \cup On({"NDATA"}, "ENTITY_NONE", "entity6")]
entity6 == [none  |-> "ENTITY_NONE", rules |-> On(Names, "ENTITY_NOTATION_NAME", "declClose")]
entity7 == [none  |-> "ENTITY_NONE",
            rules |-> On({"SYSTEM"}, "ENTITY_NONE", "entity9")
                      \cup On({"PUBLIC"}, "ENTITY_NONE", "entity8")
                      \cup On(Literals, "ENTITY_VALUE", "declClose")]
entity8 == [none  |-> "ENTITY_NONE", rules |-> On(Literals, "ENTITY_PUBLIC_ID", "entity9")]
entity9 == [none  |-> "ENTITY_NONE", rules |-> On(Literals, "ENTITY_SYSTEM_ID", "entity10")]
entity10 == [none |-> "ENTITY_NONE",
             rules |-> On({">"}, "ENTITY_COMPLETE", "internalSubset")]

\* <!NOTATION name (SYSTEM "s" | PUBLIC "p" "s"?) >
notation0 == [none  |-> "NOTATION_NONE", rules |-> On(Names, "NOTATION_NAME", "notation1")]
notation1 == [none  |-> "NOTATION_NONE",
              rules |-> On({"SYSTEM"}, "NOTATION_NONE", "notation3")
                        \cup On({"PUBLIC"}, "NOTATION_NONE", "notation2")]
\* mutant: a public identifier must be followed by a system identifier
notation2Strict == [none  |-> "NOTATION_NONE",
                    rules |-> On(Literals, "NOTATION_PUBLIC_ID", "notation3")]
notation2 == [none  |-> "NOTATION_NONE",
              rules |-> On(Literals, "NOTATION_PUBLIC_ID", "notation4")]
notation3 == [none  |-> "NOTATION_NONE",
              rules |-> On(Literals, "NOTATION_SYSTEM_ID", "declClose")]
notation4 == [none  |-> "NOTATION_NONE",
              rules |-> On(Literals, "NOTATION_SYSTEM_ID", "declClose")
                        \cup On({">"}, "NOTATION_NO_SYSTEM_ID", "internalSubset")]

\* <!ATTLIST element (attribute type default)* >
attlist0 == [none  |-> "ATTLIST_NONE",
             rules |-> On(Names \cup Prefixed, "ATTLIST_ELEMENT_NAME", "attlist1")]
attlist1 == [none  |-> "ATTLIST_NONE",
             rules |-> On({">"}, "ATTLIST_NONE", "internalSubset")
                       \cup On(Names \cup Prefixed, "ATTRIBUTE_NAME", "attlist2")]
attlist2 == [none  |-> "ATTLIST_NONE",
             rules |-> On(AttTypes, "ATTRIBUTE_TYPE", "attlist8")
                       \cup On({"NOTATION"}, "ATTLIST_NONE", "attlist5")
                       \cup On({"("}, "ATTLIST_NONE", "attlist3")]
attlist3 == [none  |-> "ATTLIST_NONE",
             rules |-> On(Names \cup Prefixed \cup {"nmtoken"}, "ATTRIBUTE_ENUM_VALUE",
                          "attlist4")]
attlist4 == [none  |-> "ATTLIST_NONE",
             rules |-> On({")"}, "ATTLIST_NONE", "attlist8")
                       \cup On({"|"}, "ATTLIST_NONE", "attlist3")]
attlist5 == [none  |-> "ATTLIST_NONE", rules |-> On({"("}, "ATTLIST_NONE", "attlist6")]
attlist6 == [none  |-> "ATTLIST_NONE",
             rules |-> On(Names, "ATTRIBUTE_NOTATION_VALUE", "attlist7")]
attlist7 == [none  |-> "ATTLIST_NONE",
             rules |-> On({")"}, "ATTLIST_NONE", "attlist8")
                       \cup On({"|"}, "ATTLIST_NONE", "attlist6")]
attlist8 == [none  |-> "ATTLIST_NONE",
             rules |-> On({"#IMPLIED"}, "IMPLIED_ATTRIBUTE_VALUE", "attlist1")
                       \cup On({"#REQUIRED"}, "REQUIRED_ATTRIBUTE_VALUE", "attlist1")
                       \cup On({"#FIXED"}, "ATTLIST_NONE", "attlist9")
                       \cup On(Literals, "DEFAULT_ATTRIBUTE_VALUE", "attlist1")]
attlist9 == [none  |-> "ATTLIST_NONE",
             rules |-> On(Literals, "FIXED_ATTRIBUTE_VALUE", "attlist1")]

\* <!ELEMENT name content >: 2-5 the first group, which may be mixed, 6 and 7
\* inside a group before and after a content particle
Particle == On(Names \cup Prefixed \cup Quantified.n, "CONTENT_ELEMENT", "element7")
element0 == [none  |-> "ELEMENT_NONE",
             rules |-> On(Names \cup Prefixed, "ELEMENT_NAME", "element1")]
element1 == [none  |-> "ELEMENT_NONE",
             rules |-> On({"EMPTY"}, "CONTENT_EMPTY", "declClose")
                       \cup On({"ANY"}, "CONTENT_ANY", "declClose")
                       \cup On({"("}, "GROUP_OPEN", "element2")]
element2 == [none  |-> "ELEMENT_NONE",
             rules |-> On({"#PCDATA"}, "CONTENT_PCDATA", "element3")
                       \cup On({"("}, "GROUP_OPEN", "element6") \cup Particle]
element3 == [none  |-> "ELEMENT_NONE",
             rules |-> On({")", ")*"}, "GROUP_CLOSE", "declClose")
                       \cup On({"|"}, "ELEMENT_NONE", "element4")]
element4 == [none  |-> "ELEMENT_NONE",
             rules |-> On(Names \cup Prefixed, "CONTENT_ELEMENT", "element5")]
element5 == [none  |-> "ELEMENT_NONE",
             rules |-> On({")*"}, "GROUP_CLOSE", "declClose")
                       \cup On({"|"}, "ELEMENT_NONE", "element4")]
element6 == [none  |-> "ELEMENT_NONE",
             rules |-> On({"("}, "GROUP_OPEN", "element6") \cup Particle]
element7 == [none  |-> "ELEMENT_NONE",
             rules |-> On(Quantified.close, "GROUP_CLOSE", "element7")
                       \cup On({Comma}, "GROUP_SEQUENCE", "element6")
                       \cup On({"|"}, "GROUP_CHOICE", "element6")]

\* the end of a declaration, and the backstop no token should reach
declClose == [none |-> "ROLE_NONE", rules |-> On({">"}, "ROLE_NONE", "internalSubset")]
error     == [none |-> "NONE", rules |-> {}]

Handlers ==
  [prolog0 |-> prolog0, prolog1 |-> prolog1, prolog2 |-> prolog2,
   doctype0 |-> doctype0, doctype1 |-> doctype1, doctype2 |-> doctype2,
   doctype3 |-> doctype3, doctype4 |-> doctype4, doctype5 |-> doctype5,
   internalSubset |-> internalSubset,
   entity0 |-> entity0, entity1 |-> entity1, entity2 |-> entity2, entity3 |-> entity3,
   entity4 |-> entity4, entity5 |-> entity5, entity6 |-> entity6, entity7 |-> entity7,
   entity8 |-> entity8, entity9 |-> entity9, entity10 |-> entity10,
   notation0 |-> notation0, notation1 |-> notation1, notation2 |-> notation2,
   notation3 |-> notation3, notation4 |-> notation4,
   attlist0 |-> attlist0, attlist1 |-> attlist1, attlist2 |-> attlist2,
   attlist3 |-> attlist3, attlist4 |-> attlist4, attlist5 |-> attlist5,
   attlist6 |-> attlist6, attlist7 |-> attlist7, attlist8 |-> attlist8,
   attlist9 |-> attlist9,
   element0 |-> element0, element1 |-> element1, element2 |-> element2,
   element3 |-> element3, element4 |-> element4, element5 |-> element5,
   element6 |-> element6, element7 |-> element7,
   declClose |-> declClose, error |-> error]

\* the depth of the content model: element1 opens the first group, element2 the
\* second, element6 any further one, and element7 closes them
LevelAfter(st, tok) ==
  CASE tok = "(" /\ st.handler = "element1" -> 1
    [] tok = "(" /\ st.handler = "element2" -> 2
    [] tok = "(" /\ st.handler = "element6" -> st.level + 1
    [] tok \in Quantified.close /\ st.handler = "element7" -> st.level - 1
    [] OTHER -> st.level

XmlPrologStateInit == [handler |-> "prolog0", level |-> 0, role_none |-> "NONE"]

\* common(): no rule takes the token
common(st) == [role |-> "ERROR", st |-> [st EXCEPT !.handler = "error"]]

\* one call of the current handler: the role of the token, the state after it
XmlTokenRole(st, tok) ==
  LET here  == Handlers[st.handler]
      hits  == {r \in here.rules : r.on = tok}
      level == LevelAfter(st, tok)
      white == IF st.handler = "declClose" THEN st.role_none ELSE here.none
  IN  IF hits = {}
      THEN IF tok = "S" \/ st.handler = "error" THEN [role |-> white, st |-> st]
           ELSE common(st)
      ELSE LET r  == CHOOSE r \in hits : TRUE
               to == IF st.handler = "element7" /\ r.role = "GROUP_CLOSE" /\ level = 0
                     THEN "declClose" ELSE r.to
           IN  [role |-> IF r.role = "ROLE_NONE" THEN st.role_none ELSE r.role,
                st   |-> [handler   |-> to, level |-> level,
                          role_none |-> IF to = "declClose" THEN here.none
                                        ELSE st.role_none]]
=============================================================================
