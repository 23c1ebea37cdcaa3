--------------------------- MODULE MCXmlDocument ---------------------------
(***************************************************************************)
(* Instances of XmlDocument.  Five families read one kind of declaration   *)
(* each, offering every token of its alphabet at every place; the others   *)
(* read declarations that are well formed and vary what they declare, or   *)
(* vary the content.                                                       *)
(***************************************************************************)
EXTENDS XmlGrammar

MCWords    == {"n", "m", "e", "a", "b", "amp"}
MCLiterals == {"q", "bad", "wide", "ref"}
MCText == [q    |-> <<"x">>, bad |-> <<"x", Space>>,
           wide |-> <<Space, "x", "#32", Space, "x", "#32">>, ref |-> <<"n", Space>>]

Open == {"<!DOCTYPE", "n", "[", "]", ">", "<e"}
MCChecked == {"doctype", "entity", "notation", "attlist", "element"}
MCAlphabet ==
  [doctype  |-> Open \cup {"SYSTEM", "PUBLIC", "q", "bad", "S", "BOM", "xmldecl", "PI",
                           "comment", "%pe"},
   entity   |-> Open \cup {"<!ENTITY", "%", "SYSTEM", "PUBLIC", "NDATA", "q", "bad"},
   notation |-> Open \cup {"<!NOTATION", "SYSTEM", "PUBLIC", "q", "bad"},
   attlist  |-> Open \cup {"<!ATTLIST", "NOTATION", "(", ")", "|", "nmtoken", "#IMPLIED",
                           "#FIXED", "q"},
   element  |-> Open \cup {"<!ELEMENT", "(", ")", ")*", "|", Comma, "n?", "#PCDATA", "EMPTY",
                           "ANY"}]

\* the tokens offered at a handler, nothing elsewhere
At(h, tokens)  == [x \in {h} |-> tokens]
Offer(menu) == [h \in DOMAIN Handlers |-> IF h \in DOMAIN menu THEN menu[h] ELSE {}]
Opened == [prolog0 |-> {"<!DOCTYPE"}, doctype0 |-> {"n"}, doctype1 |-> {"["},
           doctype5 |-> {">"}, prolog2 |-> {"<e"}, declClose |-> {">"}]
With(f, g) == [x \in DOMAIN f \cup DOMAIN g |-> IF x \in DOMAIN g THEN g[x] ELSE f[x]]

MCFamilies == MCChecked \cup {"attributes", "attlists", "entities", "content"}
MCMenu == [f \in MCFamilies |->
  CASE f \in MCChecked -> [h \in DOMAIN Handlers |-> MCAlphabet[f]]
    [] f \in {"attributes", "attlists"} -> Offer(With(Opened,
         [internalSubset |-> {"<!ATTLIST", "]"}, attlist0 |-> {"e"},
          attlist1 |-> {"a", "b", ">"}, attlist2 |-> {"CDATA", "ID"},
          attlist8 |-> {"#IMPLIED", "wide", "q"}]))
    [] f = "entities" -> Offer(With(Opened,
         [prolog0 |-> {"<!DOCTYPE", "standalone"}, prolog1 |-> {"<!DOCTYPE"},
          doctype1 |-> {"[", "SYSTEM"}, doctype3 |-> {"q"}, doctype4 |-> {"["},
          internalSubset |-> {"<!ENTITY", "<!ATTLIST", "]"}, entity0 |-> {"n", "m", "amp", "%"},
          entity1 |-> {"n"}, entity7 |-> {"q"},
          entity2 |-> {"q", "SYSTEM"}, entity4 |-> {"q"}, entity5 |-> {">", "NDATA"},
          entity6 |-> {"m"}, attlist0 |-> {"e"}, attlist1 |-> {"a", ">"},
          attlist2 |-> {"CDATA"}, attlist8 |-> {"ref"}]))
    [] f = "content" -> Offer(At("prolog0", {"<e"}))]

Att(a, text) == [id |-> a, text |-> text]
MCTagged == [f \in MCFamilies |->
  CASE f \in {"attributes", "attlists"} -> UNION {[1..n -> {Att(a, t) : a \in {"a", "b"}, t \in {"q", "wide"}}] :
                                    n \in 0..2}
    [] f = "entities" -> {<<>>, <<Att("a", "ref")>>}
    [] OTHER -> {<<>>}]
MCMaxSentence == [f \in MCFamilies |-> CASE f = "attributes" -> 9 [] f = "attlists" -> 6
                                            [] OTHER -> 7]
MCMaxDecls == [f \in MCFamilies |-> IF f \in {"attlists", "entities"} THEN 3 ELSE 2]
MCMaxEvents == [f \in MCFamilies |-> CASE f = "content" -> 5 [] f = "entities" -> 2
                                          [] OTHER -> 1]
=============================================================================
