---------------------------- MODULE MCXmlLexemes ----------------------------
EXTENDS XmlLexemes

MCFamilies == {"tag", "value", "comment", "instruction", "opening", "section", "text",
               "reference", "literal", "words", "groups", "declaration", "attribute",
               "number", "decimal", "predefined", "quotes", "public"}
Of(open, in, letters, n, tokens) ==
  [open |-> open, in |-> in, letters |-> letters, text |-> n, tokens |-> tokens]
SpelledOpening == <<"<", "!", "[", "C", "D", "A", "T", "A", "[">>
MC == [f \in MCFamilies |->
  CASE f = "tag" -> Of(<<"<">>, "content", {"n", "1", " ", "=", "'", "/", ">"}, 9, 1)
    [] f = "value" -> Of(<<"<", "n", " ", "n", "=", "'">>, "content",
                         {"n", "'", "\"", "&", "1", ";", "#", "x", " ", "<", ">"}, 11, 1)
    [] f = "comment" -> Of(<<"<", "!">>, "content", {"-", "n", ">", "NUL", "["}, 9, 1)
    [] f = "instruction" -> Of(<<"<", "?">>, "content",
                               {"x", "m", "l", "X", "n", " ", "?", ">"}, 8, 1)
    [] f = "opening" -> Of(SubSeq(SpelledOpening, 1, 4), "content", {"D", "A", "T", "["}, 9, 1)
    [] f = "section" -> Of(SpelledOpening, "content",
                           {"]", "n", ">", "<", "&", "LF", "CR"}, 13, 9)
    [] f = "text" -> Of(<<>>, "content", {"n", "]", ">", "CR", "LF", "&", "<", "NUL"}, 5, 9)
    [] f = "reference" -> Of(<<"&">>, "content", {"#", "x", "1", "f", "n", ";", "m"}, 6, 1)
    [] f = "number"  -> Of(<<"&", "#", "x">>, "content", {"0", "1", "D", "f", ";"}, 10, 1)
    [] f = "decimal" -> Of(<<"&", "#">>, "content", {"0", "1", ";"}, 11, 1)
    [] f = "predefined" -> Of(<<"&">>, "content", {"l", "t", "g", "a", "m", "p", ";"}, 6, 1)
    [] f = "quotes" -> Of(<<"&">>, "content", {"q", "u", "o", "t", "a", "p", "s", ";"}, 6, 1)
    [] f = "public" -> Of(<<"\"">>, "prolog",
                          {"\"", "'", "n", " ", "TAB", "CR", "<", "&", "$", "%", ">"}, 5, 1)
    [] f = "literal" -> Of(<<>>, "prolog", {"'", "\"", "n", " ", ">", "["}, 5, 9)
    [] f = "words" -> Of(<<>>, "prolog", {"n", "1", "+", "%", ";", "#", " ", ">", "|"}, 4, 9)
    [] f = "groups" -> Of(<<>>, "prolog", {"n", "(", ")", "*", "?", "]", ">", "["}, 4, 9)
    [] f = "declaration" -> Of(<<>>, "prolog", {"<", "!", "n", "%", "CR", "LF", ";", "["}, 5, 9)
    [] f = "attribute" -> Of(<<>>, "attribute value",
                             {"n", " ", "CR", "LF", "&", ";", "#", "1", "<"}, 5, 9)]
MCScanner   == [f \in MCFamilies |-> MC[f].in]
MCOpening   == [f \in MCFamilies |-> MC[f].open]
MCAlphabet  == [f \in MCFamilies |-> MC[f].letters]
MCMaxText   == [f \in MCFamilies |-> MC[f].text]
MCMaxTokens == [f \in MCFamilies |-> MC[f].tokens]
=============================================================================
