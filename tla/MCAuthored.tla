----------------------------- MODULE MCAuthored -----------------------------
EXTENDS Authored

MCSubjectOf == [n \in {<<"a">>, <<"b">>, <<"a", "b">>} |->
                  IF n = <<"a">> THEN "s" ELSE IF n = <<"b">> THEN "t" ELSE "u"]
MCKinds == {"levels", "groups", "values", "names"}
And == <<"&", "&">>
Or  == <<"|", "|">>
MCPieces == [k \in MCKinds |->
  CASE k = "levels" -> {<<"a">>, <<"2">>, <<"-">>, <<"*">>, <<"<">>, And, Or, <<"(">>, <<")">>}
    [] k = "groups" -> {<<"a">>, <<"-">>, <<"*">>, <<"(">>, <<")">>}
    [] k = "values" -> {<<"a">>, <<"b">>, <<"a", "b">>, <<"/">>, <<"%">>, <<"-">>, <<"!">>, And, Or,
                        <<"!", "=">>}
    [] k = "names"  -> {<<"a">>, <<"b">>, <<"1">>, <<" ">>, <<"and">>, <<"not">>, <<"&">>, <<"<">>,
                        <<"=">>, <<"!">>}]

Chars(open, inside, close) == open \o inside \o close
Comment(inside) == Chars(<<"<", "!", "-", "-">>, inside, <<"-", "-", ">">>)
Section(inside) == Chars(<<"<", "!", "[CDATA[">>, inside, <<"]", "]", ">">>)
Instruction(inside) == Chars(<<"<", "?", "n", " ">>, inside, <<"?", ">">>)
StartTag == <<"<", "view", ">">>
EndTag   == <<"<", "/", "view", ">">>
ViewTag(inside) == Chars(<<"<", "view">>, inside, <<">">>)
Att(quote, value) == <<" ", "a", "=", quote>> \o value \o <<quote>>
MCDocuments ==
  [inserts |-> {Comment(StartTag), Comment(EndTag), Section(EndTag), Section(<<"<", "!", "-", "-">>),
                Instruction(EndTag), Instruction(<<"-", "-">>), <<"-", "-", ">">>,
                <<"<", "view", "port", "/", ">">>,
                <<"<", "n">> \o Att("'", <<"?", ">", "/", ">">>) \o <<"/", ">">>},
   starts  |-> {StartTag, ViewTag(Att("'", <<">">>)), ViewTag(Att("\"", <<"'", "/">>) \o <<"LF">>)},
   empties |-> {ViewTag(<<"/">>), ViewTag(Att("'", <<">">>) \o <<" ", "/">>)},
   ends    |-> {EndTag}]
MCMaxPieces == [k \in MCKinds \cup {"document"} |->
  CASE k = "levels" -> 5 [] k = "groups" -> 7 [] k = "values" -> 5 [] k = "names" -> 4
    [] k = "document" -> 4]

----------------------------------------------------------------------------
MCComponents == {"card", "row"}
Param(name, style, def) == [name |-> name, style |-> style, def |-> def]
MCParams == [c \in MCComponents |->
  IF c = "card" THEN <<Param(<<"a">>, FALSE, Null), Param(<<"a", "_tag">>, FALSE, Null),
                       Param(<<"s">>, TRUE, <<"st">>)>>
  ELSE <<Param(<<"a">>, FALSE, <<"#", "k">>), Param(<<"b">>, FALSE, <<"2">>),
         Param(<<"s">>, TRUE, Null), Param(<<"b", "_tag">>, FALSE, Null)>>]
MCConsts == [c \in MCComponents \cup {"globals"} |->
  IF c = "row" THEN [n \in {<<"k">>} |-> <<"#", Hex>>]
  ELSE IF c = "globals" THEN [n \in {<<"k">>} |-> <<"7">>] ELSE <<>>]
MCStyles == [c \in MCComponents \cup {"globals"} |-> IF c = "row" THEN {"rt"} ELSE {"st"}]
MCSubjectValue == [n \in {<<"b">>} |-> 5]
MCChains == [w \in {"label", "box", "events"} |->
  IF w = "events" THEN <<>>
  ELSE IF w = "box" THEN <<{<<"x">>, <<"styles">>}>>
  ELSE <<{<<"x">>, <<"styles">>}, {<<"text">>, <<"bind_text">>, TranslationTag}>>]
MCKeys == {<<"x">>, <<"Save">>}

X == Literal(<<"x">>)
Values == {X, Literal(<<>>), Literal(<<"#", Hex>>), Literal(<<"Q">>),
           Parameter(<<"a">>), Parameter(<<"b">>), Parameter(<<"i">>), Parameter(<<"s">>),
           Parameter(<<"u">>), Constant(<<"k">>), Constant(<<"u">>), Negated(<<"k">>),
           Compared(<<"a">>, <<"x">>), Compared(<<"u">>, <<"x">>),
           Composed(<<X, Parameter(<<"a">>)>>), Composed(<<Parameter(<<"i">>), X>>),
           Composed(<<Following(<<"i">>)>>), Composed(<<Following(<<"b">>), Parameter(<<"s">>)>>)}
Few == {X, Literal(<<"#", Hex>>), Parameter(<<"a">>), Parameter(<<"i">>), Constant(<<"k">>),
        Composed(<<X, Parameter(<<"a">>)>>)}
Laidout == {<<"LF", " ">>, <<"LF", " ", "x", " ", "LF", "x", " ">>, <<"TAB", "#", Hex>>, <<"x", "x", "CR", "LF">>,
            <<"x", "TAB", "Save", " ", " ", "x">>}
El(name, attrs, inline) == [name |-> name, attrs |-> attrs, inline |-> inline]
None == Literal(<<>>)
Widgets ==
  {El("label", <<<<<<"text">>, v>>>>, None) : v \in Values}
  \cup {El("box", <<<<n, v>>, <<<<"text">>, w>>>>, None) :
          n \in {<<"x">>, <<"name">>, <<"misspelt">>}, v \in Few, w \in {X, Parameter(<<"b">>)}}
  \cup {El("label", a, v) : a \in {<<>>, <<<<<<"x">>, X>>>>}, v \in Values}
  \cup {El("label", <<<<<<"bind_text">>, X>>>>, X)}
  \cup {El("label", <<>>, Literal(t)) : t \in Laidout}
  \cup {El("label", <<<<<<"text">>, v>>, <<n, w>>>>, None) :
          n \in {<<"bind_text">>, TranslationTag}, v \in {X, Parameter(<<"a">>)}, w \in {None, Constant(<<"u">>)}}
  \cup {El("events", <<<<<<"x">>, X>>, <<<<"y">>, v>>>>, None) : v \in Few}
  \cup {El("label", <<<<<<"styles">>, v>>>>, None) : v \in {X, Constant(<<"k">>), Negated(<<"k">>)}}
  \cup {El("box", <<<<<<"x">>, X>>, <<<<"y">>, X>>, <<<<"extends">>, X>>, <<<<"z">>, X>>>>, None)}
Instances(c) ==
  {El(c, <<<<<<"a">>, v>>>>, None) : v \in Values}
  \cup {El(c, <<<<<<"s">>, v>>, <<<<"text">>, w>>>>, None) :
          v \in {Literal(<<"st">>), Literal(<<"rt">>), Literal(<<"globals", ".", "st">>), Parameter(<<"s">>)},
          w \in {X, Parameter(<<"a">>)}}
  \cup {El(c, <<<<<<"b">>, v>>>>, None) : v \in {Literal(<<"4">>), Parameter(<<"i">>), Literal(<<"Save">>)}}
  \cup {El(c, <<<<<<"a", "_text">>, v>>, <<<<"x">>, v>>>>, None) : v \in {Literal(<<"Save">>), Constant(<<"k">>)}}
MCElements == [c \in MCComponents |-> Widgets \cup Instances("row") \cup Instances("card")]
MCBodies == [c \in MCComponents |->
  {e \in MCElements[c] : /\ Len(e.attrs) = 1
                         /\ e.attrs[1][2] \in {Parameter(<<"i">>), Composed(<<Parameter(<<"i">>), X>>),
                                               Composed(<<Following(<<"i">>)>>), Parameter(<<"a">>)}}]
MCCounts == {Literal(<<>>), Literal(<<"2">>), Literal(<<"-", "1">>), Literal(<<"+", "1">>), Literal(<<"b">>),
             Literal(<<"u">>), Constant(<<"k">>), Constant(<<"u">>)}
MCCallers == {[name |-> "label", attrs |-> <<<<<<"text">>, <<"$", "a">>>>, <<<<"misspelt">>, <<"x">>>>>>],
              [name |-> "label", attrs |-> <<<<<<"y">>, <<"x">>>>>>],
              [name |-> "card", attrs |-> <<<<<<"a">>, <<"#", "k">>>>, <<<<"s">>, <<"st">>>>>>],
              [name |-> "card", attrs |-> <<>>],
              [name |-> "row", attrs |-> <<<<<<"a">>, <<"$", "a">>>>, <<<<"x">>, <<"x">>>>>>],
              [name |-> "row", attrs |-> <<<<<<"a">>, <<"x">>>>>>]}
=============================================================================
