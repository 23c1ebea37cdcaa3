------------------------------ MODULE ViewText ------------------------------
(***************************************************************************)
(* The text of the <view> element, cut out of a component's document for   *)
(* the view parser: extract_view_content of lv_xml_component.c and what it *)
(* calls.  A document is a sequence of characters; the letters of "view"   *)
(* and "[CDATA[" are one of them each.  Positions start at 1, 0 is NULL.   *)
(***************************************************************************)
EXTENDS Naturals, Sequences

Blank == {" ", "LF"}
StartsWith(doc, p, word) == /\ p + Len(word) - 1 <= Len(doc)
                            /\ \A i \in DOMAIN word : doc[p + i - 1] = word[i]
Least(S) == IF S = {} THEN 0 ELSE CHOOSE n \in S : \A m \in S : n <= m
strstr(doc, p, word) == Least({q \in p..Len(doc) : StartsWith(doc, q, word)})

\* mutant: a CDATA section is read like text
SkippedNotCdata == {[open |-> <<"<", "!", "-", "-">>, close |-> <<"-", "-", ">">>],
                    [open |-> <<"<", "?">>, close |-> <<"?", ">">>]}
Skipped == {[open |-> <<"<", "!", "-", "-">>, close |-> <<"-", "-", ">">>],
            [open |-> <<"<", "!", "[CDATA[">>, close |-> <<"]", "]", ">">>],
            [open |-> <<"<", "?">>, close |-> <<"?", ">">>]}
SkippedAt(doc, p) == {m \in Skipped : StartsWith(doc, p, m.open)}
RECURSIVE xml_find_outside_markup(_, _, _)
xml_find_outside_markup(doc, p, needle) ==
  IF p > Len(doc) THEN 0
  ELSE IF SkippedAt(doc, p) # {}
  THEN LET m == CHOOSE m \in SkippedAt(doc, p) : TRUE
           close == strstr(doc, p + Len(m.open), m.close)
       IN  IF close = 0 THEN 0 ELSE xml_find_outside_markup(doc, close + Len(m.close), needle)
  ELSE IF StartsWith(doc, p, needle) THEN p ELSE xml_find_outside_markup(doc, p + 1, needle)

\* past the start tag at tag, with whether it ended in />
RECURSIVE TagEnd(_, _, _, _)
TagEnd(doc, p, quote, slash) ==
  IF p > Len(doc) THEN [end |-> 0, self_closing |-> FALSE]
  ELSE LET c == doc[p] IN
  IF quote # "" THEN TagEnd(doc, p + 1, IF c = quote THEN "" ELSE quote, slash)
  ELSE IF c \in {"'", "\""} THEN TagEnd(doc, p + 1, c, FALSE)
  ELSE IF c = ">" THEN [end |-> p + 1, self_closing |-> slash]
  ELSE TagEnd(doc, p + 1, "", c = "/" \/ (c \in Blank /\ slash))
xml_skip_start_tag(doc, tag) == TagEnd(doc, tag, "", FALSE)

RECURSIVE ViewFrom(_, _)
ViewFrom(doc, p) ==
  LET start == xml_find_outside_markup(doc, p, <<"<", "view">>)
      ends  == start + 2 > Len(doc) \/ doc[start + 2] \in {">", "/"} \cup Blank
  IN  IF start = 0 \/ ends THEN start ELSE ViewFrom(doc, start + 1)
xml_find_view_start(doc) == ViewFrom(doc, 1)

extract_view_content(doc) ==
  LET start == xml_find_view_start(doc)
      tag   == xml_skip_start_tag(doc, start)
      close == xml_find_outside_markup(doc, tag.end, <<"<", "/", "view", ">">>)
  IN  IF start = 0 THEN <<>>
      ELSE IF tag.end = 0 THEN <<>>
      ELSE IF tag.self_closing THEN SubSeq(doc, start, tag.end - 1)
      ELSE IF close = 0 THEN <<>>
      ELSE SubSeq(doc, start, close + 3)
=============================================================================
