------------------------------ MODULE Authored ------------------------------
(***************************************************************************)
(* What an author writes: a subject expression, a component's document     *)
(* around its <view>, or the elements of views (Resolution).  A text grows *)
(* piece by piece; what it means is stated here from its structure, and    *)
(* not from the code that reads it.                                        *)
(***************************************************************************)
EXTENDS Expressions, Resolution

CONSTANTS
  Kinds,        \* kinds of expressions
  Pieces,       \* [Kinds -> sets of texts]
  Documents,    \* what a document consists of: records of its pieces
  MaxPieces     \* [Kinds \cup {"document"} -> Nat], 0 for "elements"

VARIABLES kind, text, count,
          view      \* of a document: whether <view> is open, and where it begins and ends
textVars == <<kind, text, count, view>>
vars == <<kind, text, count, view, frames, translating, applied>>

View == INSTANCE ViewText

----------------------------------------------------------------------------
\* the tokens of an expression: the longest lexeme at each place
Signs == {<<c>> : c \in Single \cup Alone} \cup {<<c, Doubled[c]>> : c \in DOMAIN Doubled}
Numbers(w) == \A i \in DOMAIN w : w[i] \in Digits
Word(w)    == w[1] \in Letters /\ \A i \in DOMAIN w : w[i] \in Letters \cup Digits
IsLexeme(w) == Numbers(w) \/ Word(w) \/ w \in Signs
Most(S) == CHOOSE n \in S : \A m \in S : m <= n
TokenOf(w) == IF Numbers(w) THEN Token("INT", w)
              ELSE IF w \in Signs THEN Token(IF Len(w) = 1 THEN w[1] ELSE w[1] \o w[2], <<>>)
              ELSE IF Len(w) = 1 /\ w[1] \in DOMAIN Words THEN Token(Words[w[1]], <<>>)
              ELSE Token("IDENT", w)
RECURSIVE Lexed(_)
Lexed(s) ==
  IF s = <<>> THEN <<>>
  ELSE IF s[1] \in Space THEN Lexed(Tail(s))
  ELSE LET ends == {n \in DOMAIN s : IsLexeme(SubSeq(s, 1, n))}
       IN  IF ends = {} THEN <<Token("ERROR", <<>>)>> \o Lexed(Tail(s))
           ELSE <<TokenOf(SubSeq(s, 1, Most(ends)))>> \o Lexed(SubSeq(s, Most(ends) + 1, Len(s)))

Level(op)     == CHOOSE l \in DOMAIN Ops : op \in Ops[l]
AllOps        == UNION {Ops[l] : l \in DOMAIN Ops}
EndsOperand(token) == token.kind \in {"INT", "IDENT", ")"}
Behind(t, i)  == i > 1 /\ EndsOperand(t[i - 1])
Depth(t, i)   == LET f[k \in 0..i] == IF k = 0 THEN 0
                                      ELSE f[k - 1] + (IF t[k].kind = "(" THEN 1
                                                       ELSE IF t[k].kind = ")" THEN -1 ELSE 0)
                 IN  f[i]
Viable(t)     == \A i \in DOMAIN t :
                   /\ t[i].kind \in IF Behind(t, i) THEN AllOps \cup {")"}
                                    ELSE {"INT", "IDENT", "(", "!", "-"}
                   /\ Depth(t, i) >= 0
WellFormed(t) == t # <<>> /\ Viable(t) /\ Depth(t, Len(t)) = 0 /\ EndsOperand(t[Len(t)])
Splits(t)     == {i \in DOMAIN t : t[i].kind \in AllOps /\ Behind(t, i) /\ Depth(t, i) = 0}
Last(t)       == LET weakest == {i \in Splits(t) : \A j \in Splits(t) :
                                                     Level(t[i].kind) <= Level(t[j].kind)}
                 IN  Most(weakest)
RECURSIVE Tree(_)
Tree(t) ==
  CASE Splits(t) # {} -> <<"binary", t[Last(t)].kind, Tree(SubSeq(t, 1, Last(t) - 1)),
                           Tree(SubSeq(t, Last(t) + 1, Len(t)))>>
    [] t[1].kind \in {"!", "-"} -> <<"unary", t[1].kind, Tree(Tail(t))>>
    [] t[1].kind = "("   -> Tree(SubSeq(t, 2, Len(t) - 1))
    [] t[1].kind = "INT" -> <<"int", IntOf(t[1].of)>>
    [] OTHER             -> <<"sub", SubjectOf[Cut(t[1].of)]>>

Mentions(t)  == {i \in DOMAIN t : t[i].kind = "IDENT"}
Resolved(t)  == \A i \in Mentions(t) : Cut(t[i].of) \in DOMAIN SubjectOf
SubjectAt(t, i) == SubjectOf[Cut(t[i].of)]
Mentioned(t, n) == {SubjectAt(t, i) : i \in {i \in Mentions(t) : i <= n}}
Enough(t)    == {n \in 0..Len(t) : Cardinality(Mentioned(t, n)) <= MaxSubjects}

Subjects == {SubjectOf[n] : n \in DOMAIN SubjectOf}
Valuations == [Subjects -> {-1, 0, 2}]
Divided(l, r) == CHOOSE q \in -Abs(l)..Abs(l) :
                   /\ Abs(q * r) <= Abs(l) /\ Abs(l) - Abs(q * r) < Abs(r)
                   /\ q # 0 => ((q < 0) <=> ((l < 0) # (r < 0)))
RECURSIVE ValueMeant(_, _)
ValueMeant(n, values) ==
  LET l == ValueMeant(n[3], values)
      r == ValueMeant(n[4], values)
  IN  CASE n[1] = "int"   -> n[2]
        [] n[1] = "sub"   -> values[n[2]]
        [] n[1] = "unary" -> IF n[2] = "-" THEN -l ELSE Truth(l = 0)
        [] n[2] = "&&"    -> Truth(l # 0 /\ r # 0)
        [] n[2] = "||"    -> Truth(l # 0 \/ r # 0)
        [] n[2] \in {"/", "%"} /\ r = 0 -> 0
        [] n[2] = "/"     -> Divided(l, r)
        [] n[2] = "%"     -> l - (r * Divided(l, r))
        [] OTHER          -> Apply(n[2], l, r)

\* Whatever is written: a text compiles exactly if it is an expression, within the
\* limit of tokens, whose names are known; the tree has the precedence of the
\* operators, the same levels growing to the left; a binding observes what the
\* expression mentions, up to its limit; and the value is the one of the tree.
\* (lv_xml_expr.c:120-223)
ExpressionMeans ==
  kind \in Kinds =>
    LET c == compile(text)
        t == Lexed(text)
    IN  /\ c.root # NoTree <=> /\ WellFormed(t) /\ Len(t) < MaxTokens
                             /\ Resolved(t)
        /\ c.root # NoTree =>
             /\ c.root = Tree(t)
             /\ Len(c.subjects) = Cardinality({c.subjects[i] : i \in DOMAIN c.subjects})
             /\ {c.subjects[i] : i \in DOMAIN c.subjects} = Mentioned(t, Most(Enough(t)))
             /\ \A values \in Valuations : eval_node(c.root, values) = ValueMeant(Tree(t), values)

----------------------------------------------------------------------------
\* A document is written as its pieces: <view> with a start and an end tag or alone,
\* and around and inside it comments, CDATA sections, processing instructions, other
\* elements and text.
Whole == text \o <<"<", "/", "component", ">">>
\* The view parser gets the <view> element, all of it and nothing else, whatever
\* the comments, sections, instructions and attribute values of the document look
\* like (extract_view_content, lv_xml_component.c:1877-2006): a text cut short is
\* stored and fails at every later create.
ViewExtracted ==
  kind = "document" /\ view.to # 0 =>
    View!extract_view_content(Whole) = SubSeq(text, view.from, view.to)

Init == /\ kind \in Kinds \cup {"document", "elements"}
        /\ text = IF kind = "document" THEN <<"<", "component", ">">> ELSE <<>>
        /\ count = 0 /\ view = [from |-> 0, to |-> 0]
        /\ attrInit /\ (kind # "elements" => translating)

Put(piece) == /\ count < MaxPieces[kind] /\ count' = count + 1
              /\ text' = text \o piece
              /\ UNCHANGED <<kind, attrVars>>
Type(piece) == kind \in Kinds /\ Viable(Lexed(text)) /\ Put(piece) /\ UNCHANGED view
Insert(piece) == kind = "document" /\ Put(piece) /\ UNCHANGED view
Start(piece) == /\ kind = "document" /\ view.from = 0
                /\ Put(piece) /\ view' = [view EXCEPT !.from = Len(text) + 1]
End(piece)   == /\ kind = "document" /\ view.from # 0 /\ view.to = 0
                /\ Put(piece) /\ view' = [view EXCEPT !.to = Len(text) + Len(piece)]
Empty(piece) == /\ kind = "document" /\ view.from = 0
                /\ Put(piece)
                /\ view' = [from |-> Len(text) + 1, to |-> Len(text) + Len(piece)]
Next == \/ kind \in Kinds /\ \E p \in Pieces[kind] : Type(p)
        \/ \E p \in Documents.inserts : Insert(p)
        \/ \E p \in Documents.starts : Start(p)
        \/ \E p \in Documents.ends : End(p)
        \/ \E p \in Documents.empties : Empty(p)
        \/ kind = "elements" /\ attrNext /\ UNCHANGED textVars
Spec == Init /\ [][Next]_vars
=============================================================================
