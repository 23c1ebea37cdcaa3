---------------------------- MODULE Expressions ----------------------------
(***************************************************************************)
(* Subject expressions, src/src/xml/lv_xml_expr.c: the tokenizer, the      *)
(* parser with its precedence levels, the collection of the subjects to    *)
(* observe, and the evaluator.                                             *)
(*                                                                         *)
(* A text is a sequence of characters; the letters of a word operator are  *)
(* one of them ("and"), since nothing looks inside.  Integers stay in a    *)
(* range where nothing overflows.                                          *)
(***************************************************************************)
EXTENDS Integers, Sequences

CONSTANTS
  SubjectOf,      \* [names -> subjects], the scope's subjects; a name is a text
  MaxName,        \* 63, the characters of a name that are looked up
  MaxTokens,      \* 128, LV_XML_EXPR_MAX_TOKENS
  MaxSubjects     \* 32, the subjects an expression observes

Words   == [and |-> "&&", or |-> "||", not |-> "!", eq |-> "==", lt |-> "<", ge |-> ">="]
Letters == DOMAIN Words \cup {"a", "b", "i", "s", "u"}
Numerals == <<"0", "1", "2", "3", "4", "5", "6", "7", "8", "9">>
Digits  == {Numerals[k] : k \in DOMAIN Numerals}
Value   == [d \in Digits |-> CHOOSE n \in 0..9 : Numerals[n + 1] = d]
Space   == {" ", "LF"}
Single  == {"(", ")", "+", "-", "*", "/", "%"}
Alone   == {"!", "<", ">"}
Doubled == [c \in Alone \cup {"&", "|", "="} |-> IF c \in Alone THEN "=" ELSE c]

Token(kind, of) == [kind |-> kind, of |-> of]
EOF == Token("EOF", <<>>)
RunFrom(s, i, S) == CHOOSE n \in i..(Len(s) + 1) : /\ \A k \in i..(n - 1) : s[k] \in S
                                                   /\ n <= Len(s) => s[n] \notin S
Cut(word) == IF Len(word) > MaxName THEN SubSeq(word, 1, MaxName) ELSE word
word_kind(word) == IF Len(word) = 1 /\ word[1] \in DOMAIN Words THEN Token(Words[word[1]], <<>>)
                   ELSE Token("IDENT", word)
RECURSIVE IntOf(_)
IntOf(digits) == IF digits = <<>> THEN 0
                 ELSE 10 * IntOf(SubSeq(digits, 1, Len(digits) - 1)) + Value[digits[Len(digits)]]

\* the tokens of s from i on
RECURSIVE TokensFrom(_, _)
TokensFrom(s, i) ==
  LET then(token, n) == <<token>> \o TokensFrom(s, n)
      c   == s[i]
      n   == RunFrom(s, i, IF c \in Digits THEN Digits ELSE Letters \cup Digits)
      run == SubSeq(s, i, n - 1)
  IN  CASE i > Len(s)       -> <<EOF>>
        [] c \in Space      -> TokensFrom(s, i + 1)
        [] c \in Digits     -> then(Token("INT", run), n)
        [] c \in Letters    -> then(word_kind(run), n)
        [] c \in Single     -> then(Token(c, <<>>), i + 1)
        [] c \in DOMAIN Doubled /\ i < Len(s) /\ s[i + 1] = Doubled[c] ->
             then(Token(c \o Doubled[c], <<>>), i + 2)
        [] c \in Alone -> then(Token(c, <<>>), i + 1)
        [] OTHER            -> then(Token("ERROR", <<>>), i + 1)
tokenize(s) == TokensFrom(s, 1)

----------------------------------------------------------------------------
(* The parser: one operator for all binary levels, weakest first.  A parse  *)
(* goes on after an error, the result is thrown away at the end.            *)

Ops == <<{"||"}, {"&&"}, {"==", "!=", "<", "<=", ">", ">="}, {"+", "-"}, {"*", "/", "%"}>>
NoTree == <<"null">>
At(pos, error, subs, node) == [pos |-> pos, error |-> error, subs |-> subs, node |-> node]
Failed(r) == [r EXCEPT !.error = TRUE]

collect_subject(subs, s) ==
  IF (\E i \in DOMAIN subs : subs[i] = s) \/ Len(subs) = MaxSubjects THEN subs
  ELSE Append(subs, s)

RECURSIVE parse_bin(_, _, _), parse(_, _, _)
parse_primary(t, r) ==
  LET token == t[r.pos]
      name  == Cut(token.of)
      next  == [r EXCEPT !.pos = @ + 1]
  IN  CASE token.kind = "INT"   -> [next EXCEPT !.node = <<"int", IntOf(token.of)>>]
        [] token.kind = "IDENT" ->
             IF name \in DOMAIN SubjectOf
             THEN [next EXCEPT !.node = <<"sub", SubjectOf[name]>>,
                               !.subs = collect_subject(@, SubjectOf[name])]
             ELSE Failed([next EXCEPT !.node = NoTree])
        [] token.kind = "("     ->
             LET inside == parse(t, 1, next)
             IN  IF t[inside.pos].kind = ")" THEN [inside EXCEPT !.pos = @ + 1]
                 ELSE Failed(inside)
        [] OTHER -> Failed([r EXCEPT !.node = NoTree])
RECURSIVE parse_unary(_, _)
parse_unary(t, r) ==
  IF t[r.pos].kind \in {"!", "-"}
  THEN LET under == parse_unary(t, [r EXCEPT !.pos = @ + 1])
       IN  [under EXCEPT !.node = <<"unary", t[r.pos].kind, @>>]
  ELSE parse_primary(t, r)
\* mutant: what follows an operator is read at its own level
parse_binRight(t, level, left) ==
  IF t[left.pos].kind \notin Ops[level] THEN left
  ELSE LET right == parse(t, level, [left EXCEPT !.pos = @ + 1])
       IN  [right EXCEPT !.node = <<"binary", t[left.pos].kind, left.node, @>>]
parse_bin(t, level, left) ==
  IF t[left.pos].kind \notin Ops[level] THEN left
  ELSE LET right == parse(t, level + 1, [left EXCEPT !.pos = @ + 1])
       IN  parse_bin(t, level,
                     [right EXCEPT !.node = <<"binary", t[left.pos].kind, left.node, @>>])
parse(t, level, r) == IF level > Len(Ops) THEN parse_unary(t, r)
                      ELSE parse_bin(t, level, parse(t, level + 1, r))

\* the root and the subjects to observe; no expression has the root NoTree
compile(s) ==
  LET t    == tokenize(s)
      read == parse(t, 1, At(1, FALSE, <<>>, NoTree))
      bad  == \/ s = <<>> \/ Len(t) > MaxTokens
              \/ \E i \in DOMAIN t : t[i].kind = "ERROR"
  IN  IF bad THEN [root |-> NoTree, subjects |-> <<>>]
      ELSE IF read.error \/ t[read.pos] # EOF THEN [root |-> NoTree, subjects |-> <<>>]
      ELSE [root |-> read.node, subjects |-> read.subs]

----------------------------------------------------------------------------
Truth(b) == IF b THEN 1 ELSE 0
Abs(n) == IF n < 0 THEN -n ELSE n
\* division as C has it, toward zero
Quotient(l, r)  == LET q == Abs(l) \div Abs(r) IN IF (l < 0) = (r < 0) THEN q ELSE -q
Remainder(l, r) == l - (Quotient(l, r) * r)
Apply(op, l, r) ==
  CASE op = "==" -> Truth(l = r) [] op = "!=" -> Truth(l # r)
    [] op = "<"  -> Truth(l < r) [] op = "<=" -> Truth(l <= r)
    [] op = ">"  -> Truth(l > r) [] op = ">=" -> Truth(l >= r)
    [] op = "+"  -> l + r [] op = "-" -> l - r [] op = "*" -> l * r
    [] op = "/"  -> IF r = 0 THEN 0 ELSE Quotient(l, r)
    [] op = "%"  -> IF r = 0 THEN 0 ELSE Remainder(l, r)

RECURSIVE eval_node(_, _)
eval_node(n, values) ==
  CASE n[1] = "int" -> n[2]
    [] n[1] = "sub" -> values[n[2]]
    [] n[1] = "unary" -> IF n[2] = "!" THEN Truth(eval_node(n[3], values) = 0)
                         ELSE -eval_node(n[3], values)
    [] n[1] = "binary" /\ n[2] = "&&" -> IF eval_node(n[3], values) = 0 THEN 0
                                         ELSE Truth(eval_node(n[4], values) # 0)
    [] n[1] = "binary" /\ n[2] = "||" -> IF eval_node(n[3], values) # 0 THEN 1
                                         ELSE Truth(eval_node(n[4], values) # 0)
    [] OTHER -> Apply(n[2], eval_node(n[3], values), eval_node(n[4], values))
=============================================================================
