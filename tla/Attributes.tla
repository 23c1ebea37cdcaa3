----------------------------- MODULE Attributes -----------------------------
(***************************************************************************)
(* How the attributes of an element become what a widget is given:         *)
(* parameters, constants, composed values, implied translation tags and    *)
(* inline text, resolve_params() to apply_pending_inline_text() of         *)
(* src/src/xml/lv_xml.c.  A frame f is the view that is parsed: its scope, *)
(* that of the view its instance stands in, the attributes of the          *)
(* instance, and the index of a <repeat> that is replayed.                 *)
(*                                                                         *)
(* A text is a sequence of symbols; a name, six hex digits and a sign      *)
(* count as one symbol each.  Constants do not name constants.             *)
(***************************************************************************)
EXTENDS AttrCheck, Integers

CONSTANTS
  Components,   \* names of components
  Params,       \* [Components -> sequences of [name, style, def]]
  Consts,       \* [Components \cup {"globals"} -> [names -> texts]]
  Styles,       \* [Components \cup {"globals"} -> sets of names]
  SubjectValue, \* [names -> Int], the subjects of all scopes
  Chains,       \* [widgets -> sequences of sets of names], what each chain knows
  Keys,         \* the texts the translation callback accepts
  MaxRepeats    \* the limit of <repeat>

Null    == <<"NULL">>
NoIndex == -1
Hex     == "1F1F1F"
Expr(SubjectOf) == INSTANCE Expressions WITH MaxName <- 63, MaxTokens <- 128, MaxSubjects <- 32

Begins(t, symbol) == t # <<>> /\ t[1] = symbol
First(S) == CHOOSE n \in S : \A m \in S : n <= m
value_of(attrs, name) ==
  LET at == {i \in DOMAIN attrs : attrs[i][1] = name}
  IN  IF at = {} THEN Null ELSE attrs[First(at)][2]
RECURSIVE DecimalOf(_)
DecimalOf(n) == LET X == Expr(<<>>)!Numerals
                IN  IF n < 10 THEN <<X[n + 1]>> ELSE DecimalOf(n \div 10) \o <<X[(n % 10) + 1]>>
Decimal(n) == IF n < 0 THEN <<"-">> \o DecimalOf(-n) ELSE DecimalOf(n)

ParamsOf(scope)    == {Params[scope][i] : i \in DOMAIN Params[scope]}
Declares(scope, p) == \E d \in ParamsOf(scope) : d.name = p
ParamOf(scope, p)  == CHOOSE d \in ParamsOf(scope) : d.name = p
get_param_default(scope, p) == IF Declares(scope, p) THEN ParamOf(scope, p).def ELSE Null
get_const(scope, k) == IF k \in DOMAIN Consts[scope] THEN Consts[scope][k]
                       ELSE IF k \in DOMAIN Consts["globals"] THEN Consts["globals"][k] ELSE Null
\* a style is named alone or with its owner; the long name, or Null
get_style_by_name(scope, t) ==
  LET owner == IF Len(t) = 3 /\ t[2] = "." THEN t[1] ELSE scope
      name  == t[Len(t)]
  IN  IF t = <<>> THEN Null
      ELSE IF name \in Styles[owner] THEN <<owner, ".", name>>
      ELSE IF name \in Styles["globals"] THEN <<"globals", ".", name>> ELSE Null

----------------------------------------------------------------------------
(* A composed value: each ${..} is replaced by a parameter, the loop index *)
(* or the value of an expression over them.                                *)

has_compose(t) == \E i \in 1..(Len(t) - 1) : t[i] = "$" /\ t[i + 1] = "{"
IsDigits(t)    == t # <<>> /\ \A i \in DOMAIN t : t[i] \in Expr(<<>>)!Digits
is_integer(t)  == IsDigits(t) \/ (t # <<>> /\ t[1] \in {"+", "-"} /\ IsDigits(Tail(t)))
IntegerOf(t)   == IF IsDigits(t) THEN Expr(<<>>)!IntOf(t)
                  ELSE IF t[1] = "-" THEN -Expr(<<>>)!IntOf(Tail(t)) ELSE Expr(<<>>)!IntOf(Tail(t))
is_bare_identifier(t) ==
  t # <<>> /\ t[1] \in Expr(<<>>)!Letters
  /\ \A i \in DOMAIN t : t[i] \in Expr(<<>>)!Letters \cup Expr(<<>>)!Digits
Argument(f, p) == LET v == value_of(f.attrs, p)
                  IN  IF v = Null \/ Begins(v, "$") THEN get_param_default(f.scope, p) ELSE v
compose_lookup(f, p) == IF p # <<"i">> THEN Argument(f, p)
                        ELSE IF f.index = NoIndex THEN Null ELSE Decimal(f.index)
Numeric(f, p)  == IF p = <<"i">> THEN f.index # NoIndex
                  ELSE is_integer(Argument(f, p)) \/ p \in DOMAIN SubjectValue
NumberOf(f, p) == IF p = <<"i">> THEN f.index
                  ELSE IF is_integer(Argument(f, p)) THEN IntegerOf(Argument(f, p))
                  ELSE SubjectValue[p]
Names(f)       == {<<"i">>} \cup DOMAIN SubjectValue \cup {p.name : p \in ParamsOf(f.scope)}
Evaluated(f, t) ==
  LET subjects == {p \in Names(f) : Numeric(f, p)}
      tree     == Expr([p \in subjects |-> p])!compile(t).root
  IN  IF tree = Expr(<<>>)!NoTree THEN <<>>
      ELSE Decimal(Expr([p \in subjects |-> p])!eval_node(tree, [p \in subjects |-> NumberOf(f, p)]))
Splice(f, t) == LET found == compose_lookup(f, t)
                IN  IF ~is_bare_identifier(t) THEN Evaluated(f, t)
                    ELSE IF found = Null THEN <<>> ELSE found
RECURSIVE compose_indexed(_, _)
compose_indexed(f, t) ==
  LET close == {i \in DOMAIN t : t[i] = "}"}
  IN  IF ~has_compose(t) THEN t
      ELSE IF ~has_compose(SubSeq(t, 1, 2)) THEN <<t[1]>> \o compose_indexed(f, Tail(t))
      ELSE IF close = {} THEN t
      ELSE Splice(f, SubSeq(t, 3, First(close) - 1))
             \o compose_indexed(f, SubSeq(t, First(close) + 1, Len(t)))

----------------------------------------------------------------------------
(* One attribute in the frame f: first the parameters, then the constants. *)

Erased == <<<<>>, <<>>>>
resolve_param(f, attr) ==
  LET t     == attr[2]
      pipe  == {i \in DOMAIN t : t[i] = "|"}
      name  == IF pipe = {} THEN Tail(t) ELSE SubSeq(t, 2, First(pipe) - 1)
      given == value_of(f.attrs, name)
      style == get_style_by_name(f.parent, given)
      value == IF \/ given = Null \/ Begins(given, "$")
                  \/ ParamOf(f.scope, name).style /\ style = Null
               THEN get_param_default(f.scope, name)
               ELSE IF ParamOf(f.scope, name).style THEN style ELSE given
  IN  CASE has_compose(t) -> <<attr[1], compose_indexed(f, t)>>
        [] ~has_compose(t) /\ ~Begins(t, "$") -> attr
        [] t = <<"$", "i">> /\ f.index # NoIndex -> <<attr[1], Decimal(f.index)>>
        [] OTHER -> IF ~Declares(f.scope, name) THEN Erased
                    ELSE IF pipe # {}
                    THEN <<attr[1], (IF value = Null THEN <<>> ELSE value)
                                      \o SubSeq(t, First(pipe), Len(t))>>
                    ELSE IF value = Null THEN Erased ELSE <<attr[1], value>>
is_hex_color(t) == t = <<Hex>>
resolve_const(f, attr) ==
  LET t     == attr[2]
      value == get_const(f.scope, Tail(t))
  IN  IF attr[1] = <<"styles">> THEN attr
      ELSE IF Len(t) > 1 /\ t[1] = "-" /\ t[2] = "#" THEN Erased
      ELSE IF ~Begins(t, "#") THEN attr
      ELSE IF is_hex_color(Tail(t)) THEN attr
      ELSE IF value = Null THEN Erased ELSE <<attr[1], value>>
Resolve(f, attrs) == [i \in DOMAIN attrs |-> resolve_const(f, resolve_param(f, attrs[i]))]

TranslationTag == <<"translation_tag">>
IsTag(name)    == Len(name) = 2 /\ name[2] = "_tag"
implied_tag_value(attrs, tag) ==
  LET base  == SubSeq(tag, 1, Len(tag) - 1)
      value == IF tag = TranslationTag THEN value_of(attrs, <<"text">>)
               ELSE IF value_of(attrs, base) # Null THEN value_of(attrs, base)
               ELSE value_of(attrs, base \o <<"_text">>)
  IN  IF \/ value_of(attrs, tag) # Null \/ value_of(attrs, <<"bind_text">>) # Null
         \/ value \in {Null, <<>>} \/ Begins(value, "$") \/ Begins(value, "#")
         \/ has_compose(value) \/ value \notin Keys
      THEN Null ELSE value
TagsOf(name) ==
  <<TranslationTag>> \o
    (IF name \notin Components THEN <<>>
     ELSE SelectSeq([i \in DOMAIN Params[name] |-> Params[name][i].name],
                    LAMBDA p : IsTag(p) /\ p[1] \notin {"options", "placeholder"}))
collect_implied_tags(name, attrs) ==
  LET tags == SelectSeq(TagsOf(name), LAMBDA t : implied_tag_value(attrs, t) # Null)
  IN  [i \in DOMAIN tags |-> <<tags[i], implied_tag_value(attrs, tags[i])>>]
imply_translation_tags(translating, name, attrs) ==
  IF translating THEN attrs \o collect_implied_tags(name, attrs) ELSE attrs

\* each chain goes through all attributes; an implied tag is nobody's mistake
RECURSIVE Chained(_, _, _)
Chained(check, attrs, chains) ==
  LET step[i \in 0..Len(attrs)] ==
        IF i = 0 THEN enter(check)
        ELSE IF attrs[i][1] \in chains[1] THEN step[i - 1] ELSE miss(step[i - 1], attrs[i][1])
  IN  IF chains = <<>> THEN check ELSE Chained(step[Len(attrs)], attrs, Tail(chains))
RECURSIVE Consumed(_, _)
Consumed(check, tags) == IF tags = <<>> THEN check
                         ELSE Consumed(consume(check, tags[1][1]), Tail(tags))
Reports(name, attrs, authored) ==
  LET implied == SubSeq(attrs, Len(authored) + 1, Len(attrs))
  IN  end(Chained(Consumed(begin(attrs), implied), attrs, Chains[name]))

White == {" ", "TAB", "LF", "CR"}
collapse_whitespace(s) ==
  LET read[i \in 0..Len(s)] ==
        IF i = 0 THEN [dst |-> <<>>, in_ws |-> TRUE]
        ELSE LET r == read[i - 1]
             IN  IF s[i] \in White THEN [r EXCEPT !.in_ws = TRUE]
                 ELSE [dst   |-> r.dst \o (IF r.in_ws /\ r.dst # <<>> THEN <<" ">> ELSE <<>>) \o <<s[i]>>,
                       in_ws |-> FALSE]
  IN  read[Len(s)].dst
\* inline text of an element that names its text itself is ignored
apply_pending_inline_text(f, authored, buf) ==
  LET text  == collapse_whitespace(buf)
      pairs == Resolve(f, <<<<<<"text">>, text>>, <<TranslationTag, text>>>>)
  IN  IF text = <<>> \/ \E n \in {<<"text">>, <<"bind_text">>, TranslationTag} :
                         value_of(authored, n) # Null
      THEN <<>> ELSE SelectSeq(pairs, LAMBDA a : a # Erased)

----------------------------------------------------------------------------
(* How often a <repeat> is replayed.  MaxRepeats stands for the limit 256. *)

\* spaces, a sign and the digits up to anything else; 0 without digits
lv_xml_atoi(t) ==
  LET solid  == {i \in DOMAIN t : t[i] \notin {" ", "TAB"}}
      s      == IF solid = {} THEN <<>> ELSE SubSeq(t, First(solid), Len(t))
      signed == s # <<>> /\ s[1] \in {"-", "+"}
      from   == IF signed THEN 2 ELSE 1
      ends   == {i \in from..Len(s) : s[i] \notin Expr(<<>>)!Digits}
      digits == SubSeq(s, from, IF ends = {} THEN Len(s) ELSE First(ends) - 1)
  IN  IF digits = <<>> THEN 0
      ELSE IF Begins(s, "-") THEN -Expr(<<>>)!IntOf(digits) ELSE Expr(<<>>)!IntOf(digits)
Clamped(n) == IF n < 0 THEN 0 ELSE IF n > MaxRepeats THEN MaxRepeats ELSE n
xml_repeat_resolve_count(f, raw) ==
  LET found == get_const(f.scope, Tail(raw))
  IN  IF raw = <<>> THEN 0
      ELSE IF Begins(raw, "#") THEN Clamped(IF found = Null THEN 0 ELSE lv_xml_atoi(found))
      ELSE IF raw[1] \in Expr(<<>>)!Digits \cup {"-", "+"} THEN Clamped(lv_xml_atoi(raw))
      ELSE IF raw \in DOMAIN SubjectValue THEN Clamped(SubjectValue[raw]) ELSE 0
=============================================================================
