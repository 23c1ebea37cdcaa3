----------------------------- MODULE AttrCheck -----------------------------
(***************************************************************************)
(* The check for attributes that nothing of a widget knows,                *)
(* src/src/xml/lv_xml_attr_check.c.  A widget is applied by several        *)
(* chains, its own and those of the classes it derives from; each says     *)
(* that it runs, and names the attributes it does not know.  Attributes    *)
(* are pairs of a name and a value; an erased one has the name <<>>.       *)
(***************************************************************************)
EXTENDS Naturals, Sequences, FiniteSets

CONSTANT MaxAttributes   \* 64: LV_XML_ATTR_CHECK_MAX, 128, counts names and values

framework_attrs == {<<"name">>, <<"extends">>}
NameOf(attr) == attr[1]

\* the check while an element is applied; attrs is empty when it is not armed
begin(attrs) == [attrs   |-> IF Len(attrs) > MaxAttributes THEN <<>> ELSE attrs,
                 misses  |-> [i \in DOMAIN attrs |-> 0],
                 handled |-> {}, participants |-> 0]
index_of(check, name) == {i \in DOMAIN check.attrs :
                            /\ NameOf(check.attrs[i]) = name
                            /\ \A j \in 1..(i - 1) : NameOf(check.attrs[j]) # name}
enter(check) == [check EXCEPT !.participants = @ + 1]
miss(check, name) ==
  [check EXCEPT !.misses = [i \in DOMAIN @ |-> IF i \in index_of(check, name)
                                               THEN @[i] + 1 ELSE @[i]]]
consume(check, name) == [check EXCEPT !.handled = @ \cup index_of(check, name)]
\* mutant: reported when one chain does not know it
endAny(check) ==
  {NameOf(check.attrs[i]) : i \in
     {i \in DOMAIN check.attrs :
        /\ i \notin check.handled
        /\ check.misses[i] > 0
        /\ NameOf(check.attrs[i]) # <<>>
        /\ NameOf(check.attrs[i]) \notin framework_attrs}}
\* the names that are reported
end(check) ==
  {NameOf(check.attrs[i]) : i \in
     {i \in DOMAIN check.attrs :
        /\ check.participants > 0
        /\ i \notin check.handled
        /\ check.misses[i] >= check.participants
        /\ NameOf(check.attrs[i]) # <<>>
        /\ NameOf(check.attrs[i]) \notin framework_attrs}}
=============================================================================
