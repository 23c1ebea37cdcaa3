-------------------------- MODULE XmlDocumentProofs --------------------------
(***************************************************************************)
(* Proofs about XmlDocument, for every vocabulary and every kind of        *)
(* document: its variables keep their types and the parser stays within    *)
(* its tables.                                                             *)
(***************************************************************************)
EXTENDS XmlDocument, Iteration, SequenceTheorems

-----------------------------------------------------------------------------
(* The tables of XmlRoles                                                  *)

\* A rule leads to a handler that there is, to the backstop only behind the first tag;
\* a group is opened by "(" alone, and only where the first, the second or a further
\* one may begin, and only opening a group leads into a content model.
Openers == {"element1", "element2", "element6"}
Within  == {"element2", "element6", "element7"}
RuleSound(h, on, role, to) ==
  /\ to \in DOMAIN Handlers
  /\ to = "error" <=> role = "INSTANCE_START"
  /\ role # "ERROR" /\ (on = "<e" => role = "INSTANCE_START")
  /\ h = "declClose" => to # "declClose"
  /\ role = "GROUP_OPEN" <=> h \in Openers /\ on = "("
  /\ role = "GROUP_OPEN" => to = IF h = "element1" THEN "element2" ELSE "element6"
  /\ to \in Within /\ role # "GROUP_OPEN" => h \in Within /\ to # "element2"
  /\ h = "element7" /\ on \in Quantified.close <=> h = "element7" /\ role = "GROUP_CLOSE"
  /\ h = "element7" /\ role = "GROUP_CLOSE" => to = "element7"
  /\ h # "element7" => role \notin {"GROUP_SEQUENCE", "GROUP_CHOICE"}
  /\ role \in {"DEFAULT_ATTRIBUTE_VALUE", "FIXED_ATTRIBUTE_VALUE"} => on \in Literals
HandlerSound(h) ==
  /\ \A r \in Handlers[h].rules : RuleSound(h, r.on, r.role, r.to)
  /\ h # "declClose" => Handlers[h].none \in NoneKinds

LEMMA HandlerNames ==
  DOMAIN Handlers =
    {"prolog0", "prolog1", "prolog2", "doctype0", "doctype1", "doctype2", "doctype3",
     "doctype4", "doctype5", "entity0", "entity1", "entity2", "entity3", "entity4",
     "entity5", "entity6", "entity7", "entity8", "entity9", "entity10", "notation0",
     "notation1", "notation2", "notation3", "notation4", "attlist0", "attlist1",
     "attlist2", "attlist3", "attlist4", "attlist5", "attlist6", "attlist7", "attlist8",
     "attlist9", "element0", "element1", "element2", "element3", "element4", "element5",
     "element6", "element7", "internalSubset", "declClose", "error"}
BY DEF Handlers

\* Each name has the table it is defined as.
LEMMA HandlerTables ==
  /\ Handlers["prolog0"] = prolog0
  /\ Handlers["prolog1"] = prolog1
  /\ Handlers["prolog2"] = prolog2
  /\ Handlers["doctype0"] = doctype0
  /\ Handlers["doctype1"] = doctype1
  /\ Handlers["doctype2"] = doctype2
  /\ Handlers["doctype3"] = doctype3
  /\ Handlers["doctype4"] = doctype4
  /\ Handlers["doctype5"] = doctype5
  /\ Handlers["entity0"] = entity0
  /\ Handlers["entity1"] = entity1
  /\ Handlers["entity2"] = entity2
  /\ Handlers["entity3"] = entity3
  /\ Handlers["entity4"] = entity4
  /\ Handlers["entity5"] = entity5
  /\ Handlers["entity6"] = entity6
  /\ Handlers["entity7"] = entity7
  /\ Handlers["entity8"] = entity8
  /\ Handlers["entity9"] = entity9
  /\ Handlers["entity10"] = entity10
  /\ Handlers["notation0"] = notation0
  /\ Handlers["notation1"] = notation1
  /\ Handlers["notation2"] = notation2
  /\ Handlers["notation3"] = notation3
  /\ Handlers["notation4"] = notation4
  /\ Handlers["attlist0"] = attlist0
  /\ Handlers["attlist1"] = attlist1
  /\ Handlers["attlist2"] = attlist2
  /\ Handlers["attlist3"] = attlist3
  /\ Handlers["attlist4"] = attlist4
  /\ Handlers["attlist5"] = attlist5
  /\ Handlers["attlist6"] = attlist6
  /\ Handlers["attlist7"] = attlist7
  /\ Handlers["attlist8"] = attlist8
  /\ Handlers["attlist9"] = attlist9
  /\ Handlers["element0"] = element0
  /\ Handlers["element1"] = element1
  /\ Handlers["element2"] = element2
  /\ Handlers["element3"] = element3
  /\ Handlers["element4"] = element4
  /\ Handlers["element5"] = element5
  /\ Handlers["element6"] = element6
  /\ Handlers["element7"] = element7
  /\ Handlers["internalSubset"] = internalSubset
  /\ Handlers["declClose"] = declClose
  /\ Handlers["error"] = error
BY DEF Handlers

\* Names and literals are not among the signs that have a meaning in a content model.
LEMMA TokenKinds ==
  /\ Quantified.n = {"n?", "n*", "n+"}
  /\ Quantified.close = {")", ")?", ")*", ")+"}
  /\ Comma \notin {"<e", "(", ")", ")?", ")*", ")+"}
  /\ \A x \in Names \cup Literals : x \notin {"<e", "(", ")", ")?", ")*", ")+"}
  /\ \A x \in AttTypes : x \in Names
PROOF
<1>1. Quantified.n = {"n?", "n*", "n+"} /\ Quantified.close = {")", ")?", ")*", ")+"}
  BY DEF Quantified
<1>2. Comma \notin {"<e", "(", ")", ")?", ")*", ")+"}
  BY Zenon DEF Comma
<1>3. {"<e", "(", ")", ")?", ")*", ")+"} \subseteq Signs
  BY <1>1 DEF Signs
<1>4. \A x \in Keywords : x \notin {"<e", "(", ")", ")?", ")*", ")+"}
  BY DEF Keywords, AttTypes
<1>5. \A x \in Words \cup Literals : x \notin Signs
  BY RolesAssumption
<1> QED BY <1>1, <1>2, <1>3, <1>4, <1>5 DEF Names, Keywords

LEMMA PrologHandlers ==
  \A h \in {"prolog0", "prolog1", "prolog2"} :
    HandlerSound(h)
<1> USE HandlerNames, HandlerTables, TokenKinds
      DEF HandlerSound, RuleSound, On, Openers, Within, NoneKinds, Prefixed
<1>1. HandlerSound("prolog0")
  BY DEF prolog0, Misc, Instance
<1>2. HandlerSound("prolog1")
  BY DEF prolog1, Misc, Instance
<1>3. HandlerSound("prolog2")
  BY DEF prolog2, Misc, Instance
<1> QED BY <1>1, <1>2, <1>3

LEMMA DoctypeHandlers ==
  \A h \in {"doctype0", "doctype1", "doctype2", "doctype3", "doctype4", "doctype5"} :
    HandlerSound(h)
<1> USE HandlerNames, HandlerTables, TokenKinds
      DEF HandlerSound, RuleSound, On, Openers, Within, NoneKinds, Prefixed
<1>1. HandlerSound("doctype0")
  BY DEF doctype0, Subset, EndType
<1>2. HandlerSound("doctype1")
  BY DEF doctype1, Subset, EndType
<1>3. HandlerSound("doctype2")
  BY DEF doctype2, Subset, EndType
<1>4. HandlerSound("doctype3")
  BY DEF doctype3, Subset, EndType
<1>5. HandlerSound("doctype4")
  BY DEF doctype4, Subset, EndType
<1>6. HandlerSound("doctype5")
  BY DEF doctype5, Subset, EndType
<1> QED BY <1>1, <1>2, <1>3, <1>4, <1>5, <1>6

LEMMA EntityHandlers ==
  \A h \in {"entity0", "entity1", "entity2", "entity3", "entity4", "entity5", "entity6",
         "entity7", "entity8", "entity9", "entity10"} :
    HandlerSound(h)
<1> USE HandlerNames, HandlerTables, TokenKinds
      DEF HandlerSound, RuleSound, On, Openers, Within, NoneKinds, Prefixed
<1>1. HandlerSound("entity0")
  BY DEF entity0
<1>2. HandlerSound("entity1")
  BY DEF entity1
<1>3. HandlerSound("entity2")
  BY DEF entity2
<1>4. HandlerSound("entity3")
  BY DEF entity3
<1>5. HandlerSound("entity4")
  BY DEF entity4
<1>6. HandlerSound("entity5")
  BY DEF entity5
<1>7. HandlerSound("entity6")
  BY DEF entity6
<1>8. HandlerSound("entity7")
  BY DEF entity7
<1>9. HandlerSound("entity8")
  BY DEF entity8
<1>10. HandlerSound("entity9")
  BY DEF entity9
<1>11. HandlerSound("entity10")
  BY DEF entity10
<1> QED BY <1>1, <1>2, <1>3, <1>4, <1>5, <1>6, <1>7, <1>8, <1>9, <1>10, <1>11

LEMMA NotationHandlers ==
  \A h \in {"notation0", "notation1", "notation2", "notation3", "notation4"} :
    HandlerSound(h)
<1> USE HandlerNames, HandlerTables, TokenKinds
      DEF HandlerSound, RuleSound, On, Openers, Within, NoneKinds, Prefixed
<1>1. HandlerSound("notation0")
  BY DEF notation0
<1>2. HandlerSound("notation1")
  BY DEF notation1
<1>3. HandlerSound("notation2")
  BY DEF notation2
<1>4. HandlerSound("notation3")
  BY DEF notation3
<1>5. HandlerSound("notation4")
  BY DEF notation4
<1> QED BY <1>1, <1>2, <1>3, <1>4, <1>5

LEMMA AttlistHandlers ==
  \A h \in {"attlist0", "attlist1", "attlist2", "attlist3", "attlist4", "attlist5",
         "attlist6", "attlist7", "attlist8", "attlist9"} :
    HandlerSound(h)
<1> USE HandlerNames, HandlerTables, TokenKinds
      DEF HandlerSound, RuleSound, On, Openers, Within, NoneKinds, Prefixed
<1>1. HandlerSound("attlist0")
  BY DEF attlist0
<1>2. HandlerSound("attlist1")
  BY DEF attlist1
<1>3. HandlerSound("attlist2")
  BY DEF attlist2
<1>4. HandlerSound("attlist3")
  BY DEF attlist3
<1>5. HandlerSound("attlist4")
  BY DEF attlist4
<1>6. HandlerSound("attlist5")
  BY DEF attlist5
<1>7. HandlerSound("attlist6")
  BY DEF attlist6
<1>8. HandlerSound("attlist7")
  BY DEF attlist7
<1>9. HandlerSound("attlist8")
  BY DEF attlist8
<1>10. HandlerSound("attlist9")
  BY DEF attlist9
<1> QED BY <1>1, <1>2, <1>3, <1>4, <1>5, <1>6, <1>7, <1>8, <1>9, <1>10

LEMMA ElementHandlers ==
  \A h \in {"element0", "element1", "element2", "element3", "element4", "element5",
         "element6", "element7"} :
    HandlerSound(h)
<1> USE HandlerNames, HandlerTables, TokenKinds
      DEF HandlerSound, RuleSound, On, Openers, Within, NoneKinds, Prefixed
<1>1. HandlerSound("element0")
  BY DEF element0, Particle
<1>2. HandlerSound("element1")
  BY DEF element1, Particle
<1>3. HandlerSound("element2")
  BY DEF element2, Particle
<1>4. HandlerSound("element3")
  BY DEF element3, Particle
<1>5. HandlerSound("element4")
  BY DEF element4, Particle
<1>6. HandlerSound("element5")
  BY DEF element5, Particle
<1>7. HandlerSound("element6")
  BY DEF element6, Particle
<1>8. HandlerSound("element7")
  BY DEF element7, Particle
<1> QED BY <1>1, <1>2, <1>3, <1>4, <1>5, <1>6, <1>7, <1>8

LEMMA SubsetHandlers ==
  \A h \in {"internalSubset", "declClose", "error"} :
    HandlerSound(h)
<1> USE HandlerNames, HandlerTables, TokenKinds
      DEF HandlerSound, RuleSound, On, Openers, Within, NoneKinds, Prefixed
<1>1. HandlerSound("internalSubset")
  BY DEF internalSubset, Misc
<1>2. HandlerSound("declClose")
  BY DEF declClose, Misc
<1>3. HandlerSound("error")
  BY DEF error, Misc
<1> QED BY <1>1, <1>2, <1>3

LEMMA HandlersSound ==
  \A h \in DOMAIN Handlers : HandlerSound(h)
BY HandlerNames, PrologHandlers, DoctypeHandlers, EntityHandlers, NotationHandlers,
   AttlistHandlers, ElementHandlers, SubsetHandlers

-----------------------------------------------------------------------------
(* One call of a handler                                                   *)

\* What holds of the state between two calls in a prolog that goes on.
StateSound(st) ==
  /\ st \in PrologStates /\ st.handler # "error"
  /\ st.handler \in Within => st.level >= 1
  /\ st.handler = "element2" => st.level = 1

\* What XmlTokenRole() answers: a role and the state after it.
Opened(st, next) ==
  /\ st.handler \in Openers
  /\ next.handler = IF st.handler = "element1" THEN "element2" ELSE "element6"
  /\ next.level = IF st.handler = "element1" THEN 1 ELSE st.level + 1
Inside(st, next) ==
  next.handler \in Within =>
    st.handler \in Within /\ next.level \in 1 .. st.level
Answered(st, tok, role, next) ==
  /\ next \in PrologStates
  /\ next.handler = "error" <=> role \in {"ERROR", "INSTANCE_START"}
  /\ tok = "<e" => role \in {"ERROR", "INSTANCE_START"}
  /\ role \notin {"ERROR", "INSTANCE_START"} => StateSound(next)
  /\ role = "GROUP_OPEN" => Opened(st, next)
  /\ role \notin {"ERROR", "GROUP_OPEN"} => Inside(st, next)
  /\ role \in {"GROUP_SEQUENCE", "GROUP_CHOICE"} => st.handler = "element7"
  /\ role \in {"DEFAULT_ATTRIBUTE_VALUE", "FIXED_ATTRIBUTE_VALUE"} => tok \in Literals

LEMMA LevelTyped ==
  ASSUME NEW st, StateSound(st), NEW tok
  PROVE  /\ LevelAfter(st, tok) \in Nat
         /\ st.handler = "element1" /\ tok = "(" => LevelAfter(st, tok) = 1
         /\ st.handler \in {"element2", "element6"} /\ tok = "("
              => LevelAfter(st, tok) = st.level + 1
         /\ st.handler = "element7" /\ tok \in Quantified.close
              => LevelAfter(st, tok) = st.level - 1
         /\ ~(st.handler \in Openers /\ tok = "(")
              /\ ~(st.handler = "element7" /\ tok \in Quantified.close)
              => LevelAfter(st, tok) = st.level
<1>1. st.level \in Nat
  BY DEF StateSound, PrologStates
<1> QED BY <1>1, TokenKinds DEF StateSound, LevelAfter, Within, Openers

LEMMA XmlTokenRoleAnswers ==
  ASSUME NEW st, StateSound(st), NEW tok
  PROVE  Answered(st, tok, XmlTokenRole(st, tok).role, XmlTokenRole(st, tok).st)
<1> DEFINE here  == Handlers[st.handler]
           hits  == {r \in here.rules : r.on = tok}
           level == LevelAfter(st, tok)
           white == IF st.handler = "declClose" THEN st.role_none ELSE here.none
           t     == XmlTokenRole(st, tok)
<1>1. /\ st.handler \in DOMAIN Handlers /\ st.level \in Nat /\ st.role_none \in NoneKinds
      /\ st = [handler |-> st.handler, level |-> st.level, role_none |-> st.role_none]
  BY DEF StateSound, PrologStates
<1>2. HandlerSound(st.handler)
  BY <1>1, HandlersSound
<1>3. white \in NoneKinds
  BY <1>1, <1>2 DEF HandlerSound
<1>4. ASSUME hits = {}, tok = "S"
      PROVE  Answered(st, tok, t.role, t.st)
  <2>1. t = [role |-> white, st |-> st]
    BY <1>4 DEF XmlTokenRole
  <2>2. st.level \in 1 .. st.level \/ st.level = 0
    BY <1>1
  <2> HIDE DEF t, white
  <2> QED BY <1>1, <1>3, <2>1, <2>2, <1>4 DEF Answered, StateSound, Inside, NoneKinds, Within
<1>5. ASSUME hits = {}, tok # "S"
      PROVE  Answered(st, tok, t.role, t.st)
  <2>1. st.handler # "error"
    BY DEF StateSound
  <2>2. t = [role |-> "ERROR", st |-> [st EXCEPT !.handler = "error"]]
    BY <1>5, <2>1 DEF XmlTokenRole, common
  <2>3. [st EXCEPT !.handler = "error"] \in PrologStates
          /\ [st EXCEPT !.handler = "error"].handler = "error"
    BY <1>1, HandlerNames DEF PrologStates
  <2> HIDE DEF t
  <2> QED BY <2>2, <2>3 DEF Answered
<1>6. ASSUME hits # {}
      PROVE  Answered(st, tok, t.role, t.st)
  <2> DEFINE r  == CHOOSE r \in hits : TRUE
             to == IF st.handler = "element7" /\ r.role = "GROUP_CLOSE" /\ level = 0
                   THEN "declClose" ELSE r.to
             role == IF r.role = "ROLE_NONE" THEN st.role_none ELSE r.role
             kind == IF to = "declClose" THEN here.none ELSE st.role_none
  <2>1. r \in hits
    BY <1>6
  <2>2. RuleSound(st.handler, r.on, r.role, r.to) /\ r.on = tok
    BY <1>2, <2>1 DEF HandlerSound
  <2>3. t = [role |-> role, st |-> [handler |-> to, level |-> level, role_none |-> kind]]
    <3>1. hits # {}
      BY <1>6
    <3> QED BY <3>1, Zenon DEF XmlTokenRole
  <2> HIDE DEF r, t
  <2>4. kind \in NoneKinds
    BY <1>1, <1>2, <2>2 DEF HandlerSound, RuleSound
  <2>5. to \in DOMAIN Handlers
    BY <2>2, HandlerNames DEF RuleSound
  <2>6. level \in Nat
    BY LevelTyped
  <2> HIDE DEF here, hits, level, white, kind
  <2>7. t.st \in PrologStates /\ t.st.handler = to /\ t.st.level = level /\ t.role = role
    BY <2>3, <2>4, <2>5, <2>6 DEF PrologStates
  <2>8. role = r.role \/ role \in NoneKinds
    BY <1>1
  <2>9. role = "GROUP_OPEN" => Opened(st, t.st)
    <3>1. role = "GROUP_OPEN" => r.role = "GROUP_OPEN"
      BY <2>8 DEF NoneKinds
    <3>2. r.role = "GROUP_OPEN" => level = IF st.handler = "element1" THEN 1 ELSE st.level + 1
      BY <2>2, LevelTyped DEF RuleSound, Openers, level
    <3> HIDE DEF role
    <3> QED BY <2>2, <2>7, <3>1, <3>2 DEF RuleSound, Opened
  <2>10. r.role # "GROUP_OPEN" =>
           Inside(st, t.st) /\ to # "element2" /\ (to \in Within => level >= 1)
    <3>1. ASSUME r.role # "GROUP_OPEN", to \in Within
          PROVE  st.handler \in Within /\ level \in 1 .. st.level /\ to # "element2"
      <4>1. st.handler \in Within /\ to # "element2" /\ st.level >= 1
        BY <2>2, <3>1 DEF RuleSound, Within, StateSound
      <4>2. CASE st.handler = "element7" /\ tok \in Quantified.close
        <5>1. r.role = "GROUP_CLOSE" /\ level # 0
          BY <4>2, <2>2, <3>1 DEF RuleSound, Within
        <5>2. level = st.level - 1
          BY <4>2, LevelTyped DEF level
        <5> QED BY <1>1, <2>6, <4>1, <5>1, <5>2
      <4>3. CASE ~(st.handler = "element7" /\ tok \in Quantified.close)
        <5>1. ~(st.handler \in Openers /\ tok = "(")
          BY <2>2, <3>1 DEF RuleSound
        <5>2. level = st.level
          BY <4>3, <5>1, LevelTyped DEF level
        <5> QED BY <1>1, <4>1, <5>2
      <4> QED BY <4>2, <4>3
    <3>2. to = "element2" => to \in Within
      BY DEF Within
    <3> HIDE DEF to
    <3> QED BY <2>7, <3>1, <3>2, <1>1, <2>6 DEF Inside
  <2>11. role \notin {"ERROR", "INSTANCE_START"} => StateSound(t.st)
    <3>1. to = "error" => r.role = "INSTANCE_START" /\ role = "INSTANCE_START"
      BY <2>2, <1>1 DEF RuleSound, NoneKinds
    <3>2. r.role = "GROUP_OPEN" => to \in {"element2", "element6"} /\ level \in Nat /\ level >= 1
                                    /\ (to = "element2" => level = 1)
      <4>1. r.role = "GROUP_OPEN" =>
              /\ to = IF st.handler = "element1" THEN "element2" ELSE "element6"
              /\ level = IF st.handler = "element1" THEN 1 ELSE st.level + 1
        BY <2>2, LevelTyped DEF RuleSound, Openers, level
      <4> QED BY <4>1, <1>1
    <3> HIDE DEF to, role
    <3> QED BY <2>7, <2>10, <3>1, <3>2 DEF StateSound
  <2>12. to = "error" <=> role = "INSTANCE_START"
    BY <2>2, <1>1 DEF RuleSound, NoneKinds
  <2>13. role # "ERROR" /\ (tok = "<e" => role = "INSTANCE_START")
    BY <2>2, <1>1 DEF RuleSound, NoneKinds
  <2>14. role \in {"GROUP_SEQUENCE", "GROUP_CHOICE"} => st.handler = "element7"
    BY <2>2, <1>1 DEF RuleSound, NoneKinds
  <2>15. role \in {"DEFAULT_ATTRIBUTE_VALUE", "FIXED_ATTRIBUTE_VALUE"} => tok \in Literals
    BY <2>2, <1>1 DEF RuleSound, NoneKinds
  <2>16. role # "GROUP_OPEN" => r.role # "GROUP_OPEN"
    OBVIOUS
  <2> HIDE DEF to, role
  <2> QED BY <2>7, <2>9, <2>10, <2>11, <2>12, <2>13, <2>14, <2>15, <2>16 DEF Answered
<1> QED BY <1>4, <1>5, <1>6

-----------------------------------------------------------------------------
(* The prolog: what a step reads, and what it may do to the groups         *)

LEMMA PrologSound ==
  ASSUME IInv, processor = "prolog"
  PROVE  StateSound(prologState)
BY DEF IInv, TypeOK, BackstopUnreached, GroupSound, InModel, StateSound, Within

LEMMA ReadFacts ==
  ASSUME IInv, NEW tok, NEW roles, Read(tok, roles)
  PROVE  /\ processor = "prolog" /\ tok \in Tokens /\ StateSound(prologState)
         /\ Answered(prologState, tok, Token(tok).role, prologState')
         /\ Token(tok).role \in roles
         /\ sentence' \in Seq(Tokens) /\ declared' \in Seq(Seq(Tokens))
         /\ UNCHANGED <<family, attsSize, tags, events>>
         /\ tok # "<e" => UNCHANGED peek
<1>1. processor = "prolog" /\ tok \in Menu[family][prologState.handler]
      /\ prologState' = Token(tok).st /\ Token(tok).role \in roles /\ Note(tok)
      /\ UNCHANGED <<family, attsSize, tags, events>> /\ (tok # "<e" => UNCHANGED peek)
  BY DEF Read
<1>2. StateSound(prologState)
  BY <1>1, PrologSound
<1>3. tok \in Tokens
  BY <1>1, <1>2, DocumentAssumption DEF IInv, TypeOK, StateSound, PrologStates
<1>4. Answered(prologState, tok, Token(tok).role, prologState')
  BY <1>1, <1>2, XmlTokenRoleAnswers DEF Token
<1>5. sentence' \in Seq(Tokens)
  BY <1>1, <1>3 DEF Note, IInv, TypeOK
<1>6. declared' \in Seq(Seq(Tokens))
  BY <1>1, <1>5 DEF Note, IInv, TypeOK
<1> QED BY <1>1, <1>2, <1>3, <1>4, <1>5, <1>6

\* What a step of the prolog leaves the open groups: each has its place in the array.
GroupsFit(st, g) ==
  /\ GroupsTyped(g) /\ (g.size = 0 \/ g.size >= 2)
  /\ DOMAIN g.connector \subseteq 0 .. (g.size - 1)
  /\ st.handler \in Within => 1 .. st.level \subseteq DOMAIN g.connector

LEMMA GroupsStay ==
  ASSUME IInv, NEW tok, NEW roles, Read(tok, roles),
         roles \cap {"ERROR", "INSTANCE_START", "GROUP_OPEN"} = {}
  PROVE  GroupsFit(prologState', groups)
<1>1. /\ StateSound(prologState)
      /\ Answered(prologState, tok, Token(tok).role, prologState') /\ Token(tok).role \in roles
  BY ReadFacts
<1>2. Inside(prologState, prologState')
  BY <1>1 DEF Answered
<1>3. prologState.level \in Nat
  BY <1>1 DEF StateSound, PrologStates
<1>4. \A l \in 1 .. prologState.level : 1 .. l \subseteq 1 .. prologState.level
  BY <1>3
<1> QED BY <1>2, <1>4 DEF GroupsFit, Inside, IInv, TypeOK, GroupSound, InModel, Within

LEMMA PrologGoesOn ==
  ASSUME IInv, NEW tok, NEW roles, Read(tok, roles),
         roles \cap {"ERROR", "INSTANCE_START"} = {},
         Silent \/ \E code \in Codes : Fail(code),
         GroupsFit(prologState', groups'), DtdTyped(dtd'), decl' \in Registers
  PROVE  IInv'
<1>1. /\ tok \in Tokens /\ Answered(prologState, tok, Token(tok).role, prologState')
      /\ Token(tok).role \in roles /\ processor = "prolog"
      /\ sentence' \in Seq(Tokens) /\ declared' \in Seq(Seq(Tokens))
      /\ UNCHANGED <<family, attsSize, tags, events>>
      /\ tok # "<e" => UNCHANGED peek
  BY ReadFacts
<1>2. Token(tok).role \notin {"ERROR", "INSTANCE_START"}
  BY <1>1
<1>3. StateSound(prologState') /\ tok # "<e"
  BY <1>1, <1>2 DEF Answered
<1>4. processor' \in Processors /\ outcome' \in {"parsing", "ok"} \cup Codes
  BY DEF Silent, Fail, IInv, TypeOK, Processors
<1>5. TypeOK'
  BY <1>1, <1>3, <1>4 DEF IInv, TypeOK, StateSound, GroupsFit
<1>6. BackstopUnreached'
  BY <1>3 DEF BackstopUnreached, StateSound
<1>7. GroupSound'
  BY <1>3 DEF GroupSound, InModel, GroupsFit, StateSound, Within
<1>8. AttsWithin'
  BY <1>1 DEF IInv, AttsWithin
<1> QED BY <1>5, <1>6, <1>7, <1>8 DEF IInv

-----------------------------------------------------------------------------
(* The prolog: its steps                                                   *)

LEMMA ReadQuietlyStep ==
  ASSUME IInv, NEW tok, ReadQuietly(tok)
  PROVE  IInv'
<1> DEFINE roles == UNION {DoctypeRoles, CloseRoles, EnumRoles, NotationRoles, ModelRoles,
                           GroupRoles, RefRoles, NoneRoles}
<1>1. Read(tok, roles) /\ Silent /\ UNCHANGED <<groups, dtd, decl>>
  BY DEF ReadQuietly
<1>2. roles \cap {"ERROR", "INSTANCE_START", "GROUP_OPEN"} = {}
  BY DEF DoctypeRoles, CloseRoles, EnumRoles, NotationRoles, ModelRoles, GroupRoles,
         RefRoles, NoneRoles
<1> HIDE DEF roles
<1>3. GroupsFit(prologState', groups)
  BY <1>1, <1>2, GroupsStay
<1>4. GroupsFit(prologState', groups') /\ DtdTyped(dtd') /\ decl' \in Registers
  BY <1>1, <1>3 DEF IInv, TypeOK
<1> QED BY <1>1, <1>2, <1>4, PrologGoesOn

LEMMA ReadErrorStep ==
  ASSUME IInv, NEW tok, ReadError(tok)
  PROVE  IInv'
<1>1. /\ Read(tok, {"ERROR"}) /\ processor' = "error" /\ outcome' \in Codes
      /\ UNCHANGED <<peek, groups, dtd, decl>>
  BY DEF ReadError, Fail, Codes
<1>2. /\ Answered(prologState, tok, Token(tok).role, prologState')
      /\ Token(tok).role = "ERROR"
      /\ sentence' \in Seq(Tokens) /\ declared' \in Seq(Seq(Tokens))
      /\ UNCHANGED <<family, attsSize, tags, events>>
  BY <1>1, ReadFacts
<1>3. prologState' \in PrologStates /\ prologState'.handler = "error"
  BY <1>2 DEF Answered
<1>4. TypeOK'
  BY <1>1, <1>2, <1>3 DEF IInv, TypeOK, Processors
<1>5. BackstopUnreached' /\ GroupSound' /\ AttsWithin'
  BY <1>1, <1>2, <1>3 DEF BackstopUnreached, GroupSound, InModel, AttsWithin, IInv
<1> QED BY <1>4, <1>5 DEF IInv

LEMMA InstanceStartStep ==
  ASSUME IInv, NEW tok, InstanceStart(tok)
  PROVE  IInv'
<1>1. /\ Read(tok, {"INSTANCE_START"}) /\ processor' = "content" /\ peek' \in BOOLEAN
      /\ UNCHANGED <<outcome, groups, dtd, decl>>
  BY DEF InstanceStart
<1>2. /\ Answered(prologState, tok, Token(tok).role, prologState')
      /\ Token(tok).role = "INSTANCE_START"
      /\ sentence' \in Seq(Tokens) /\ declared' \in Seq(Seq(Tokens))
      /\ UNCHANGED <<family, attsSize, tags, events>>
  BY <1>1, ReadFacts
<1>3. prologState' \in PrologStates /\ prologState'.handler = "error"
  BY <1>2 DEF Answered
<1>4. TypeOK'
  BY <1>1, <1>2, <1>3 DEF IInv, TypeOK, Processors
<1>5. BackstopUnreached' /\ GroupSound' /\ AttsWithin'
  BY <1>1, <1>2, <1>3 DEF BackstopUnreached, GroupSound, InModel, AttsWithin, IInv
<1> QED BY <1>4, <1>5 DEF IInv

\* The declaration of XML itself, and public and system identifiers.
LEMMA XmlDeclStep ==
  ASSUME IInv, NEW tok, XmlDecl(tok)
  PROVE  IInv'
<1>1. /\ Read(tok, {"XML_DECL"}) /\ Silent /\ UNCHANGED <<groups, decl>>
      /\ dtd' = [dtd EXCEPT !.standalone = @ \/ tok = "standalone"]
  BY DEF XmlDecl
<1>2. GroupsFit(prologState', groups') /\ decl' \in Registers
  BY <1>1, GroupsStay DEF IInv, TypeOK
<1>3. DtdTyped(dtd')
  BY <1>1 DEF IInv, TypeOK, DtdTyped
<1> QED BY <1>1, <1>2, <1>3, PrologGoesOn

LEMMA IdStep ==
  ASSUME IInv, NEW tok, DoctypePublicId(tok) \/ DoctypeSystemId(tok) \/ PublicId(tok)
  PROVE  IInv'
<1>1. ASSUME NEW roles, Read(tok, roles),
             roles \cap {"ERROR", "INSTANCE_START", "GROUP_OPEN"} = {},
             Silent \/ Fail("PUBLICID"), UNCHANGED <<groups, decl>>,
             dtd' = dtd \/ dtd' = [dtd EXCEPT !.external = TRUE]
      PROVE  IInv'
  <2>1. GroupsFit(prologState', groups') /\ decl' \in Registers
    BY <1>1, GroupsStay DEF IInv, TypeOK
  <2>2. DtdTyped(dtd')
    BY <1>1 DEF IInv, TypeOK, DtdTyped
  <2>3. Silent \/ \E code \in Codes : Fail(code)
    BY <1>1 DEF Codes
  <2> QED BY <1>1, <2>1, <2>2, <2>3, PrologGoesOn
<1> QED BY <1>1 DEF DoctypePublicId, DoctypeSystemId, PublicId

\* The declarations of entities, and what they register.
LEMMA EntityStep ==
  ASSUME IInv, NEW tok, GeneralEntityName(tok) \/ ParamEntityName(tok)
  PROVE  IInv'
<1>1. ASSUME NEW roles, Read(tok, roles),
             roles \cap {"ERROR", "INSTANCE_START", "GROUP_OPEN"} = {},
             Silent, UNCHANGED groups, decl' = [decl EXCEPT !.entity = None] /\ dtd' = dtd
      PROVE  IInv'
  <2>1. GroupsFit(prologState', groups') /\ DtdTyped(dtd')
    BY <1>1, GroupsStay DEF IInv, TypeOK
  <2>2. decl' \in Registers
    BY <1>1 DEF IInv, TypeOK, Registers
  <2> QED BY <1>1, <2>1, <2>2, PrologGoesOn
<1>2. ASSUME NEW roles, Read(tok, roles),
             roles \cap {"ERROR", "INSTANCE_START", "GROUP_OPEN"} = {},
             Silent, UNCHANGED groups, decl' = [decl EXCEPT !.entity = tok],
             dtd' = [dtd EXCEPT !.entities =
                       [n \in DOMAIN @ \cup {tok} |-> IF n = tok THEN "bare" ELSE @[n]]]
      PROVE  IInv'
  <2>1. GroupsFit(prologState', groups')
    BY <1>2, GroupsStay
  <2>2. tok \in Tokens
    BY <1>2, ReadFacts
  <2>3. decl' \in Registers
    BY <1>2, <2>2 DEF IInv, TypeOK, Registers
  <2>4. DtdTyped(dtd')
    <3> DEFINE known == [n \in DOMAIN dtd.entities \cup {tok} |->
                           IF n = tok THEN "bare" ELSE dtd.entities[n]]
    <3>1. known \in [DOMAIN known -> {"bare", "text", "unparsed"}]
            /\ DOMAIN known \subseteq Tokens
      BY <2>2 DEF IInv, TypeOK, DtdTyped
    <3>2. dtd' = [dtd EXCEPT !.entities = known]
      BY <1>2
    <3> HIDE DEF known
    <3> QED BY <3>1, <3>2 DEF IInv, TypeOK, DtdTyped
  <2> QED BY <1>2, <2>1, <2>3, <2>4, PrologGoesOn
<1> QED BY <1>1, <1>2 DEF GeneralEntityName, ParamEntityName

LEMMA EntityBodyStep ==
  ASSUME IInv, NEW tok, EntityBody(tok)
  PROVE  IInv'
<1> DEFINE roles == {"ENTITY_VALUE", "ENTITY_SYSTEM_ID", "ENTITY_COMPLETE",
                     "ENTITY_NOTATION_NAME"}
<1>1. /\ Read(tok, roles) /\ Silent /\ UNCHANGED <<groups, decl>>
      /\ Store("text") \/ Store("unparsed") \/ UNCHANGED dtd
  BY DEF EntityBody, storeSelfEntityValue
<1>2. roles \cap {"ERROR", "INSTANCE_START", "GROUP_OPEN"} = {}
  OBVIOUS
<1> HIDE DEF roles
<1>3. GroupsFit(prologState', groups') /\ decl' \in Registers
  BY <1>1, <1>2, GroupsStay DEF IInv, TypeOK
<1>4. DtdTyped(dtd')
  <2>1. ASSUME NEW kind \in {"text", "unparsed"}, Store(kind)
        PROVE  DtdTyped(dtd')
    <3> DEFINE known == [dtd.entities EXCEPT ![decl.entity] = kind]
    <3>1. known \in [DOMAIN known -> {"bare", "text", "unparsed"}]
            /\ DOMAIN known \subseteq Tokens
      BY DEF IInv, TypeOK, DtdTyped
    <3>2. dtd' = dtd \/ dtd' = [dtd EXCEPT !.entities = known]
      BY <2>1 DEF Store
    <3> HIDE DEF known
    <3> QED BY <3>1, <3>2 DEF IInv, TypeOK, DtdTyped
  <2> QED BY <1>1, <2>1 DEF IInv, TypeOK
<1> QED BY <1>1, <1>2, <1>3, <1>4, PrologGoesOn

\* The names and the type of an attribute-list declaration.
LEMMA AttlistStep ==
  ASSUME IInv, NEW tok, AttlistElementName(tok) \/ AttributeName(tok) \/ AttributeType(tok)
  PROVE  IInv'
<1>1. PICK roles : /\ Read(tok, roles)
                   /\ roles \cap {"ERROR", "INSTANCE_START", "GROUP_OPEN"} = {}
                   /\ Silent /\ UNCHANGED <<groups, dtd>>
                   /\ \/ decl' = [decl EXCEPT !.element = tok]
                      \/ decl' = [decl EXCEPT !.attribute = tok, !.cdata = FALSE, !.id = FALSE]
                      \/ decl' = [decl EXCEPT !.cdata = @ \/ tok = "CDATA",
                                              !.id = @ \/ tok = "ID"]
  BY DEF AttlistElementName, AttributeName, AttributeType
<1>2. GroupsFit(prologState', groups') /\ DtdTyped(dtd')
  BY <1>1, GroupsStay DEF IInv, TypeOK
<1>3. tok \in Tokens
  BY <1>1, ReadFacts
<1>4. decl' \in Registers
  BY <1>1, <1>3 DEF IInv, TypeOK, Registers
<1> QED BY <1>1, <1>2, <1>4, PrologGoesOn

\* Content models.
LEMMA GroupOpenStep ==
  ASSUME IInv, NEW tok, GroupOpen(tok)
  PROVE  IInv'
<1> DEFINE level == prologState'.level
           size  == IF level >= groups.size THEN Grown(groups.size) ELSE groups.size
           connector == [l \in DOMAIN groups.connector \cup {level} |->
                           IF l = level THEN None ELSE groups.connector[l]]
<1>1. /\ Read(tok, {"GROUP_OPEN"}) /\ Silent /\ UNCHANGED <<dtd, decl>>
      /\ groups' = [size |-> size, connector |-> connector]
  BY DEF GroupOpen
<1>2. StateSound(prologState) /\ Opened(prologState, prologState')
        /\ StateSound(prologState')
  <2>1. /\ StateSound(prologState) /\ Token(tok).role = "GROUP_OPEN"
        /\ Answered(prologState, tok, Token(tok).role, prologState')
    BY <1>1, ReadFacts
  <2> QED BY <2>1 DEF Answered
<1>3. prologState.level \in Nat /\ level \in Nat
  BY <1>2 DEF StateSound, PrologStates
<1>4. /\ groups.size \in Nat /\ (groups.size = 0 \/ groups.size >= 2)
      /\ DOMAIN groups.connector \subseteq 0 .. (groups.size - 1)
      /\ groups.connector \in [DOMAIN groups.connector -> {None, Comma, "|"}]
  BY DEF IInv, TypeOK, GroupsTyped, GroupSound
<1>5. CASE prologState.handler = "element1"
  <2>1. level = 1
    BY <1>2, <1>5 DEF Opened
  <2>2. size \in Nat /\ size >= 2 /\ groups.size <= size
    BY <1>4, <2>1, DocumentAssumption DEF Grown
  <2>3. 1 .. level \subseteq DOMAIN connector
    BY <2>1
  <2>4. DOMAIN connector \subseteq 0 .. (size - 1)
    BY <1>4, <2>1, <2>2
  <2>5. connector \in [DOMAIN connector -> {None, Comma, "|"}]
    BY <1>4
  <2> HIDE DEF level, size, connector
  <2>6. GroupsFit(prologState', groups')
    BY <1>1, <2>2, <2>3, <2>4, <2>5 DEF GroupsFit, GroupsTyped, level
  <2> QED BY <1>1, <2>6, PrologGoesOn DEF IInv, TypeOK
<1>6. CASE prologState.handler # "element1"
  <2>1. level = prologState.level + 1 /\ prologState.level >= 1
          /\ 1 .. prologState.level \subseteq DOMAIN groups.connector
    BY <1>2, <1>6 DEF Opened, Openers, Within, StateSound, IInv, GroupSound, InModel
  <2>2. prologState.level \in 0 .. (groups.size - 1)
    BY <1>3, <1>4, <2>1
  <2>3. size \in Nat /\ size >= 2 /\ groups.size <= size /\ level <= size - 1
    BY <1>3, <1>4, <2>1, <2>2 DEF Grown
  <2>4. 1 .. level \subseteq DOMAIN connector
    BY <1>3, <2>1
  <2>5. DOMAIN connector \subseteq 0 .. (size - 1)
    BY <1>3, <1>4, <2>3
  <2>6. connector \in [DOMAIN connector -> {None, Comma, "|"}]
    BY <1>4
  <2> HIDE DEF level, size, connector
  <2>7. GroupsFit(prologState', groups')
    BY <1>1, <2>3, <2>4, <2>5, <2>6 DEF GroupsFit, GroupsTyped, level
  <2> QED BY <1>1, <2>7, PrologGoesOn DEF IInv, TypeOK
<1> QED BY <1>5, <1>6

LEMMA ConnectStep ==
  ASSUME IInv, NEW tok, GroupSequence(tok) \/ GroupChoice(tok)
  PROVE  IInv'
<1>1. ASSUME NEW role \in {"GROUP_SEQUENCE", "GROUP_CHOICE"}, NEW mine \in {Comma, "|"},
             NEW other, Connect(tok, role, mine, other)
      PROVE  IInv'
  <2>1. /\ Read(tok, {role}) /\ UNCHANGED <<dtd, decl>>
        /\ \/ Fail("SYNTAX") /\ UNCHANGED groups
           \/ Silent /\ groups' = [groups EXCEPT !.connector[prologState.level] = mine]
    BY <1>1 DEF Connect
  <2>2. {role} \cap {"ERROR", "INSTANCE_START", "GROUP_OPEN"} = {}
    OBVIOUS
  <2>3. GroupsFit(prologState', groups)
    BY <2>1, <2>2, GroupsStay
  <2>4. GroupsFit(prologState', groups')
    <3> DEFINE connector == [groups.connector EXCEPT ![prologState.level] = mine]
    <3>1. DOMAIN connector = DOMAIN groups.connector
            /\ connector \in [DOMAIN connector -> {None, Comma, "|"}]
      BY <2>3 DEF GroupsFit, GroupsTyped
    <3>2. groups' = groups \/ groups' = [size |-> groups.size, connector |-> connector]
      BY <2>1, <2>3 DEF GroupsFit, GroupsTyped
    <3> HIDE DEF connector
    <3> QED BY <2>3, <3>1, <3>2 DEF GroupsFit, GroupsTyped
  <2>5. Silent \/ \E code \in Codes : Fail(code)
    BY <2>1 DEF Codes
  <2> QED BY <2>1, <2>2, <2>4, <2>5, PrologGoesOn DEF IInv, TypeOK
<1> QED BY <1>1 DEF GroupSequence, GroupChoice

-----------------------------------------------------------------------------
(* Attribute values                                                        *)

ValueCodes == {"BAD_CHAR_REF", "BINARY_ENTITY_REF", "ATTRIBUTE_EXTERNAL_ENTITY_REF",
               "UNDEFINED_ENTITY"}
Values == [value : Seq(Pieces), error : ValueCodes \cup {None}]

LEMMA PieceStays ==
  ASSUME NEW so \in Values, NEW p \in Pieces, NEW cdata
  PROVE  appendPiece(so, p, cdata) \in Values
<1> DEFINE put(c) == [so EXCEPT !.value = Append(@, c)]
<1>1. /\ so = [value |-> so.value, error |-> so.error]
      /\ so.value \in Seq(Pieces) /\ so.error \in ValueCodes \cup {None}
  BY DEF Values
<1>2. \A c \in Pieces : put(c) \in Values
  BY <1>1 DEF Values
<1>3. \A code \in ValueCodes : [so EXCEPT !.error = code] \in Values
  BY <1>1 DEF Values
<1>4. EntityError(p) \in ValueCodes \cup {None}
  BY DEF EntityError, ValueCodes
<1>5. Space \in Pieces /\ "BAD_CHAR_REF" \in ValueCodes
  BY DEF Pieces, ValueCodes
<1> HIDE DEF put
<1>6. \/ appendPiece(so, p, cdata) \in {so, put(Space), put(p)}
      \/ appendPiece(so, p, cdata) = [so EXCEPT !.error = "BAD_CHAR_REF"]
      \/ EntityError(p) # None
           /\ appendPiece(so, p, cdata) = [so EXCEPT !.error = EntityError(p)]
  <2>1. CASE so.error # None
    BY <2>1 DEF appendPiece
  <2>2. CASE so.error = None /\ p \in {Space, "#32"}
    BY <2>2 DEF appendPiece, put
  <2>3. CASE so.error = None /\ p \notin {Space, "#32"}
    BY <2>3 DEF appendPiece, put
  <2> QED BY <2>1, <2>2, <2>3
<1> QED BY <1>2, <1>3, <1>4, <1>5, <1>6

LEMMA TextPieces ==
  ASSUME NEW l \in Literals
  PROVE  /\ Text[l] \in Seq(STRING) /\ Len(Text[l]) \in Nat
         /\ \A i \in 1 .. Len(Text[l]) : Text[l][i] \in Pieces
<1>1. Text[l] \in Seq(STRING)
  BY DocumentAssumption
<1>2. DOMAIN Text[l] = 1 .. Len(Text[l]) /\ Len(Text[l]) \in Nat
  BY <1>1
<1>3. \A i \in DOMAIN Text[l] : Text[l][i] \in Pieces
  BY DEF Pieces
<1> QED BY <1>1, <1>2, <1>3

LEMMA ValueStays ==
  ASSUME NEW l \in Literals, NEW cdata
  PROVE  appendAttributeValue(Text[l], cdata) \in Values
<1> DEFINE n == Len(Text[l])
           After(g) == g = [i \in 0 .. n |-> IF i = 0 THEN NoText
                                   ELSE appendPiece(g[i - 1], Text[l][i], cdata)]
           add == CHOOSE g : After(g)
           step == [i \in 1 .. n |-> [so \in Values |-> appendPiece(so, Text[l][i], cdata)]]
<1>1. n \in Nat /\ \A i \in 1 .. n : Text[l][i] \in Pieces
  BY TextPieces
<1>2. NoText \in Values
  BY DEF NoText, Values
<1>3. \A i \in 1 .. n, so \in Values : appendPiece(so, Text[l][i], cdata) \in Values
  BY <1>1, PieceStays
<1>4. step \in [1 .. n -> [Values -> Values]]
  BY <1>3
<1>5. PICK g \in [0 .. n -> Values] : IsRun(g, n, NoText, step)
  <2> HIDE DEF step, n
  <2> QED BY <1>1, <1>2, <1>4, Iterates
<1>6. After(g)
  <2> HIDE DEF n
  <2>1. \A i \in 0 .. n : i # 0 => i \in 1 .. n /\ i - 1 \in 0 .. n
    BY <1>1
  <2>2. \A i \in 0 .. n : i # 0 =>
          step[i][g[i - 1]] = appendPiece(g[i - 1], Text[l][i], cdata)
    BY <2>1
  <2> HIDE DEF step
  <2> QED BY <1>5, <2>2 DEF IsRun
<1>7. After(add)
  <2> HIDE DEF After
  <2> QED BY <1>6
<1>8. add[0] = NoText /\ \A i \in 1 .. n : add[i] = appendPiece(add[i - 1], Text[l][i], cdata)
  <2> HIDE DEF add
  <2> QED BY <1>1, <1>7
<1>9. \A i \in 0 .. n : add[i] \in Values
  <2> HIDE DEF add, n
  <2>1. \A i \in 1 .. n : add[i - 1] \in Values => add[i] \in Values
    BY <1>3, <1>8
  <2>2. add[0] \in Values
    BY <1>2, <1>8
  <2> QED BY <1>1, <2>1, <2>2, Stays
<1>10. appendAttributeValue(Text[l], cdata) = add[n]
  BY DEF appendAttributeValue
<1>11. n \in 0 .. n
  BY <1>1
<1> QED BY <1>9, <1>10, <1>11

LEMMA StoredTyped ==
  ASSUME NEW l \in Literals, NEW cdata
  PROVE  storeAttributeValue(Text[l], cdata) \in Values
<1> DEFINE so == appendAttributeValue(Text[l], cdata)
<1>1. so \in Values
  BY ValueStays
<1> HIDE DEF so
<1>2. so.value \in Seq(Pieces) /\ so.error \in ValueCodes \cup {None}
        /\ so = [value |-> so.value, error |-> so.error]
  BY <1>1 DEF Values
<1>3. so.value # <<>> => SubSeq(so.value, 1, Len(so.value) - 1) \in Seq(Pieces)
  BY <1>2
<1>4. so.value # <<>> =>
        [so EXCEPT !.value = SubSeq(@, 1, Len(@) - 1)] \in Values
  BY <1>2, <1>3 DEF Values
<1> QED BY <1>1, <1>4 DEF storeAttributeValue, so

-----------------------------------------------------------------------------
(* The definitions of attributes                                           *)

LEMMA DefaultsTyped ==
  ASSUME IInv, NEW e
  PROVE  Defaults(e) \in Seq(Definitions)
<1>1. \A d \in DOMAIN dtd.defaults : dtd.defaults[d] \in Seq(Definitions)
  BY DEF IInv, TypeOK, DtdTyped
<1>2. <<>> \in Seq(Definitions)
  OBVIOUS
<1> QED BY <1>1, <1>2, Zenon DEF Defaults

LEMMA DefineTyped ==
  ASSUME IInv, NEW id, NEW value \in Seq(Pieces) \cup {NoValue}
  PROVE  DtdTyped(defineAttribute(id, value))
<1> DEFINE e    == decl.element
           new  == [id |-> decl.attribute, cdata |-> decl.cdata, value |-> value]
           known == [x \in DOMAIN dtd.defaults \cup {e} |->
                       IF x # e THEN dtd.defaults[x] ELSE Append(Defaults(e), new)]
           tokenized == IF decl.cdata THEN dtd.tokenized
                        ELSE dtd.tokenized \cup {decl.attribute}
<1>1. DtdTyped(dtd) /\ e \in Tokens \cup {None} /\ decl.attribute \in Tokens \cup {None}
        /\ decl.cdata \in BOOLEAN
  BY DEF IInv, TypeOK, Registers
<1>2. new \in Definitions
  BY <1>1 DEF Definitions
<1>3. Append(Defaults(e), new) \in Seq(Definitions)
  <2> HIDE DEF e, new
  <2> QED BY <1>2, DefaultsTyped
<1>4. known \in [DOMAIN known -> Seq(Definitions)]
        /\ DOMAIN known = DOMAIN dtd.defaults \cup {e}
  <2> HIDE DEF e, new
  <2> QED BY <1>1, <1>3 DEF DtdTyped
<1>5. tokenized \subseteq dtd.tokenized \cup {decl.attribute}
  OBVIOUS
<1>6. \/ defineAttribute(id, value) = dtd
      \/ defineAttribute(id, value)
           = [dtd EXCEPT !.defaults = known, !.tokenized = tokenized]
  BY DEF defineAttribute
<1> HIDE DEF e, known, tokenized
<1>7. [dtd EXCEPT !.defaults = known, !.tokenized = tokenized]
        = [defaults |-> known, tokenized |-> tokenized, entities |-> dtd.entities,
           external |-> dtd.external, standalone |-> dtd.standalone]
  <2> DEFINE one  == [dtd EXCEPT !.defaults = known]
             both == [dtd EXCEPT !.defaults = known, !.tokenized = tokenized]
  <2>1. dtd = [defaults |-> dtd.defaults, tokenized |-> dtd.tokenized,
               entities |-> dtd.entities, external |-> dtd.external,
               standalone |-> dtd.standalone]
    BY <1>1 DEF DtdTyped
  <2>2. one = [defaults |-> known, tokenized |-> dtd.tokenized, entities |-> dtd.entities,
               external |-> dtd.external, standalone |-> dtd.standalone]
    BY <2>1
  <2>3. both = [one EXCEPT !.tokenized = tokenized]
    OBVIOUS
  <2>4. both = [defaults |-> known, tokenized |-> tokenized, entities |-> dtd.entities,
                external |-> dtd.external, standalone |-> dtd.standalone]
    <3> HIDE DEF both, one
    <3> QED BY <2>2, <2>3
  <2> QED BY <2>4
<1>8. DtdTyped([defaults |-> known, tokenized |-> tokenized, entities |-> dtd.entities,
                external |-> dtd.external, standalone |-> dtd.standalone])
  <2> DEFINE d == [defaults |-> known, tokenized |-> tokenized, entities |-> dtd.entities,
                   external |-> dtd.external, standalone |-> dtd.standalone]
  <2>1. /\ d = [defaults |-> d.defaults, tokenized |-> d.tokenized, entities |-> d.entities,
                external |-> d.external, standalone |-> d.standalone]
        /\ d.defaults = known /\ d.tokenized = tokenized /\ d.entities = dtd.entities
        /\ d.external = dtd.external /\ d.standalone = dtd.standalone
    OBVIOUS
  <2>2. DOMAIN known \cup tokenized \subseteq Tokens \cup {None}
    BY <1>1, <1>4, <1>5 DEF DtdTyped
  <2> HIDE DEF d
  <2>3. DtdTyped(d)
    BY <1>1, <1>4, <2>1, <2>2 DEF DtdTyped
  <2> QED BY <2>3 DEF d
<1> QED BY <1>1, <1>6, <1>7, <1>8

LEMMA NoDefaultStep ==
  ASSUME IInv, NEW tok, NoDefault(tok)
  PROVE  IInv'
<1> DEFINE roles == {"IMPLIED_ATTRIBUTE_VALUE", "REQUIRED_ATTRIBUTE_VALUE"}
<1>1. /\ Read(tok, roles) /\ Silent /\ UNCHANGED <<groups, decl>>
      /\ dtd' = defineAttribute(decl.id, NoValue)
  BY DEF NoDefault
<1>2. roles \cap {"ERROR", "INSTANCE_START", "GROUP_OPEN"} = {}
  OBVIOUS
<1> HIDE DEF roles
<1>3. GroupsFit(prologState', groups') /\ decl' \in Registers
  BY <1>1, <1>2, GroupsStay DEF IInv, TypeOK
<1>4. DtdTyped(dtd')
  BY <1>1, DefineTyped
<1> QED BY <1>1, <1>2, <1>3, <1>4, PrologGoesOn

LEMMA DefaultValueStep ==
  ASSUME IInv, NEW tok, DefaultValue(tok)
  PROVE  IInv'
<1> DEFINE roles == {"DEFAULT_ATTRIBUTE_VALUE", "FIXED_ATTRIBUTE_VALUE"}
           so == storeAttributeValue(Text[tok], decl.cdata)
<1>1. /\ Read(tok, roles) /\ UNCHANGED <<groups, decl>>
      /\ \/ so.error # None /\ Fail(so.error) /\ UNCHANGED dtd
         \/ Silent /\ dtd' = defineAttribute(FALSE, so.value)
  BY DEF DefaultValue
<1>2. roles \cap {"ERROR", "INSTANCE_START", "GROUP_OPEN"} = {}
  OBVIOUS
<1>3. tok \in Literals
  <2>1. Token(tok).role \in roles /\ Answered(prologState, tok, Token(tok).role, prologState')
    BY <1>1, ReadFacts
  <2> QED BY <2>1 DEF Answered
<1>4. so.value \in Seq(Pieces) /\ so.error \in ValueCodes \cup {None}
  BY <1>3, StoredTyped DEF Values
<1> HIDE DEF roles, so
<1>5. GroupsFit(prologState', groups') /\ decl' \in Registers
  BY <1>1, <1>2, GroupsStay DEF IInv, TypeOK
<1>6. DtdTyped(dtd')
  BY <1>1, <1>4, DefineTyped DEF IInv, TypeOK
<1>7. Silent \/ \E code \in Codes : Fail(code)
  BY <1>1, <1>4 DEF ValueCodes, Codes
<1> QED BY <1>1, <1>2, <1>5, <1>6, <1>7, PrologGoesOn

LEMMA PrologStep ==
  ASSUME IInv, Prolog
  PROVE  IInv'
BY ReadQuietlyStep, ReadErrorStep, XmlDeclStep, IdStep, EntityStep, EntityBodyStep,
   AttlistStep, NoDefaultStep, DefaultValueStep, GroupOpenStep, ConnectStep,
   InstanceStartStep DEF Prolog

-----------------------------------------------------------------------------
(* The attributes of a tag                                                 *)

\* m_atts is grown before it is read out, so nothing of the tag is lost.
LEMMA FilledAtOnce ==
  ASSUME IInv, NEW e, NEW atts \in Seq(Given)
  PROVE  /\ FilledAtts(e, atts) = atts
         /\ GrownAtts(e, atts) \in Nat /\ attsSize <= GrownAtts(e, atts)
         /\ Slots(e, atts) \in Nat /\ Slots(e, atts) <= GrownAtts(e, atts)
<1>1. Len(atts) \in Nat /\ Len(Defaults(e)) \in Nat /\ attsSize \in Nat
        /\ FirstAtts \in Nat
  BY DefaultsTyped, DocumentAssumption DEF IInv, TypeOK
<1>2. GrownAtts(e, atts) \in Nat /\ attsSize <= GrownAtts(e, atts)
        /\ Slots(e, atts) \in Nat /\ Slots(e, atts) <= GrownAtts(e, atts)
  BY <1>1 DEF GrownAtts, Slots
<1> DEFINE filled == IF Slots(e, atts) > attsSize /\ Len(atts) > attsSize
                     THEN GrownAtts(e, atts) ELSE attsSize
<1>3. Len(atts) <= filled /\ filled \in Nat
  BY <1>1, <1>2 DEF Slots
<1>4. DOMAIN atts = 1 .. Len(atts)
  OBVIOUS
<1>5. FilledAtts(e, atts) = [i \in DOMAIN atts |-> IF i <= filled THEN atts[i] ELSE Unread]
  BY DEF FilledAtts
<1>6. \A i \in DOMAIN atts : i <= filled
  <2> HIDE DEF filled
  <2> QED BY <1>1, <1>3, <1>4
<1>7. atts = [i \in DOMAIN atts |-> atts[i]]
  OBVIOUS
<1> HIDE DEF filled
<1> QED BY <1>2, <1>5, <1>6, <1>7

LEMMA WithDefaultStays ==
  ASSUME NEW atts \in Seq(Reported), NEW d \in Definitions
  PROVE  /\ WithDefault(atts, d) \in Seq(Reported)
         /\ Len(WithDefault(atts, d)) <= Len(atts) + 1
<1> DEFINE new == [id |-> d.id, value |-> d.value]
<1>1. d.value # NoValue => new \in Reported
  BY DEF Definitions, Reported
<1>2. \/ WithDefault(atts, d) = atts
      \/ d.value # NoValue /\ WithDefault(atts, d) = Append(atts, new)
  BY DEF WithDefault
<1> HIDE DEF new
<1> QED BY <1>1, <1>2

LEMMA WithDefaultsFit ==
  ASSUME IInv, NEW e, NEW atts \in Seq(Reported)
  PROVE  /\ WithDefaults(e, atts) \in Seq(Reported)
         /\ Len(WithDefaults(e, atts)) <= Slots(e, atts)
<1> DEFINE T == Seq(Reported)
           n == Len(Defaults(e))
           After(g) == g = [i \in 0 .. n |-> IF i = 0 THEN atts
                                   ELSE WithDefault(g[i - 1], Defaults(e)[i])]
           add == CHOOSE g : After(g)
           step == [i \in 1 .. n |-> [a \in T |-> WithDefault(a, Defaults(e)[i])]]
<1>1. n \in Nat /\ \A i \in 1 .. n : Defaults(e)[i] \in Definitions
  BY DefaultsTyped
<1>2. atts \in T
  OBVIOUS
<1>3. \A i \in 1 .. n, a \in T : /\ WithDefault(a, Defaults(e)[i]) \in T
                                 /\ Len(WithDefault(a, Defaults(e)[i])) <= Len(a) + 1
  BY <1>1, WithDefaultStays
<1>4. step \in [1 .. n -> [T -> T]]
  <2> HIDE DEF T
  <2> QED BY <1>3
<1>5. PICK g \in [0 .. n -> T] : IsRun(g, n, atts, step)
  <2> HIDE DEF step, n, T
  <2> QED BY <1>1, <1>2, <1>4, Iterates
<1>6. After(g)
  <2> HIDE DEF n, T
  <2>1. \A i \in 0 .. n : i # 0 => i \in 1 .. n /\ i - 1 \in 0 .. n
    BY <1>1
  <2>2. \A i \in 0 .. n : i # 0 =>
          step[i][g[i - 1]] = WithDefault(g[i - 1], Defaults(e)[i])
    BY <2>1
  <2> HIDE DEF step
  <2> QED BY <1>5, <2>2 DEF IsRun
<1>7. After(add)
  <2> HIDE DEF After
  <2> QED BY <1>6
<1>8. add[0] = atts /\ \A i \in 1 .. n : add[i] = WithDefault(add[i - 1], Defaults(e)[i])
  <2> HIDE DEF add
  <2> QED BY <1>1, <1>7
<1>9. \A i \in 0 .. n : add[i] \in T
  <2> HIDE DEF add, n, T
  <2>1. \A i \in 1 .. n : add[i - 1] \in T => add[i] \in T
    BY <1>3, <1>8
  <2>2. add[0] \in T
    BY <1>2, <1>8
  <2> QED BY <1>1, <2>1, <2>2, Stays
<1> DEFINE S == {i \in 0 .. n : Len(add[i]) <= Len(atts) + i}
<1>10. \A i \in 0 .. n : i \in S
  <2> HIDE DEF add, n
  <2>1. 0 \in S
    BY <1>1, <1>8
  <2>2. ASSUME NEW i \in 1 .. n, i - 1 \in S
        PROVE  i \in S
    <3>1. add[i - 1] \in T /\ add[i] \in T /\ i - 1 \in 0 .. n /\ i \in 0 .. n
      BY <1>1, <1>9
    <3>2. Len(add[i]) <= Len(add[i - 1]) + 1
      BY <1>3, <1>8, <3>1
    <3>3. Len(add[i - 1]) \in Nat /\ Len(add[i]) \in Nat /\ Len(atts) \in Nat
      BY <3>1
    <3> QED BY <1>1, <2>2, <3>1, <3>2, <3>3
  <2> HIDE DEF S
  <2> QED BY <1>1, <2>1, <2>2, Walked
<1>11. WithDefaults(e, atts) = add[n]
  BY DEF WithDefaults
<1>12. n \in 0 .. n
  BY <1>1
<1>13. Len(add[n]) <= Len(atts) + n
  <2> HIDE DEF add, n
  <2> QED BY <1>10, <1>12
<1> QED BY <1>9, <1>11, <1>12, <1>13 DEF Slots

\* The first attribute that is wrong, where there is one.
LEMMA FirstOf ==
  ASSUME NEW bad \in SUBSET Nat, bad # {}
  PROVE  (CHOOSE i \in bad : \A j \in bad : i <= j) \in bad
<1>1. \E i \in bad : \A j \in bad : i <= j
  BY Least
<1> QED BY <1>1

StoreCodes == ValueCodes \cup {"DUPLICATE_ATTRIBUTE"}

LEMMA StoreAttsFit ==
  ASSUME IInv, NEW e, NEW atts \in Seq(Given)
  PROVE  LET so == storeAtts(e, atts)
         IN  /\ so.atts \in Seq(Reported) /\ so.error \in StoreCodes \cup {None}
             /\ Len(so.atts) <= Slots(e, atts)
<1> DEFINE given(i) == {atts[j].id : j \in 1 .. i}
           value(i) == storeAttributeValue(Text[atts[i].text], ~Tokenized(e, atts[i].id))
           bad == {i \in DOMAIN atts : atts[i].id \in given(i - 1) \/ value(i).error # None}
           first == CHOOSE i \in bad : \A j \in bad : i <= j
           list == [j \in DOMAIN atts |-> [id |-> atts[j].id, value |-> value(j).value]]
           code == IF atts[first].id \in given(first - 1)
                   THEN "DUPLICATE_ATTRIBUTE" ELSE value(first).error
<1>1. \A i \in DOMAIN atts : atts[i] \in Given
  OBVIOUS
<1>2. \A i \in DOMAIN atts : value(i) \in Values
  BY <1>1, StoredTyped DEF Given
<1>3. Attributes \subseteq Tokens
  BY DocumentAssumption DEF Tokens, Names
<1>4. list \in Seq(Reported) /\ Len(list) = Len(atts)
  <2> HIDE DEF value
  <2>1. \A i \in DOMAIN atts : [id |-> atts[i].id, value |-> value(i).value] \in Reported
    BY <1>1, <1>2, <1>3 DEF Given, Reported, Values
  <2>2. DOMAIN atts = 1 .. Len(atts) /\ Len(atts) \in Nat
    OBVIOUS
  <2> QED BY <2>1, <2>2
<1>5. storeAtts(e, atts) = IF bad = {} THEN [atts |-> WithDefaults(e, list), error |-> None]
                           ELSE [atts |-> <<>>, error |-> code]
  BY DEF storeAtts
<1> HIDE DEF list
<1>6. WithDefaults(e, list) \in Seq(Reported) /\ Len(WithDefaults(e, list)) <= Slots(e, atts)
  BY <1>4, WithDefaultsFit DEF Slots
<1>7. Slots(e, atts) \in Nat
  BY FilledAtOnce
<1>8. bad # {} => code \in StoreCodes
  <2> SUFFICES ASSUME bad # {} PROVE code \in StoreCodes
    OBVIOUS
  <2>1. bad \in SUBSET Nat
    OBVIOUS
  <2>2. first \in bad
    <3> HIDE DEF bad
    <3> QED BY <2>1, FirstOf
  <2> HIDE DEF first
  <2>3. first \in DOMAIN atts /\ (atts[first].id \in given(first - 1) \/ value(first).error # None)
    BY <2>2
  <2> HIDE DEF value, given, bad
  <2> QED BY <1>2, <2>3 DEF Values, StoreCodes
<1> HIDE DEF bad, code
<1> QED BY <1>5, <1>6, <1>7, <1>8

-----------------------------------------------------------------------------
(* Content                                                                 *)

LEMMA DocumentKept ==
  ASSUME IInv, UNCHANGED docVars, processor' \in Processors \ {"prolog"},
         outcome' \in {"parsing", "ok"} \cup Codes,
         attsSize' \in Nat, tags' \in Seq(Elements), events' \in Seq(Calls),
         \A i \in DOMAIN events' : Len(events'[i].atts) <= attsSize'
  PROVE  IInv'
<1>1. TypeOK'
  BY DEF IInv, TypeOK, docVars
<1>2. BackstopUnreached' /\ GroupSound' /\ AttsWithin'
  BY DEF IInv, BackstopUnreached, GroupSound, InModel, AttsWithin, docVars
<1> QED BY <1>1, <1>2 DEF IInv

LEMMA AfterTagTyped ==
  ASSUME IInv, NEW open, AfterTag(open)
  PROVE  processor' \in Processors \ {"prolog"} /\ outcome' \in {"parsing", "ok"} \cup Codes
BY DEF AfterTag, Fail, Processors, Codes, IInv, TypeOK

LEMMA FailTyped ==
  ASSUME NEW code \in Codes, Fail(code)
  PROVE  processor' \in Processors \ {"prolog"} /\ outcome' \in {"parsing", "ok"} \cup Codes
BY DEF Fail, Processors

\* Calls of the handlers.
LEMMA CallsTyped ==
  ASSUME NEW name \in Elements \cup Entities \cup {"text", "#65"}
  PROVE  /\ End(name) \in Calls /\ End(name).atts = <<>>
         /\ Chars(name) \in Calls /\ Chars(name).atts = <<>>
BY DEF End, Chars, Call, Calls

LEMMA BeginTyped ==
  ASSUME NEW e \in Elements, NEW atts \in Seq(Reported), NEW given \in Seq(Given)
  PROVE  Begin(e, atts, given) \in Calls /\ Begin(e, atts, given).atts = atts
<1>1. Begin(e, atts, given)
        = [call |-> "start", name |-> e, atts |-> atts, given |-> given]
  <2> DEFINE one == [Call("start", e) EXCEPT !.atts = atts]
  <2>1. one = [call |-> "start", name |-> e, atts |-> atts, given |-> <<>>]
    BY DEF Call
  <2>2. Begin(e, atts, given) = [one EXCEPT !.given = given]
    BY DEF Begin
  <2> HIDE DEF one
  <2> QED BY <2>1, <2>2
<1> QED BY <1>1 DEF Calls

\* The calls that were made fit when m_atts has not shrunk, and one more does.
LEMMA OldCalls ==
  ASSUME IInv, attsSize' \in Nat, attsSize <= attsSize'
  PROVE  /\ events \in Seq(Calls)
         /\ \A i \in DOMAIN events : Len(events[i].atts) <= attsSize'
<1>1. events \in Seq(Calls) /\ attsSize \in Nat
        /\ \A i \in DOMAIN events : Len(events[i].atts) <= attsSize
  BY DEF IInv, TypeOK, AttsWithin
<1>2. \A i \in DOMAIN events : Len(events[i].atts) \in Nat
  BY <1>1 DEF Calls
<1> QED BY <1>1, <1>2

LEMMA AppendedOne ==
  ASSUME NEW s \in Seq(Calls), NEW c \in Calls, NEW room,
         \A i \in DOMAIN s : Len(s[i].atts) <= room, Len(c.atts) <= room
  PROVE  /\ Append(s, c) \in Seq(Calls)
         /\ \A i \in DOMAIN Append(s, c) : Len(Append(s, c)[i].atts) <= room
<1>1. DOMAIN Append(s, c) = 1 .. Len(s) + 1 /\ DOMAIN s = 1 .. Len(s) /\ Len(s) \in Nat
  OBVIOUS
<1>2. \A i \in DOMAIN s : Append(s, c)[i] = s[i]
  OBVIOUS
<1>3. Append(s, c)[Len(s) + 1] = c
  OBVIOUS
<1>4. \A i \in 1 .. Len(s) + 1 : i \in 1 .. Len(s) \/ i = Len(s) + 1
  BY <1>1
<1> QED BY <1>1, <1>2, <1>3, <1>4

\* What a start tag reports.
LEMMA ReportFits ==
  ASSUME IInv, NEW e \in Elements, NEW atts \in Tagged[family],
         attsSize' = GrownAtts(e, atts)
  PROVE  LET so == storeAtts(e, FilledAtts(e, atts))
         IN  /\ attsSize' \in Nat /\ attsSize <= attsSize'
             /\ so.error # None => so.error \in Codes
             /\ Begin(e, so.atts, atts) \in Calls
             /\ Begin(e, so.atts, atts).atts = so.atts /\ Len(so.atts) <= attsSize'
<1>1. atts \in Seq(Given)
  BY DocumentAssumption DEF IInv, TypeOK, Given
<1>2. /\ FilledAtts(e, atts) = atts /\ GrownAtts(e, atts) \in Nat
      /\ attsSize <= GrownAtts(e, atts) /\ Slots(e, atts) \in Nat
      /\ Slots(e, atts) <= GrownAtts(e, atts)
  BY <1>1, FilledAtOnce
<1> DEFINE so == storeAtts(e, atts)
<1>3. /\ so.atts \in Seq(Reported) /\ so.error \in StoreCodes \cup {None}
      /\ Len(so.atts) <= Slots(e, atts)
  BY <1>1, StoreAttsFit
<1> HIDE DEF so
<1>4. Begin(e, so.atts, atts) \in Calls /\ Begin(e, so.atts, atts).atts = so.atts
  BY <1>1, <1>3, BeginTyped
<1>5. so.error # None => so.error \in Codes
  BY <1>3 DEF StoreCodes, ValueCodes, Codes
<1>6. Len(so.atts) \in Nat
  BY <1>3
<1>7. Len(so.atts) <= attsSize'
  BY <1>2, <1>3, <1>6
<1> QED BY <1>2, <1>4, <1>5, <1>7 DEF so

LEMMA StartTagStep ==
  ASSUME IInv, NEW e \in Elements, NEW atts \in Tagged[family], StartTag(e, atts)
  PROVE  IInv'
<1> DEFINE so   == storeAtts(e, FilledAtts(e, atts))
           call == Begin(e, so.atts, atts)
<1>1. /\ attsSize' = GrownAtts(e, atts) /\ tags' = Append(tags, e) /\ UNCHANGED docVars
      /\ \/ so.error # None /\ Fail(so.error) /\ UNCHANGED events
         \/ events' = Append(events, call) /\ AfterTag(tags')
  BY DEF StartTag
<1>2. /\ attsSize' \in Nat /\ attsSize <= attsSize' /\ (so.error # None => so.error \in Codes)
      /\ call \in Calls /\ call.atts = so.atts /\ Len(so.atts) <= attsSize'
  BY <1>1, ReportFits
<1> HIDE DEF so, call
<1>3. tags' \in Seq(Elements)
  BY <1>1 DEF IInv, TypeOK
<1>4. events \in Seq(Calls)
        /\ \A i \in DOMAIN events : Len(events[i].atts) <= attsSize'
  BY <1>2, OldCalls
<1>5. events' \in Seq(Calls) /\ \A i \in DOMAIN events' : Len(events'[i].atts) <= attsSize'
  <2>1. /\ Append(events, call) \in Seq(Calls)
        /\ \A i \in DOMAIN Append(events, call) :
             Len(Append(events, call)[i].atts) <= attsSize'
    BY <1>2, <1>4, AppendedOne
  <2> QED BY <1>1, <1>4, <2>1
<1>6. processor' \in Processors \ {"prolog"} /\ outcome' \in {"parsing", "ok"} \cup Codes
  BY <1>1, <1>2, FailTyped, AfterTagTyped
<1> QED BY <1>1, <1>2, <1>3, <1>5, <1>6, DocumentKept

LEMMA EmptyElementStep ==
  ASSUME IInv, NEW e \in Elements, NEW atts \in Tagged[family], EmptyElement(e, atts)
  PROVE  IInv'
<1> DEFINE so   == storeAtts(e, FilledAtts(e, atts))
           call == Begin(e, so.atts, atts)
<1>1. /\ attsSize' = GrownAtts(e, atts) /\ UNCHANGED <<tags, docVars>>
      /\ \/ so.error # None /\ Fail(so.error) /\ UNCHANGED events
         \/ /\ events' = events \o (IF peek THEN <<call>> ELSE <<call, End(e)>>)
            /\ AfterTag(tags)
  BY DEF EmptyElement
<1>2. /\ attsSize' \in Nat /\ attsSize <= attsSize' /\ (so.error # None => so.error \in Codes)
      /\ call \in Calls /\ call.atts = so.atts /\ Len(so.atts) <= attsSize'
  BY <1>1, ReportFits
<1>3. End(e) \in Calls /\ Len(End(e).atts) <= attsSize'
  BY <1>2, CallsTyped
<1> HIDE DEF so, call
<1>4. tags' \in Seq(Elements) /\ UNCHANGED docVars
  BY <1>1 DEF IInv, TypeOK
<1>5. events \in Seq(Calls)
        /\ \A i \in DOMAIN events : Len(events[i].atts) <= attsSize'
  BY <1>2, OldCalls
<1>6. events' \in Seq(Calls) /\ \A i \in DOMAIN events' : Len(events'[i].atts) <= attsSize'
  <2> DEFINE one == Append(events, call)
             two == Append(one, End(e))
  <2>1. one \in Seq(Calls) /\ \A i \in DOMAIN one : Len(one[i].atts) <= attsSize'
    BY <1>2, <1>5, AppendedOne
  <2>2. two \in Seq(Calls) /\ \A i \in DOMAIN two : Len(two[i].atts) <= attsSize'
    <3> HIDE DEF one
    <3> QED BY <1>3, <2>1, AppendedOne
  <2>3. events \o <<call>> = one /\ events \o <<call, End(e)>> = two
    BY <1>2, <1>3, <1>5
  <2> HIDE DEF one, two
  <2>4. events' \in {events, one, two}
    BY <1>1, <2>3
  <2> QED BY <1>5, <2>1, <2>2, <2>4
<1>7. processor' \in Processors \ {"prolog"} /\ outcome' \in {"parsing", "ok"} \cup Codes
  BY <1>1, <1>2, FailTyped, AfterTagTyped
<1> QED BY <1>1, <1>2, <1>4, <1>6, <1>7, DocumentKept

\* The steps that change neither the attributes nor what they are kept in.
LEMMA EndTagStep ==
  ASSUME IInv, NEW e \in Elements, EndTag(e)
  PROVE  IInv'
<1>1. /\ tags # <<>> /\ UNCHANGED dtdVars
      /\ \/ Fail("TAG_MISMATCH") /\ UNCHANGED <<tags, events>>
         \/ /\ tags' = SubSeq(tags, 1, Len(tags) - 1)
            /\ events' = Append(events, End(e)) /\ AfterTag(tags')
  BY DEF EndTag
<1>2. UNCHANGED docVars /\ attsSize' = attsSize /\ attsSize' \in Nat /\ attsSize <= attsSize'
  BY <1>1 DEF dtdVars, IInv, TypeOK
<1>3. tags' \in Seq(Elements)
  <2>1. tags \in Seq(Elements) /\ SubSeq(tags, 1, Len(tags) - 1) \in Seq(Elements)
    BY <1>1 DEF IInv, TypeOK
  <2> QED BY <1>1, <2>1
<1>4. End(e) \in Calls /\ Len(End(e).atts) <= attsSize'
  BY <1>2, CallsTyped
<1>5. events \in Seq(Calls)
        /\ \A i \in DOMAIN events : Len(events[i].atts) <= attsSize'
  BY <1>2, OldCalls
<1>6. events' \in Seq(Calls) /\ \A i \in DOMAIN events' : Len(events'[i].atts) <= attsSize'
  BY <1>1, <1>4, <1>5, AppendedOne
<1>7. processor' \in Processors \ {"prolog"} /\ outcome' \in {"parsing", "ok"} \cup Codes
  BY <1>1, FailTyped, AfterTagTyped DEF Codes
<1> QED BY <1>2, <1>3, <1>6, <1>7, DocumentKept

LEMMA TextStep ==
  ASSUME IInv, NEW c \in {"text", "#65"} \cup Entities, CharData(c) \/ EntityRef(c)
  PROVE  IInv'
<1>1. /\ processor \in {"content", "cdata"} /\ UNCHANGED <<tags, dtdVars>>
      /\ events' = events \/ events' = Append(events, Chars(c))
      /\ \/ Silent
         \/ EntityError(c) # None /\ Fail(EntityError(c))
  BY DEF CharData, EntityRef, processInternalEntity
<1>2. UNCHANGED docVars /\ attsSize' = attsSize /\ attsSize' \in Nat /\ attsSize <= attsSize'
        /\ tags' \in Seq(Elements)
  BY <1>1 DEF dtdVars, IInv, TypeOK
<1>3. Chars(c) \in Calls /\ Len(Chars(c).atts) <= attsSize'
  BY <1>2, CallsTyped
<1>4. events \in Seq(Calls)
        /\ \A i \in DOMAIN events : Len(events[i].atts) <= attsSize'
  BY <1>2, OldCalls
<1>5. events' \in Seq(Calls) /\ \A i \in DOMAIN events' : Len(events'[i].atts) <= attsSize'
  BY <1>1, <1>3, <1>4, AppendedOne
<1>6. EntityError(c) \in Codes \cup {None}
  BY DEF EntityError, Codes
<1>7. processor' \in Processors \ {"prolog"} /\ outcome' \in {"parsing", "ok"} \cup Codes
  BY <1>1, <1>6, FailTyped DEF Silent, IInv, TypeOK, Processors
<1> QED BY <1>2, <1>5, <1>7, DocumentKept

LEMMA PlainStep ==
  ASSUME IInv, \/ BadCharRef \/ CdataOpen \/ CdataClose \/ XmlDeclInContent
               \/ Junk \/ BadToken \/ EndOfText
  PROVE  IInv'
<1>1. /\ UNCHANGED <<tags, events, dtdVars>>
      /\ \/ \E code \in Codes : Fail(code)
         \/ processor' \in {"content", "cdata"} /\ outcome' = outcome
         \/ processor' = "finished" /\ outcome' = "ok"
  BY DEF BadCharRef, CdataOpen, CdataClose, XmlDeclInContent, Junk, BadToken, EndOfText, Codes
<1>2. UNCHANGED docVars /\ attsSize' = attsSize /\ attsSize' \in Nat /\ attsSize <= attsSize'
        /\ tags' \in Seq(Elements)
  BY <1>1 DEF dtdVars, IInv, TypeOK
<1>3. events' \in Seq(Calls) /\ \A i \in DOMAIN events' : Len(events'[i].atts) <= attsSize'
  BY <1>1, <1>2, OldCalls
<1>4. processor' \in Processors \ {"prolog"} /\ outcome' \in {"parsing", "ok"} \cup Codes
  BY <1>1, FailTyped DEF IInv, TypeOK, Processors
<1> QED BY <1>2, <1>3, <1>4, DocumentKept

-----------------------------------------------------------------------------
(* The theorems                                                            *)

LEMMA InitSound == Init => IInv
<1> SUFFICES ASSUME Init PROVE IInv
  OBVIOUS
<1>1. DtdTyped(dtd)
  BY DEF Init, DtdTyped
<1>2. prologState \in PrologStates
  BY HandlerNames DEF Init, XmlPrologStateInit, PrologStates, NoneKinds
<1>3. GroupsTyped(groups) /\ decl \in Registers
  BY DEF Init, GroupsTyped, Registers
<1>4. tags \in Seq(Elements) /\ events \in Seq(Calls) /\ sentence \in Seq(Tokens)
        /\ declared \in Seq(Seq(Tokens))
  BY DEF Init
<1>5. family \in Families /\ peek \in BOOLEAN /\ attsSize \in Nat
        /\ processor = "prolog" /\ outcome = "parsing"
  BY DocumentAssumption DEF Init
<1>6. TypeOK
  BY <1>1, <1>2, <1>3, <1>4, <1>5 DEF TypeOK, Processors
<1>7. BackstopUnreached /\ GroupSound /\ AttsWithin
  BY DEF Init, XmlPrologStateInit, BackstopUnreached, GroupSound, InModel, AttsWithin
<1> QED BY <1>6, <1>7 DEF IInv

LEMMA StepSound == IInv /\ [Next]_vars => IInv'
<1> SUFFICES ASSUME IInv, [Next]_vars PROVE IInv'
  OBVIOUS
<1>1. CASE Prolog
  BY <1>1, PrologStep
<1>2. CASE Content
  BY <1>2, StartTagStep, EmptyElementStep, EndTagStep, TextStep, PlainStep DEF Content
<1>3. CASE Junk \/ BadToken \/ EndOfText
  BY <1>3, PlainStep
<1>4. CASE UNCHANGED vars
  BY <1>4 DEF vars, IInv, TypeOK, BackstopUnreached, GroupSound, InModel, AttsWithin
<1> QED BY <1>1, <1>2, <1>3, <1>4 DEF Next

LEMMA Inductive == Spec => []IInv
BY InitSound, StepSound, PTL DEF Spec

\* Every register, table and report of the parser keeps its type.
THEOREM DocumentTypeCorrect == Spec => []TypeOK
<1>1. IInv => TypeOK
  BY DEF IInv
<1> QED BY <1>1, Inductive, PTL

\* TablesSafe: the prolog never reaches the handler that nothing should reach, every open
\* group of a content model has its place in the connector array however the models before
\* it were nested, and a start tag reports no more attributes than m_atts has room for.
THEOREM TablesAlwaysSafe == Spec => []TablesSafe
<1>1. IInv => TablesSafe
  <2> SUFFICES ASSUME IInv PROVE TablesSafe
    OBVIOUS
  <2>1. DOMAIN groups.connector \subseteq 0 .. (groups.size - 1)
    BY DEF IInv, GroupSound
  <2>2. prologState.handler \in {"element6", "element7"} =>
          prologState.level \in DOMAIN groups.connector
    <3>1. prologState.level \in Nat
      BY DEF IInv, TypeOK, PrologStates
    <3> QED BY <3>1 DEF IInv, GroupSound, InModel
  <2> QED BY <2>1, <2>2 DEF IInv, TablesSafe, GroupWithin
<1> QED BY <1>1, Inductive, PTL

-----------------------------------------------------------------------------
(* The calls of the handlers: counting them                                *)

LEMMA CountFacts ==
  ASSUME NEW calls, NEW kind, NEW i \in Nat \ {0}, NEW n \in Nat, i <= n + 1
  PROVE  /\ Count(calls, kind, i, n) \in Nat
         /\ calls[n + 1].call = kind => Count(calls, kind, i, n + 1) = Count(calls, kind, i, n) + 1
         /\ calls[n + 1].call # kind => Count(calls, kind, i, n + 1) = Count(calls, kind, i, n)
         /\ Count(calls, kind, 1, n) = Count(calls, kind, 1, i - 1) + Count(calls, kind, i, n)
<1> DEFINE Of(a, b) == {k \in a .. b : calls[k].call = kind}
<1>1. \A a, b \in Nat : IsFiniteSet(Of(a, b))
  <2> SUFFICES ASSUME NEW a \in Nat, NEW b \in Nat PROVE IsFiniteSet(Of(a, b))
    OBVIOUS
  <2>1. IsFiniteSet(a .. b)
    BY FS_Interval
  <2>2. Of(a, b) \in SUBSET (a .. b)
    OBVIOUS
  <2> HIDE DEF Of
  <2> QED BY <2>1, <2>2, FS_Subset
<1>2. \A a, b \in Nat : Cardinality(Of(a, b)) \in Nat
  <2> HIDE DEF Of
  <2> QED BY <1>1, FS_CardinalityType
<1>3. Cardinality(Of(i, n + 1)) = Cardinality(Of(i, n))
                                   + IF calls[n + 1].call = kind THEN 1 ELSE 0
  <2>1. CASE calls[n + 1].call = kind
    <3>1. Of(i, n + 1) = Of(i, n) \cup {n + 1} /\ n + 1 \notin Of(i, n)
      BY <2>1
    <3> HIDE DEF Of
    <3> QED BY <1>1, <2>1, <3>1, FS_AddElement
  <2>2. CASE calls[n + 1].call # kind
    <3>1. Of(i, n + 1) = Of(i, n)
      <4>1. \A k \in i .. (n + 1) : k \in i .. n \/ k = n + 1
        OBVIOUS
      <4>2. i .. n \subseteq i .. (n + 1)
        OBVIOUS
      <4> QED BY <2>2, <4>1, <4>2
    <3> HIDE DEF Of
    <3> QED BY <1>2, <2>2, <3>1
  <2> QED BY <2>1, <2>2
<1>4. Cardinality(Of(1, n)) = Cardinality(Of(1, i - 1)) + Cardinality(Of(i, n))
  <2>1. /\ Of(1, n) = Of(1, i - 1) \cup Of(i, n)
        /\ Of(1, i - 1) \cap Of(i, n) = {}
    OBVIOUS
  <2>2. i - 1 \in Nat /\ 1 \in Nat
    OBVIOUS
  <2> HIDE DEF Of
  <2>3. Cardinality(Of(1, i - 1)) \in Nat /\ Cardinality(Of(i, n)) \in Nat
    BY <1>2, <2>2
  <2>4. Cardinality(Of(1, i - 1) \cup Of(i, n))
          = Cardinality(Of(1, i - 1)) + Cardinality(Of(i, n)) - Cardinality({})
    BY <1>1, <2>1, <2>2, FS_Union
  <2> QED BY <2>1, <2>3, <2>4, FS_EmptySet
<1>5. i \in Nat /\ Cardinality(Of(i, n)) \in Nat
  <2> HIDE DEF Of
  <2> QED BY <1>2
<1> QED BY <1>3, <1>4, <1>5 DEF Count

\* The depth starts at nothing and each call moves it by its kind.
LEMMA DepthFacts ==
  ASSUME NEW calls
  PROVE  /\ Depth(calls, 0) = 0
         /\ \A n \in Nat :
              /\ Depth(calls, n) \in Int
              /\ Depth(calls, n + 1) = Depth(calls, n)
                                        + (IF calls[n + 1].call = "start" THEN 1 ELSE 0)
                                        - (IF calls[n + 1].call = "end" THEN 1 ELSE 0)
<1>1. Depth(calls, 0) = 0
  <2>1. ASSUME NEW kind
        PROVE  Count(calls, kind, 1, 0) = 0
    <3>1. {k \in 1 .. 0 : calls[k].call = kind} = {}
      OBVIOUS
    <3> QED BY <3>1, FS_EmptySet DEF Count
  <2>2. Count(calls, "start", 1, 0) = 0 /\ Count(calls, "end", 1, 0) = 0
    BY <2>1
  <2> QED BY <2>2 DEF Depth
<1>2. ASSUME NEW n \in Nat
      PROVE  /\ Depth(calls, n) \in Int
             /\ Depth(calls, n + 1) = Depth(calls, n)
                                        + (IF calls[n + 1].call = "start" THEN 1 ELSE 0)
                                        - (IF calls[n + 1].call = "end" THEN 1 ELSE 0)
  <2>1. 1 \in Nat \ {0} /\ 1 <= n + 1
    OBVIOUS
  <2>2. ASSUME NEW kind
        PROVE  /\ Count(calls, kind, 1, n) \in Nat
               /\ calls[n + 1].call = kind
                    => Count(calls, kind, 1, n + 1) = Count(calls, kind, 1, n) + 1
               /\ calls[n + 1].call # kind
                    => Count(calls, kind, 1, n + 1) = Count(calls, kind, 1, n)
    BY <2>1, CountFacts, ZenonT(40)
  <2> DEFINE starts(m) == Count(calls, "start", 1, m)
             ends(m)   == Count(calls, "end", 1, m)
  <2>3. starts(n) \in Nat /\ starts(n + 1)
                               = starts(n) + IF calls[n + 1].call = "start" THEN 1 ELSE 0
    BY <2>2
  <2>4. ends(n) \in Nat /\ ends(n + 1)
                             = ends(n) + IF calls[n + 1].call = "end" THEN 1 ELSE 0
    BY <2>2
  <2>5. Depth(calls, n) = starts(n) - ends(n)
          /\ Depth(calls, n + 1) = starts(n + 1) - ends(n + 1)
    BY DEF Depth
  <2> HIDE DEF starts, ends
  <2> QED BY <2>3, <2>4, <2>5
<1> QED BY <1>1, <1>2

\* An end belongs to a start when it brings the depth back for the first time.
LEMMA PartnerByDepth ==
  ASSUME NEW calls, NEW i \in Nat \ {0}, NEW j \in Nat, i < j,
         calls[i].call = "start", calls[j].call = "end",
         Depth(calls, j) = Depth(calls, i - 1),
         \A k \in i .. (j - 1) : Depth(calls, k) > Depth(calls, i - 1)
  PROVE  Partner(calls, i, j)
<1>1. ASSUME NEW k \in i .. j
      PROVE  Count(calls, "start", i, k) - Count(calls, "end", i, k)
               = Depth(calls, k) - Depth(calls, i - 1)
  <2>1. k \in Nat /\ i <= k + 1 /\ i - 1 \in Nat /\ 1 \in Nat \ {0} /\ 1 <= (i - 1) + 1
    OBVIOUS
  <2>2. ASSUME NEW kind
        PROVE  /\ Count(calls, kind, 1, k)
                    = Count(calls, kind, 1, i - 1) + Count(calls, kind, i, k)
               /\ Count(calls, kind, i, k) \in Nat
    BY <2>1, CountFacts
  <2>3. ASSUME NEW kind
        PROVE  Count(calls, kind, 1, i - 1) \in Nat
    BY <2>1, CountFacts
  <2> QED BY <2>2, <2>3 DEF Depth
<1>2. ASSUME NEW k \in i .. j
      PROVE  Count(calls, "start", i, k) \in Nat /\ Count(calls, "end", i, k) \in Nat
  <2>1. k \in Nat /\ i <= k + 1
    OBVIOUS
  <2> QED BY <2>1, CountFacts
<1>3. \A k \in i .. j : Depth(calls, k) \in Int /\ Depth(calls, i - 1) \in Int
  <2>1. ASSUME NEW n \in Nat PROVE Depth(calls, n) \in Int
    BY DepthFacts
  <2>2. i - 1 \in Nat /\ \A k \in i .. j : k \in Nat
    OBVIOUS
  <2> QED BY <2>1, <2>2
<1>4. j \in i .. j /\ \A k \in i .. (j - 1) : k \in i .. j
  OBVIOUS
<1>5. Count(calls, "start", i, j) = Count(calls, "end", i, j)
  BY <1>1, <1>2, <1>3, <1>4
<1>6. \A k \in i .. (j - 1) : Count(calls, "start", i, k) > Count(calls, "end", i, k)
  BY <1>1, <1>2, <1>3, <1>4
<1> QED BY <1>5, <1>6 DEF Partner

-----------------------------------------------------------------------------
(* The calls of the handlers: one more                                     *)

LEMMA CountKept ==
  ASSUME NEW calls \in Seq(Calls), NEW c \in Calls, NEW kind, NEW i \in Nat \ {0},
         NEW n \in 0 .. Len(calls)
  PROVE  Count(Append(calls, c), kind, i, n) = Count(calls, kind, i, n)
<1>1. \A k \in i .. n : Append(calls, c)[k] = calls[k]
  OBVIOUS
<1>2. {k \in i .. n : Append(calls, c)[k].call = kind} = {k \in i .. n : calls[k].call = kind}
  BY <1>1
<1> QED BY <1>2 DEF Count

LEMMA DepthKept ==
  ASSUME NEW calls \in Seq(Calls), NEW c \in Calls, NEW n \in 0 .. Len(calls)
  PROVE  Depth(Append(calls, c), n) = Depth(calls, n)
BY CountKept DEF Depth

LEMMA BelongsKept ==
  ASSUME NEW calls \in Seq(Calls), NEW c \in Calls, NEW j \in DOMAIN calls, Belongs(calls, j)
  PROVE  Belongs(Append(calls, c), j)
<1> DEFINE more == Append(calls, c)
<1>1. /\ j \in 1 .. Len(calls) /\ Len(calls) \in Nat /\ DOMAIN calls \subseteq DOMAIN more
      /\ DOMAIN calls = 1 .. Len(calls) /\ \A k \in DOMAIN calls : more[k] = calls[k]
  OBVIOUS
<1>2. ASSUME NEW i \in DOMAIN calls, Partner(calls, i, j)
      PROVE  Partner(more, i, j)
  <2>1. i \in Nat \ {0} /\ j \in 0 .. Len(calls) /\ \A k \in i .. (j - 1) : k \in 0 .. Len(calls)
    BY <1>1
  <2>2. \A kind, k : k \in i .. (j - 1) \cup {j} =>
                      Count(more, kind, i, k) = Count(calls, kind, i, k)
    BY <2>1, CountKept
  <2> HIDE DEF more
  <2> QED BY <1>1, <1>2, <2>2 DEF Partner
<1>3. Depth(more, j) = Depth(calls, j) /\ Depth(more, j - 1) = Depth(calls, j - 1)
  BY <1>1, DepthKept
<1> HIDE DEF more
<1>4. Belongs(more, j)
  BY <1>1, <1>2, <1>3 DEF Belongs
<1> QED BY <1>4 DEF more

\* The height of the stack, for sequences of calls and stacks that agree.
Height(calls, open) == Depth(calls, Len(calls)) = Len(open)
OpenedAt(calls, open, at) ==
  \A k \in 1 .. Len(open) :
    /\ calls[at[k]].call = "start" /\ calls[at[k]].name = open[k]
    /\ Depth(calls, at[k] - 1) = k - 1
    /\ \A j \in at[k] .. Len(calls) : Depth(calls, j) >= k

LEMMA NestedIs ==
  ASSUME NEW calls, NEW open
  PROVE  Nested(calls, open) <=>
           /\ Height(calls, open)
           /\ \E at \in [1 .. Len(open) -> DOMAIN calls] : OpenedAt(calls, open, at)
BY DEF Nested, Height, OpenedAt

\* What is known of the calls stays known of them when one is added.
LEMMA LengthFacts ==
  ASSUME NEW calls \in Seq(Calls), NEW c \in Calls
  PROVE  /\ Len(calls) \in Nat /\ DOMAIN calls = 1 .. Len(calls)
         /\ Len(Append(calls, c)) = Len(calls) + 1
         /\ DOMAIN Append(calls, c) = 1 .. (Len(calls) + 1)
         /\ \A k \in 1 .. Len(calls) : Append(calls, c)[k] = calls[k]
         /\ Append(calls, c)[Len(calls) + 1] = c
         /\ Depth(Append(calls, c), Len(calls) + 1) = Depth(calls, Len(calls))
                                        + (IF c.call = "start" THEN 1 ELSE 0)
                                        - (IF c.call = "end" THEN 1 ELSE 0)
         /\ Depth(calls, Len(calls)) \in Int
<1>1. /\ Len(calls) \in Nat /\ DOMAIN calls = 1 .. Len(calls)
      /\ Len(Append(calls, c)) = Len(calls) + 1
      /\ DOMAIN Append(calls, c) = 1 .. (Len(calls) + 1)
      /\ \A k \in 1 .. Len(calls) : Append(calls, c)[k] = calls[k]
      /\ Append(calls, c)[Len(calls) + 1] = c
  OBVIOUS
<1>2. Depth(Append(calls, c), Len(calls)) = Depth(calls, Len(calls))
  BY <1>1, DepthKept
<1> QED BY <1>1, <1>2, DepthFacts

\* The starts of the elements that stay open when a call is added.
LEMMA OpenedKept ==
  ASSUME NEW calls \in Seq(Calls), NEW c \in Calls, NEW open, NEW n \in 0 .. Len(open),
         Len(open) \in Nat,
         NEW at \in [1 .. Len(open) -> DOMAIN calls], OpenedAt(calls, open, at),
         Depth(Append(calls, c), Len(calls) + 1) >= n
  PROVE  \A k \in 1 .. n :
           /\ Append(calls, c)[at[k]].call = "start" /\ Append(calls, c)[at[k]].name = open[k]
           /\ Depth(Append(calls, c), at[k] - 1) = k - 1
           /\ \A j \in at[k] .. Len(Append(calls, c)) : Depth(Append(calls, c), j) >= k
<1> DEFINE more == Append(calls, c)
<1> SUFFICES ASSUME NEW k \in 1 .. n
             PROVE  /\ more[at[k]].call = "start" /\ more[at[k]].name = open[k]
                    /\ Depth(more, at[k] - 1) = k - 1
                    /\ \A j \in at[k] .. Len(more) : Depth(more, j) >= k
  OBVIOUS
<1>1. k \in 1 .. Len(open) /\ at[k] \in 1 .. Len(calls) /\ Len(calls) \in Nat
  <2>1. Len(calls) \in Nat /\ DOMAIN calls = 1 .. Len(calls)
    BY LengthFacts
  <2> QED BY <2>1
<1>2. /\ calls[at[k]].call = "start" /\ calls[at[k]].name = open[k]
      /\ Depth(calls, at[k] - 1) = k - 1
      /\ \A j \in at[k] .. Len(calls) : Depth(calls, j) >= k
  BY <1>1 DEF OpenedAt
<1>3. more[at[k]] = calls[at[k]] /\ Len(more) = Len(calls) + 1
  BY <1>1, LengthFacts
<1>4. at[k] - 1 \in 0 .. Len(calls)
  BY <1>1
<1>5. Depth(more, at[k] - 1) = Depth(calls, at[k] - 1)
  BY <1>4, DepthKept
<1>6. ASSUME NEW j \in at[k] .. Len(more)
      PROVE  Depth(more, j) >= k
  <2>1. CASE j \in at[k] .. Len(calls)
    <3>1. j \in 0 .. Len(calls)
      BY <1>1, <2>1
    <3>2. Depth(more, j) = Depth(calls, j)
      BY <3>1, DepthKept
    <3> HIDE DEF more
    <3> QED BY <1>2, <2>1, <3>2
  <2>2. CASE j = Len(calls) + 1
    <3>1. j \in Nat
      BY <1>1, <2>2
    <3>2. Depth(more, j) \in Int
      BY <3>1, DepthFacts
    <3> QED BY <2>2, <3>2
  <2>3. j \in at[k] .. Len(calls) \/ j = Len(calls) + 1
    <3> HIDE DEF more
    <3> QED BY <1>1, <1>3
  <2> QED BY <2>1, <2>2, <2>3
<1> HIDE DEF more
<1> QED BY <1>2, <1>3, <1>5, <1>6

LEMMA StartNests ==
  ASSUME NEW calls \in Seq(Calls), NEW open \in Seq(Elements), Nested(calls, open),
         open = <<>> => calls = <<>>,
         NEW c \in Calls, c.call = "start", c.name \in Elements
  PROVE  Nested(Append(calls, c), Append(open, c.name))
           /\ Belongs(Append(calls, c), Len(calls) + 1)
<1> DEFINE more == Append(calls, c)
           up   == Append(open, c.name)
           N    == Len(calls)
           h    == Len(open)
<1>1. PICK at \in [1 .. h -> DOMAIN calls] : OpenedAt(calls, open, at)
  BY DEF Nested, OpenedAt
<1>2. /\ h \in Nat /\ Len(up) = h + 1 /\ up[h + 1] = c.name
      /\ \A k \in 1 .. h : up[k] = open[k]
  OBVIOUS
<1>3. Depth(calls, N) = h /\ N \in Nat
  BY LengthFacts DEF Nested
<1>4. Depth(more, N + 1) = h + 1 /\ Len(more) = N + 1 /\ DOMAIN more = 1 .. (N + 1)
        /\ more[N + 1] = c
  BY <1>2, <1>3, LengthFacts, SMTT(20)
<1>5. Depth(more, N) = h
  <2>1. N \in 0 .. Len(calls)
    BY <1>3
  <2>2. Depth(Append(calls, c), N) = Depth(calls, N)
    BY <2>1, DepthKept
  <2> QED BY <1>3, <2>2
<1> DEFINE where == [k \in 1 .. (h + 1) |-> IF k = h + 1 THEN N + 1 ELSE at[k]]
<1>6. where \in [1 .. Len(up) -> DOMAIN more]
  <2>1. \A k \in 1 .. (h + 1) : k # h + 1 => at[k] \in 1 .. N
    <3>1. DOMAIN calls = 1 .. N
      OBVIOUS
    <3> QED BY <1>2, <3>1
  <2>2. \A k \in 1 .. (h + 1) : where[k] \in 1 .. (N + 1)
    BY <1>2, <1>3, <2>1
  <2> HIDE DEF N, h, up, more
  <2> QED BY <1>2, <1>4, <2>2
<1>7. \A k \in 1 .. h : /\ more[at[k]].call = "start" /\ more[at[k]].name = open[k]
                        /\ Depth(more, at[k] - 1) = k - 1
                        /\ \A j \in at[k] .. Len(more) : Depth(more, j) >= k
  <2>1. Depth(more, N + 1) >= h /\ h \in 0 .. h
    BY <1>2, <1>4
  <2> HIDE DEF h
  <2> QED BY <1>1, <1>2, <2>1, OpenedKept DEF h
<1>8. OpenedAt(more, up, where)
  <2> SUFFICES ASSUME NEW k \in 1 .. (h + 1)
               PROVE  /\ more[where[k]].call = "start" /\ more[where[k]].name = up[k]
                      /\ Depth(more, where[k] - 1) = k - 1
                      /\ \A j \in where[k] .. Len(more) : Depth(more, j) >= k
    <3> HIDE DEF where, more, up, h
    <3> QED BY <1>2 DEF OpenedAt
  <2>1. CASE k = h + 1
    <3>1. where[k] = N + 1
      BY <2>1
    <3> HIDE DEF where, more, up
    <3>2. \A j \in (N + 1) .. Len(more) : j = N + 1
      BY <1>3, <1>4
    <3> HIDE DEF h, N
    <3> QED BY <1>2, <1>3, <1>4, <1>5, <2>1, <3>1, <3>2
  <2>2. CASE k # h + 1
    <3>1. k \in 1 .. h /\ where[k] = at[k]
      BY <1>2, <2>2
    <3> HIDE DEF where, more, up, h
    <3> QED BY <1>2, <1>7, <3>1
  <2> QED BY <2>1, <2>2
<1>9. Nested(more, up)
  <2> HIDE DEF where, more, up
  <2> QED BY <1>2, <1>4, <1>6, <1>8, NestedIs DEF Height
<1>10. Belongs(more, N + 1)
  <2>1. N + 1 > 1 => Depth(more, N) > 0
    <3>1. N + 1 > 1 => open # <<>>
      OBVIOUS
    <3>2. open # <<>> => h > 0
      OBVIOUS
    <3> QED BY <1>5, <3>1, <3>2
  <2> HIDE DEF more
  <2> QED BY <1>3, <1>4, <2>1 DEF Belongs
<1> QED BY <1>9, <1>10

LEMMA CharsNest ==
  ASSUME NEW calls \in Seq(Calls), NEW open \in Seq(Elements), Nested(calls, open),
         open # <<>>, NEW c \in Calls, c.call = "chars"
  PROVE  Nested(Append(calls, c), open) /\ Belongs(Append(calls, c), Len(calls) + 1)
<1> DEFINE more == Append(calls, c)
           N    == Len(calls)
           h    == Len(open)
<1>1. PICK at \in [1 .. h -> DOMAIN calls] : OpenedAt(calls, open, at)
  BY DEF Nested, OpenedAt
<1>2. h \in Nat /\ h > 0
  OBVIOUS
<1>3. Depth(calls, N) = h /\ N \in Nat
  BY LengthFacts DEF Nested
<1>4. Depth(more, N + 1) = h /\ Len(more) = N + 1 /\ DOMAIN more = 1 .. (N + 1)
        /\ more[N + 1] = c /\ DOMAIN calls \subseteq DOMAIN more
  BY <1>2, <1>3, LengthFacts, SMTT(20)
<1>5. OpenedAt(more, open, at)
  <2>1. Depth(more, N + 1) >= h /\ h \in 0 .. h
    BY <1>2, <1>4
  <2> HIDE DEF h
  <2>2. \A k \in 1 .. h : /\ more[at[k]].call = "start" /\ more[at[k]].name = open[k]
                          /\ Depth(more, at[k] - 1) = k - 1
                          /\ \A j \in at[k] .. Len(more) : Depth(more, j) >= k
    BY <1>1, <1>2, <2>1, OpenedKept DEF h
  <2> HIDE DEF more
  <2> QED BY <2>2 DEF OpenedAt, h
<1>6. at \in [1 .. Len(open) -> DOMAIN more]
  BY <1>4
<1> HIDE DEF more
<1>7. Nested(more, open)
  BY <1>4, <1>5, <1>6, NestedIs DEF Height
<1>8. Belongs(more, N + 1)
  <2> HIDE DEF N, h
  <2> QED BY <1>2, <1>4 DEF Belongs
<1> QED BY <1>7, <1>8 DEF more

LEMMA EndNests ==
  ASSUME NEW calls \in Seq(Calls), NEW open \in Seq(Elements), Nested(calls, open),
         open # <<>>, NEW c \in Calls, c.call = "end", c.name = open[Len(open)]
  PROVE  Nested(Append(calls, c), SubSeq(open, 1, Len(open) - 1))
           /\ Belongs(Append(calls, c), Len(calls) + 1)
<1> DEFINE more == Append(calls, c)
           down == SubSeq(open, 1, Len(open) - 1)
           N    == Len(calls)
           h    == Len(open)
<1>1. PICK at \in [1 .. h -> DOMAIN calls] : OpenedAt(calls, open, at)
  BY DEF Nested, OpenedAt
<1>2. /\ h \in Nat /\ h > 0 /\ h - 1 \in 0 .. h /\ Len(down) = h - 1
      /\ \A k \in 1 .. (h - 1) : down[k] = open[k]
  <2>1. h \in Nat /\ h > 0 /\ h - 1 \in 0 .. h
    OBVIOUS
  <2>2. down = [k \in 1 .. (h - 1) |-> open[k]]
    BY <2>1
  <2>3. down \in Seq(Elements) /\ DOMAIN down = 1 .. (h - 1)
    BY <2>1, <2>2
  <2> HIDE DEF down
  <2> QED BY <2>1, <2>2, <2>3
<1>3. Depth(calls, N) = h /\ N \in Nat
  BY LengthFacts DEF Nested
<1>4. Depth(more, N + 1) = h - 1 /\ Len(more) = N + 1 /\ DOMAIN more = 1 .. (N + 1)
        /\ more[N + 1] = c /\ DOMAIN calls \subseteq DOMAIN more
  <2>1. /\ Len(more) = N + 1 /\ DOMAIN more = 1 .. (N + 1) /\ more[N + 1] = c
        /\ DOMAIN calls = 1 .. N
    BY LengthFacts
  <2>2. Depth(more, N + 1) = h - 1
    BY <1>2, <1>3, LengthFacts, SMTT(20)
  <2> HIDE DEF more, h, N
  <2> QED BY <1>3, <2>1, <2>2
<1>5. \A k \in 1 .. (h - 1) : /\ more[at[k]].call = "start" /\ more[at[k]].name = open[k]
                              /\ Depth(more, at[k] - 1) = k - 1
                              /\ \A j \in at[k] .. Len(more) : Depth(more, j) >= k
  <2>1. Depth(more, N + 1) >= h - 1
    BY <1>2, <1>4
  <2> HIDE DEF h
  <2> QED BY <1>1, <1>2, <2>1, OpenedKept DEF h
<1> DEFINE left == [k \in 1 .. (h - 1) |-> at[k]]
<1>6. left \in [1 .. Len(down) -> DOMAIN more]
  <2> HIDE DEF down, more
  <2> QED BY <1>2, <1>4
<1>7. OpenedAt(more, down, left)
  <2>1. \A k \in 1 .. (h - 1) : left[k] = at[k]
    OBVIOUS
  <2> HIDE DEF left, down, more, h
  <2> QED BY <1>2, <1>5, <2>1 DEF OpenedAt
<1>8. Nested(more, down)
  <2> HIDE DEF left, down, more
  <2> QED BY <1>2, <1>4, <1>6, <1>7, NestedIs DEF Height
<1>9. /\ at[h] \in 1 .. N /\ calls[at[h]].call = "start" /\ calls[at[h]].name = open[h]
      /\ Depth(calls, at[h] - 1) = h - 1
      /\ \A j \in at[h] .. N : Depth(calls, j) >= h
  <2>1. h \in 1 .. h /\ DOMAIN calls = 1 .. N
    BY <1>2
  <2> HIDE DEF h
  <2> QED BY <1>1, <2>1 DEF OpenedAt, h
<1>10. Partner(more, at[h], N + 1)
  <2>1. more[at[h]] = calls[at[h]]
    BY <1>9
  <2>2. Depth(more, at[h] - 1) = h - 1
    BY <1>3, <1>9, DepthKept
  <2>3. \A k \in at[h] .. N : Depth(more, k) = Depth(calls, k)
    BY <1>3, <1>9, DepthKept
  <2>4. \A k \in at[h] .. N : Depth(more, k) > Depth(more, at[h] - 1)
    <3>1. \A k \in at[h] .. N : Depth(calls, k) \in Int
      BY <1>3, <1>9, DepthFacts
    <3> HIDE DEF more, h, N
    <3> QED BY <1>2, <1>9, <2>2, <2>3, <3>1
  <2>5. at[h] \in Nat \ {0} /\ N + 1 \in Nat /\ at[h] < N + 1 /\ (N + 1) - 1 = N
    BY <1>3, <1>9
  <2> HIDE DEF more, h, N
  <2> QED BY <1>4, <1>9, <2>1, <2>2, <2>4, <2>5, PartnerByDepth
<1>11. Belongs(more, N + 1)
  <2>1. at[h] \in DOMAIN more /\ more[at[h]].name = more[N + 1].name
    <3>1. more[at[h]] = calls[at[h]]
      BY <1>9
    <3>2. at[h] \in 1 .. (N + 1)
      BY <1>3, <1>9
    <3> HIDE DEF more
    <3> QED BY <1>4, <1>9, <3>1, <3>2
  <2> HIDE DEF more, h, N
  <2> QED BY <1>4, <1>10, <2>1 DEF Belongs
<1> QED BY <1>8, <1>11

-----------------------------------------------------------------------------
(* The calls of the handlers: the steps of the parser                      *)

LEMMA StoreFails ==
  ASSUME IInv, NEW e \in Elements, NEW atts \in Tagged[family]
  PROVE  LET so == storeAtts(e, FilledAtts(e, atts))
         IN  so.error # None => so.error \in Codes \ {"ABORTED"}
<1>1. atts \in Seq(Given)
  BY DocumentAssumption DEF IInv, TypeOK, Given
<1>2. FilledAtts(e, atts) = atts
  BY <1>1, FilledAtOnce
<1>3. storeAtts(e, atts).error \in StoreCodes \cup {None}
  BY <1>1, StoreAttsFit
<1> QED BY <1>2, <1>3 DEF StoreCodes, ValueCodes, Codes

Parsing == {"prolog", "content", "cdata", "epilog"}

\* Where no call is made and the parser goes on, or fails.
LEMMA FailNests ==
  ASSUME NestSound, processor \in Parsing, UNCHANGED <<events, peek>>,
         NEW code \in Codes \ {"ABORTED"}, Fail(code)
  PROVE  NestSound'
BY DEF NestSound, Fail, Parsing, Codes

\* What a token of the prolog does to the rest of the parser.
PrologForm ==
  /\ processor = "prolog" /\ UNCHANGED <<tags, events>>
  /\ \/ Silent /\ UNCHANGED peek
     \/ \E code \in Codes \ {"ABORTED"} : Fail(code) /\ UNCHANGED peek
     \/ processor' = "content" /\ outcome' = outcome /\ peek' \in BOOLEAN

LEMMA PrologForms ==
  ASSUME IInv, Prolog
  PROVE  PrologForm
<1>1. ASSUME NEW tok, NEW roles, Read(tok, roles),
             roles \cap {"ERROR", "INSTANCE_START"} = {}
      PROVE  UNCHANGED peek
  <2>1. /\ Answered(prologState, tok, Token(tok).role, prologState')
        /\ Token(tok).role \in roles /\ (tok # "<e" => UNCHANGED peek)
    BY <1>1, ReadFacts
  <2>2. tok # "<e"
    BY <1>1, <2>1 DEF Answered
  <2> QED BY <2>1, <2>2
<1>2. ASSUME NEW tok, NEW roles, Read(tok, roles)
      PROVE  processor = "prolog" /\ UNCHANGED <<tags, events>>
  BY <1>2, ReadFacts
<1>3. PICK tok \in Menu[family][prologState.handler] :
        \/ ReadQuietly(tok) \/ ReadError(tok) \/ XmlDecl(tok)
        \/ DoctypePublicId(tok) \/ DoctypeSystemId(tok) \/ PublicId(tok)
        \/ GeneralEntityName(tok) \/ ParamEntityName(tok) \/ EntityBody(tok)
        \/ AttlistElementName(tok) \/ AttributeName(tok) \/ AttributeType(tok)
        \/ NoDefault(tok) \/ DefaultValue(tok)
        \/ GroupOpen(tok) \/ GroupSequence(tok) \/ GroupChoice(tok)
        \/ InstanceStart(tok)
  BY DEF Prolog
<1>4. ASSUME NEW roles, Read(tok, roles), roles \cap {"ERROR", "INSTANCE_START"} = {},
             Silent \/ \E code \in Codes \ {"ABORTED"} : Fail(code)
      PROVE  PrologForm
  BY <1>1, <1>2, <1>4 DEF PrologForm
<1>5. CASE ReadQuietly(tok)
  BY <1>4, <1>5 DEF ReadQuietly, DoctypeRoles, CloseRoles, EnumRoles, NotationRoles, ModelRoles,
                    GroupRoles, RefRoles, NoneRoles
<1>6. CASE ReadError(tok)
  <2>1. Read(tok, {"ERROR"}) /\ UNCHANGED peek
          /\ \E code \in Codes \ {"ABORTED"} : Fail(code)
    BY <1>6 DEF ReadError, Codes
  <2> QED BY <1>2, <2>1 DEF PrologForm
<1>7. CASE XmlDecl(tok) \/ DoctypePublicId(tok) \/ DoctypeSystemId(tok) \/ PublicId(tok)
  <2>1. "PUBLICID" \in Codes \ {"ABORTED"}
    BY DEF Codes
  <2> QED BY <1>4, <1>7, <2>1 DEF XmlDecl, DoctypePublicId, DoctypeSystemId, PublicId
<1>8. CASE GeneralEntityName(tok) \/ ParamEntityName(tok) \/ EntityBody(tok)
  BY <1>4, <1>8 DEF GeneralEntityName, ParamEntityName, EntityBody
<1>9. CASE AttlistElementName(tok) \/ AttributeName(tok) \/ AttributeType(tok) \/ NoDefault(tok)
  BY <1>4, <1>9 DEF AttlistElementName, AttributeName, AttributeType, NoDefault
<1>10. CASE DefaultValue(tok)
  <2> DEFINE roles == {"DEFAULT_ATTRIBUTE_VALUE", "FIXED_ATTRIBUTE_VALUE"}
             so == storeAttributeValue(Text[tok], decl.cdata)
  <2>1. Read(tok, roles) /\ (Silent \/ (so.error # None /\ Fail(so.error)))
    BY <1>10 DEF DefaultValue
  <2>2. tok \in Literals
    <3>1. Token(tok).role \in roles /\ Answered(prologState, tok, Token(tok).role, prologState')
      BY <2>1, ReadFacts
    <3> QED BY <3>1 DEF Answered
  <2>3. so.error \in ValueCodes \cup {None}
    BY <2>2, StoredTyped DEF Values
  <2>4. roles \cap {"ERROR", "INSTANCE_START"} = {}
    OBVIOUS
  <2> HIDE DEF roles, so
  <2>5. Silent \/ \E code \in Codes \ {"ABORTED"} : Fail(code)
    BY <2>1, <2>3 DEF ValueCodes, Codes
  <2> QED BY <1>4, <2>1, <2>4, <2>5
<1>11. CASE GroupOpen(tok)
  BY <1>4, <1>11 DEF GroupOpen
<1>12. CASE GroupSequence(tok) \/ GroupChoice(tok)
  <2>1. "SYNTAX" \in Codes \ {"ABORTED"}
    BY DEF Codes
  <2> QED BY <1>4, <1>12, <2>1 DEF GroupSequence, GroupChoice, Connect
<1>13. CASE InstanceStart(tok)
  BY <1>2, <1>13 DEF InstanceStart, PrologForm
<1> QED BY <1>3, <1>5, <1>6, <1>7, <1>8, <1>9, <1>10, <1>11, <1>12, <1>13

LEMMA PrologNests ==
  ASSUME IInv, NestSound, Prolog
  PROVE  NestSound'
<1>1. /\ processor = "prolog" /\ UNCHANGED <<tags, events>>
      /\ \/ Silent /\ UNCHANGED peek
         \/ \E code \in Codes \ {"ABORTED"} : Fail(code) /\ UNCHANGED peek
         \/ processor' = "content" /\ outcome' = outcome /\ peek' \in BOOLEAN
  BY PrologForms DEF PrologForm
<1>2. CASE Silent /\ UNCHANGED peek
  BY <1>1, <1>2 DEF NestSound, Silent
<1>3. CASE \E code \in Codes \ {"ABORTED"} : Fail(code) /\ UNCHANGED peek
  BY <1>1, <1>3, FailNests DEF Parsing
<1>4. CASE processor' = "content" /\ outcome' = outcome /\ peek' \in BOOLEAN
  BY <1>1, <1>4 DEF NestSound
<1> QED BY <1>1, <1>2, <1>3, <1>4

\* All calls belong when one more does.
LEMMA AllBelong ==
  ASSUME NEW calls \in Seq(Calls), NEW c \in Calls,
         \A j \in DOMAIN calls : Belongs(calls, j),
         Belongs(Append(calls, c), Len(calls) + 1)
  PROVE  \A j \in DOMAIN Append(calls, c) : Belongs(Append(calls, c), j)
<1>1. DOMAIN Append(calls, c) = 1 .. (Len(calls) + 1) /\ DOMAIN calls = 1 .. Len(calls)
        /\ Len(calls) \in Nat
  BY LengthFacts
<1>2. \A j \in 1 .. (Len(calls) + 1) : j \in 1 .. Len(calls) \/ j = Len(calls) + 1
  BY <1>1
<1> QED BY <1>1, <1>2, BelongsKept

\* A parser that peeks has made the one call of the first tag when it stops.
LEMMA PeekNests ==
  ASSUME peek, UNCHANGED peek, processor' = "error", outcome' = "ABORTED",
         Len(events') <= 1, events' # <<>>, \A j \in DOMAIN events' : Belongs(events', j)
  PROVE  NestSound'
BY DEF NestSound

LEMMA StartTagNests ==
  ASSUME IInv, NestSound, NEW e \in Elements, NEW atts \in Tagged[family], StartTag(e, atts)
  PROVE  NestSound'
<1> DEFINE so   == storeAtts(e, FilledAtts(e, atts))
           call == Begin(e, so.atts, atts)
<1>1. /\ processor = "content" /\ attsSize' = GrownAtts(e, atts) /\ tags' = Append(tags, e)
      /\ UNCHANGED docVars
      /\ \/ so.error # None /\ Fail(so.error) /\ UNCHANGED events
         \/ events' = Append(events, call) /\ AfterTag(tags')
  BY DEF StartTag
<1>2. call \in Calls /\ call.call = "start" /\ call.name = e
  <2>1. call \in Calls
    BY <1>1, ReportFits
  <2>2. \A a, g : Begin(e, a, g).call = "start" /\ Begin(e, a, g).name = e
    BY DEF Begin, Call
  <2> QED BY <2>1, <2>2
<1>3. so.error # None => so.error \in Codes \ {"ABORTED"}
  BY StoreFails
<1> HIDE DEF so, call
<1>4. UNCHANGED peek
  BY <1>1 DEF docVars
<1>5. events \in Seq(Calls) /\ tags \in Seq(Elements)
  BY DEF IInv, TypeOK
<1>6. outcome = "parsing" /\ Nested(events, tags) /\ (tags = <<>> => events = <<>>)
        /\ \A j \in DOMAIN events : Belongs(events, j)
  BY <1>1 DEF NestSound
<1>7. CASE so.error # None /\ Fail(so.error) /\ UNCHANGED events
  BY <1>1, <1>3, <1>4, <1>7, FailNests DEF Parsing
<1>8. CASE events' = Append(events, call) /\ AfterTag(tags')
  <2>1. Nested(events', tags') /\ Belongs(events', Len(events) + 1)
    BY <1>1, <1>2, <1>5, <1>6, <1>8, StartNests
  <2>2. \A j \in DOMAIN events' : Belongs(events', j)
    BY <1>2, <1>5, <1>6, <1>8, <2>1, AllBelong
  <2>3. tags' # <<>> /\ events' # <<>>
    BY <1>1, <1>2, <1>5, <1>8
  <2>4. CASE peek
    <3>1. events = <<>> /\ processor' = "error" /\ outcome' = "ABORTED"
      BY <1>1, <1>8, <2>4 DEF NestSound, AfterTag, Fail
    <3>2. Len(events') = 1
      BY <1>2, <1>5, <1>8, <3>1
    <3> QED BY <1>4, <2>2, <2>3, <2>4, <3>1, <3>2, PeekNests
  <2>5. CASE ~peek
    <3>1. processor' = "content" /\ outcome' = "parsing"
      BY <1>6, <1>8, <2>3, <2>5 DEF AfterTag
    <3> QED BY <1>4, <2>1, <2>2, <2>3, <2>5, <3>1 DEF NestSound
  <2> QED BY <2>4, <2>5
<1> QED BY <1>1, <1>7, <1>8

LEMMA EmptyElementNests ==
  ASSUME IInv, NestSound, NEW e \in Elements, NEW atts \in Tagged[family],
         EmptyElement(e, atts)
  PROVE  NestSound'
<1> DEFINE so   == storeAtts(e, FilledAtts(e, atts))
           call == Begin(e, so.atts, atts)
           one  == Append(events, call)
           two  == Append(one, End(e))
<1>1. /\ processor = "content" /\ attsSize' = GrownAtts(e, atts) /\ UNCHANGED <<tags, docVars>>
      /\ \/ so.error # None /\ Fail(so.error) /\ UNCHANGED events
         \/ /\ events' = events \o (IF peek THEN <<call>> ELSE <<call, End(e)>>)
            /\ AfterTag(tags)
  BY DEF EmptyElement
<1>2. call \in Calls /\ call.call = "start" /\ call.name = e
  <2>1. call \in Calls
    BY <1>1, ReportFits
  <2>2. \A a, g : Begin(e, a, g).call = "start" /\ Begin(e, a, g).name = e
    BY DEF Begin, Call
  <2> QED BY <2>1, <2>2
<1>3. so.error # None => so.error \in Codes \ {"ABORTED"}
  BY StoreFails
<1>4. End(e) \in Calls /\ End(e).call = "end" /\ End(e).name = e
  BY CallsTyped DEF End, Call
<1> HIDE DEF so, call
<1>5. UNCHANGED <<peek, tags>>
  BY <1>1 DEF docVars
<1>6. events \in Seq(Calls) /\ tags \in Seq(Elements)
  BY DEF IInv, TypeOK
<1>7. outcome = "parsing" /\ Nested(events, tags) /\ (tags = <<>> => events = <<>>)
        /\ \A j \in DOMAIN events : Belongs(events, j)
  BY <1>1 DEF NestSound
<1>8. one \in Seq(Calls) /\ Len(one) = Len(events) + 1 /\ one # <<>>
        /\ two \in Seq(Calls) /\ two # <<>>
        /\ events \o <<call>> = one /\ events \o <<call, End(e)>> = two
  BY <1>2, <1>4, <1>6
<1>9. Nested(one, Append(tags, e)) /\ Belongs(one, Len(events) + 1)
  BY <1>2, <1>6, <1>7, StartNests
<1>10. \A j \in DOMAIN one : Belongs(one, j)
  BY <1>2, <1>6, <1>7, <1>9, AllBelong
<1>11. Append(tags, e) \in Seq(Elements) /\ Append(tags, e) # <<>>
        /\ Append(tags, e)[Len(Append(tags, e))] = e
        /\ SubSeq(Append(tags, e), 1, Len(Append(tags, e)) - 1) = tags
  BY <1>6, AppendProperties
<1> HIDE DEF one
<1>12. Nested(two, tags) /\ Belongs(two, Len(one) + 1)
  BY <1>4, <1>8, <1>9, <1>11, EndNests
<1>13. \A j \in DOMAIN two : Belongs(two, j)
  BY <1>4, <1>8, <1>10, <1>12, AllBelong
<1> HIDE DEF two
<1>14. CASE so.error # None /\ Fail(so.error) /\ UNCHANGED events
  BY <1>1, <1>3, <1>5, <1>14, FailNests DEF Parsing
<1>15. CASE events' = events \o (IF peek THEN <<call>> ELSE <<call, End(e)>>) /\ AfterTag(tags)
  <2>1. CASE peek
    <3>1. events = <<>> /\ processor' = "error" /\ outcome' = "ABORTED"
      BY <1>1, <1>15, <2>1 DEF NestSound, AfterTag, Fail
    <3>2. events' = one
      BY <1>8, <1>15, <2>1
    <3>3. Len(one) = 1
      BY <1>8, <3>1
    <3>4. /\ Len(events') <= 1 /\ events' # <<>>
          /\ \A j \in DOMAIN events' : Belongs(events', j)
      <4>1. Len(events') = 1 /\ events' # <<>>
        BY <1>8, <3>2, <3>3
      <4>2. \A j \in DOMAIN events' : Belongs(events', j)
        BY <1>10, <3>2
      <4> QED BY <4>1, <4>2
    <3> QED BY <1>5, <2>1, <3>1, <3>4, PeekNests
  <2>2. CASE ~peek
    <3>1. events' = two
      BY <1>8, <1>15, <2>2
    <3>2. outcome' = "parsing" /\ processor' = IF tags = <<>> THEN "epilog" ELSE "content"
      BY <1>7, <1>15, <2>2 DEF AfterTag
    <3> QED BY <1>5, <1>8, <1>12, <1>13, <2>2, <3>1, <3>2 DEF NestSound
  <2> QED BY <2>1, <2>2
<1> QED BY <1>1, <1>14, <1>15

LEMMA EndTagNests ==
  ASSUME IInv, NestSound, NEW e \in Elements, EndTag(e)
  PROVE  NestSound'
<1>1. /\ processor = "content" /\ tags # <<>> /\ UNCHANGED dtdVars
      /\ \/ Fail("TAG_MISMATCH") /\ UNCHANGED <<tags, events>>
         \/ /\ e = tags[Len(tags)] /\ tags' = SubSeq(tags, 1, Len(tags) - 1)
            /\ events' = Append(events, End(e)) /\ AfterTag(tags')
  BY DEF EndTag
<1>2. UNCHANGED peek /\ ~peek
  BY <1>1 DEF dtdVars, docVars, NestSound
<1>3. events \in Seq(Calls) /\ tags \in Seq(Elements)
  BY DEF IInv, TypeOK
<1>4. End(e) \in Calls /\ End(e).call = "end" /\ End(e).name = e
  BY CallsTyped DEF End, Call
<1>5. outcome = "parsing" /\ Nested(events, tags) /\ \A j \in DOMAIN events : Belongs(events, j)
  BY <1>1 DEF NestSound
<1>6. CASE Fail("TAG_MISMATCH") /\ UNCHANGED <<tags, events>>
  <2>1. "TAG_MISMATCH" \in Codes \ {"ABORTED"}
    BY DEF Codes
  <2> QED BY <1>1, <1>2, <1>6, <2>1, FailNests DEF Parsing
<1>7. CASE /\ e = tags[Len(tags)] /\ tags' = SubSeq(tags, 1, Len(tags) - 1)
           /\ events' = Append(events, End(e)) /\ AfterTag(tags')
  <2>1. Nested(events', tags') /\ Belongs(events', Len(events) + 1)
    BY <1>1, <1>3, <1>4, <1>5, <1>7, EndNests
  <2>2. \A j \in DOMAIN events' : Belongs(events', j)
    BY <1>3, <1>4, <1>5, <1>7, <2>1, AllBelong
  <2>3. events' # <<>>
    BY <1>3, <1>4, <1>7
  <2>4. outcome' = "parsing" /\ processor' = IF tags' = <<>> THEN "epilog" ELSE "content"
    BY <1>2, <1>5, <1>7 DEF AfterTag
  <2> QED BY <1>2, <2>1, <2>2, <2>3, <2>4 DEF NestSound
<1> QED BY <1>1, <1>6, <1>7

LEMMA TextNests ==
  ASSUME IInv, NestSound, NEW c \in {"text", "#65"} \cup Entities, CharData(c) \/ EntityRef(c)
  PROVE  NestSound'
<1>1. /\ processor \in {"content", "cdata"} /\ tags # <<>> /\ UNCHANGED <<tags, dtdVars>>
      /\ \/ Silent /\ events' = events
         \/ Silent /\ events' = Append(events, Chars(c))
         \/ EntityError(c) # None /\ Fail(EntityError(c)) /\ events' = events
  BY DEF CharData, EntityRef, processInternalEntity
<1>2. UNCHANGED <<peek, tags>> /\ ~peek
  BY <1>1 DEF dtdVars, docVars, NestSound
<1>3. events \in Seq(Calls) /\ tags \in Seq(Elements)
  BY DEF IInv, TypeOK
<1>4. Chars(c) \in Calls /\ Chars(c).call = "chars"
  BY CallsTyped DEF Chars, Call
<1>5. outcome = "parsing" /\ Nested(events, tags) /\ \A j \in DOMAIN events : Belongs(events, j)
  BY <1>1 DEF NestSound
<1>6. CASE Silent /\ events' = events
  BY <1>1, <1>2, <1>5, <1>6 DEF NestSound, Silent
<1>7. CASE Silent /\ events' = Append(events, Chars(c))
  <2>1. Nested(events', tags) /\ Belongs(events', Len(events) + 1)
    BY <1>1, <1>3, <1>4, <1>5, <1>7, CharsNest
  <2>2. \A j \in DOMAIN events' : Belongs(events', j)
    BY <1>3, <1>4, <1>5, <1>7, <2>1, AllBelong
  <2> QED BY <1>1, <1>2, <1>5, <1>7, <2>1, <2>2 DEF NestSound, Silent
<1>8. CASE EntityError(c) # None /\ Fail(EntityError(c)) /\ events' = events
  <2>1. EntityError(c) \in Codes \ {"ABORTED"}
    BY <1>8 DEF EntityError, Codes
  <2> QED BY <1>1, <1>2, <1>8, <2>1, FailNests DEF Parsing
<1> QED BY <1>1, <1>6, <1>7, <1>8

LEMMA PlainNests ==
  ASSUME IInv, NestSound, \/ BadCharRef \/ CdataOpen \/ CdataClose \/ XmlDeclInContent
                          \/ Junk \/ BadToken \/ EndOfText
  PROVE  NestSound'
<1>1. /\ processor \in Parsing /\ UNCHANGED <<tags, events, dtdVars>>
      /\ \/ \E code \in Codes \ {"ABORTED"} : Fail(code)
         \/ processor = "content" /\ tags # <<>> /\ processor' = "cdata" /\ outcome' = outcome
         \/ processor = "cdata" /\ processor' = "content" /\ outcome' = outcome
         \/ processor = "epilog" /\ processor' = "finished" /\ outcome' = "ok"
  BY DEF BadCharRef, CdataOpen, CdataClose, XmlDeclInContent, Junk, BadToken, EndOfText, Codes,
         Parsing
<1>2. UNCHANGED <<peek, tags, events>>
  BY <1>1 DEF dtdVars, docVars
<1>3. CASE \E code \in Codes \ {"ABORTED"} : Fail(code)
  BY <1>1, <1>2, <1>3, FailNests
<1>4. CASE /\ processor = "content" /\ tags # <<>>
           /\ processor' = "cdata" /\ outcome' = outcome
  BY <1>2, <1>4 DEF NestSound
<1>5. CASE processor = "cdata" /\ processor' = "content" /\ outcome' = outcome
  BY <1>2, <1>5 DEF NestSound
<1>6. CASE processor = "epilog" /\ processor' = "finished" /\ outcome' = "ok"
  <2>1. /\ tags = <<>> /\ events # <<>> /\ ~peek /\ Nested(events, tags)
        /\ \A j \in DOMAIN events : Belongs(events, j)
    BY <1>6 DEF NestSound
  <2>2. Depth(events, Len(events)) = 0
    BY <2>1 DEF Nested
  <2> QED BY <1>2, <1>6, <2>1, <2>2 DEF NestSound
<1> QED BY <1>1, <1>3, <1>4, <1>5, <1>6

LEMMA InitNests == Init => NestSound
<1> SUFFICES ASSUME Init PROVE NestSound
  OBVIOUS
<1>1. Nested(<<>>, <<>>)
  <2>1. Depth(<<>>, 0) = 0
    BY DepthFacts
  <2>2. <<>> \in [1 .. Len(<<>>) -> DOMAIN <<>>] /\ Len(<<>>) = 0 /\ 1 .. 0 = {}
    OBVIOUS
  <2> QED BY <2>1, <2>2 DEF Nested
<1> QED BY <1>1 DEF Init, NestSound

LEMMA StepNests == IInv /\ NestSound /\ [Next]_vars => NestSound'
<1> SUFFICES ASSUME IInv, NestSound, [Next]_vars PROVE NestSound'
  OBVIOUS
<1>1. CASE Prolog
  BY <1>1, PrologNests
<1>2. CASE Content
  BY <1>2, StartTagNests, EmptyElementNests, EndTagNests, TextNests, PlainNests DEF Content
<1>3. CASE Junk \/ BadToken \/ EndOfText
  BY <1>3, PlainNests
<1>4. CASE UNCHANGED vars
  BY <1>4 DEF vars, NestSound
<1> QED BY <1>1, <1>2, <1>3, <1>4 DEF Next

\* CallsNest: the parser's calls of its application nest for every document: an end
\* belongs to a start of its name, text is inside of the root, there is one root, and a
\* parser that stops at the first tag has made that call alone.
THEOREM CallsAlwaysNest == Spec => []CallsNest
<1>1. NestSound => CallsNest
  BY DEF NestSound, CallsNest
<1>2. Spec => []NestSound
  BY InitNests, StepNests, Inductive, PTL DEF Spec
<1> QED BY <1>1, <1>2, PTL

=============================================================================
