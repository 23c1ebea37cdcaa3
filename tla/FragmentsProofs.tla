--------------------------- MODULE FragmentsProofs ---------------------------
(***************************************************************************)
(* Proofs about Fragments, for every set of values and all bounds.  The    *)
(* argument: the parent stack of a frame stands for the elements that are  *)
(* open in it above the frame's base; the events of a capture go through   *)
(* the same stack of elements, once when they are captured and again in    *)
(* each replay; and what was made for one fragment is never a parent in    *)
(* the expansion of another, so that a teardown takes nothing away from a  *)
(* frame that is under way.                                                *)
(***************************************************************************)
EXTENDS Fragments, Iteration

-----------------------------------------------------------------------------
(* The inductive invariant, in operators of the variables it is about.  What is *)
(* written inside of element x belongs to the widget Cur(d, x).                *)

Elements == [kind : Kinds, bound : BOOLEAN, num : Nat, up : Nat, enc : Nat, frag : Nat,
             nested : BOOLEAN]
Cur(d, x) == IF d[x].kind = "obj" THEN x ELSE d[x].enc
DocSound(d) ==
  /\ d \in Seq(Elements) /\ Len(d) >= 1
  /\ d[1].kind = "obj" /\ d[1].frag = Nothing
  /\ \A e \in 2 .. Len(d) : d[e].enc \in 1 .. Len(d) /\ d[d[e].enc].kind = "obj"

\* The open elements, outermost first; the widget around each of them is open.
OpenSound(d, op) ==
  /\ op \in Seq(1 .. Len(d)) /\ (op # <<>> => op[1] = 1)
  /\ \A i, j \in 1 .. Len(op) : i < j => op[i] < op[j]
  /\ \A i \in 1 .. Len(op) : \E j \in 1 .. i :
       /\ op[j] = Cur(d, op[i]) /\ d[op[j]].kind = "obj"
       /\ \A x \in j + 1 .. i : d[op[x]].kind # "obj"

\* An object of the tree; one that was made for the document itself or for a
\* fragment of F.
There(ob, o) == o \in Ids /\ ob[o].elem # Nothing /\ ~ob[o].sunk
Of(d, ob, o, F) == There(ob, o) /\ d[ob[o].elem].frag \in F \cup {Nothing}
Objects(d) == [elem : 0 .. Len(d), par : Ids \cup {Outer}, above : SUBSET Ids, sunk : BOOLEAN]
ObjSound(d, ob) ==
  /\ ob \in [Ids -> Objects(d)]
  /\ ~ob[1].sunk
  /\ \A o \in Ids : There(ob, o) =>
       /\ There(ob, 1)
       /\ IF o = 1 THEN ob[o].elem = 1 /\ ob[o].par = Outer
          ELSE There(ob, ob[o].par) /\ ob[ob[o].par].elem = d[ob[o].elem].enc
       /\ {o, ob[o].par} \ {Outer} \subseteq ob[o].above
       /\ \A a \in ob[o].above : /\ Of(d, ob, a, {d[ob[o].elem].frag})
                                  /\ ob[a].above \subseteq ob[o].above

\* How many of the first i elements of L have a kind of K.
Height(d, L, K, i) == Cardinality({x \in 1 .. i : d[L[x]].kind \in K})
Level == {"obj", "unknown"}
\* In a parent stack, the entries above b up to n stand for the first u elements of L.
Stands(d, ob, par, b, n, L, u, F) ==
  /\ n = b + Height(d, L, Level, u) /\ n <= Len(par)
  /\ \A i \in 1 .. u : LET o == par[b + Height(d, L, Level, i)]
                       IN  Of(d, ob, o, F) /\ ob[o].elem = Cur(d, L[i])

\* st[i] are the captured elements that are open behind the i-th event.
Inner(frag, s) == IF s = <<>> THEN frag ELSE s[Len(s)]
Trace(d, events, frag, st) ==
  /\ \A i \in 1 .. Len(events) : /\ events[i].elem \in 1 .. Len(d)
                                  /\ d[events[i].elem].kind \notin Fragment
  /\ st \in [0 .. Len(events) -> Seq(1 .. Len(d))] /\ st[0] = <<>>
  /\ \A i \in 1 .. Len(events) :
       LET e == events[i].elem
       IN  IF events[i].end THEN st[i - 1] = Append(st[i], e)
           ELSE /\ st[i] = Append(st[i - 1], e)
                /\ d[e].enc = Cur(d, Inner(frag, st[i - 1])) /\ d[e].frag = frag

\* What fr replays above the first b of its parents, for a fragment.
Plays(d, ob, fr, b, frag) ==
  LET p == fr.play events == fr.play.events IN
  /\ p.on /\ p.left \in Nat /\ p.hi \in 0 .. Len(events) /\ p.lo \in 0 .. p.hi
  /\ p.pos \in p.lo .. p.hi /\ (p.left = 0 => p.pos = p.lo)
  /\ b \in 1 .. Len(fr.parents)
  /\ Of(d, ob, fr.parents[b], {}) /\ ob[fr.parents[b]].elem = Cur(d, frag)
  /\ \E st :
       /\ Trace(d, events, frag, st) /\ st[p.lo] = <<>> /\ st[p.hi] = <<>>
       /\ p.nest = Len(st[p.pos])
       /\ Stands(d, ob, fr.parents, b, Len(fr.parents), st[p.pos], p.nest, {frag})

\* Entries x + 1 to y of s.
Slice(s, x, y) == SubSeq(s, x + 1, y)

\* What is captured of a fragment, where the elements of s are open in it.
Taken(d, events, frag, split, s) ==
  \E st : /\ Trace(d, events, frag, st) /\ st[Len(events)] = s
          /\ split = -1 \/ (split \in 0 .. Len(events) /\ st[split] = <<>>)

\* The m-th open element is the fragment of the capture; what is open above the off-th of
\* them, itself or its <else>, up to the last-th is captured, and what is above that skipped.
Marks(d, op, m, off, last) ==
  /\ m \in 2 .. Len(op) /\ off \in m .. m + 1 /\ last \in off .. Len(op)
  /\ d[op[m]].kind \in Fragment /\ d[op[m]].enc = Cur(d, op[m - 1])
  /\ \A j \in 1 .. last : j # m => d[op[j]].kind \notin Fragment
  /\ off = m + 1 <=> d[op[m]].kind = "if" /\ m < Len(op) /\ d[op[m + 1]].kind = "else"
  /\ off = m + 1 => d[op[off]].enc = d[op[m]].enc
  /\ d[op[m]].kind = "if" => \A j \in off + 1 .. last : d[op[j]].kind # "else"
Skips(d, op, skip, last) ==
  /\ skip \in Nat /\ Height(d, op, Fragment, Len(op)) = 1 + skip
  /\ IF skip = 0 THEN last = Len(op)
     ELSE last < Len(op) /\ d[op[last + 1]].kind \in Fragment
CapSound(d, op, c, m, off, last) ==
  /\ Marks(d, op, m, off, last) /\ c.frag = op[m] /\ Skips(d, op, c.skip, last)
  /\ Taken(d, c.events, c.frag, c.split, Slice(op, off, last))

Plain(d, op) == \A i \in 1 .. Len(op) : d[op[i]].kind \notin Fragment

\* The frame of the document's parser: between tags, in a capture, or where a capture is
\* expanded in place.
DocFrame(d, ob, op, c, fr) ==
  /\ fr.play.rec = Nothing
  /\ IF c.frag = Nothing
     THEN /\ ~fr.play.on /\ Plain(d, op)
          /\ Stands(d, ob, fr.parents, 1, Len(fr.parents), op, Len(op), {})
     ELSE IF fr.play.on
     THEN /\ Plain(d, op) /\ c.frag \in 1 .. Len(d)
          /\ Stands(d, ob, fr.parents, 1, c.base, op, Len(op), {})
          /\ Plays(d, ob, fr, c.base, c.frag)
     ELSE /\ c.base = Len(fr.parents)
          /\ \E m, off, last \in 1 .. Len(op) :
               /\ CapSound(d, op, c, m, off, last)
               /\ Stands(d, ob, fr.parents, 1, c.base, op, m - 1, {})

\* The frame of a rebuild.
BuildFrame(d, ob, rc, fr) ==
  /\ fr.play.rec \in 1 .. Len(rc)
  /\ LET r == rc[fr.play.rec] IN
     /\ r.live /\ r.busy /\ Plays(d, ob, fr, 1, r.frag)
     /\ \A o \in fr.play.roots \cup ({fr.item} \ {Nothing}) :
          There(ob, o) /\ d[ob[o].elem].frag = r.frag

\* Frames below a frame of the stack may rebuild other records only.
FrameSound(d, ob, op, c, rc, fr) ==
  /\ fr.kind = "doc" => DocFrame(d, ob, op, c, fr)
  /\ fr.kind = "build" => BuildFrame(d, ob, rc, fr)
  /\ fr.kind = "notify" => ~fr.play.on
Shape(sk) ==
  /\ \A i \in 2 .. Len(sk) : sk[i].kind # "doc"
  /\ \A i, j \in 1 .. Len(sk) :
       sk[i].kind = "build" /\ sk[j].kind = "build" /\ sk[i].play.rec = sk[j].play.rec => i = j
StackSound(d, ob, op, c, rc, sk) ==
  /\ \A i \in 1 .. Len(sk) : FrameSound(d, ob, op, c, rc, sk[i])
  /\ Shape(sk)

Body(d, events, frag, split) ==
  frag \in 1 .. Len(d) /\ Taken(d, events, frag, split, <<>>)
RecordSound(d, ob, r) ==
  /\ Body(d, r.events, r.frag, r.split)
  /\ r.live => /\ r.hook /\ Of(d, ob, r.parent, {}) /\ ob[r.parent].elem = Cur(d, r.frag)
  /\ ~r.live => ~r.hook /\ ~r.obs /\ r.roots = {}
  /\ \A o \in r.roots : There(ob, o) /\ d[ob[o].elem].frag = r.frag
\* The fragment of a record is behind the parser, and has no other record.
Behind(op, c, frag) == frag # c.frag /\ \A i \in 1 .. Len(op) : frag # op[i]
RecSound(d, ob, op, c, rc) ==
  /\ \A r \in 1 .. Len(rc) : RecordSound(d, ob, rc[r]) /\ Behind(op, c, rc[r].frag)
  /\ \A r, s \in 1 .. Len(rc) : rc[r].frag = rc[s].frag => r = s

Events  == [elem : Nat, end : BOOLEAN]
Replays == [on : BOOLEAN, rec : Nat, events : Seq(Events), lo : Nat, hi : Nat, pos : Nat,
            left : Nat, nest : Nat, roots : SUBSET Ids]
Frames  == [kind : {"doc", "build", "notify"}, parents : Seq(Ids \cup {Outer}),
            item : Ids \cup {Nothing}, play : Replays]
Records == [frag : Nat, parent : Ids \cup {Outer}, events : Seq(Events), split : Int,
            roots : SUBSET Ids, busy : BOOLEAN, missed : BOOLEAN, live : BOOLEAN,
            obs : BOOLEAN, handle : BOOLEAN, hook : BOOLEAN, twice : BOOLEAN]
Captures ==
  {c \in [frag : Nat, base : Nat, events : Seq(Events), split : Int, skip : Nat] :
     c.frag = Nothing => c.skip = 0}
Typed ==
  /\ stack \in Seq(Frames) /\ rec \in Seq(Records) /\ cap \in Captures
  /\ val \in Values \/ (stack = <<>> /\ val = Gone)
  /\ todo \subseteq {r \in 1 .. Len(rec) : rec[r].obs}
  /\ todo # {} => \E i \in 1 .. Len(stack) : stack[i].kind = "notify"

IInv ==
  /\ Typed /\ DocSound(doc) /\ OpenSound(doc, open) /\ ObjSound(doc, obj)
  /\ RecSound(doc, obj, open, cap, rec)
  /\ StackSound(doc, obj, open, cap, rec, stack)

-----------------------------------------------------------------------------
(* Sequences, and heights.                                                    *)

LEMMA FrontFacts ==
  ASSUME NEW S, NEW s \in Seq(S), s # <<>>
  PROVE  /\ Front(s) \in Seq(S) /\ Len(Front(s)) = Len(s) - 1 /\ Len(s) \in Nat \ {0}
         /\ \A i \in 1 .. Len(s) - 1 : Front(s)[i] = s[i]
         /\ Last(s) = s[Len(s)] /\ Last(s) \in S
<1>1. Len(s) \in Nat \ {0} /\ \A i \in 1 .. Len(s) : s[i] \in S
  OBVIOUS
<1>2. Front(s) = [i \in 1 .. Len(s) - 1 |-> s[i]]
  BY <1>1 DEF Front
<1>3. Len(Front(s)) = Len(s) - 1 /\ Front(s) \in Seq(S)
  BY <1>1, SMTT(20) DEF Front
<1> QED BY <1>1, <1>2, <1>3 DEF Last

LEMMA AppendFacts ==
  ASSUME NEW S, NEW s \in Seq(S), NEW x \in S
  PROVE  /\ Append(s, x) \in Seq(S) /\ Len(Append(s, x)) = Len(s) + 1 /\ Len(s) \in Nat
         /\ \A i \in 1 .. Len(s) : Append(s, x)[i] = s[i]
         /\ Append(s, x)[Len(s) + 1] = x
OBVIOUS

LEMMA HeightFacts ==
  ASSUME NEW d, NEW L, NEW K
  PROVE  /\ Height(d, L, K, 0) = 0
         /\ \A i \in Nat :
              /\ Height(d, L, K, i) \in Nat
              /\ d[L[i + 1]].kind \in K => Height(d, L, K, i + 1) = Height(d, L, K, i) + 1
              /\ d[L[i + 1]].kind \notin K => Height(d, L, K, i + 1) = Height(d, L, K, i)
<1> DEFINE At(i) == {x \in 1 .. i : d[L[x]].kind \in K}
<1>1. At(0) = {}
  OBVIOUS
<1>2. ASSUME NEW i \in Nat
      PROVE  /\ IsFiniteSet(At(i)) /\ i + 1 \notin At(i)
             /\ d[L[i + 1]].kind \in K => At(i + 1) = At(i) \cup {i + 1}
             /\ d[L[i + 1]].kind \notin K => At(i + 1) = At(i)
  <2>1. IsFiniteSet(1 .. i) /\ At(i) \in SUBSET (1 .. i)
    BY FS_Interval
  <2>2. IsFiniteSet(At(i))
    BY <2>1, FS_Subset
  <2>3. 1 .. i + 1 = 1 .. i \cup {i + 1}
    OBVIOUS
  <2> QED BY <2>2, <2>3
<1>3. \A i : Height(d, L, K, i) = Cardinality(At(i))
  BY DEF Height
<1> HIDE DEF At
<1>4. Height(d, L, K, 0) = 0
  BY <1>1, <1>3, FS_EmptySet
<1>5. ASSUME NEW i \in Nat
      PROVE  /\ Height(d, L, K, i) \in Nat
             /\ d[L[i + 1]].kind \in K => Height(d, L, K, i + 1) = Height(d, L, K, i) + 1
             /\ d[L[i + 1]].kind \notin K => Height(d, L, K, i + 1) = Height(d, L, K, i)
  <2>1. IsFiniteSet(At(i)) /\ i + 1 \notin At(i)
    BY <1>2, <1>5
  <2>2. Cardinality(At(i)) \in Nat
    BY <2>1, FS_CardinalityType
  <2>3. Cardinality(At(i) \cup {i + 1}) = Cardinality(At(i)) + 1
    BY <2>1, FS_AddElement
  <2> QED BY <1>2, <1>3, <1>5, <2>2, <2>3
<1> QED BY <1>4, <1>5

LEMMA HeightStep ==
  ASSUME NEW d, NEW L, NEW K, NEW i \in Nat
  PROVE  /\ Height(d, L, K, i) \in Nat
         /\ Height(d, L, K, i + 1) = IF d[L[i + 1]].kind \in K THEN Height(d, L, K, i) + 1
                                     ELSE Height(d, L, K, i)
<1>1. CASE d[L[i + 1]].kind \in K
  BY <1>1, HeightFacts
<1>2. CASE d[L[i + 1]].kind \notin K
  BY <1>2, HeightFacts
<1> QED BY <1>1, <1>2

LEMMA HeightGrows ==
  ASSUME NEW d, NEW L, NEW K, NEW i \in Nat, NEW j \in Nat, i <= j
  PROVE  Height(d, L, K, i) <= Height(d, L, K, j)
<1> DEFINE At(k) == {x \in 1 .. k : d[L[x]].kind \in K}
<1>1. IsFiniteSet(1 .. j) /\ At(j) \in SUBSET (1 .. j) /\ At(i) \in SUBSET At(j)
  BY FS_Interval
<1>2. IsFiniteSet(At(j))
  BY <1>1, FS_Subset
<1>3. Cardinality(At(i)) <= Cardinality(At(j))
  <2> HIDE DEF At
  <2> QED BY <1>1, <1>2, FS_Subset
<1> QED BY <1>3 DEF Height

\* Heights are of the kinds alone.
LEMMA HeightSame ==
  ASSUME NEW d, NEW L, NEW d2, NEW L2, NEW K, NEW i \in Nat,
         \A x \in 1 .. i : d2[L2[x]].kind = d[L[x]].kind
  PROVE  Height(d2, L2, K, i) = Height(d, L, K, i)
<1>1. {x \in 1 .. i : d2[L2[x]].kind \in K} = {x \in 1 .. i : d[L[x]].kind \in K}
  OBVIOUS
<1> QED BY <1>1 DEF Height

LEMMA HeightNone ==
  ASSUME NEW d, NEW L, NEW K, NEW i \in Nat, \A x \in 1 .. i : d[L[x]].kind \notin K
  PROVE  Height(d, L, K, i) = 0
<1>1. {x \in 1 .. i : d[L[x]].kind \in K} = {}
  OBVIOUS
<1> QED BY <1>1, FS_EmptySet DEF Height
-----------------------------------------------------------------------------
(* What a step leaves as it was: a document that is read on, and the objects of a   *)
(* tree but those made for fragments of F.                                      *)

Grown(d, d2) == Len(d) <= Len(d2) /\ \A e \in 1 .. Len(d) : d2[e] = d[e]
Kept(d, ob, ob2, F) ==
  \A o \in Ids : There(ob, o) /\ d[ob[o].elem].frag \notin F
                 => There(ob2, o) /\ ob2[o].elem = ob[o].elem
Later(d, ob, d2, ob2, F) ==
  /\ DocSound(d) /\ Grown(d, d2) /\ ob \in [Ids -> Objects(d)]
  /\ Kept(d, ob, ob2, F) /\ Nothing \notin F

LEMMA OfKept ==
  ASSUME NEW d, NEW d2, NEW ob, NEW ob2, NEW F, NEW G, NEW o,
         Later(d, ob, d2, ob2, F), G \cap F = {}, Of(d, ob, o, G)
  PROVE  /\ Of(d2, ob2, o, G) /\ ob2[o].elem = ob[o].elem
         /\ ob[o].elem \in 1 .. Len(d) /\ d2[ob[o].elem] = d[ob[o].elem]
<1>0. /\ DocSound(d) /\ Grown(d, d2) /\ ob \in [Ids -> Objects(d)]
      /\ Kept(d, ob, ob2, F) /\ Nothing \notin F
  BY DEF Later
<1>1. There(ob, o) /\ o \in Ids /\ d[ob[o].elem].frag \notin F
  BY <1>0 DEF Of, There
<1>2. ob[o].elem \in 1 .. Len(d)
  BY <1>0, <1>1 DEF There, Objects, DocSound, Nothing
<1>3. There(ob2, o) /\ ob2[o].elem = ob[o].elem
  BY <1>0, <1>1 DEF Kept
<1>4. d2[ob[o].elem] = d[ob[o].elem]
  BY <1>0, <1>2 DEF Grown
<1> QED BY <1>2, <1>3, <1>4 DEF Of

LEMMA StandsKept ==
  ASSUME NEW d, NEW d2, NEW ob, NEW ob2, NEW F, NEW G, NEW par, NEW b, NEW n,
         NEW L \in Seq(1 .. Len(d)), NEW u \in 0 .. Len(L),
         Later(d, ob, d2, ob2, F), G \cap F = {}, Stands(d, ob, par, b, n, L, u, G)
  PROVE  Stands(d2, ob2, par, b, n, L, u, G)
<1>1. \A x \in 1 .. u : L[x] \in 1 .. Len(d) /\ d2[L[x]] = d[L[x]]
  BY DEF Grown, Later
<1>2. ASSUME NEW i \in 0 .. u
      PROVE  Height(d2, L, Level, i) = Height(d, L, Level, i)
  <2>1. i \in Nat /\ \A x \in 1 .. i : d2[L[x]].kind = d[L[x]].kind
    BY <1>1
  <2> QED BY <2>1, HeightSame
<1>3. ASSUME NEW i \in 1 .. u
      PROVE  LET o == par[b + Height(d2, L, Level, i)]
             IN  Of(d2, ob2, o, G) /\ ob2[o].elem = Cur(d2, L[i])
  <2> DEFINE o == par[b + Height(d, L, Level, i)]
  <2>1. Of(d, ob, o, G) /\ ob[o].elem = Cur(d, L[i])
    BY DEF Stands
  <2>2. Of(d2, ob2, o, G) /\ ob2[o].elem = ob[o].elem
    <3> HIDE DEF o
    <3> QED BY <2>1, OfKept
  <2>3. Cur(d2, L[i]) = Cur(d, L[i])
    BY <1>1 DEF Cur
  <2>4. Height(d2, L, Level, i) = Height(d, L, Level, i)
    BY <1>2
  <2> QED BY <2>1, <2>2, <2>3, <2>4
<1>4. Height(d2, L, Level, u) = Height(d, L, Level, u)
  BY <1>2
<1>5. n = b + Height(d, L, Level, u) /\ n <= Len(par)
  BY DEF Stands
<1> QED BY <1>3, <1>4, <1>5 DEF Stands

LEMMA TraceKept ==
  ASSUME NEW d, NEW d2, NEW events, NEW frag \in 1 .. Len(d), NEW st,
         events \in Seq(Events), DocSound(d), DocSound(d2), Grown(d, d2),
         Trace(d, events, frag, st)
  PROVE  Trace(d2, events, frag, st)
<1>0. Len(d) \in Nat /\ Len(d2) \in Nat /\ Len(d) <= Len(d2) /\ Len(events) \in Nat
  BY DEF DocSound, Grown
<1>1. Seq(1 .. Len(d)) \subseteq Seq(1 .. Len(d2))
  <2> SUFFICES ASSUME NEW s \in Seq(1 .. Len(d)) PROVE s \in Seq(1 .. Len(d2))
    OBVIOUS
  <2>1. s = [i \in 1 .. Len(s) |-> s[i]] /\ Len(s) \in Nat
          /\ \A i \in 1 .. Len(s) : s[i] \in 1 .. Len(d2)
    BY <1>0
  <2> QED BY <2>1, SMTT(20)
<1>2. \A i \in 1 .. Len(events) : events[i].elem \in 1 .. Len(d)
  BY DEF Trace
<1>3. /\ \A i \in 1 .. Len(events) : events[i].elem \in 1 .. Len(d2)
      /\ \A i \in 1 .. Len(events) : d2[events[i].elem] = d[events[i].elem]
  BY <1>0, <1>2 DEF Grown
<1>3a. \A i \in 1 .. Len(events) : d2[events[i].elem].kind \notin Fragment
  BY <1>3 DEF Trace
<1>4. st \in [0 .. Len(events) -> Seq(1 .. Len(d))]
  BY DEF Trace
<1>5. st \in [0 .. Len(events) -> Seq(1 .. Len(d2))]
  BY <1>1, <1>4
<1>6. ASSUME NEW i \in 0 .. Len(events)
      PROVE  Inner(frag, st[i]) \in 1 .. Len(d)
             /\ Cur(d2, Inner(frag, st[i])) = Cur(d, Inner(frag, st[i]))
  <2>1. st[i] \in Seq(1 .. Len(d))
    BY <1>4
  <2>2. Inner(frag, st[i]) \in 1 .. Len(d)
    BY <2>1 DEF Inner
  <2>3. d2[Inner(frag, st[i])] = d[Inner(frag, st[i])]
    BY <2>2 DEF Grown
  <2> QED BY <2>2, <2>3 DEF Cur
<1>7. ASSUME NEW i \in 1 .. Len(events)
      PROVE  LET e == events[i].elem
             IN  IF events[i].end THEN st[i - 1] = Append(st[i], e)
                 ELSE /\ st[i] = Append(st[i - 1], e)
                      /\ d2[e].enc = Cur(d2, Inner(frag, st[i - 1])) /\ d2[e].frag = frag
  <2>1. i - 1 \in 0 .. Len(events)
    BY <1>0
  <2>2. Cur(d2, Inner(frag, st[i - 1])) = Cur(d, Inner(frag, st[i - 1]))
    BY <2>1, <1>6
  <2> QED BY <1>3, <2>2 DEF Trace
<1> QED BY <1>3, <1>3a, <1>5, <1>7 DEF Trace

LEMMA TraceAt ==
  ASSUME NEW d, NEW events, NEW frag, NEW st, Trace(d, events, frag, st),
         NEW i \in 0 .. Len(events)
  PROVE  st[i] \in Seq(1 .. Len(d))
<1>1. st \in [0 .. Len(events) -> Seq(1 .. Len(d))]
  BY DEF Trace
<1> QED BY <1>1

LEMMA PlaysKept ==
  ASSUME NEW d, NEW ob, NEW ob2, NEW F, NEW fr \in Frames, NEW b, NEW frag,
         Later(d, ob, d, ob2, F), frag \notin F, Plays(d, ob, fr, b, frag)
  PROVE  Plays(d, ob2, fr, b, frag)
<1> DEFINE p == fr.play
           par == fr.parents
<1>1. {} \cap F = {} /\ {frag} \cap F = {}
  OBVIOUS
<1>2. PICK st : /\ Trace(d, p.events, frag, st) /\ st[p.lo] = <<>> /\ st[p.hi] = <<>>
                /\ p.nest = Len(st[p.pos])
                /\ Stands(d, ob, par, b, Len(par), st[p.pos], p.nest, {frag})
  BY DEF Plays
<1>3. p.pos \in 0 .. Len(p.events)
  BY DEF Plays, Frames, Replays
<1>4. st[p.pos] \in Seq(1 .. Len(d)) /\ p.nest \in 0 .. Len(st[p.pos])
  <2> HIDE DEF p, par
  <2>1. st[p.pos] \in Seq(1 .. Len(d))
    BY <1>2, <1>3, TraceAt
  <2>2. Len(st[p.pos]) \in Nat /\ p.nest = Len(st[p.pos])
    BY <1>2, <2>1
  <2> QED BY <2>1, <2>2
<1>5. Stands(d, ob2, par, b, Len(par), st[p.pos], p.nest, {frag})
  <2> HIDE DEF p, par
  <2> QED BY <1>1, <1>2, <1>4, StandsKept
<1>6. Of(d, ob2, par[b], {}) /\ ob2[par[b]].elem = Cur(d, frag)
  <2>1. Of(d, ob, par[b], {}) /\ ob[par[b]].elem = Cur(d, frag)
    BY DEF Plays
  <2> HIDE DEF p, par
  <2> QED BY <1>1, <2>1, OfKept
<1> QED BY <1>2, <1>5, <1>6 DEF Plays
-----------------------------------------------------------------------------
(* A parent stack, entry by entry.                                            *)

LEMMA StandsSame ==
  ASSUME NEW d, NEW ob, NEW par, NEW par2, NEW b \in Nat \ {0}, NEW n, NEW L, NEW L2,
         NEW u \in Nat, NEW G, Stands(d, ob, par, b, n, L, u, G), n <= Len(par2),
         \A i \in 1 .. n : par2[i] = par[i], \A x \in 1 .. u : L2[x] = L[x]
  PROVE  Stands(d, ob, par2, b, n, L2, u, G)
<1>1. ASSUME NEW i \in 0 .. u
      PROVE  /\ Height(d, L2, Level, i) = Height(d, L, Level, i)
             /\ Height(d, L, Level, i) \in Nat /\ Height(d, L, Level, i) <= Height(d, L, Level, u)
  <2>1. i \in Nat /\ \A x \in 1 .. i : d[L2[x]].kind = d[L[x]].kind
    BY <1>1
  <2>2. Height(d, L2, Level, i) = Height(d, L, Level, i)
    BY <2>1, HeightSame
  <2>3. Height(d, L, Level, i) <= Height(d, L, Level, u)
    BY <2>1, HeightGrows
  <2> QED BY <2>1, <2>2, <2>3, HeightFacts
<1>2. n = b + Height(d, L, Level, u)
  BY DEF Stands
<1>3. ASSUME NEW i \in 1 .. u
      PROVE  LET o == par2[b + Height(d, L2, Level, i)]
             IN  Of(d, ob, o, G) /\ ob[o].elem = Cur(d, L2[i])
  <2>1. b + Height(d, L, Level, i) \in 1 .. n /\ L2[i] = L[i]
    BY <1>1, <1>2
  <2>2. par2[b + Height(d, L2, Level, i)] = par[b + Height(d, L, Level, i)]
    BY <1>1, <2>1
  <2> QED BY <2>1, <2>2 DEF Stands
<1>4. Height(d, L2, Level, u) = Height(d, L, Level, u)
  BY <1>1
<1> QED BY <1>2, <1>3, <1>4 DEF Stands

\* One more element is open, and may have an entry more.
Widened(d, ob, par, par2, n, n2, L, L2, u, u2, G) ==
  /\ u \in Nat /\ u2 = u + 1
  /\ n2 = IF d[L2[u2]].kind \in Level THEN n + 1 ELSE n
  /\ n2 <= Len(par2) /\ n <= Len(par2)
  /\ \A i \in 1 .. n : par2[i] = par[i]
  /\ \A x \in 1 .. u : L2[x] = L[x]
  /\ Of(d, ob, par2[n2], G) /\ ob[par2[n2]].elem = Cur(d, L2[u2])

LEMMA StandsMore ==
  ASSUME NEW d, NEW ob, NEW par, NEW par2, NEW b \in Nat \ {0}, NEW n, NEW n2, NEW L, NEW L2,
         NEW u, NEW u2, NEW G, Stands(d, ob, par, b, n, L, u, G),
         Widened(d, ob, par, par2, n, n2, L, L2, u, u2, G)
  PROVE  Stands(d, ob, par2, b, n2, L2, u2, G)
<1> USE DEF Widened
<1>1. Stands(d, ob, par2, b, n, L2, u, G)
  BY StandsSame
<1>2. n = b + Height(d, L2, Level, u)
  BY <1>1 DEF Stands
<1>3. n2 = b + Height(d, L2, Level, u + 1)
  <2> DEFINE h == Height(d, L2, Level, u)
             k == d[L2[u + 1]].kind
  <2>1. h \in Nat /\ Height(d, L2, Level, u + 1) = IF k \in Level THEN h + 1 ELSE h
    BY HeightStep
  <2>2. n2 = (IF k \in Level THEN n + 1 ELSE n) /\ n = b + h
    BY <1>2
  <2> HIDE DEF h, k
  <2> QED BY <2>1, <2>2
<1>4. ASSUME NEW i \in 1 .. u + 1
      PROVE  LET o == par2[b + Height(d, L2, Level, i)]
             IN  Of(d, ob, o, G) /\ ob[o].elem = Cur(d, L2[i])
  <2>1. CASE i = u + 1
    BY <1>3, <2>1
  <2>2. CASE i # u + 1
    <3>1. i \in 1 .. u
      BY <2>2
    <3> QED BY <1>1, <3>1 DEF Stands
  <2> QED BY <2>1, <2>2
<1> QED BY <1>3, <1>4 DEF Stands

\* One is closed.
LEMMA StandsFewer ==
  ASSUME NEW d, NEW ob, NEW par, NEW b \in Nat \ {0}, NEW n, NEW L, NEW u \in Nat, NEW G,
         Stands(d, ob, par, b, n, L, u + 1, G)
  PROVE  /\ Stands(d, ob, par, b, b + Height(d, L, Level, u), L, u, G)
         /\ n = b + Height(d, L, Level, u) + (IF d[L[u + 1]].kind \in Level THEN 1 ELSE 0)
         /\ Height(d, L, Level, u) \in Nat
<1>1. n = b + Height(d, L, Level, u + 1) /\ n <= Len(par)
  BY DEF Stands
<1>2. /\ Height(d, L, Level, u) \in Nat
      /\ Height(d, L, Level, u + 1) =
           Height(d, L, Level, u) + (IF d[L[u + 1]].kind \in Level THEN 1 ELSE 0)
  <2>1. CASE d[L[u + 1]].kind \in Level
    BY <2>1, HeightStep
  <2>2. CASE d[L[u + 1]].kind \notin Level
    BY <2>2, HeightStep
  <2> QED BY <2>1, <2>2
<1>3. \A i \in 1 .. u : i \in 1 .. u + 1
  OBVIOUS
<1>4. \A i \in 1 .. u : LET o == par[b + Height(d, L, Level, i)]
                        IN  Of(d, ob, o, G) /\ ob[o].elem = Cur(d, L[i])
  BY <1>3 DEF Stands
<1>5. b + Height(d, L, Level, u) <= Len(par)
  <2>1. \/ n = b + Height(d, L, Level, u) /\ n <= Len(par)
        \/ n = b + Height(d, L, Level, u) + 1 /\ n <= Len(par)
    BY <1>1, <1>2
  <2> QED BY <1>2, <2>1
<1> QED BY <1>1, <1>2, <1>4, <1>5 DEF Stands

\* The last entry belongs to the innermost element.
LEMMA StandsTop ==
  ASSUME NEW d, NEW ob, NEW par, NEW b \in Nat \ {0}, NEW n, NEW L, NEW u \in Nat \ {0}, NEW G,
         Stands(d, ob, par, b, n, L, u, G)
  PROVE  Of(d, ob, par[n], G) /\ ob[par[n]].elem = Cur(d, L[u])
<1>1. n = b + Height(d, L, Level, u)
  BY DEF Stands
<1>2. u \in 1 .. u
  OBVIOUS
<1> QED BY <1>1, <1>2 DEF Stands

LEMMA StandsNone ==
  ASSUME NEW d, NEW ob, NEW par, NEW b \in Nat \ {0}, NEW L, NEW G, b <= Len(par)
  PROVE  Stands(d, ob, par, b, b, L, 0, G)
<1>1. Height(d, L, Level, 0) = 0
  BY HeightFacts
<1> QED BY <1>1 DEF Stands
-----------------------------------------------------------------------------
(* The objects: what creating, tearing down and deleting leave.               *)

LEMMA ObjGrown ==
  ASSUME NEW d, NEW d2, NEW ob, DocSound(d), DocSound(d2), Grown(d, d2), ObjSound(d, ob)
  PROVE  ObjSound(d2, ob)
<1>1. Len(d) \in Nat /\ Len(d2) \in Nat /\ Len(d) <= Len(d2)
  BY DEF DocSound, Grown
<1>2. ob \in [Ids -> Objects(d2)]
  <2>1. Objects(d) \subseteq Objects(d2)
    BY <1>1 DEF Objects
  <2> QED BY <2>1 DEF ObjSound
<1>3. ASSUME NEW o, There(ob, o)
      PROVE  d2[ob[o].elem] = d[ob[o].elem]
  <2>1. ob[o].elem \in 1 .. Len(d)
    BY <1>3 DEF There, ObjSound, Objects, Nothing
  <2> QED BY <2>1 DEF Grown
<1>4. ASSUME NEW a, NEW F, Of(d, ob, a, F)
      PROVE  Of(d2, ob, a, F)
  BY <1>3, <1>4 DEF Of
<1>5. ASSUME NEW o \in Ids, There(ob, o)
      PROVE  /\ There(ob, 1)
             /\ IF o = 1 THEN ob[o].elem = 1 /\ ob[o].par = Outer
                ELSE There(ob, ob[o].par) /\ ob[ob[o].par].elem = d2[ob[o].elem].enc
             /\ {o, ob[o].par} \ {Outer} \subseteq ob[o].above
             /\ \A a \in ob[o].above : /\ Of(d2, ob, a, {d2[ob[o].elem].frag})
                                        /\ ob[a].above \subseteq ob[o].above
  <2>1. d2[ob[o].elem] = d[ob[o].elem]
    BY <1>3, <1>5
  <2>2. \A a \in ob[o].above : Of(d, ob, a, {d[ob[o].elem].frag})
                                 /\ ob[a].above \subseteq ob[o].above
    BY <1>5 DEF ObjSound
  <2>3. \A a \in ob[o].above : Of(d2, ob, a, {d2[ob[o].elem].frag})
    BY <1>4, <2>1, <2>2
  <2>4. /\ There(ob, 1)
        /\ IF o = 1 THEN ob[o].elem = 1 /\ ob[o].par = Outer
           ELSE There(ob, ob[o].par) /\ ob[ob[o].par].elem = d[ob[o].elem].enc
        /\ {o, ob[o].par} \ {Outer} \subseteq ob[o].above
    BY <1>5 DEF ObjSound
  <2> QED BY <2>1, <2>2, <2>3, <2>4
<1> QED BY <1>2, <1>5 DEF ObjSound

\* Object n is made for element e below top.
Made(ob, n, e, top) ==
  [ob EXCEPT ![n] = [elem |-> e, par |-> top, above |-> {n} \cup ob[top].above,
                     sunk |-> ob[top].sunk]]

LEMMA MadeSound ==
  ASSUME NEW d, NEW ob, NEW n \in Ids, NEW e \in 1 .. Len(d), NEW top,
         DocSound(d), ObjSound(d, ob), ob[n].elem = Nothing,
         Of(d, ob, top, {d[e].frag}), ob[top].elem = d[e].enc
  PROVE  /\ ObjSound(d, Made(ob, n, e, top)) /\ Kept(d, ob, Made(ob, n, e, top), {})
         /\ There(Made(ob, n, e, top), n) /\ Made(ob, n, e, top)[n].elem = e
<1> DEFINE new == Made(ob, n, e, top)
<1>0. /\ ob \in [Ids -> Objects(d)] /\ There(ob, top) /\ top \in Ids /\ There(ob, 1)
      /\ Len(d) \in Nat /\ ~There(ob, n) /\ 1 \in Ids /\ n # 1 /\ n # top
      /\ ob[top].sunk = FALSE
  <2>1. ob \in [Ids -> Objects(d)] /\ There(ob, top) /\ top \in Ids
    BY DEF ObjSound, Of, There
  <2>2. There(ob, 1) /\ 1 \in Ids
    BY <2>1 DEF ObjSound, There
  <2>3. ~There(ob, n)
    BY DEF There
  <2>4. n # 1 /\ n # top
    BY <2>1, <2>2, <2>3
  <2>5. ob[top].sunk = FALSE
    BY <2>1 DEF There, Objects
  <2> QED BY <2>1, <2>2, <2>3, <2>4, <2>5 DEF DocSound
<1>1. /\ new[n] = [elem |-> e, par |-> top, above |-> {n} \cup ob[top].above, sunk |-> FALSE]
      /\ \A o \in Ids : o # n => new[o] = ob[o]
  BY <1>0 DEF Made, There
<1>1a. new \in [Ids -> Objects(d)]
  <2>1. ob[top] \in Objects(d)
    BY <1>0
  <2>2. new[n] \in Objects(d)
    BY <1>0, <1>1, <2>1 DEF Objects
  <2> QED BY <1>0, <1>1, <2>2 DEF Made
<1> HIDE DEF new
<1>2. There(new, n) /\ new[n].elem = e
  BY <1>1 DEF There, Nothing
<1>3. \A o : There(ob, o) => o # n /\ o \in Ids /\ There(new, o) /\ new[o] = ob[o]
  BY <1>0, <1>1 DEF There
<1>4. \A o : There(new, o) => o = n \/ There(ob, o)
  BY <1>1 DEF There
<1>5. Kept(d, ob, new, {})
  BY <1>3 DEF Kept
<1>6. \A a, F : Of(d, ob, a, F) => Of(d, new, a, F)
  BY <1>3 DEF Of
<1>7. ~new[1].sunk
  BY <1>0, <1>1 DEF ObjSound
<1>8. ASSUME NEW o \in Ids, There(new, o)
      PROVE  /\ There(new, 1)
             /\ IF o = 1 THEN new[o].elem = 1 /\ new[o].par = Outer
                ELSE There(new, new[o].par) /\ new[new[o].par].elem = d[new[o].elem].enc
             /\ {o, new[o].par} \ {Outer} \subseteq new[o].above
             /\ \A a \in new[o].above : /\ Of(d, new, a, {d[new[o].elem].frag})
                                         /\ new[a].above \subseteq new[o].above
  <2>1. CASE There(ob, o)
    <3>1. /\ IF o = 1 THEN ob[o].elem = 1 /\ ob[o].par = Outer
             ELSE There(ob, ob[o].par) /\ ob[ob[o].par].elem = d[ob[o].elem].enc
          /\ {o, ob[o].par} \ {Outer} \subseteq ob[o].above
      BY <2>1 DEF ObjSound
    <3>2. \A a \in ob[o].above : Of(d, ob, a, {d[ob[o].elem].frag})
                                   /\ ob[a].above \subseteq ob[o].above
      BY <2>1 DEF ObjSound
    <3>3. new[o] = ob[o] /\ There(new, 1)
      BY <1>0, <1>3, <2>1
    <3>4. \A a \in ob[o].above : Of(d, new, a, {d[ob[o].elem].frag})
                                   /\ new[a].above \subseteq ob[o].above
      BY <1>3, <1>6, <3>2 DEF Of
    <3>5. IF o = 1 THEN ob[o].elem = 1 /\ ob[o].par = Outer
          ELSE There(new, ob[o].par) /\ new[ob[o].par].elem = d[ob[o].elem].enc
      BY <1>3, <3>1
    <3> QED BY <3>1, <3>3, <3>4, <3>5
  <2>2. CASE o = n
    <3>1. There(new, 1) /\ There(new, top) /\ new[top] = ob[top]
      BY <1>0, <1>3
    <3>2. \A a \in ob[top].above : Of(d, ob, a, {d[ob[top].elem].frag})
                                     /\ ob[a].above \subseteq ob[top].above
      BY <1>0 DEF ObjSound
    <3>3. d[ob[top].elem].frag \in {d[e].frag, Nothing}
      BY DEF Of
    <3>4. \A a \in ob[top].above : Of(d, ob, a, {d[e].frag})
      BY <3>2, <3>3 DEF Of
    <3>5. \A a \in ob[top].above : Of(d, new, a, {d[e].frag})
      BY <1>6, <3>4
    <3>5a. \A a \in ob[top].above : new[a].above \subseteq ob[top].above
      BY <1>3, <3>2 DEF Of
    <3>6. Of(d, new, n, {d[e].frag})
      BY <1>2 DEF Of
    <3>7. top \in ob[top].above
      <4>1. {top, ob[top].par} \ {Outer} \subseteq ob[top].above
        BY <1>0 DEF ObjSound
      <4>2. top # Outer
        BY <1>0 DEF Outer, Ids
      <4> QED BY <4>1, <4>2
    <3>8. o # 1 /\ There(new, new[o].par) /\ new[new[o].par].elem = d[new[o].elem].enc
      BY <1>0, <1>1, <2>2, <3>1
    <3>9. {o, new[o].par} \ {Outer} \subseteq new[o].above
      BY <1>1, <2>2, <3>7
    <3>10. \A a \in new[o].above : Of(d, new, a, {d[new[o].elem].frag})
      <4>1. new[o].elem = e /\ new[o].above = {n} \cup ob[top].above
        BY <1>1, <2>2
      <4> QED BY <4>1, <3>5, <3>6
    <3>11. \A a \in new[o].above : new[a].above \subseteq new[o].above
      BY <1>1, <2>2, <3>5a
    <3> QED BY <3>1, <3>8, <3>9, <3>10, <3>11
  <2> QED BY <1>4, <1>8, <2>1, <2>2
<1>9. ObjSound(d, new)
  BY <1>1a, <1>7, <1>8 DEF ObjSound
<1> QED BY <1>2, <1>5, <1>9 DEF new

\* The objects of the tree after a step are objects that were there, and each goes with
\* what is below it.
LEMMA FewerSound ==
  ASSUME NEW d, NEW ob, NEW new \in [Ids -> Objects(d)], ObjSound(d, ob), ~new[1].sunk,
         \A o \in Ids : There(new, o) => /\ There(ob, o) /\ new[o] = ob[o]
                                          /\ \A a \in ob[o].above : new[a] = ob[a],
         \A o \in Ids : There(new, o) => There(new, 1)
  PROVE  ObjSound(d, new)
<1>1. ASSUME NEW o \in Ids, There(new, o)
      PROVE  /\ There(new, 1)
             /\ IF o = 1 THEN new[o].elem = 1 /\ new[o].par = Outer
                ELSE There(new, new[o].par) /\ new[new[o].par].elem = d[new[o].elem].enc
             /\ {o, new[o].par} \ {Outer} \subseteq new[o].above
             /\ \A a \in new[o].above : /\ Of(d, new, a, {d[new[o].elem].frag})
                                         /\ new[a].above \subseteq new[o].above
  <2>1. There(ob, o) /\ new[o] = ob[o] /\ There(new, 1) /\ \A a \in ob[o].above : new[a] = ob[a]
    BY <1>1
  <2>2. /\ IF o = 1 THEN ob[o].elem = 1 /\ ob[o].par = Outer
           ELSE There(ob, ob[o].par) /\ ob[ob[o].par].elem = d[ob[o].elem].enc
        /\ {o, ob[o].par} \ {Outer} \subseteq ob[o].above
    BY <2>1 DEF ObjSound
  <2>3. \A a \in ob[o].above : Of(d, ob, a, {d[ob[o].elem].frag})
                                 /\ ob[a].above \subseteq ob[o].above
    BY <2>1 DEF ObjSound
  <2>4. \A a \in ob[o].above : Of(d, new, a, {d[ob[o].elem].frag})
                                 /\ new[a].above \subseteq ob[o].above
    BY <2>1, <2>3 DEF Of, There
  <2>5. o # 1 => There(new, ob[o].par) /\ new[ob[o].par].elem = d[ob[o].elem].enc
    <3>1. o # 1 => ob[o].par \in ob[o].above
      BY <2>2 DEF There, Ids, Outer
    <3> QED BY <2>1, <2>2, <3>1 DEF There
  <2> QED BY <2>1, <2>2, <2>4, <2>5
<1> QED BY <1>1 DEF ObjSound

LEMMA TeardownSound ==
  ASSUME DocSound(doc), ObjSound(doc, obj), NEW R, NEW f \in 1 .. Len(doc),
         \A o \in R : There(obj, o) /\ doc[obj[o].elem].frag = f
  PROVE  ObjSound(doc, Teardown(R)) /\ Kept(doc, obj, Teardown(R), {f})
<1> DEFINE new == Teardown(R)
           Hit(o) == obj[o].above \cap R # {}
<1>1. obj \in [Ids -> Objects(doc)] /\ 1 \in Ids /\ f # Nothing
  <2>1. 1 \in Ids /\ Len(doc) \in Nat
    BY FragmentAssumption DEF Ids, DocSound
  <2>2. f # Nothing
    BY <2>1 DEF Nothing
  <2>3. obj \in [Ids -> Objects(doc)]
    BY DEF ObjSound
  <2> QED BY <2>1, <2>2, <2>3
<1>2. \A o \in Ids : new[o] = IF Hit(o) THEN [obj[o] EXCEPT !.sunk = TRUE] ELSE obj[o]
  BY DEF Teardown
<1>3. \A o \in Ids : [obj[o] EXCEPT !.sunk = TRUE] \in Objects(doc)
                      /\ [obj[o] EXCEPT !.sunk = TRUE].sunk = TRUE
  <2>1. \A x \in Objects(doc) : [x EXCEPT !.sunk = TRUE] \in Objects(doc)
                                  /\ [x EXCEPT !.sunk = TRUE].sunk = TRUE
    BY DEF Objects
  <2> QED BY <1>1, <2>1
<1>4. new \in [Ids -> Objects(doc)]
  BY <1>1, <1>3 DEF Teardown
<1>5. ASSUME NEW o, There(obj, o), Hit(o)
      PROVE  doc[obj[o].elem].frag = f
  <2>1. PICK a \in obj[o].above : a \in R
    BY <1>5
  <2>2. Of(doc, obj, a, {doc[obj[o].elem].frag})
    BY <1>5 DEF ObjSound, There
  <2>3. doc[obj[a].elem].frag = f
    BY <2>1
  <2> QED BY <1>1, <2>2, <2>3 DEF Of
<1>6. There(obj, 1) => ~Hit(1)
  <2>1. There(obj, 1) => doc[obj[1].elem].frag = Nothing
    BY <1>1 DEF ObjSound, DocSound
  <2> QED BY <1>1, <1>5, <2>1
<1> HIDE DEF new, Hit
<1>7. ASSUME NEW o, There(new, o)
      PROVE  There(obj, o) /\ new[o] = obj[o] /\ ~Hit(o)
  BY <1>2, <1>3, <1>7 DEF There
<1>8. \A o \in Ids : There(obj, o) /\ ~Hit(o) => There(new, o) /\ new[o] = obj[o]
  BY <1>2 DEF There
<1>9. ~new[1].sunk
  <2>1. CASE There(obj, 1)
    BY <1>1, <1>6, <1>8, <2>1 DEF There
  <2>2. CASE ~There(obj, 1)
    <3>1. R = {}
      BY <2>2 DEF ObjSound, There
    <3>2. ~Hit(1)
      BY <3>1 DEF Hit
    <3> QED BY <1>1, <1>2, <3>2 DEF ObjSound
  <2> QED BY <2>1, <2>2
<1>10. Kept(doc, obj, new, {f})
  BY <1>5, <1>8 DEF Kept
<1>11. ASSUME NEW o \in Ids, There(new, o)
       PROVE  There(new, 1)
  <2>1. There(obj, 1)
    BY <1>7, <1>11 DEF ObjSound
  <2> QED BY <1>1, <1>6, <1>8, <2>1
<1>12. ASSUME NEW o \in Ids, There(new, o)
       PROVE  /\ There(obj, o) /\ new[o] = obj[o]
              /\ \A a \in obj[o].above : new[a] = obj[a]
  <2>1. There(obj, o) /\ new[o] = obj[o] /\ ~Hit(o)
    BY <1>7, <1>12
  <2>2. ASSUME NEW a \in obj[o].above PROVE new[a] = obj[a]
    <3>1. There(obj, a) /\ a \in Ids /\ obj[a].above \subseteq obj[o].above
      BY <2>1, <2>2 DEF ObjSound, Of, There
    <3>2. ~Hit(a)
      BY <2>1, <3>1 DEF Hit
    <3> QED BY <1>8, <3>1, <3>2
  <2> QED BY <2>1, <2>2
<1>13. ObjSound(doc, new)
  BY <1>4, <1>9, <1>11, <1>12, FewerSound
<1> QED BY <1>10, <1>13 DEF new

LEMMA DeletedSound ==
  ASSUME ObjSound(doc, obj), Len(doc) \in Nat, Deleted
  PROVE  ObjSound(doc, obj') /\ \A o : ~There(obj', o)
<1>1. obj \in [Ids -> Objects(doc)]
  BY DEF ObjSound
<1>2. obj' = [o \in Ids |-> IF obj[o].sunk THEN obj[o] ELSE NoObject]
  BY DEF Deleted
<1>3. NoObject \in Objects(doc) /\ NoObject.elem = Nothing /\ ~NoObject.sunk
  BY DEF NoObject, Objects, Nothing, Outer
<1>4. obj' \in [Ids -> Objects(doc)]
  BY <1>1, <1>2, <1>3
<1>5. \A o : ~There(obj', o)
  BY <1>2, <1>3 DEF There
<1>6. ~obj'[1].sunk
  <2>1. 1 \in Ids
    BY FragmentAssumption DEF Ids
  <2> QED BY <1>2, <1>3, <2>1 DEF ObjSound
<1> QED BY <1>4, <1>5, <1>6, FewerSound

LEMMA SinkDeleteSound ==
  ASSUME ObjSound(doc, obj), Len(doc) \in Nat, SinkDelete
  PROVE  ObjSound(doc, obj') /\ Kept(doc, obj, obj', {})
<1>1. obj \in [Ids -> Objects(doc)]
  BY DEF ObjSound
<1>2. obj' = [o \in Ids |-> IF obj[o].sunk THEN NoObject ELSE obj[o]]
  BY DEF SinkDelete
<1>3. NoObject \in Objects(doc) /\ NoObject.elem = Nothing /\ ~NoObject.sunk
  BY DEF NoObject, Objects, Nothing, Outer
<1>4. obj' \in [Ids -> Objects(doc)]
  BY <1>1, <1>2, <1>3
<1>5. \A o \in Ids : There(obj', o) <=> There(obj, o)
  BY <1>2, <1>3 DEF There
<1>6. \A o \in Ids : There(obj, o) => obj'[o] = obj[o]
  BY <1>2 DEF There
<1>7. ~obj'[1].sunk
  <2>1. 1 \in Ids
    BY FragmentAssumption DEF Ids
  <2> QED BY <1>2, <1>3, <2>1
<1>8. \A o \in Ids : There(obj, o) => There(obj, 1) /\ \A a \in obj[o].above : There(obj, a)
  BY DEF ObjSound, Of
<1>9. 1 \in Ids /\ \A a : There(obj, a) => a \in Ids
  BY FragmentAssumption DEF Ids, There
<1>10. \A o \in Ids : There(obj', o) => There(obj', 1)
  BY <1>5, <1>8, <1>9
<1>11. \A o \in Ids : There(obj', o) => \A a \in obj[o].above : obj'[a] = obj[a]
  BY <1>5, <1>6, <1>8, <1>9
<1>12. ObjSound(doc, obj')
  BY <1>4, <1>5, <1>6, <1>7, <1>10, <1>11, FewerSound
<1>13. Kept(doc, obj, obj', {})
  BY <1>5, <1>6 DEF Kept
<1> QED BY <1>12, <1>13
-----------------------------------------------------------------------------
(* Records and frames keep what they have of a tree that is kept.             *)

LEMMA RootKept ==
  ASSUME NEW d, NEW d2, NEW ob, NEW ob2, NEW F, NEW o,
         Later(d, ob, d2, ob2, F), There(ob, o), d[ob[o].elem].frag \notin F
  PROVE  /\ There(ob2, o) /\ ob2[o].elem = ob[o].elem
         /\ d2[ob2[o].elem].frag = d[ob[o].elem].frag
<1>1. There(ob2, o) /\ ob2[o].elem = ob[o].elem
  BY DEF Later, Kept, There
<1>2. d2[ob[o].elem] = d[ob[o].elem]
  <2>1. ob[o].elem \in 1 .. Len(d)
    BY DEF Later, There, Objects, Nothing
  <2> QED BY <2>1 DEF Later, Grown
<1> QED BY <1>1, <1>2

\* A record r becomes r2.
Updated(d2, ob2, r, r2) ==
  /\ r.events \in Seq(Events)
  /\ r2.frag = r.frag /\ r2.parent = r.parent /\ r2.events = r.events /\ r2.split = r.split
  /\ r2.live => r.live /\ r2.hook
  /\ ~r2.live => ~r2.hook /\ ~r2.obs /\ r2.roots = {}
  /\ \A o \in r2.roots : There(ob2, o) /\ d2[ob2[o].elem].frag = r.frag

LEMMA RecordKept ==
  ASSUME NEW d, NEW d2, NEW ob, NEW ob2, NEW F, NEW r, NEW r2,
         r2.live => Later(d, ob, d2, ob2, F), DocSound(d), DocSound(d2), Grown(d, d2),
         RecordSound(d, ob, r), Updated(d2, ob2, r, r2)
  PROVE  RecordSound(d2, ob2, r2)
<1>1. r.frag \in 1 .. Len(d) /\ r.frag \in 1 .. Len(d2) /\ d2[r.frag] = d[r.frag]
  BY DEF RecordSound, Body, Grown, DocSound
<1>2. PICK st : /\ Trace(d, r.events, r.frag, st) /\ st[Len(r.events)] = <<>>
                /\ r.split = -1 \/ (r.split \in 0 .. Len(r.events) /\ st[r.split] = <<>>)
  <2>1. Taken(d, r.events, r.frag, r.split, <<>>)
    BY DEF RecordSound, Body
  <2> QED BY <2>1 DEF Taken
<1>3. Trace(d2, r.events, r.frag, st)
  BY <1>1, <1>2, TraceKept DEF Updated
<1>4. ASSUME r2.live
      PROVE  /\ r2.hook /\ Of(d2, ob2, r2.parent, {})
             /\ ob2[r2.parent].elem = Cur(d2, r2.frag)
  <2>1. Of(d, ob, r.parent, {}) /\ ob[r.parent].elem = Cur(d, r.frag) /\ {} \cap F = {}
    BY <1>4 DEF RecordSound, Updated
  <2>2. Of(d2, ob2, r.parent, {}) /\ ob2[r.parent].elem = ob[r.parent].elem
    BY <1>4, <2>1, OfKept
  <2>3. Cur(d2, r.frag) = Cur(d, r.frag)
    BY <1>1 DEF Cur
  <2> QED BY <1>4, <2>1, <2>2, <2>3 DEF Updated
<1>5. Body(d2, r2.events, r2.frag, r2.split)
  BY <1>1, <1>2, <1>3 DEF Body, Taken, Updated
<1> QED BY <1>4, <1>5 DEF RecordSound, Updated

LEMMA FrameKept ==
  ASSUME NEW d, NEW ob, NEW ob2, NEW F, NEW op, NEW c, NEW rc, NEW rc2, NEW fr \in Frames,
         Later(d, ob, d, ob2, F), OpenSound(d, op), FrameSound(d, ob, op, c, rc, fr),
         c.frag \notin F \ {Nothing},
         fr.kind = "build" =>
           LET i == fr.play.rec
           IN  /\ i \in 1 .. Len(rc2) /\ rc2[i].frag = rc[i].frag /\ rc[i].frag \notin F
               /\ rc2[i].live = rc[i].live /\ rc2[i].busy = rc[i].busy
  PROVE  FrameSound(d, ob2, op, c, rc2, fr)
<1>1. op \in Seq(1 .. Len(d)) /\ Len(op) \in Nat /\ {} \cap F = {} /\ Nothing \notin F
  BY DEF OpenSound, Later
<1>2. ASSUME NEW n, NEW u \in 0 .. Len(op), Stands(d, ob, fr.parents, 1, n, op, u, {})
      PROVE  Stands(d, ob2, fr.parents, 1, n, op, u, {})
  BY <1>1, <1>2, StandsKept
<1>3. ASSUME fr.kind = "doc"
      PROVE  DocFrame(d, ob2, op, c, fr)
  <2>0. DocFrame(d, ob, op, c, fr) /\ fr.play.rec = Nothing
    BY <1>3 DEF FrameSound, DocFrame
  <2>1. CASE c.frag = Nothing
    <3>1. /\ ~fr.play.on /\ Plain(d, op)
          /\ Stands(d, ob, fr.parents, 1, Len(fr.parents), op, Len(op), {})
      BY <2>0, <2>1 DEF DocFrame
    <3>2. Stands(d, ob2, fr.parents, 1, Len(fr.parents), op, Len(op), {})
      BY <1>1, <1>2, <3>1
    <3> QED BY <2>0, <2>1, <3>1, <3>2 DEF DocFrame
  <2>2. CASE c.frag # Nothing /\ fr.play.on
    <3>1. /\ Plain(d, op) /\ c.frag \in 1 .. Len(d)
          /\ Stands(d, ob, fr.parents, 1, c.base, op, Len(op), {})
          /\ Plays(d, ob, fr, c.base, c.frag)
      BY <2>0, <2>2 DEF DocFrame
    <3>2. Stands(d, ob2, fr.parents, 1, c.base, op, Len(op), {})
      BY <1>1, <1>2, <3>1
    <3>3. c.frag \notin F
      BY <2>2
    <3>4. Plays(d, ob2, fr, c.base, c.frag)
      BY <3>1, <3>3, PlaysKept
    <3> QED BY <2>0, <2>2, <3>1, <3>2, <3>4 DEF DocFrame
  <2>3. CASE c.frag # Nothing /\ ~fr.play.on
    <3>1. c.base = Len(fr.parents)
      BY <2>0, <2>3 DEF DocFrame
    <3>2. PICK m, off, last \in 1 .. Len(op) :
            /\ CapSound(d, op, c, m, off, last)
            /\ Stands(d, ob, fr.parents, 1, c.base, op, m - 1, {})
      BY <2>0, <2>3 DEF DocFrame
    <3>3. m - 1 \in 0 .. Len(op)
      BY <1>1
    <3>4. Stands(d, ob2, fr.parents, 1, c.base, op, m - 1, {})
      BY <1>2, <3>2, <3>3
    <3>5. \E m1, off1, last1 \in 1 .. Len(op) :
            /\ CapSound(d, op, c, m1, off1, last1)
            /\ Stands(d, ob2, fr.parents, 1, c.base, op, m1 - 1, {})
      BY <3>2, <3>4
    <3> QED BY <2>0, <2>3, <3>1, <3>5 DEF DocFrame
  <2> QED BY <2>1, <2>2, <2>3
<1>4. ASSUME fr.kind = "build"
      PROVE  BuildFrame(d, ob2, rc2, fr)
  <2> DEFINE i == fr.play.rec
             R == fr.play.roots \cup ({fr.item} \ {Nothing})
  <2>1. /\ i \in 1 .. Len(rc2) /\ rc2[i].frag = rc[i].frag /\ rc[i].frag \notin F
        /\ rc2[i].live = rc[i].live /\ rc2[i].busy = rc[i].busy
    BY <1>4
  <2>2. /\ rc[i].live /\ rc[i].busy /\ Plays(d, ob, fr, 1, rc[i].frag)
        /\ \A o \in R : There(ob, o) /\ d[ob[o].elem].frag = rc[i].frag
    BY <1>4 DEF FrameSound, BuildFrame
  <2>3. Plays(d, ob2, fr, 1, rc[i].frag)
    BY <2>1, <2>2, PlaysKept
  <2>4. \A o \in R : There(ob2, o) /\ d[ob2[o].elem].frag = rc[i].frag
    <3> SUFFICES ASSUME NEW o \in R
                 PROVE  There(ob2, o) /\ d[ob2[o].elem].frag = rc[i].frag
      OBVIOUS
    <3> HIDE DEF R, i
    <3>1. There(ob, o) /\ d[ob[o].elem].frag = rc[i].frag /\ rc[i].frag \notin F
      BY <2>1, <2>2
    <3>2. There(ob2, o) /\ d[ob2[o].elem].frag = d[ob[o].elem].frag
      BY <3>1, RootKept
    <3> QED BY <3>1, <3>2
  <2> QED BY <2>1, <2>2, <2>3, <2>4 DEF BuildFrame
<1>5. fr.kind = "notify" => ~fr.play.on
  BY DEF FrameSound
<1> QED BY <1>3, <1>4, <1>5 DEF FrameSound
-----------------------------------------------------------------------------
(* A replay, event by event.                                                  *)

\* What is replayed next, and the parent it gets.
LEMMA PlayTop ==
  ASSUME NEW d, NEW ob, NEW P \in Frames, NEW b, NEW frag,
         Plays(d, ob, P, b, frag)
  PROVE  LET i == P.play.pos + 1
             e == P.play.events[i].elem
             top == P.parents[Len(P.parents)]
         IN  /\ Of(d, ob, top, {frag}) /\ b \in 1 .. Len(P.parents)
             /\ P.play.pos < P.play.hi =>
                  /\ e \in 1 .. Len(d) /\ d[e].kind \notin Fragment
                  /\ ~P.play.events[i].end => d[e].frag = frag /\ ob[top].elem = d[e].enc
                  /\ P.play.events[i].end => P.play.nest \in Nat \ {0}
<1> DEFINE p == P.play
           par == P.parents
           pos == p.pos
<1>1. PICK st : /\ Trace(d, p.events, frag, st) /\ st[p.lo] = <<>> /\ st[p.hi] = <<>>
                /\ p.nest = Len(st[pos])
                /\ Stands(d, ob, par, b, Len(par), st[pos], p.nest, {frag})
  BY DEF Plays
<1>2. /\ pos \in Nat /\ p.hi \in 0 .. Len(p.events) /\ Len(p.events) \in Nat
      /\ pos <= p.hi /\ b \in Nat \ {0} /\ b \in 1 .. Len(par) /\ Len(par) \in Nat
  BY DEF Plays, Frames, Replays
<1>3. st[pos] \in Seq(1 .. Len(d))
  <2> HIDE DEF p, par, pos
  <2>1. pos \in 0 .. Len(p.events)
    BY <1>2
  <2> QED BY <1>1, <2>1, TraceAt
<1>4. Of(d, ob, par[b], {}) /\ ob[par[b]].elem = Cur(d, frag)
  BY DEF Plays
<1>5. Of(d, ob, par[Len(par)], {frag}) /\ ob[par[Len(par)]].elem = Cur(d, Inner(frag, st[pos]))
  <2>1. CASE st[pos] = <<>>
    <3>1. Len(par) = b + Height(d, st[pos], Level, 0)
      BY <1>1, <2>1 DEF Stands
    <3>2. Len(par) = b
      BY <1>2, <3>1, HeightFacts
    <3> QED BY <1>4, <2>1, <3>2 DEF Of, Inner
  <2>2. CASE st[pos] # <<>>
    <3>1. p.nest \in Nat \ {0}
      BY <1>1, <1>3, <2>2
    <3>2. ob[par[Len(par)]].elem = Cur(d, st[pos][p.nest]) /\ Of(d, ob, par[Len(par)], {frag})
      <4> HIDE DEF p, par, pos
      <4> QED BY <1>1, <1>2, <3>1, StandsTop
    <3> QED BY <1>1, <2>2, <3>2 DEF Inner
  <2> QED BY <2>1, <2>2
<1>6. ASSUME pos < p.hi
      PROVE  LET e == p.events[pos + 1].elem
             IN  /\ e \in 1 .. Len(d) /\ d[e].kind \notin Fragment
                 /\ ~p.events[pos + 1].end =>
                      d[e].frag = frag /\ ob[par[Len(par)]].elem = d[e].enc
                 /\ p.events[pos + 1].end => p.nest \in Nat \ {0}
  <2>1. pos + 1 \in 1 .. Len(p.events) /\ (pos + 1) - 1 = pos
    BY <1>2, <1>6, SMTT(20)
  <2> HIDE DEF p, par, pos
  <2>2. p.events[pos + 1].elem \in 1 .. Len(d) /\ d[p.events[pos + 1].elem].kind \notin Fragment
    BY <1>1, <2>1 DEF Trace
  <2>3. ~p.events[pos + 1].end =>
          /\ d[p.events[pos + 1].elem].enc = Cur(d, Inner(frag, st[(pos + 1) - 1]))
          /\ d[p.events[pos + 1].elem].frag = frag
    BY <1>1, <2>1 DEF Trace
  <2>4. ASSUME p.events[pos + 1].end PROVE p.nest \in Nat \ {0}
    <3>1. st[(pos + 1) - 1] = Append(st[pos + 1], p.events[pos + 1].elem)
      BY <1>1, <2>1, <2>4 DEF Trace
    <3>2. st[pos + 1] \in Seq(1 .. Len(d)) /\ p.events[pos + 1].elem \in 1 .. Len(d)
      BY <1>1, <2>1 DEF Trace
    <3> QED BY <1>1, <2>1, <3>1, <3>2
  <2> QED BY <1>5, <2>1, <2>2, <2>3, <2>4
<1> QED BY <1>2, <1>5, <1>6

\* The play of Q is that of P after one more event.
Next1(P, Q, nest) ==
  /\ Q.play.on = P.play.on /\ Q.play.events = P.play.events /\ Q.play.left = P.play.left
  /\ Q.play.lo = P.play.lo /\ Q.play.hi = P.play.hi
  /\ Q.play.pos = P.play.pos + 1 /\ Q.play.nest = nest
  /\ P.play.pos < P.play.hi /\ P.play.left # 0

\* The parents of Q are those of P after the start, or the end, of e.
Entered(d, ob, P, Q, e, frag) ==
  LET n == Len(Q.parents) IN
  /\ \A i \in 1 .. Len(P.parents) : Q.parents[i] = P.parents[i]
  /\ n = IF d[e].kind \in Level THEN Len(P.parents) + 1 ELSE Len(P.parents)
  /\ Of(d, ob, Q.parents[n], {frag}) /\ ob[Q.parents[n]].elem = Cur(d, e)
Left(d, P, Q, e) ==
  /\ \A i \in 1 .. Len(Q.parents) : Q.parents[i] = P.parents[i]
  /\ Len(Q.parents) = IF d[e].kind \in Level THEN Len(P.parents) - 1 ELSE Len(P.parents)

LEMMA PlayTypes ==
  ASSUME NEW d, NEW ob, NEW P \in Frames, NEW b, NEW frag, Plays(d, ob, P, b, frag)
  PROVE  LET p == P.play IN
         /\ p.pos \in Nat /\ p.hi \in 0 .. Len(p.events) /\ Len(p.events) \in Nat
         /\ p.pos <= p.hi /\ b \in Nat \ {0} /\ b \in 1 .. Len(P.parents) /\ Len(P.parents) \in Nat
         /\ p.nest \in Nat /\ p.lo \in 0 .. p.hi /\ p.lo <= p.pos /\ p.on /\ p.left \in Nat
         /\ p.left = 0 => p.pos = p.lo
         /\ \E st : /\ Trace(d, p.events, frag, st) /\ st[p.lo] = <<>> /\ st[p.hi] = <<>>
                    /\ p.nest = Len(st[p.pos])
                    /\ Stands(d, ob, P.parents, b, Len(P.parents), st[p.pos], p.nest, {frag})
  BY DEF Plays, Frames, Replays

LEMMA PlayStarts ==
  ASSUME NEW d, NEW ob, NEW P \in Frames, NEW Q \in Frames, NEW b, NEW frag,
         Plays(d, ob, P, b, frag), Next1(P, Q, P.play.nest + 1),
         ~P.play.events[P.play.pos + 1].end,
         Entered(d, ob, P, Q, P.play.events[P.play.pos + 1].elem, frag)
  PROVE  Plays(d, ob, Q, b, frag)
<1> DEFINE p == P.play
           q == Q.play
           par == P.parents
           par2 == Q.parents
           pos == p.pos
           e == p.events[pos + 1].elem
<1>1. PICK st : /\ Trace(d, p.events, frag, st) /\ st[p.lo] = <<>> /\ st[p.hi] = <<>>
                /\ p.nest = Len(st[pos])
                /\ Stands(d, ob, par, b, Len(par), st[pos], p.nest, {frag})
  BY PlayTypes
<1>2. /\ pos \in Nat /\ p.hi \in 0 .. Len(p.events) /\ Len(p.events) \in Nat
      /\ pos < p.hi /\ b \in Nat \ {0} /\ b \in 1 .. Len(par) /\ Len(par) \in Nat
      /\ p.nest \in Nat /\ p.lo \in 0 .. p.hi /\ p.lo <= pos /\ p.left # 0 /\ Len(par2) \in Nat
  <2>1. Len(par2) \in Nat
    BY DEF Frames
  <2>2. pos < p.hi /\ p.left # 0
    BY DEF Next1
  <2>3. /\ pos \in Nat /\ p.hi \in 0 .. Len(p.events) /\ Len(p.events) \in Nat
        /\ b \in Nat \ {0} /\ b \in 1 .. Len(par) /\ Len(par) \in Nat
    BY PlayTypes
  <2>4. p.nest \in Nat /\ p.lo \in 0 .. p.hi /\ p.lo <= pos
    BY PlayTypes
  <2> HIDE DEF p, q, par, par2, pos
  <2> QED BY <2>1, <2>2, <2>3, <2>4
<1>3. pos + 1 \in 1 .. Len(p.events) /\ (pos + 1) - 1 = pos /\ pos \in 0 .. Len(p.events)
  BY <1>2, SMTT(20)
<1>4. st[pos + 1] = Append(st[pos], e) /\ st[pos] \in Seq(1 .. Len(d)) /\ e \in 1 .. Len(d)
  <2> HIDE DEF p, pos
  <2>1. st[pos] \in Seq(1 .. Len(d)) /\ e \in 1 .. Len(d)
    BY <1>1, <1>3 DEF Trace
  <2>2. ~p.events[pos + 1].end
    BY DEF p, pos
  <2>3. st[pos + 1] = Append(st[(pos + 1) - 1], e)
    BY <1>1, <1>3, <2>2 DEF Trace
  <2> QED BY <1>3, <2>1, <2>3
<1>5. /\ Len(st[pos + 1]) = p.nest + 1 /\ st[pos + 1][p.nest + 1] = e
      /\ \A x \in 1 .. p.nest : st[pos + 1][x] = st[pos][x]
  <2> HIDE DEF p, pos, e
  <2>1. p.nest = Len(st[pos])
    BY <1>1
  <2>2. st[pos] \in Seq(1 .. Len(d)) /\ e \in 1 .. Len(d) /\ st[pos + 1] = Append(st[pos], e)
    BY <1>4
  <2>3. /\ Len(st[pos + 1]) = Len(st[pos]) + 1 /\ st[pos + 1][Len(st[pos]) + 1] = e
        /\ \A x \in 1 .. Len(st[pos]) : st[pos + 1][x] = st[pos][x]
    BY <2>2, AppendFacts
  <2> QED BY <2>1, <2>3
<1>6. /\ Len(par2) = (IF d[e].kind \in Level THEN Len(par) + 1 ELSE Len(par))
      /\ Of(d, ob, par2[Len(par2)], {frag}) /\ ob[par2[Len(par2)]].elem = Cur(d, e)
      /\ \A i \in 1 .. Len(par) : par2[i] = par[i]
  BY DEF Entered
<1>7. Len(par) <= Len(par2)
  <2> HIDE DEF par, par2, e
  <2> QED BY <1>2, <1>6
<1>8. Stands(d, ob, par2, b, Len(par2), st[pos + 1], p.nest + 1, {frag})
  <2> HIDE DEF p, par, par2, pos, e
  <2>1. Len(par2) = (IF d[st[pos + 1][p.nest + 1]].kind \in Level THEN Len(par) + 1 ELSE Len(par))
    BY <1>5, <1>6
  <2>2. ob[par2[Len(par2)]].elem = Cur(d, st[pos + 1][p.nest + 1])
    BY <1>5, <1>6
  <2>3. Len(par2) <= Len(par2) /\ b \in Nat \ {0} /\ p.nest \in Nat
    BY <1>2
  <2> DEFINE n == Len(par)
             n2 == Len(par2)
             u2 == p.nest + 1
             L == st[pos]
             L2 == st[pos + 1]
  <2>4. /\ Stands(d, ob, par, b, n, L, p.nest, {frag})
        /\ \A i \in 1 .. n : par2[i] = par[i]
        /\ \A x \in 1 .. p.nest : L2[x] = L[x]
        /\ n <= Len(par2) /\ n2 <= Len(par2)
        /\ n2 = (IF d[L2[u2]].kind \in Level THEN n + 1 ELSE n)
        /\ Of(d, ob, par2[n2], {frag}) /\ ob[par2[n2]].elem = Cur(d, L2[u2])
    BY <1>1, <1>5, <1>6, <1>7, <2>1, <2>2, <2>3
  <2>5. Stands(d, ob, par2, b, n2, L2, u2, {frag})
    <3>1. u2 = p.nest + 1
      OBVIOUS
    <3> HIDE DEF n, n2, L, L2, u2
    <3>2. Widened(d, ob, par, par2, n, n2, L, L2, p.nest, u2, {frag})
      BY <2>3, <2>4, <3>1 DEF Widened
    <3> QED BY <2>3, <2>4, <3>2, StandsMore
  <2> QED BY <2>5
<1>9. par2[b] = par[b] /\ b \in 1 .. Len(par2)
  <2> HIDE DEF par, par2, e
  <2> QED BY <1>2, <1>6, <1>7
<1>10. Of(d, ob, par2[b], {}) /\ ob[par2[b]].elem = Cur(d, frag)
  BY <1>9 DEF Plays
<1>11. /\ q.on /\ q.left \in Nat /\ q.hi \in 0 .. Len(q.events) /\ q.lo \in 0 .. q.hi
       /\ q.pos \in q.lo .. q.hi /\ (q.left = 0 => q.pos = q.lo)
       /\ q.events = p.events /\ q.pos = pos + 1 /\ q.nest = p.nest + 1
       /\ q.lo = p.lo /\ q.hi = p.hi
  <2>1. /\ q.events = p.events /\ q.pos = pos + 1 /\ q.nest = p.nest + 1
        /\ q.lo = p.lo /\ q.hi = p.hi /\ q.left = p.left /\ q.on = p.on
    BY DEF Next1
  <2>2. p.on /\ p.left \in Nat
    BY PlayTypes
  <2> HIDE DEF p, q, pos
  <2> QED BY <1>2, <2>1, <2>2
<1>12. /\ Trace(d, q.events, frag, st) /\ st[q.lo] = <<>> /\ st[q.hi] = <<>>
       /\ q.nest = Len(st[q.pos])
       /\ Stands(d, ob, par2, b, Len(par2), st[q.pos], q.nest, {frag})
  <2> HIDE DEF p, q, par, par2, pos, e
  <2> QED BY <1>1, <1>5, <1>8, <1>11
<1> QED BY <1>9, <1>10, <1>11, <1>12 DEF Plays

LEMMA PlayEnds ==
  ASSUME NEW d, NEW ob, NEW P \in Frames, NEW Q \in Frames, NEW b, NEW frag,
         Plays(d, ob, P, b, frag), Next1(P, Q, P.play.nest - 1),
         P.play.events[P.play.pos + 1].end,
         Left(d, P, Q, P.play.events[P.play.pos + 1].elem)
  PROVE  Plays(d, ob, Q, b, frag)
<1> DEFINE p == P.play
           q == Q.play
           par == P.parents
           par2 == Q.parents
           pos == p.pos
           e == p.events[pos + 1].elem
<1>1. PICK st : /\ Trace(d, p.events, frag, st) /\ st[p.lo] = <<>> /\ st[p.hi] = <<>>
                /\ p.nest = Len(st[pos])
                /\ Stands(d, ob, par, b, Len(par), st[pos], p.nest, {frag})
  BY PlayTypes
<1>2. /\ pos \in Nat /\ p.hi \in 0 .. Len(p.events) /\ Len(p.events) \in Nat
      /\ pos < p.hi /\ b \in Nat \ {0} /\ b \in 1 .. Len(par) /\ Len(par) \in Nat
      /\ p.nest \in Nat /\ p.lo \in 0 .. p.hi /\ p.lo <= pos /\ p.left # 0 /\ Len(par2) \in Nat
  <2>1. Len(par2) \in Nat
    BY DEF Frames
  <2>2. pos < p.hi /\ p.left # 0
    BY DEF Next1
  <2>3. /\ pos \in Nat /\ p.hi \in 0 .. Len(p.events) /\ Len(p.events) \in Nat
        /\ b \in Nat \ {0} /\ b \in 1 .. Len(par) /\ Len(par) \in Nat
    BY PlayTypes
  <2>4. p.nest \in Nat /\ p.lo \in 0 .. p.hi /\ p.lo <= pos
    BY PlayTypes
  <2> HIDE DEF p, q, par, par2, pos
  <2> QED BY <2>1, <2>2, <2>3, <2>4
<1>3. pos + 1 \in 1 .. Len(p.events) /\ (pos + 1) - 1 = pos /\ pos + 1 \in 0 .. Len(p.events)
  <2> HIDE DEF p, pos
  <2> QED BY <1>2
<1>4. st[pos] = Append(st[pos + 1], e) /\ st[pos + 1] \in Seq(1 .. Len(d)) /\ e \in 1 .. Len(d)
  <2> HIDE DEF p, pos
  <2>1. st[pos + 1] \in Seq(1 .. Len(d)) /\ e \in 1 .. Len(d)
    BY <1>1, <1>3 DEF Trace
  <2>2. p.events[pos + 1].end
    BY DEF p, pos
  <2>3. st[(pos + 1) - 1] = Append(st[pos + 1], e)
    BY <1>1, <1>3, <2>2 DEF Trace
  <2> QED BY <1>3, <2>1, <2>3
<1> DEFINE L == st[pos]
           L2 == st[pos + 1]
           v == Len(L2)
<1>5. v \in Nat /\ p.nest = v + 1 /\ L[v + 1] = e /\ \A x \in 1 .. v : L2[x] = L[x]
  <2>1. L = Append(L2, e) /\ L2 \in Seq(1 .. Len(d)) /\ e \in 1 .. Len(d) /\ p.nest = Len(L)
    BY <1>1, <1>4
  <2> HIDE DEF L, L2, e, p
  <2> QED BY <2>1, AppendFacts
<1>6. /\ Len(par2) = (IF d[e].kind \in Level THEN Len(par) - 1 ELSE Len(par))
      /\ \A i \in 1 .. Len(par2) : par2[i] = par[i]
  BY DEF Left
<1> DEFINE h == Height(d, L, Level, v)
<1> HIDE DEF p, q, par, par2, pos, e, L, L2, v, h
<1>7. Stands(d, ob, par, b, Len(par), L, v + 1, {frag})
  BY <1>1, <1>5 DEF L
<1>8. /\ Stands(d, ob, par, b, b + h, L, v, {frag}) /\ h \in Nat
      /\ Len(par) = b + h + (IF d[e].kind \in Level THEN 1 ELSE 0)
  <2>1. b \in Nat \ {0} /\ v \in Nat
    BY <1>2, <1>5
  <2>2. /\ Stands(d, ob, par, b, b + h, L, v, {frag}) /\ h \in Nat
        /\ Len(par) = b + h + (IF d[L[v + 1]].kind \in Level THEN 1 ELSE 0)
    BY <1>7, <2>1, StandsFewer DEF h
  <2> QED BY <1>5, <2>2
<1>9. Len(par2) = b + h
  BY <1>2, <1>6, <1>8
<1>10. Stands(d, ob, par2, b, Len(par2), L2, v, {frag})
  <2>1. /\ b \in Nat \ {0} /\ v \in Nat /\ Len(par2) <= Len(par2)
        /\ \A i \in 1 .. Len(par2) : par2[i] = par[i]
        /\ Stands(d, ob, par, b, Len(par2), L, v, {frag})
    BY <1>2, <1>5, <1>6, <1>8, <1>9
  <2> QED BY <1>5, <2>1, StandsSame
<1>11. par2[b] = par[b] /\ b \in 1 .. Len(par2)
  BY <1>2, <1>6, <1>8, <1>9
<1>12. Of(d, ob, par2[b], {}) /\ ob[par2[b]].elem = Cur(d, frag)
  BY <1>11 DEF Plays, par
<1>13. /\ q.on /\ q.left \in Nat /\ q.hi \in 0 .. Len(q.events) /\ q.lo \in 0 .. q.hi
       /\ q.pos \in q.lo .. q.hi /\ (q.left = 0 => q.pos = q.lo)
       /\ q.events = p.events /\ q.pos = pos + 1 /\ q.nest = p.nest - 1
       /\ q.lo = p.lo /\ q.hi = p.hi
  <2>1. /\ q.events = p.events /\ q.pos = pos + 1 /\ q.nest = p.nest - 1
        /\ q.lo = p.lo /\ q.hi = p.hi /\ q.left = p.left /\ q.on = p.on
    BY DEF Next1, p, q, pos
  <2>2. p.on /\ p.left \in Nat
    BY PlayTypes DEF p
  <2> QED BY <1>2, <2>1, <2>2
<1>14. /\ Trace(d, q.events, frag, st) /\ st[q.lo] = <<>> /\ st[q.hi] = <<>>
       /\ q.nest = Len(st[q.pos])
       /\ Stands(d, ob, par2, b, Len(par2), st[q.pos], q.nest, {frag})
  <2>1. q.nest = v /\ v = Len(st[q.pos]) /\ L2 = st[q.pos]
    BY <1>5, <1>13 DEF v, L2
  <2> QED BY <1>1, <1>10, <1>13, <2>1
<1> QED BY <1>11, <1>12, <1>13, <1>14 DEF Plays, q, par2

Replayed(r, events, lo, hi, left) ==
  [NoReplay EXCEPT !.on = TRUE, !.rec = r, !.events = events, !.lo = lo, !.pos = lo, !.hi = hi,
                   !.left = left]
Began(p, r, events, lo, hi, left) ==
  /\ p \in Replays
  /\ p.on = TRUE /\ p.rec = r /\ p.events = events /\ p.lo = lo /\ p.pos = lo /\ p.hi = hi
  /\ p.left = left /\ p.nest = 0 /\ p.roots = {}
LEMMA ReplayedIs ==
  ASSUME NEW r \in Nat, NEW events \in Seq(Events), NEW lo \in Nat, NEW hi \in Nat, NEW left \in Nat
  PROVE  Began(Replayed(r, events, lo, hi, left), r, events, lo, hi, left)
<1>1. NoReplay \in Replays
  BY DEF NoReplay, Replays, Nothing
<1> DEFINE p1 == [NoReplay EXCEPT !.on = TRUE, !.rec = r]
           p2 == [p1 EXCEPT !.events = events, !.lo = lo]
           p3 == [p2 EXCEPT !.pos = lo, !.hi = hi]
           p4 == [p3 EXCEPT !.left = left]
<1>2. p1 \in Replays /\ p1.on = TRUE /\ p1.rec = r /\ p1.nest = 0 /\ p1.roots = {}
  BY <1>1 DEF Replays, NoReplay
<1> HIDE DEF p1
<1>3. /\ p2 \in Replays /\ p2.on = TRUE /\ p2.rec = r /\ p2.nest = 0 /\ p2.roots = {}
      /\ p2.events = events /\ p2.lo = lo
  BY <1>2 DEF Replays
<1> HIDE DEF p2
<1>4. /\ p3 \in Replays /\ p3.on = TRUE /\ p3.rec = r /\ p3.nest = 0 /\ p3.roots = {}
      /\ p3.events = events /\ p3.lo = lo /\ p3.pos = lo /\ p3.hi = hi
  BY <1>3 DEF Replays
<1> HIDE DEF p3
<1>5. /\ p4 \in Replays /\ p4.on = TRUE /\ p4.rec = r /\ p4.nest = 0 /\ p4.roots = {}
      /\ p4.events = events /\ p4.lo = lo /\ p4.pos = lo /\ p4.hi = hi /\ p4.left = left
  BY <1>4 DEF Replays
<1>6. Replayed(r, events, lo, hi, left) = p4
  BY DEF Replayed, p1, p2, p3
<1> QED BY <1>5, <1>6 DEF Began

\* A replay begins before the first event of the branch that is taken.
LEMMA PlayTyped ==
  ASSUME NEW r \in Nat, NEW c, NEW v \in Nat, c.events \in Seq(Events),
         c.split = -1 \/ c.split \in 0 .. Len(c.events)
  PROVE  /\ Play(r, c, v) \in Replays
         /\ Play(r, c, v).on /\ Play(r, c, v).rec = r /\ Play(r, c, v).roots = {}
         /\ Play(r, c, v).events = c.events /\ Play(r, c, v).nest = 0
<1> DEFINE n == Len(c.events)
           isIf == doc[c.frag].kind = "if"
           split == IF c.split = -1 THEN n ELSE c.split
           lo == IF isIf /\ v = 0 THEN split ELSE 0
           hi == IF isIf /\ v # 0 THEN split ELSE n
           left == IF isIf THEN 1 ELSE v
<1>1. Play(r, c, v) = Replayed(r, c.events, lo, hi, left)
  BY DEF Play, Replayed
<1>2. n \in Nat
  OBVIOUS
<1>3. split \in Nat
  BY <1>2
<1>4. lo \in Nat /\ hi \in Nat /\ left \in Nat
  BY <1>2, <1>3
<1> HIDE DEF n, isIf, split, lo, hi, left
<1>5. Began(Play(r, c, v), r, c.events, lo, hi, left)
  BY <1>1, <1>4, ReplayedIs
<1> QED BY <1>5 DEF Began

LEMMA PlayBegins ==
  ASSUME NEW r \in Nat, NEW c, NEW v \in Nat, NEW ob, NEW fr, NEW b \in Nat \ {0},
         fr.play = Play(r, c, v), b = Len(fr.parents),
         Of(doc, ob, fr.parents[b], {}), ob[fr.parents[b]].elem = Cur(doc, c.frag),
         c.events \in Seq(Events), Body(doc, c.events, c.frag, c.split)
  PROVE  Plays(doc, ob, fr, b, c.frag)
<1> DEFINE n == Len(c.events)
           isIf == doc[c.frag].kind = "if"
           split == IF c.split = -1 THEN n ELSE c.split
           lo == IF isIf /\ v = 0 THEN split ELSE 0
           hi == IF isIf /\ v # 0 THEN split ELSE n
           left == IF isIf THEN 1 ELSE v
           p == fr.play
<1>1. Play(r, c, v) = Replayed(r, c.events, lo, hi, left)
  BY DEF Play, Replayed
<1>2. PICK st : /\ Trace(doc, c.events, c.frag, st) /\ st[n] = <<>>
                /\ c.split = -1 \/ (c.split \in 0 .. n /\ st[c.split] = <<>>)
  <2>1. Taken(doc, c.events, c.frag, c.split, <<>>)
    BY DEF Body
  <2> QED BY <2>1 DEF Taken
<1>3. n \in Nat
  OBVIOUS
<1>4. split \in 0 .. n /\ st[split] = <<>> /\ st[0] = <<>>
  BY <1>2, <1>3 DEF Trace
<1>5. lo \in 0 .. n /\ hi \in 0 .. n /\ lo <= hi /\ left \in Nat /\ st[lo] = <<>> /\ st[hi] = <<>>
  <2>1. CASE isIf /\ v = 0
    BY <1>2, <1>3, <1>4, <2>1
  <2>2. CASE isIf /\ v # 0
    BY <1>2, <1>3, <1>4, <2>2
  <2>3. CASE ~isIf
    BY <1>2, <1>3, <1>4, <2>3
  <2> QED BY <2>1, <2>2, <2>3
<1>6. /\ p.on = TRUE /\ p.events = c.events /\ p.lo = lo /\ p.hi = hi /\ p.pos = lo
      /\ p.left = left /\ p.nest = 0
  <2>1. lo \in Nat /\ hi \in Nat
    BY <1>3, <1>5
  <2> HIDE DEF lo, hi, left
  <2>2. Began(Play(r, c, v), r, c.events, lo, hi, left)
    BY <1>1, <1>5, <2>1, ReplayedIs
  <2> QED BY <2>2 DEF Began
<1> HIDE DEF n, isIf, split, lo, hi, left, p
<1>7. Stands(doc, ob, fr.parents, b, Len(fr.parents), st[lo], 0, {c.frag})
  BY StandsNone
<1>8. p.nest = Len(st[p.pos])
  BY <1>5, <1>6
<1>9. /\ Trace(doc, p.events, c.frag, st) /\ st[p.lo] = <<>> /\ st[p.hi] = <<>>
      /\ p.nest = Len(st[p.pos])
      /\ Stands(doc, ob, fr.parents, b, Len(fr.parents), st[p.pos], p.nest, {c.frag})
  BY <1>2, <1>5, <1>6, <1>7, <1>8
<1>10. /\ p.on /\ p.left \in Nat /\ p.hi \in 0 .. Len(p.events) /\ p.lo \in 0 .. p.hi
       /\ p.pos \in p.lo .. p.hi /\ (p.left = 0 => p.pos = p.lo)
  BY <1>3, <1>5, <1>6 DEF n
<1>11. b \in 1 .. Len(fr.parents)
  OBVIOUS
<1> QED BY <1>9, <1>10, <1>11 DEF Plays, p
-----------------------------------------------------------------------------
(* The stack of frames.                                                       *)

LEMMA StackPushed ==
  ASSUME NEW d, NEW ob, NEW op, NEW c, NEW rc, NEW sk \in Seq(Frames), NEW fr \in Frames,
         \A i \in 1 .. Len(sk) : FrameSound(d, ob, op, c, rc, sk[i]), Shape(sk),
         FrameSound(d, ob, op, c, rc, fr), fr.kind # "doc",
         fr.kind = "build" =>
           \A i \in 1 .. Len(sk) : sk[i].kind = "build" => sk[i].play.rec # fr.play.rec
  PROVE  Append(sk, fr) \in Seq(Frames) /\ StackSound(d, ob, op, c, rc, Append(sk, fr))
<1> DEFINE s == Append(sk, fr)
           n == Len(sk)
<1>1. s \in Seq(Frames) /\ Len(s) = n + 1 /\ n \in Nat /\ s[n + 1] = fr
        /\ \A i \in 1 .. n : s[i] = sk[i]
  BY AppendFacts
<1> HIDE DEF s
<1>2. \A i \in 1 .. n + 1 : i = n + 1 \/ i \in 1 .. n
  BY <1>1
<1>3. \A i \in 1 .. n + 1 : FrameSound(d, ob, op, c, rc, s[i])
  BY <1>1, <1>2
<1>4. \A i \in 2 .. n + 1 : s[i].kind # "doc"
  BY <1>1, <1>2 DEF Shape
<1>5. ASSUME NEW i \in 1 .. n + 1, NEW j \in 1 .. n + 1,
             s[i].kind = "build", s[j].kind = "build", s[i].play.rec = s[j].play.rec
      PROVE  i = j
  BY <1>1, <1>2, <1>5 DEF Shape
<1> QED BY <1>1, <1>3, <1>4, <1>5 DEF StackSound, Shape, s

LEMMA StackPopped ==
  ASSUME NEW d, NEW ob, NEW op, NEW c, NEW rc, NEW sk \in Seq(Frames), sk # <<>>, Shape(sk),
         \A i \in 1 .. Len(sk) - 1 : FrameSound(d, ob, op, c, rc, sk[i])
  PROVE  Front(sk) \in Seq(Frames) /\ StackSound(d, ob, op, c, rc, Front(sk))
<1>1. /\ Front(sk) \in Seq(Frames) /\ Len(Front(sk)) = Len(sk) - 1 /\ Len(sk) \in Nat \ {0}
      /\ \A i \in 1 .. Len(sk) - 1 : Front(sk)[i] = sk[i]
  BY FrontFacts
<1>2. \A i \in 1 .. Len(sk) - 1 : i \in 1 .. Len(sk)
  BY <1>1
<1>3. \A i \in 2 .. Len(sk) - 1 : i \in 2 .. Len(sk) /\ i \in 1 .. Len(sk) - 1
  BY <1>1
<1>4. Shape(Front(sk))
  BY <1>1, <1>2, <1>3 DEF Shape
<1> QED BY <1>1, <1>4 DEF StackSound

\* The top is replaced by a frame of the same kind.
LEMMA StackReplaced ==
  ASSUME NEW d, NEW ob, NEW op, NEW c, NEW rc, NEW fr \in Frames,
         stack \in Seq(Frames), stack # <<>>, Shape(stack),
         \A i \in 1 .. Len(stack) - 1 : FrameSound(d, ob, op, c, rc, stack[i]),
         FrameSound(d, ob, op, c, rc, fr), fr.kind = Top.kind, fr.play.rec = Top.play.rec
  PROVE  WithTop(fr) \in Seq(Frames) /\ StackSound(d, ob, op, c, rc, WithTop(fr))
           /\ Len(WithTop(fr)) = Len(stack) /\ \A i \in 1 .. Len(stack) : WithTop(fr)[i].kind = stack[i].kind
<1> DEFINE n == Len(stack)
           s == WithTop(fr)
<1>1. n \in Nat \ {0} /\ Top = stack[n]
  BY DEF Top, Last
<1>2. s \in Seq(Frames) /\ Len(s) = n /\ s[n] = fr /\ \A i \in 1 .. n - 1 : s[i] = stack[i]
  BY <1>1 DEF WithTop
<1> HIDE DEF s
<1>3. \A i \in 1 .. n : s[i].kind = stack[i].kind /\ (i # n => i \in 1 .. n - 1)
                          /\ s[i].play.rec = stack[i].play.rec
  BY <1>1, <1>2
<1>4. \A i \in 1 .. n : FrameSound(d, ob, op, c, rc, s[i])
  BY <1>2, <1>3
<1>5. \A i \in 2 .. n : s[i].kind # "doc"
  BY <1>1, <1>3 DEF Shape
<1>6. \A i, j \in 1 .. n :
        s[i].kind = "build" /\ s[j].kind = "build" /\ s[i].play.rec = s[j].play.rec => i = j
  BY <1>3 DEF Shape
<1> QED BY <1>2, <1>3, <1>4, <1>5, <1>6 DEF StackSound, Shape, s
-----------------------------------------------------------------------------
(* The notifications of the subject.                                          *)

LEMMA TopFacts ==
  ASSUME IInv, stack # <<>>
  PROVE  /\ Len(stack) \in Nat \ {0} /\ Top = stack[Len(stack)] /\ Top \in Frames
         /\ FrameSound(doc, obj, open, cap, rec, Top) /\ Shape(stack)
         /\ \A i \in 1 .. Len(stack) : /\ stack[i] \in Frames
                                       /\ FrameSound(doc, obj, open, cap, rec, stack[i])
         /\ Top.kind = "doc" => Len(stack) = 1
         /\ val \in Nat
<1>1. stack \in Seq(Frames) /\ StackSound(doc, obj, open, cap, rec, stack)
  BY DEF IInv, Typed
<1>2. Len(stack) \in Nat \ {0} /\ Top = stack[Len(stack)] /\ \A i \in 1 .. Len(stack) : stack[i] \in Frames
  BY <1>1 DEF Top, Last
<1>3. val \in Nat
  <2>1. val \in Values
    BY DEF IInv, Typed
  <2> QED BY <2>1, FragmentAssumption
<1>4. Top.kind = "doc" => Len(stack) = 1
  <2>1. Len(stack) # 1 => Len(stack) \in 2 .. Len(stack)
    BY <1>2
  <2>2. \A i \in 2 .. Len(stack) : stack[i].kind # "doc"
    BY <1>1 DEF StackSound, Shape
  <2> QED BY <1>2, <2>1, <2>2
<1> QED BY <1>1, <1>2, <1>3, <1>4 DEF StackSound

LEMMA NoReplayTyped == NoReplay \in Replays /\ NoReplay.on = FALSE /\ NoReplay.rec = Nothing
  BY DEF NoReplay, Replays, Nothing

LEMMA SetSubjectSound ==
  ASSUME IInv, NEW v \in Values, SetSubject(v)
  PROVE  IInv'
<1> DEFINE fr == Frame("notify", <<>>, NoReplay)
<1>1. /\ UNCHANGED <<doc, open, cap, obj, rec>> /\ stack' = Append(stack, fr) /\ val' = v
      /\ todo' = {r \in DOMAIN rec : rec[r].obs}
  BY DEF SetSubject
<1>2. fr \in Frames /\ fr.kind = "notify" /\ ~fr.play.on
  BY NoReplayTyped DEF Frame, Frames
<1> HIDE DEF fr
<1>3. FrameSound(doc, obj, open, cap, rec, fr)
  BY <1>2 DEF FrameSound
<1>4. stack \in Seq(Frames) /\ StackSound(doc, obj, open, cap, rec, stack)
  BY DEF IInv, Typed
<1>5. stack' \in Seq(Frames) /\ StackSound(doc, obj, open, cap, rec, stack')
  BY <1>1, <1>2, <1>3, <1>4, StackPushed DEF StackSound
<1>6. Typed'
  <2>1. Len(stack') \in 1 .. Len(stack') /\ stack'[Len(stack')] = fr
    BY <1>1, <1>2, <1>4
  <2>2. \E i \in 1 .. Len(stack') : stack'[i].kind = "notify"
    BY <1>2, <2>1
  <2>3. todo' \subseteq {r \in 1 .. Len(rec) : rec[r].obs}
    BY <1>1 DEF IInv, Typed
  <2>4. rec' \in Seq(Records) /\ cap' \in Captures
    BY <1>1 DEF IInv, Typed
  <2> QED BY <1>1, <1>5, <2>2, <2>3, <2>4 DEF Typed
<1> QED BY <1>1, <1>5, <1>6 DEF IInv

LEMMA NotifiedSound ==
  ASSUME IInv, Notified
  PROVE  IInv'
<1>1. /\ UNCHANGED <<doc, open, cap, obj, rec, val, todo>> /\ stack' = Front(stack)
      /\ stack # <<>> /\ todo = {}
  BY DEF Notified, Idle
<1>2. stack \in Seq(Frames) /\ StackSound(doc, obj, open, cap, rec, stack)
  BY DEF IInv, Typed
<1>3. \A i \in 1 .. Len(stack) - 1 : FrameSound(doc, obj, open, cap, rec, stack[i])
  BY <1>2 DEF StackSound
<1>4. stack' \in Seq(Frames) /\ StackSound(doc, obj, open, cap, rec, stack')
  BY <1>1, <1>2, <1>3, StackPopped DEF StackSound
<1>5. Typed'
  BY <1>1, <1>4 DEF IInv, Typed
<1> QED BY <1>1, <1>4, <1>5 DEF IInv

LEMMA ParseEndSound ==
  ASSUME IInv, ParseEnd
  PROVE  IInv'
<1>1. /\ UNCHANGED <<doc, open, cap, obj, rec, val, todo>> /\ stack' = Front(stack)
      /\ stack # <<>> /\ Top.kind = "doc"
  BY DEF ParseEnd, Parsing, Idle
<1>2. stack \in Seq(Frames) /\ StackSound(doc, obj, open, cap, rec, stack) /\ Len(stack) = 1
  BY <1>1, TopFacts DEF IInv, Typed
<1>3. \A i \in 1 .. Len(stack) - 1 : FrameSound(doc, obj, open, cap, rec, stack[i])
  BY <1>2 DEF StackSound
<1>4. stack' \in Seq(Frames) /\ StackSound(doc, obj, open, cap, rec, stack')
  BY <1>1, <1>2, <1>3, StackPopped DEF StackSound
<1>5. todo = {}
  <2>1. \A i \in 1 .. Len(stack) : stack[i] = Top
    BY <1>1, <1>2, TopFacts
  <2> QED BY <1>1, <2>1 DEF IInv, Typed
<1>6. Typed'
  BY <1>1, <1>2, <1>4, <1>5 DEF IInv, Typed
<1> QED BY <1>1, <1>4, <1>6 DEF IInv

LEMMA LaterSame ==
  ASSUME NEW d, NEW ob, DocSound(d), ob \in [Ids -> Objects(d)]
  PROVE  Later(d, ob, d, ob, {})
  BY DEF Later, Kept, Grown, DocSound

LEMMA SameUpdated ==
  ASSUME NEW d, NEW d2, NEW ob, NEW ob2, NEW F, NEW r \in Records,
         r.live => Later(d, ob, d2, ob2, F) /\ r.frag \notin F, RecordSound(d, ob, r)
  PROVE  Updated(d2, ob2, r, r)
<1>1. ASSUME NEW o \in r.roots
      PROVE  There(ob2, o) /\ d2[ob2[o].elem].frag = r.frag
  <2>1. r.live /\ There(ob, o) /\ d[ob[o].elem].frag = r.frag
    BY DEF RecordSound
  <2> QED BY <2>1, RootKept
<1>2. r.events \in Seq(Events)
  BY DEF Records
<1> QED BY <1>1, <1>2 DEF Updated, RecordSound

\* What every record of rc goes through.
Through(d, d2, ob, ob2, F, op, op2, c, c2, r, r2) ==
  /\ Updated(d2, ob2, r, r2)
  /\ r2.live => Later(d, ob, d2, ob2, F)
  /\ Behind(op, c, r.frag) => Behind(op2, c2, r.frag)
AllThrough(d, d2, ob, ob2, F, op, op2, c, c2, rc, rc2) ==
  /\ Len(rc2) = Len(rc)
  /\ \A i \in 1 .. Len(rc) : Through(d, d2, ob, ob2, F, op, op2, c, c2, rc[i], rc2[i])

LEMMA RecsKept ==
  ASSUME NEW d, NEW ob, NEW op, NEW c, NEW rc, NEW d2, NEW ob2, NEW op2, NEW c2, NEW rc2, NEW F,
         DocSound(d), DocSound(d2), Grown(d, d2), RecSound(d, ob, op, c, rc),
         AllThrough(d, d2, ob, ob2, F, op, op2, c, c2, rc, rc2)
  PROVE  RecSound(d2, ob2, op2, c2, rc2)
<1>1. ASSUME NEW i \in 1 .. Len(rc)
      PROVE  RecordSound(d2, ob2, rc2[i]) /\ Behind(op2, c2, rc2[i].frag) /\ rc2[i].frag = rc[i].frag
  <2>1. RecordSound(d, ob, rc[i]) /\ Behind(op, c, rc[i].frag)
    BY DEF RecSound
  <2>2. Through(d, d2, ob, ob2, F, op, op2, c, c2, rc[i], rc2[i])
    BY DEF AllThrough
  <2>3. RecordSound(d2, ob2, rc2[i])
    BY <2>1, <2>2, RecordKept DEF Through
  <2>4. rc2[i].frag = rc[i].frag
    BY <2>2 DEF Through, Updated
  <2> QED BY <2>1, <2>2, <2>3, <2>4 DEF Through
<1> QED BY <1>1 DEF RecSound, AllThrough

LEMMA IInvFacts ==
  ASSUME IInv
  PROVE  /\ stack \in Seq(Frames) /\ rec \in Seq(Records) /\ cap \in Captures
         /\ DocSound(doc) /\ OpenSound(doc, open) /\ ObjSound(doc, obj)
         /\ RecSound(doc, obj, open, cap, rec) /\ StackSound(doc, obj, open, cap, rec, stack)
         /\ Len(doc) \in Nat \ {0} /\ Grown(doc, doc) /\ obj \in [Ids -> Objects(doc)]
         /\ Later(doc, obj, doc, obj, {})
<1>1. /\ stack \in Seq(Frames) /\ rec \in Seq(Records) /\ cap \in Captures
      /\ DocSound(doc) /\ OpenSound(doc, open) /\ ObjSound(doc, obj)
      /\ RecSound(doc, obj, open, cap, rec) /\ StackSound(doc, obj, open, cap, rec, stack)
  BY DEF IInv, Typed
<1>2. Len(doc) \in Nat \ {0} /\ Grown(doc, doc)
  BY <1>1 DEF DocSound, Grown
<1>3. obj \in [Ids -> Objects(doc)]
  BY <1>1 DEF ObjSound
<1> QED BY <1>1, <1>2, <1>3, LaterSame

\* A record that has lost its observer.
Unobserved(r) == [r EXCEPT !.obs = FALSE]
Freer(r, s) ==
  /\ s \in Records /\ s.frag = r.frag /\ s.parent = r.parent /\ s.events = r.events
  /\ s.split = r.split /\ ~s.obs
LEMMA RecordTyped ==
  ASSUME NEW r \in Records
  PROVE  /\ Freer(r, Unobserved(r)) /\ Unobserved(r).live = r.live /\ Unobserved(r).hook = r.hook
         /\ Unobserved(r).roots = r.roots
         /\ Freer(r, Freed(r)) /\ ~Freed(r).live /\ ~Freed(r).hook /\ Freed(r).roots = {}
         /\ Freer(r, Swept(r)) /\ ~Swept(r).live /\ ~Swept(r).hook /\ Swept(r).roots = {}
<1>1. /\ Freer(r, Unobserved(r)) /\ Unobserved(r).live = r.live /\ Unobserved(r).hook = r.hook
      /\ Unobserved(r).roots = r.roots
  BY DEF Records, Unobserved, Freer
<1>2. Freer(r, Freed(r)) /\ ~Freed(r).live /\ ~Freed(r).hook /\ Freed(r).roots = {}
  BY DEF Records, Freed, Freer
<1>3. Freer(r, Swept(r)) /\ ~Swept(r).live /\ ~Swept(r).hook /\ Swept(r).roots = {}
  <2>1. Freed(r) \in Records /\ (r.handle /\ ~r.obs) \in BOOLEAN
    BY <1>2 DEF Freer
  <2>2. \A b \in BOOLEAN : /\ [Freed(r) EXCEPT !.twice = b] \in Records
                           /\ [Freed(r) EXCEPT !.twice = b].frag = Freed(r).frag
                           /\ [Freed(r) EXCEPT !.twice = b].parent = Freed(r).parent
                           /\ [Freed(r) EXCEPT !.twice = b].events = Freed(r).events
                           /\ [Freed(r) EXCEPT !.twice = b].split = Freed(r).split
                           /\ [Freed(r) EXCEPT !.twice = b].obs = Freed(r).obs
                           /\ [Freed(r) EXCEPT !.twice = b].live = Freed(r).live
                           /\ [Freed(r) EXCEPT !.twice = b].hook = Freed(r).hook
                           /\ [Freed(r) EXCEPT !.twice = b].roots = Freed(r).roots
    BY <2>1 DEF Records
  <2> QED BY <1>2, <2>1, <2>2 DEF Swept, Freer
<1> QED BY <1>1, <1>2, <1>3

LEMMA ObserveSound ==
  ASSUME IInv, NEW r \in DOMAIN rec, Observe(r)
  PROVE  IInv'
<1>1. /\ UNCHANGED <<doc, open, cap, val>> /\ stack # <<>> /\ Top.kind = "notify"
      /\ r \in todo /\ todo' = todo \ {r}
  BY DEF Observe, Idle
<1>2. /\ stack \in Seq(Frames) /\ rec \in Seq(Records) /\ r \in 1 .. Len(rec) /\ rec[r].obs
      /\ DocSound(doc) /\ OpenSound(doc, open) /\ ObjSound(doc, obj)
      /\ RecSound(doc, obj, open, cap, rec) /\ obj \in [Ids -> Objects(doc)]
  <2>1. stack \in Seq(Frames) /\ rec \in Seq(Records) /\ r \in 1 .. Len(rec) /\ rec[r].obs
    BY <1>1 DEF IInv, Typed
  <2> QED BY <2>1 DEF IInv, ObjSound
<1>3. ASSUME NEW i \in 1 .. Len(rec)
      PROVE  /\ RecordSound(doc, obj, rec[i]) /\ rec[i] \in Records
             /\ Behind(open, cap, rec[i].frag)
             /\ rec[i].frag = rec[r].frag => i = r
  <2>1. RecSound(doc, obj, open, cap, rec) /\ r \in 1 .. Len(rec) /\ rec[i] \in Records
    BY <1>2
  <2> QED BY <2>1 DEF RecSound
<1>4. rec[r].live
  BY <1>2, <1>3 DEF RecordSound
<1>5. /\ Len(stack) \in Nat \ {0} /\ Shape(stack) /\ val \in Nat
      /\ \A i \in 1 .. Len(stack) : /\ stack[i] \in Frames
                                    /\ FrameSound(doc, obj, open, cap, rec, stack[i])
  BY <1>1, TopFacts
<1>6. Grown(doc, doc)
  BY <1>2 DEF Grown, DocSound
<1>7. stack[Len(stack)].kind = "notify"
  BY <1>1 DEF Top, Last
<1>8. CASE Guarded(r)
  <2>1. rec' = [rec EXCEPT ![r].missed = TRUE] /\ UNCHANGED <<obj, stack>>
    BY <1>8 DEF Observe
  <2>2. /\ rec' \in Seq(Records) /\ Len(rec') = Len(rec)
        /\ \A i \in 1 .. Len(rec) : i # r => rec'[i] = rec[i]
        /\ rec'[r] = [rec[r] EXCEPT !.missed = TRUE]
    <3>1. [rec[r] EXCEPT !.missed = TRUE] \in Records
      BY <1>2, <1>3 DEF Records
    <3> QED BY <1>2, <2>1, <3>1
  <2>3. /\ rec'[r].frag = rec[r].frag /\ rec'[r].parent = rec[r].parent
        /\ rec'[r].events = rec[r].events /\ rec'[r].split = rec[r].split
        /\ rec'[r].live = rec[r].live /\ rec'[r].hook = rec[r].hook /\ rec'[r].obs = rec[r].obs
        /\ rec'[r].roots = rec[r].roots /\ rec'[r].busy = rec[r].busy
    BY <1>3, <2>2 DEF Records
  <2>4. Later(doc, obj, doc, obj, {})
    BY <1>2, LaterSame
  <2>5. ASSUME NEW i \in 1 .. Len(rec) PROVE Updated(doc, obj, rec[i], rec'[i])
    <3>1. Updated(doc, obj, rec[i], rec[i])
      BY <1>3, <2>4, SameUpdated
    <3> QED BY <2>2, <2>3, <3>1, ZenonT(40) DEF Updated
  <2>6. RecSound(doc, obj, open, cap, rec')
    <3>1. AllThrough(doc, doc, obj, obj, {}, open, open, cap, cap, rec, rec')
      BY <2>2, <2>4, <2>5 DEF Through, AllThrough
    <3> QED BY <1>2, <1>6, <2>2, <3>1, RecsKept
  <2>7. ASSUME NEW i \in 1 .. Len(stack) PROVE FrameSound(doc, obj, open, cap, rec', stack[i])
    <3>1. \A x \in 1 .. Len(rec) :
            rec'[x].frag = rec[x].frag /\ rec'[x].live = rec[x].live /\ rec'[x].busy = rec[x].busy
      BY <2>2, <2>3
    <3>2. FrameSound(doc, obj, open, cap, rec, stack[i]) /\ stack[i] \in Frames
      BY <1>5
    <3> DEFINE x == stack[i].play.rec
    <3>3. stack[i].kind = "build" =>
             /\ x \in 1 .. Len(rec') /\ rec'[x].frag = rec[x].frag /\ rec[x].frag \notin {}
             /\ rec'[x].live = rec[x].live /\ rec'[x].busy = rec[x].busy
      BY <2>2, <3>1, <3>2 DEF FrameSound, BuildFrame
    <3> QED BY <1>2, <2>4, <3>2, <3>3, FrameKept
  <2>8. StackSound(doc, obj, open, cap, rec', stack)
    BY <1>5, <2>7 DEF StackSound
  <2>9. Typed'
    <3>1. todo' \subseteq {x \in 1 .. Len(rec') : rec'[x].obs}
      BY <1>1, <2>2, <2>3 DEF IInv, Typed
    <3> QED BY <1>1, <2>1, <2>2, <3>1 DEF IInv, Typed
  <2> QED BY <1>1, <1>2, <2>1, <2>6, <2>8, <2>9 DEF IInv
<1>9. CASE ~Guarded(r)
  <2> DEFINE new == [rec[r] EXCEPT !.busy = TRUE, !.missed = FALSE, !.roots = {}]
             play == Play(r, rec[r], val)
             fr == Frame("build", <<rec[r].parent>>, play)
             F == {rec[r].frag}
  <2>1. /\ rec' = [rec EXCEPT ![r] = new] /\ obj' = Teardown(rec[r].roots)
        /\ stack' = Append(stack, fr)
    BY <1>9 DEF Observe
  <2>2. /\ new \in Records /\ new.frag = rec[r].frag /\ new.parent = rec[r].parent
        /\ new.events = rec[r].events /\ new.split = rec[r].split
        /\ new.live = rec[r].live /\ new.hook = rec[r].hook /\ new.obs = rec[r].obs
        /\ new.roots = {} /\ new.busy
    BY <1>2, <1>3 DEF Records
  <2> HIDE DEF new
  <2>3. /\ rec' \in Seq(Records) /\ Len(rec') = Len(rec) /\ rec'[r] = new
        /\ \A i \in 1 .. Len(rec) : i # r => rec'[i] = rec[i]
    BY <1>2, <2>1, <2>2
  <2>4. /\ rec[r].frag \in 1 .. Len(doc) /\ Len(doc) \in Nat
        /\ \A o \in rec[r].roots : There(obj, o) /\ doc[obj[o].elem].frag = rec[r].frag
    BY <1>2, <1>3 DEF RecordSound, Body, DocSound
  <2>5. ObjSound(doc, obj') /\ Kept(doc, obj, obj', F)
    BY <1>2, <2>1, <2>4, TeardownSound
  <2>6. Later(doc, obj, doc, obj', F)
    BY <1>2, <1>6, <2>4, <2>5 DEF Later, Nothing
  <2> HIDE DEF F
  <2>7. ASSUME NEW i \in 1 .. Len(rec) PROVE Updated(doc, obj', rec[i], rec'[i])
    <3>1. CASE i = r
      BY <1>2, <1>3, <1>4, <2>2, <2>3, <3>1 DEF Updated, RecordSound, Records
    <3>2. CASE i # r
      <4>1. rec[i].frag \notin F
        BY <1>3, <3>2 DEF F
      <4>2. Updated(doc, obj', rec[i], rec[i])
        BY <1>3, <2>6, <4>1, SameUpdated
      <4> QED BY <2>3, <3>2, <4>2
    <3> QED BY <3>1, <3>2
  <2>8. RecSound(doc, obj', open, cap, rec')
    <3>1. AllThrough(doc, doc, obj, obj', F, open, open, cap, cap, rec, rec')
      BY <2>3, <2>6, <2>7 DEF Through, AllThrough
    <3> QED BY <1>2, <1>6, <2>3, <3>1, RecsKept
  <2>9. ASSUME NEW i \in 1 .. Len(stack)
        PROVE  FrameSound(doc, obj', open, cap, rec', stack[i])
                 /\ (stack[i].kind = "build" => stack[i].play.rec # r)
    <3>1. FrameSound(doc, obj, open, cap, rec, stack[i]) /\ stack[i] \in Frames
      BY <1>5
    <3> DEFINE x == stack[i].play.rec
    <3>2. stack[i].kind = "build" => x \in 1 .. Len(rec) /\ x # r
      BY <1>9, <3>1 DEF FrameSound, BuildFrame, Guarded
    <3>3. stack[i].kind = "build" =>
             /\ x \in 1 .. Len(rec') /\ rec'[x].frag = rec[x].frag /\ rec[x].frag \notin F
             /\ rec'[x].live = rec[x].live /\ rec'[x].busy = rec[x].busy
      BY <1>3, <2>3, <3>2 DEF F
    <3>4. cap.frag \notin F \ {Nothing}
      BY <1>2, <1>3 DEF F, Behind
    <3>5. FrameSound(doc, obj', open, cap, rec', stack[i])
      BY <1>2, <2>6, <3>1, <3>3, <3>4, FrameKept
    <3> QED BY <3>2, <3>5
  <2>10. Body(doc, rec[r].events, rec[r].frag, rec[r].split) /\ rec[r].events \in Seq(Events)
           /\ (rec[r].split = -1 \/ rec[r].split \in 0 .. Len(rec[r].events)) /\ r \in Nat
    <3>1. RecordSound(doc, obj, rec[r]) /\ rec[r].events \in Seq(Events) /\ r \in Nat
      BY <1>2, <1>3 DEF Records
    <3> QED BY <3>1 DEF RecordSound, Body, Taken
  <2>11. play \in Replays /\ play.on /\ play.rec = r /\ play.roots = {}
    BY <1>5, <2>10, PlayTyped
  <2> HIDE DEF play
  <2>12. /\ fr \in Frames /\ fr.kind = "build" /\ fr.parents = <<rec[r].parent>>
         /\ fr.play = play /\ fr.item = Nothing
    <3>1. <<rec[r].parent>> \in Seq(Ids \cup {Outer})
      BY <1>2, <1>3 DEF Records
    <3> QED BY <2>11, <3>1 DEF Frame, Frames
  <2> HIDE DEF fr
  <2>13. Plays(doc, obj', fr, 1, rec[r].frag)
    <3>1. Of(doc, obj, rec[r].parent, {}) /\ obj[rec[r].parent].elem = Cur(doc, rec[r].frag)
      BY <1>2, <1>3, <1>4 DEF RecordSound
    <3>2. Of(doc, obj', rec[r].parent, {}) /\ obj'[rec[r].parent].elem = Cur(doc, rec[r].frag)
      <4>1. {} \cap F = {}
        OBVIOUS
      <4> QED BY <2>6, <3>1, <4>1, OfKept
    <3>3. fr.parents[1] = rec[r].parent /\ Len(fr.parents) = 1 /\ fr.play = Play(r, rec[r], val)
      BY <2>12 DEF play
    <3>4. 1 = Len(fr.parents) /\ 1 \in Nat \ {0}
      BY <3>3
    <3> QED BY <1>5, <2>10, <3>2, <3>3, <3>4, PlayBegins
  <2>14. FrameSound(doc, obj', open, cap, rec', fr)
    <3>1. BuildFrame(doc, obj', rec', fr)
      BY <1>2, <1>4, <2>2, <2>3, <2>11, <2>12, <2>13 DEF BuildFrame
    <3> QED BY <2>12, <3>1 DEF FrameSound
  <2>15. stack' \in Seq(Frames) /\ StackSound(doc, obj', open, cap, rec', stack')
    <3>1. /\ \A i \in 1 .. Len(stack) : FrameSound(doc, obj', open, cap, rec', stack[i])
          /\ fr.kind # "doc"
          /\ \A i \in 1 .. Len(stack) : stack[i].kind = "build" => stack[i].play.rec # fr.play.rec
      BY <2>9, <2>11, <2>12
    <3> QED BY <1>2, <1>5, <2>1, <2>12, <2>14, <3>1, StackPushed
  <2>16. Typed'
    <3>1. todo' \subseteq {x \in 1 .. Len(rec') : rec'[x].obs}
      BY <1>1, <2>2, <2>3 DEF IInv, Typed
    <3>2. \E i \in 1 .. Len(stack') : stack'[i].kind = "notify"
      <4>1. Len(stack) \in 1 .. Len(stack') /\ stack'[Len(stack)] = stack[Len(stack)]
        BY <1>2, <1>5, <2>1, <2>12, AppendFacts
      <4> QED BY <1>7, <4>1
    <3>3. val' \in Values
      BY <1>1 DEF IInv, Typed
    <3>4. cap' \in Captures
      BY <1>1 DEF IInv, Typed
    <3> QED BY <2>3, <2>15, <3>1, <3>2, <3>3, <3>4 DEF Typed
  <2> QED BY <1>1, <1>2, <2>5, <2>8, <2>15, <2>16 DEF IInv
<1> QED BY <1>8, <1>9
-----------------------------------------------------------------------------
(* Between the parse and the notifications, and where a parse breaks off.     *)

LEMMA NoFrames ==
  ASSUME NEW d, NEW ob, NEW op, NEW c, NEW rc, NEW sk \in Seq(Frames), Len(sk) = 0
  PROVE  StackSound(d, ob, op, c, rc, sk)
  BY DEF StackSound, Shape

LEMMA NoneDue ==
  ASSUME IInv, \A i \in 1 .. Len(stack) : stack[i].kind # "notify"
  PROVE  todo = {}
  BY DEF IInv, Typed

LEMMA NoCaptureTyped == NoCapture \in Captures /\ NoCapture.frag = Nothing
  BY DEF NoCapture, Captures, Nothing

LEMMA RecordsDeleted ==
  ASSUME IInv, Deleted, NEW op2, NEW c2,
         \A f \in 1 .. Len(doc) : Behind(open, cap, f) => Behind(op2, c2, f)
  PROVE  /\ RecSound(doc, obj', op2, c2, rec') /\ rec' \in Seq(Records)
         /\ ObjSound(doc, obj')
<1>1. /\ rec \in Seq(Records) /\ DocSound(doc) /\ ObjSound(doc, obj)
      /\ RecSound(doc, obj, open, cap, rec) /\ Len(doc) \in Nat /\ Grown(doc, doc)
  BY DEF IInv, Typed, DocSound, Grown
<1>2. rec' = [r \in DOMAIN rec |-> IF rec[r].hook THEN Freed(rec[r]) ELSE rec[r]]
  BY DEF Deleted
<1>3. ASSUME NEW i \in 1 .. Len(rec)
      PROVE  RecordSound(doc, obj, rec[i]) /\ rec[i] \in Records /\ Freed(rec[i]) \in Records
  <2>1. rec[i] \in Records
    BY <1>1
  <2>2. Freed(rec[i]) \in Records
    BY <2>1 DEF Freed, Records
  <2> QED BY <1>1, <2>1, <2>2 DEF RecSound
<1>4. /\ rec' \in Seq(Records) /\ Len(rec') = Len(rec)
      /\ \A i \in 1 .. Len(rec) : rec'[i] = IF rec[i].hook THEN Freed(rec[i]) ELSE rec[i]
  BY <1>1, <1>2, <1>3
<1>5. ASSUME NEW i \in 1 .. Len(rec)
      PROVE  Updated(doc, obj', rec[i], rec'[i]) /\ ~rec'[i].live
  <2>1. CASE rec[i].hook
    BY <1>3, <1>4, <2>1, ZenonT(40) DEF Freed, Records, Updated
  <2>2. CASE ~rec[i].hook
    <3>1. ~rec[i].live /\ ~rec[i].obs /\ rec[i].roots = {} /\ rec'[i] = rec[i]
      BY <1>3, <1>4, <2>2 DEF RecordSound
    <3> QED BY <1>3, <2>2, <3>1 DEF Records, Updated
  <2> QED BY <2>1, <2>2
<1>6. AllThrough(doc, doc, obj, obj', {}, open, op2, cap, c2, rec, rec')
  <2>1. \A i \in 1 .. Len(rec) : Behind(open, cap, rec[i].frag) => Behind(op2, c2, rec[i].frag)
    BY <1>3 DEF RecordSound, Body
  <2> QED BY <1>4, <1>5, <2>1 DEF AllThrough, Through
<1> QED BY <1>1, <1>4, <1>6, RecsKept, DeletedSound

LEMMA DeleteSound ==
  ASSUME IInv, Delete
  PROVE  IInv'
<1>1. /\ UNCHANGED <<doc, open, cap, stack, val, todo>> /\ stack = <<>> /\ Deleted
  BY DEF Delete, Idle
<1>2. RecSound(doc, obj', open, cap, rec') /\ rec' \in Seq(Records) /\ ObjSound(doc, obj')
  BY <1>1, RecordsDeleted
<1>3. todo = {}
  BY <1>1, NoneDue
<1>4. Typed'
  BY <1>1, <1>2, <1>3 DEF IInv, Typed
<1>5. StackSound(doc, obj', open, cap, rec', stack)
  <2>1. stack \in Seq(Frames) /\ Len(stack) = 0
    BY <1>1
  <2> QED BY <2>1, NoFrames
<1> QED BY <1>1, <1>2, <1>4, <1>5 DEF IInv

LEMMA ParseFailsSound ==
  ASSUME IInv, ParseFails
  PROVE  IInv'
<1>1. /\ UNCHANGED <<doc, val, todo>> /\ Deleted /\ stack # <<>> /\ Top.kind = "doc"
      /\ open' = <<>> /\ cap' = NoCapture /\ stack' = Front(stack)
  BY DEF ParseFails, Parsing, Idle
<1>2. /\ Len(stack) = 1 /\ stack[1].kind = "doc" /\ stack \in Seq(Frames) /\ DocSound(doc)
  BY <1>1, TopFacts DEF IInv, Typed
<1>3. stack' \in Seq(Frames) /\ Len(stack') = 0
  BY <1>1, <1>2, FrontFacts
<1>4. \A f \in 1 .. Len(doc) : Behind(open', cap', f)
  BY <1>1, <1>2, NoCaptureTyped DEF Behind, DocSound, Nothing
<1>5. RecSound(doc, obj', open', cap', rec') /\ rec' \in Seq(Records) /\ ObjSound(doc, obj')
  BY <1>1, <1>4, RecordsDeleted
<1>6. StackSound(doc, obj', open', cap', rec', stack')
  BY <1>3, NoFrames
<1>7. OpenSound(doc, open')
  BY <1>1 DEF OpenSound
<1>8. todo = {}
  BY <1>2, NoneDue
<1>9. Typed'
  <2>1. val' \in Values
    BY <1>1 DEF IInv, Typed
  <2> QED BY <1>1, <1>3, <1>5, <1>8, <2>1, NoCaptureTyped DEF Typed
<1> QED BY <1>1, <1>2, <1>5, <1>6, <1>7, <1>9 DEF IInv

LEMMA SinkDeletesSound ==
  ASSUME IInv, SinkDelete
  PROVE  IInv'
<1>1. /\ UNCHANGED <<doc, open, cap, stack, rec, val, todo>> /\ stack = <<>>
  BY DEF SinkDelete, Idle
<1>2. /\ DocSound(doc) /\ ObjSound(doc, obj) /\ rec \in Seq(Records) /\ Len(doc) \in Nat
      /\ RecSound(doc, obj, open, cap, rec) /\ Grown(doc, doc) /\ obj \in [Ids -> Objects(doc)]
  BY IInvFacts
<1>3. ObjSound(doc, obj') /\ Later(doc, obj, doc, obj', {})
  BY <1>2, SinkDeleteSound DEF Later
<1>4. AllThrough(doc, doc, obj, obj', {}, open, open, cap, cap, rec, rec)
  <2>1. ASSUME NEW i \in 1 .. Len(rec) PROVE Updated(doc, obj', rec[i], rec[i])
    <3>1. RecordSound(doc, obj, rec[i]) /\ rec[i] \in Records /\ rec[i].frag \notin {}
      BY <1>2 DEF RecSound
    <3> QED BY <1>3, <3>1, SameUpdated
  <2> QED BY <1>3, <2>1 DEF AllThrough, Through
<1>5. RecSound(doc, obj', open, cap, rec)
  BY <1>2, <1>4, RecsKept
<1>6. StackSound(doc, obj', open, cap, rec, stack)
  <2>1. stack \in Seq(Frames) /\ Len(stack) = 0
    BY <1>1
  <2> QED BY <2>1, NoFrames
<1>7. Typed'
  BY <1>1 DEF IInv, Typed
<1> QED BY <1>1, <1>3, <1>5, <1>6, <1>7 DEF IInv

\* Where the records alone change and nothing is under way.
LEMMA RecordsChange ==
  ASSUME IInv, stack = <<>>, UNCHANGED <<doc, open, cap, stack, obj, todo>>,
         val' = val \/ val' = Gone, rec' \in Seq(Records), Len(rec') = Len(rec),
         \A i \in 1 .. Len(rec) : Updated(doc, obj, rec[i], rec[i]) => Updated(doc, obj, rec[i], rec'[i])
  PROVE  IInv'
<1>1. /\ DocSound(doc) /\ ObjSound(doc, obj) /\ rec \in Seq(Records)
      /\ RecSound(doc, obj, open, cap, rec) /\ Grown(doc, doc) /\ obj \in [Ids -> Objects(doc)]
  BY IInvFacts
<1>2. Later(doc, obj, doc, obj, {})
  BY <1>1, LaterSame
<1>3. AllThrough(doc, doc, obj, obj, {}, open, open, cap, cap, rec, rec')
  <2>1. ASSUME NEW i \in 1 .. Len(rec) PROVE Updated(doc, obj, rec[i], rec'[i])
    <3>1. RecordSound(doc, obj, rec[i]) /\ rec[i] \in Records /\ rec[i].frag \notin {}
      BY <1>1 DEF RecSound
    <3>2. Updated(doc, obj, rec[i], rec[i])
      BY <1>2, <3>1, SameUpdated
    <3> QED BY <3>2
  <2> QED BY <1>2, <2>1 DEF AllThrough, Through
<1>4. RecSound(doc, obj, open, cap, rec')
  BY <1>1, <1>3, RecsKept
<1>5. StackSound(doc, obj, open, cap, rec', stack)
  <2>1. stack \in Seq(Frames) /\ Len(stack) = 0
    OBVIOUS
  <2> QED BY <2>1, NoFrames
<1>6. todo = {}
  BY NoneDue
<1>7. Typed'
  BY <1>6 DEF IInv, Typed
<1> QED BY <1>1, <1>4, <1>5, <1>7 DEF IInv

LEMMA SubjectGoneSound ==
  ASSUME IInv, SubjectGone
  PROVE  IInv'
<1>1. /\ UNCHANGED <<doc, open, cap, stack, obj, todo>> /\ stack = <<>> /\ val' = Gone
      /\ rec' = [r \in DOMAIN rec |-> Unobserved(rec[r])]
  BY DEF SubjectGone, Idle, Unobserved
<1>2. rec \in Seq(Records)
  BY DEF IInv, Typed
<1>3. ASSUME NEW i \in 1 .. Len(rec) PROVE rec[i] \in Records /\ Unobserved(rec[i]) \in Records
  <2>1. rec[i] \in Records
    BY <1>2
  <2> QED BY <2>1, RecordTyped DEF Freer
<1>4. /\ rec' \in Seq(Records) /\ Len(rec') = Len(rec)
      /\ \A i \in 1 .. Len(rec) : rec'[i] = Unobserved(rec[i])
  BY <1>1, <1>2, <1>3
<1>5. ASSUME NEW i \in 1 .. Len(rec), Updated(doc, obj, rec[i], rec[i])
      PROVE  Updated(doc, obj, rec[i], rec'[i])
  <2>1. rec[i] \in Records /\ rec'[i] = Unobserved(rec[i])
    BY <1>3, <1>4
  <2> HIDE DEF Unobserved
  <2> QED BY <1>5, <2>1, RecordTyped DEF Updated, Freer
<1> QED BY <1>1, <1>4, <1>5, RecordsChange

LEMMA SweepSound ==
  ASSUME IInv, Sweep
  PROVE  IInv'
<1>1. /\ UNCHANGED <<doc, open, cap, stack, obj, todo>> /\ stack = <<>> /\ val' = val
      /\ rec' = [r \in DOMAIN rec |-> IF rec[r].live THEN Swept(rec[r]) ELSE rec[r]]
  BY DEF Sweep, Idle
<1>2. rec \in Seq(Records)
  BY DEF IInv, Typed
<1>3. ASSUME NEW i \in 1 .. Len(rec) PROVE rec[i] \in Records /\ Swept(rec[i]) \in Records
  <2>1. rec[i] \in Records
    BY <1>2
  <2> QED BY <2>1, RecordTyped DEF Freer
<1>4. /\ rec' \in Seq(Records) /\ Len(rec') = Len(rec)
      /\ \A i \in 1 .. Len(rec) : rec'[i] = IF rec[i].live THEN Swept(rec[i]) ELSE rec[i]
  BY <1>1, <1>2, <1>3
<1>5. ASSUME NEW i \in 1 .. Len(rec), Updated(doc, obj, rec[i], rec[i])
      PROVE  Updated(doc, obj, rec[i], rec'[i])
  <2>1. CASE rec[i].live
    <3>1. rec[i] \in Records /\ rec'[i] = Swept(rec[i])
      BY <1>3, <1>4, <2>1
    <3> QED BY <1>5, <2>1, <3>1, RecordTyped DEF Updated, Freer
  <2>2. CASE ~rec[i].live
    BY <1>4, <1>5, <2>2
  <2> QED BY <2>1, <2>2
<1> QED BY <1>1, <1>4, <1>5, RecordsChange
-----------------------------------------------------------------------------
(* Replays.                                                                   *)

LEMMA PlayAgain ==
  ASSUME NEW d, NEW ob, NEW P \in Frames, NEW Q \in Frames, NEW b, NEW frag,
         Plays(d, ob, P, b, frag), P.play.pos = P.play.hi, P.play.left > 0,
         Q.parents = P.parents, Q.play.on = P.play.on, Q.play.events = P.play.events,
         Q.play.lo = P.play.lo, Q.play.hi = P.play.hi, Q.play.pos = P.play.lo,
         Q.play.left = P.play.left - 1, Q.play.nest = 0
  PROVE  Plays(d, ob, Q, b, frag)
<1> DEFINE p == P.play
           q == Q.play
           par == P.parents
<1>1. PICK st : /\ Trace(d, p.events, frag, st) /\ st[p.lo] = <<>> /\ st[p.hi] = <<>>
                /\ p.nest = Len(st[p.pos])
                /\ Stands(d, ob, par, b, Len(par), st[p.pos], p.nest, {frag})
  BY PlayTypes
<1>2. /\ p.hi \in 0 .. Len(p.events) /\ Len(p.events) \in Nat /\ b \in Nat \ {0}
      /\ p.lo \in 0 .. p.hi /\ b \in 1 .. Len(par)
  BY PlayTypes
<1>3. p.left \in Nat /\ p.on
  BY PlayTypes
<1>4. /\ q.on /\ q.left \in Nat /\ q.hi \in 0 .. Len(q.events) /\ q.lo \in 0 .. q.hi
      /\ q.pos \in q.lo .. q.hi /\ (q.left = 0 => q.pos = q.lo)
  BY <1>2, <1>3
<1>5. Stands(d, ob, par, b, Len(par), st[q.pos], q.nest, {frag}) /\ q.nest = Len(st[q.pos])
  <2>1. p.nest = 0 /\ st[p.pos] = <<>> /\ st[q.pos] = <<>> /\ q.nest = 0
    BY <1>1
  <2> QED BY <1>1, <2>1
<1>6. /\ Trace(d, q.events, frag, st) /\ st[q.lo] = <<>> /\ st[q.hi] = <<>>
      /\ q.nest = Len(st[q.pos])
      /\ Stands(d, ob, Q.parents, b, Len(Q.parents), st[q.pos], q.nest, {frag})
  BY <1>1, <1>5
<1>7. /\ b \in 1 .. Len(Q.parents)
      /\ Of(d, ob, Q.parents[b], {}) /\ ob[Q.parents[b]].elem = Cur(d, frag)
  BY DEF Plays
<1> HIDE DEF p, q, par
<1> QED BY <1>4, <1>6, <1>7 DEF Plays, q

\* A frame that replays is the parser's, or a rebuild.
Expands(ob, fr) ==
  /\ fr.kind = "doc" /\ fr.play.rec = Nothing /\ cap.frag \in 1 .. Len(doc)
  /\ Plain(doc, open) /\ Stands(doc, ob, fr.parents, 1, cap.base, open, Len(open), {})
  /\ Plays(doc, ob, fr, cap.base, cap.frag)

LEMMA ReplayingFacts ==
  ASSUME IInv, Replaying
  PROVE  /\ stack # <<>> /\ Top \in Frames /\ FrameSound(doc, obj, open, cap, rec, Top)
         /\ Expands(obj, Top) \/ (Top.kind = "build" /\ BuildFrame(doc, obj, rec, Top))
         /\ Plays(doc, obj, Top, cap.base, cap.frag) \/ Top.kind = "build"
<1>1. /\ stack # <<>> /\ Top \in Frames /\ FrameSound(doc, obj, open, cap, rec, Top)
      /\ Top.play.on
  BY TopFacts DEF Replaying, Idle
<1>2. CASE Top.kind = "doc"
  <2>1. DocFrame(doc, obj, open, cap, Top)
    BY <1>1, <1>2 DEF FrameSound
  <2>2. Expands(obj, Top)
    BY <1>1, <1>2, <2>1 DEF DocFrame, Expands
  <2> QED BY <1>1, <2>2 DEF Expands
<1>3. CASE Top.kind = "build"
  BY <1>1, <1>3 DEF FrameSound
<1>4. Top.kind # "notify"
  BY <1>1 DEF FrameSound
<1>5. Top.kind \in {"doc", "build", "notify"}
  BY <1>1 DEF Frames
<1> QED BY <1>2, <1>3, <1>4, <1>5

\* The frame goes on where what is below its base is kept.
Resumes(d, ob, c, rc, P, fr, b, frag) ==
  /\ fr \in Frames /\ fr.kind = P.kind /\ fr.play.rec = P.play.rec /\ b \in Nat \ {0}
  /\ IF P.kind = "doc" THEN b = c.base /\ frag = c.frag ELSE b = 1 /\ frag = rc[P.play.rec].frag
  /\ Plays(d, ob, fr, b, frag) /\ \A i \in 1 .. b : fr.parents[i] = P.parents[i]
  /\ P.kind = "build" => \A o \in fr.play.roots \cup ({fr.item} \ {Nothing}) :
                            There(ob, o) /\ d[ob[o].elem].frag = frag
LEMMA ReplayedFrame ==
  ASSUME IInv, Replaying, NEW ob, Later(doc, obj, doc, ob, {}), NEW fr, NEW b, NEW frag,
         Resumes(doc, ob, cap, rec, Top, fr, b, frag)
  PROVE  FrameSound(doc, ob, open, cap, rec, fr)
<1> USE DEF Resumes
<1>1. CASE Top.kind = "doc"
  <2>1. Expands(obj, Top) /\ Top \in Frames
    BY <1>1, ReplayingFacts
  <2>2. b = cap.base /\ frag = cap.frag
    BY <1>1
  <2>3. open \in Seq(1 .. Len(doc)) /\ Len(open) \in 0 .. Len(open) /\ Len(open) \in Nat
    BY IInvFacts DEF OpenSound
  <2>4. Stands(doc, ob, Top.parents, 1, b, open, Len(open), {})
    <3>1. Stands(doc, obj, Top.parents, 1, b, open, Len(open), {}) /\ {} \cap {} = {}
      BY <2>1, <2>2 DEF Expands
    <3> QED BY <2>3, <3>1, StandsKept
  <2>5. b <= Len(fr.parents)
    BY DEF Plays, Frames
  <2>6. Stands(doc, ob, fr.parents, 1, b, open, Len(open), {})
    BY <2>3, <2>4, <2>5, StandsSame
  <2>7. DocFrame(doc, ob, open, cap, fr)
    <3>1. fr.play.on /\ fr.play.rec = Nothing /\ cap.frag # Nothing
      BY <2>1, IInvFacts DEF Plays, Expands, Nothing
    <3> QED BY <2>1, <2>2, <2>6, <3>1 DEF DocFrame, Expands
  <2> QED BY <1>1, <2>7 DEF FrameSound
<1>2. CASE Top.kind = "build"
  <2>1. BuildFrame(doc, obj, rec, Top)
    BY <1>2, ReplayingFacts DEF Expands
  <2>2. BuildFrame(doc, ob, rec, fr)
    BY <1>2, <2>1 DEF BuildFrame
  <2> QED BY <1>2, <2>2 DEF FrameSound
<1>3. Top.kind \in {"doc", "build"}
  BY ReplayingFacts DEF Expands
<1> QED BY <1>1, <1>2, <1>3

\* The objects are kept, and with them the records and the frames.
LEMMA ObjectsKept ==
  ASSUME IInv, NEW ob, Later(doc, obj, doc, ob, {})
  PROVE  /\ RecSound(doc, ob, open, cap, rec)
         /\ \A i \in 1 .. Len(stack) : FrameSound(doc, ob, open, cap, rec, stack[i])
<1>1. AllThrough(doc, doc, obj, ob, {}, open, open, cap, cap, rec, rec)
  <2>1. ASSUME NEW i \in 1 .. Len(rec) PROVE Updated(doc, ob, rec[i], rec[i])
    <3>1. RecordSound(doc, obj, rec[i]) /\ rec[i] \in Records /\ rec[i].frag \notin {}
      BY IInvFacts DEF RecSound
    <3> QED BY <3>1, SameUpdated
  <2> QED BY <2>1 DEF AllThrough, Through
<1>2. RecSound(doc, ob, open, cap, rec)
  BY <1>1, IInvFacts, RecsKept
<1>3. ASSUME NEW i \in 1 .. Len(stack) PROVE FrameSound(doc, ob, open, cap, rec, stack[i])
  <2>1. FrameSound(doc, obj, open, cap, rec, stack[i]) /\ stack[i] \in Frames /\ OpenSound(doc, open)
    BY IInvFacts DEF StackSound
  <2> DEFINE x == stack[i].play.rec
  <2>2. stack[i].kind = "build" =>
           /\ x \in 1 .. Len(rec) /\ rec[x].frag = rec[x].frag /\ rec[x].frag \notin {}
           /\ rec[x].live = rec[x].live /\ rec[x].busy = rec[x].busy
    BY <2>1 DEF FrameSound, BuildFrame
  <2> QED BY <2>1, <2>2, FrameKept
<1> QED BY <1>2, <1>3

LEMMA ReplayAgainSound ==
  ASSUME IInv, ReplayAgain
  PROVE  IInv'
<1> DEFINE P == Top
           next == [P.play EXCEPT !.pos = P.play.lo, !.left = @ - 1, !.nest = 0]
           fr == [P EXCEPT !.play = next]
<1>1. /\ UNCHANGED <<doc, open, cap, obj, rec, val, todo>> /\ stack' = WithTop(fr)
      /\ Replaying /\ P.play.left > 0 /\ P.play.pos = P.play.hi
  BY DEF ReplayAgain
<1>2. P \in Frames /\ stack # <<>> /\ P.play \in Replays
  BY <1>1, ReplayingFacts DEF Frames
<1>3. /\ next \in Replays /\ next.on = P.play.on /\ next.rec = P.play.rec
      /\ next.events = P.play.events /\ next.lo = P.play.lo /\ next.hi = P.play.hi
      /\ next.pos = P.play.lo /\ next.left = P.play.left - 1 /\ next.nest = 0
      /\ next.roots = P.play.roots
  <2> DEFINE p == P.play
             left == p.left - 1
             p1 == [p EXCEPT !.pos = p.lo, !.left = left]
  <2>1. p \in Replays /\ left \in Nat
    BY <1>1, <1>2 DEF Replays
  <2> HIDE DEF left, p
  <2>2. /\ p1 \in Replays /\ p1.on = p.on /\ p1.rec = p.rec
        /\ p1.events = p.events /\ p1.lo = p.lo /\ p1.hi = p.hi
        /\ p1.pos = p.lo /\ p1.left = left /\ p1.roots = p.roots
    BY <2>1 DEF Replays
  <2> HIDE DEF p1
  <2>3. next = [p1 EXCEPT !.nest = 0]
    BY DEF p1, p, left
  <2> HIDE DEF next
  <2> QED BY <2>2, <2>3 DEF Replays, p, left
<1> HIDE DEF next
<1>4. /\ fr \in Frames /\ fr.kind = P.kind /\ fr.parents = P.parents /\ fr.item = P.item
      /\ fr.play = next
  BY <1>2, <1>3 DEF Frames
<1> HIDE DEF fr
<1>5. ASSUME NEW b, NEW frag, Plays(doc, obj, P, b, frag)
      PROVE  Plays(doc, obj, fr, b, frag) /\ b \in Nat \ {0}
  <2> HIDE DEF P
  <2>1. b \in Nat \ {0}
    BY <1>2, <1>5, PlayTypes
  <2>2. Plays(doc, obj, fr, b, frag)
    BY <1>1, <1>2, <1>3, <1>4, <1>5, PlayAgain
  <2> QED BY <2>1, <2>2
<1>6. Later(doc, obj, doc, obj, {})
  BY IInvFacts
<1>7. FrameSound(doc, obj, open, cap, rec, fr)
  <2>1. CASE Expands(obj, Top)
    <3>1. Plays(doc, obj, fr, cap.base, cap.frag) /\ cap.base \in Nat \ {0} /\ Top.kind = "doc"
      BY <1>5, <2>1 DEF Expands
    <3>2. Resumes(doc, obj, cap, rec, Top, fr, cap.base, cap.frag)
      BY <1>3, <1>4, <1>6, <3>1 DEF Resumes
    <3> QED BY <1>1, <1>6, <3>2, ReplayedFrame
  <2>2. CASE Top.kind = "build" /\ BuildFrame(doc, obj, rec, Top)
    <3> DEFINE frag == rec[Top.play.rec].frag
    <3>1. /\ Plays(doc, obj, fr, 1, frag) /\ 1 \in Nat \ {0}
          /\ \A o \in fr.play.roots \cup ({fr.item} \ {Nothing}) :
               There(obj, o) /\ doc[obj[o].elem].frag = frag
      BY <1>3, <1>4, <1>5, <2>2 DEF BuildFrame
    <3>2. Resumes(doc, obj, cap, rec, Top, fr, 1, rec[Top.play.rec].frag)
      BY <1>3, <1>4, <1>6, <2>2, <3>1 DEF Resumes
    <3> QED BY <1>1, <1>6, <3>2, ReplayedFrame
  <2> QED BY <1>1, <2>1, <2>2, ReplayingFacts
<1>8. stack' \in Seq(Frames) /\ StackSound(doc, obj, open, cap, rec, stack')
        /\ Len(stack') = Len(stack) /\ \A i \in 1 .. Len(stack) : stack'[i].kind = stack[i].kind
  <2>1. stack \in Seq(Frames) /\ Shape(stack)
          /\ \A i \in 1 .. Len(stack) - 1 : FrameSound(doc, obj, open, cap, rec, stack[i])
    BY IInvFacts DEF StackSound
  <2> QED BY <1>1, <1>2, <1>3, <1>4, <1>7, <2>1, StackReplaced
<1>9. Typed'
  BY <1>1, <1>2, <1>8 DEF IInv, Typed
<1> QED BY <1>1, <1>8, <1>9 DEF IInv

LEMMA PlayOver ==
  ASSUME NEW d, NEW ob, NEW P \in Frames, NEW b, NEW frag,
         Plays(d, ob, P, b, frag), P.play.left = 0
  PROVE  Len(P.parents) = b
<1> DEFINE p == P.play
           par == P.parents
<1>1. PICK st : /\ Trace(d, p.events, frag, st) /\ st[p.lo] = <<>>
                /\ p.nest = Len(st[p.pos])
                /\ Stands(d, ob, par, b, Len(par), st[p.pos], p.nest, {frag})
  BY PlayTypes
<1>2. p.pos = p.lo /\ b \in Nat \ {0}
  BY PlayTypes
<1>3. p.nest = 0
  BY <1>1, <1>2
<1>4. Len(par) = b + Height(d, st[p.pos], Level, 0)
  BY <1>1, <1>3 DEF Stands
<1> QED BY <1>2, <1>4, HeightFacts

\* The records stay behind where the capture is given up.
LEMMA BehindFreed ==
  ASSUME NEW op, NEW c, NEW f \in 1 .. Len(doc), Len(doc) \in Nat, Behind(op, c, f)
  PROVE  Behind(op, NoCapture, f)
  BY NoCaptureTyped DEF Behind, Nothing

LEMMA ReplayDoneSound ==
  ASSUME IInv, ReplayDone
  PROVE  IInv'
<1>1. UNCHANGED <<doc, open, obj, val, todo>> /\ Replaying /\ Top.play.left = 0
  BY DEF ReplayDone
<1>2. Top \in Frames /\ stack # <<>> /\ stack \in Seq(Frames) /\ Shape(stack)
  BY <1>1, ReplayingFacts, IInvFacts DEF StackSound
<1>3. Later(doc, obj, doc, obj, {}) /\ Len(doc) \in Nat /\ DocSound(doc) /\ Grown(doc, doc)
        /\ RecSound(doc, obj, open, cap, rec) /\ OpenSound(doc, open) /\ ObjSound(doc, obj)
  BY IInvFacts
<1>4. CASE Top.kind = "doc"
  <2> DEFINE fr == [Top EXCEPT !.play = NoReplay]
  <2>1. stack' = WithTop(fr) /\ cap' = NoCapture /\ UNCHANGED rec
    BY <1>4 DEF ReplayDone
  <2>2. /\ fr \in Frames /\ fr.kind = Top.kind /\ fr.parents = Top.parents /\ fr.play = NoReplay
    BY <1>2, NoReplayTyped DEF Frames
  <2> HIDE DEF fr
  <2>3. Expands(obj, Top)
    BY <1>1, <1>4, ReplayingFacts
  <2>4. Len(fr.parents) = cap.base
    BY <1>1, <1>2, <2>2, <2>3, PlayOver DEF Expands
  <2>5. DocFrame(doc, obj, open, cap', fr)
    BY <2>1, <2>2, <2>3, <2>4, NoCaptureTyped, NoReplayTyped DEF DocFrame, Expands
  <2>6. FrameSound(doc, obj, open, cap', rec, fr)
    BY <1>4, <2>2, <2>5 DEF FrameSound
  <2>7. Len(stack) = 1
    BY <1>2, <1>4, TopFacts
  <2>8. stack' \in Seq(Frames) /\ StackSound(doc, obj, open, cap', rec, stack')
          /\ Len(stack') = Len(stack) /\ \A i \in 1 .. Len(stack) : stack'[i].kind = stack[i].kind
    <3>1. \A i \in 1 .. Len(stack) - 1 : FrameSound(doc, obj, open, cap', rec, stack[i])
      BY <2>7
    <3>2. fr.play.rec = Top.play.rec
      BY <2>2, <2>3, NoReplayTyped DEF Expands
    <3> QED BY <1>2, <2>1, <2>2, <2>6, <3>1, <3>2, StackReplaced
  <2>9. RecSound(doc, obj, open, cap', rec)
    <3>1. AllThrough(doc, doc, obj, obj, {}, open, open, cap, cap', rec, rec)
      <4>1. ASSUME NEW i \in 1 .. Len(rec)
            PROVE  Updated(doc, obj, rec[i], rec[i])
                     /\ (Behind(open, cap, rec[i].frag) => Behind(open, cap', rec[i].frag))
        <5>1. RecordSound(doc, obj, rec[i]) /\ rec[i] \in Records /\ rec[i].frag \notin {}
          BY <1>3, IInvFacts DEF RecSound
        <5>2. rec[i].frag \in 1 .. Len(doc)
          BY <5>1 DEF RecordSound, Body
        <5> QED BY <1>3, <2>1, <5>1, <5>2, SameUpdated, BehindFreed
      <4> QED BY <1>3, <4>1 DEF AllThrough, Through
    <3> QED BY <1>3, <3>1, RecsKept
  <2>10. Typed'
    BY <1>1, <1>2, <2>1, <2>8, NoCaptureTyped DEF IInv, Typed
  <2> QED BY <1>1, <1>3, <2>1, <2>8, <2>9, <2>10 DEF IInv
<1>5. CASE Top.kind = "build"
  <2> DEFINE k == Top.play.rec
             roots == Top.play.roots
             new == [rec[k] EXCEPT !.roots = roots, !.busy = FALSE]
  <2>1. stack' = Front(stack) /\ rec' = [rec EXCEPT ![k] = new] /\ UNCHANGED cap
    BY <1>5 DEF ReplayDone
  <2>2. BuildFrame(doc, obj, rec, Top)
    BY <1>1, <1>5, ReplayingFacts DEF Expands
  <2>3. /\ k \in 1 .. Len(rec) /\ rec \in Seq(Records) /\ rec[k] \in Records
        /\ roots \in SUBSET Ids
        /\ rec[k].live /\ \A o \in roots : There(obj, o) /\ doc[obj[o].elem].frag = rec[k].frag
    <3>1. k \in 1 .. Len(rec) /\ rec[k].live
            /\ \A o \in roots : There(obj, o) /\ doc[obj[o].elem].frag = rec[k].frag
      BY <2>2 DEF BuildFrame
    <3>2. rec \in Seq(Records) /\ roots \in SUBSET Ids
      BY <1>2, IInvFacts DEF Frames, Replays
    <3> QED BY <3>1, <3>2
  <2> HIDE DEF k, roots
  <2>4. /\ new \in Records /\ new.frag = rec[k].frag /\ new.parent = rec[k].parent
        /\ new.events = rec[k].events /\ new.split = rec[k].split
        /\ new.live = rec[k].live /\ new.hook = rec[k].hook /\ new.obs = rec[k].obs
        /\ new.roots = roots
    BY <2>3 DEF Records
  <2> HIDE DEF new
  <2>5. /\ rec' \in Seq(Records) /\ Len(rec') = Len(rec) /\ rec'[k] = new
        /\ \A i \in 1 .. Len(rec) : i # k => rec'[i] = rec[i]
    BY <2>1, <2>3, <2>4
  <2>6. ASSUME NEW i \in 1 .. Len(rec) PROVE Updated(doc, obj, rec[i], rec'[i])
    <3>1. RecordSound(doc, obj, rec[i]) /\ rec[i] \in Records /\ rec[i].frag \notin {}
      BY <1>3, <2>3 DEF RecSound
    <3>2. Updated(doc, obj, rec[i], rec[i])
      BY <1>3, <3>1, SameUpdated
    <3>3. CASE i = k
      BY <2>3, <2>4, <2>5, <3>1, <3>2, <3>3 DEF Updated, RecordSound
    <3>4. CASE i # k
      BY <2>5, <3>2, <3>4
    <3> QED BY <3>3, <3>4
  <2>7. RecSound(doc, obj, open, cap, rec')
    <3>1. AllThrough(doc, doc, obj, obj, {}, open, open, cap, cap, rec, rec')
      BY <1>3, <2>5, <2>6 DEF AllThrough, Through
    <3> QED BY <1>3, <3>1, RecsKept
  <2>8. ASSUME NEW i \in 1 .. Len(stack) - 1
        PROVE  FrameSound(doc, obj, open, cap, rec', stack[i])
    <3>1. /\ Len(stack) \in Nat \ {0} /\ i \in 1 .. Len(stack) /\ i # Len(stack)
          /\ Len(stack) \in 1 .. Len(stack) /\ Top = stack[Len(stack)]
      BY <1>2, TopFacts
    <3>2. FrameSound(doc, obj, open, cap, rec, stack[i]) /\ stack[i] \in Frames
      BY <3>1, IInvFacts DEF StackSound
    <3> DEFINE x == stack[i].play.rec
    <3>3. stack[i].kind = "build" => x \in 1 .. Len(rec) /\ x # k
      BY <1>2, <1>5, <3>1, <3>2 DEF Shape, FrameSound, BuildFrame, k
    <3>4. stack[i].kind = "build" =>
             /\ x \in 1 .. Len(rec') /\ rec'[x].frag = rec[x].frag /\ rec[x].frag \notin {}
             /\ rec'[x].live = rec[x].live /\ rec'[x].busy = rec[x].busy
      BY <2>5, <3>3
    <3> QED BY <1>3, <3>2, <3>4, FrameKept
  <2>9. stack' \in Seq(Frames) /\ StackSound(doc, obj, open, cap, rec', stack')
    BY <1>2, <2>1, <2>8, StackPopped
  <2>10. Typed'
    <3>1. todo' \subseteq {r \in 1 .. Len(rec') : rec'[r].obs}
      BY <1>1, <2>4, <2>5 DEF IInv, Typed
    <3>2. todo # {} => \E i \in 1 .. Len(stack') : stack'[i].kind = "notify"
      <4>1. /\ Len(stack) \in Nat \ {0} /\ Top = stack[Len(stack)]
            /\ Len(Front(stack)) = Len(stack) - 1
            /\ \A i \in 1 .. Len(stack) - 1 : Front(stack)[i] = stack[i]
        BY <1>2, TopFacts, FrontFacts
      <4>2. ASSUME NEW i \in 1 .. Len(stack), stack[i].kind = "notify"
            PROVE  i \in 1 .. Len(stack') /\ stack'[i].kind = "notify"
        BY <1>5, <2>1, <4>1, <4>2
      <4> QED BY <4>2 DEF IInv, Typed
    <3>3. val' \in Values /\ cap' \in Captures
      BY <1>1, <1>2, <2>1 DEF IInv, Typed
    <3> QED BY <1>1, <2>5, <2>9, <3>1, <3>2, <3>3 DEF Typed
  <2> QED BY <1>1, <1>3, <2>1, <2>7, <2>9, <2>10 DEF IInv
<1> QED BY <1>4, <1>5 DEF ReplayDone

LEMMA NewIdFree ==
  ASSUME Free # {}
  PROVE  NewId \in Ids /\ obj[NewId].elem = Nothing
<1>1. Free \in SUBSET Nat
  BY DEF Free, Ids
<1>2. \E o \in Free : \A x \in Free : o <= x
  BY <1>1, Least
<1>3. NewId \in Free
  BY <1>2 DEF NewId
<1> QED BY <1>3 DEF Free

\* A tag creates a widget below the top entry of the parents, or no object.
Creates(d, ob, top, e, kind) ==
  /\ DocSound(d) /\ ObjSound(d, ob) /\ e \in 1 .. Len(d) /\ kind = d[e].kind
  /\ Of(d, ob, top, {d[e].frag}) /\ ob[top].elem = d[e].enc
HasNew(d, ob, ob2, e, kind, o) ==
  /\ ObjSound(d, ob2) /\ Kept(d, ob, ob2, {})
  /\ kind = "obj" => There(ob2, o) /\ ob2[o].elem = e
LEMMA CreatedSound ==
  ASSUME NEW d, Free # {}, NEW P, NEW e, NEW kind, NEW ob2, ob2 = Created(P, e, kind),
         Creates(d, obj, Last(P.parents), e, kind)
  PROVE  HasNew(d, obj, ob2, e, kind, NewId)
<1> USE DEF Creates, HasNew
<1> DEFINE top == Last(P.parents)
<1>1. CASE kind # "obj"
  BY <1>1 DEF Created, Kept
<1>2. CASE kind = "obj"
  <2>1. top # Outer
    BY DEF Of, There, Outer, Ids
  <2>2. Created(P, e, kind) = Made(obj, NewId, e, top)
    BY <1>2, <2>1 DEF Created, Made
  <2> HIDE DEF top
  <2>3. Of(d, obj, top, {d[e].frag}) /\ obj[top].elem = d[e].enc
    BY DEF top
  <2>4. NewId \in Ids /\ obj[NewId].elem = Nothing
    BY NewIdFree
  <2> QED BY <1>2, <2>2, <2>3, <2>4, MadeSound
<1> QED BY <1>1, <1>2

\* What a start tag pushes.
Pushable(d, ob, P, e, kind, frag, o) ==
  /\ P \in Frames /\ P.parents # <<>> /\ o \in Ids
  /\ kind = d[e].kind /\ kind \in {"obj", "unknown", "else"}
  /\ Of(d, ob, Last(P.parents), {frag}) /\ ob[Last(P.parents)].elem = d[e].enc
  /\ kind = "obj" => Of(d, ob, o, {frag}) /\ ob[o].elem = e
Pushes(d, ob, P, Q, e, kind, frag, o) ==
  /\ Q \in Frames /\ Q.kind = P.kind /\ Q.play = P.play /\ Entered(d, ob, P, Q, e, frag)
  /\ Q.item = P.item \/ Q.item = Nothing \/ (kind = "obj" /\ Q.item = o)
LEMMA PushedFacts ==
  ASSUME NEW d, NEW ob, NEW P, NEW e, NEW frag, NEW kind, NEW Q, Q = Pushed(P, kind),
         Pushable(d, ob, P, e, kind, frag, NewId)
  PROVE  Pushes(d, ob, P, Q, e, kind, frag, NewId)
<1> USE DEF Entered, Pushable, Pushes
<1> DEFINE par == P.parents
           top == Last(par)
<1>1. /\ par \in Seq(Ids \cup {Outer}) /\ Len(par) \in Nat \ {0} /\ top = par[Len(par)]
      /\ top \in Ids \cup {Outer} /\ P.item \in Ids \cup {Nothing} /\ P.play \in Replays
  BY DEF Frames, Last
<1>2. CASE kind = "obj"
  <2> DEFINE R == [P EXCEPT !.item = NewId, !.parents = Append(@, NewId)]
  <2>1. Q = R
    BY <1>2 DEF Pushed
  <2>2. /\ R.kind = P.kind /\ R.play = P.play /\ R.item = NewId /\ R.parents = Append(par, NewId)
        /\ R \in Frames
    <3> DEFINE a == Append(par, NewId)
               S == [P EXCEPT !.item = NewId, !.parents = a]
    <3>1. a \in Seq(Ids \cup {Outer}) /\ R = S
      BY <1>1
    <3> HIDE DEF a, R
    <3>2. /\ S.kind = P.kind /\ S.play = P.play /\ S.item = NewId /\ S.parents = a
          /\ S \in Frames
      BY <3>1 DEF Frames
    <3> QED BY <3>1, <3>2 DEF a
  <2> HIDE DEF R
  <2>3. /\ Len(Append(par, NewId)) = Len(par) + 1
        /\ \A i \in 1 .. Len(par) : Append(par, NewId)[i] = par[i]
        /\ Append(par, NewId)[Len(par) + 1] = NewId
    BY <1>1
  <2>4. Cur(d, e) = e /\ d[e].kind \in Level
    BY <1>2 DEF Cur, Level
  <2> QED BY <1>1, <1>2, <2>1, <2>2, <2>3, <2>4
<1>3. CASE kind = "unknown"
  <2> DEFINE R == [P EXCEPT !.item = Nothing, !.parents = Append(@, Last(@))]
  <2>1. Q = R
    BY <1>3 DEF Pushed
  <2>2. /\ R.kind = P.kind /\ R.play = P.play /\ R.item = Nothing /\ R.parents = Append(par, top)
        /\ R \in Frames
    <3> DEFINE a == Append(par, top)
               S == [P EXCEPT !.item = Nothing, !.parents = a]
    <3>1. a \in Seq(Ids \cup {Outer}) /\ R = S
      BY <1>1
    <3> HIDE DEF a, R
    <3>2. /\ S.kind = P.kind /\ S.play = P.play /\ S.item = Nothing /\ S.parents = a
          /\ S \in Frames
      BY <3>1 DEF Frames
    <3> QED BY <3>1, <3>2 DEF a
  <2> HIDE DEF R
  <2>3. /\ Len(Append(par, top)) = Len(par) + 1
        /\ \A i \in 1 .. Len(par) : Append(par, top)[i] = par[i]
        /\ Append(par, top)[Len(par) + 1] = top
    BY <1>1
  <2>4. Cur(d, e) = d[e].enc /\ d[e].kind \in Level
    BY <1>3 DEF Cur, Level
  <2> QED BY <1>1, <1>3, <2>1, <2>2, <2>3, <2>4
<1>4. CASE kind = "else"
  <2>1. Q = P
    BY <1>4 DEF Pushed
  <2>2. Cur(d, e) = d[e].enc /\ d[e].kind \notin Level
    BY <1>4 DEF Cur, Level
  <2> QED BY <1>1, <1>4, <2>1, <2>2
<1> QED BY <1>2, <1>3, <1>4

\* What an end tag pops.
LEMMA PoppedFacts ==
  ASSUME NEW d, NEW P \in Frames, NEW e, NEW kind, NEW Q, Q = Popped(P, kind),
         kind = d[e].kind, kind \in {"obj", "unknown", "else"}, P.parents # <<>>
  PROVE  Q \in Frames /\ Q.kind = P.kind /\ Q.play = P.play /\ Q.item = P.item /\ Left(d, P, Q, e)
<1> USE DEF Left
<1> DEFINE par == P.parents
<1>1. par \in Seq(Ids \cup {Outer}) /\ Len(par) \in Nat \ {0}
  BY DEF Frames
<1>2. CASE kind = "else"
  <2>1. Q = P /\ kind \notin Level
    BY <1>2 DEF Popped, Level
  <2> QED BY <1>1, <2>1
<1>3. CASE kind # "else"
  <2> DEFINE R == [P EXCEPT !.parents = Front(@)]
  <2>1. Q = R /\ kind \in Level
    BY <1>3 DEF Popped, Level
  <2>2. /\ Front(par) \in Seq(Ids \cup {Outer}) /\ Len(Front(par)) = Len(par) - 1
        /\ \A i \in 1 .. Len(par) - 1 : Front(par)[i] = par[i]
    BY <1>1, FrontFacts
  <2>3. R \in Frames /\ R.kind = P.kind /\ R.play = P.play /\ R.item = P.item /\ R.parents = Front(par)
    BY <2>2 DEF Frames
  <2> HIDE DEF R
  <2> QED BY <1>1, <2>1, <2>2, <2>3
<1> QED BY <1>2, <1>3

\* The play of a frame after one more event.
Advanced(play, nest, roots) == [play EXCEPT !.pos = @ + 1, !.nest = nest, !.roots = roots]
Advances(p, q, nest, roots) ==
  /\ q \in Replays /\ q.on = p.on /\ q.rec = p.rec /\ q.events = p.events /\ q.left = p.left
  /\ q.lo = p.lo /\ q.hi = p.hi /\ q.pos = p.pos + 1 /\ q.nest = nest /\ q.roots = roots
LEMMA AdvancedIs ==
  ASSUME NEW p \in Replays, NEW nest \in Nat, NEW roots \in SUBSET Ids, NEW q,
         q = Advanced(p, nest, roots)
  PROVE  Advances(p, q, nest, roots)
<1> DEFINE p1 == [p EXCEPT !.pos = @ + 1]
           p2 == [p1 EXCEPT !.nest = nest, !.roots = roots]
<1>1. /\ p1 \in Replays /\ p1.on = p.on /\ p1.rec = p.rec /\ p1.events = p.events
      /\ p1.left = p.left /\ p1.lo = p.lo /\ p1.hi = p.hi /\ p1.pos = p.pos + 1
  BY DEF Replays
<1>2. q = p2
  BY DEF Advanced
<1> HIDE DEF p1
<1>3. /\ p2 \in Replays /\ p2.on = p1.on /\ p2.rec = p1.rec /\ p2.events = p1.events
      /\ p2.left = p1.left /\ p2.lo = p1.lo /\ p2.hi = p1.hi /\ p2.pos = p1.pos
      /\ p2.nest = nest /\ p2.roots = roots
  BY <1>1 DEF Replays
<1> HIDE DEF p2
<1> QED BY <1>1, <1>2, <1>3 DEF Advances

LEMMA ReplaySound ==
  ASSUME IInv, Replay
  PROVE  IInv'
<1> DEFINE P == Top
           p == P.play
           par == P.parents
           ev == p.events[p.pos + 1]
           e == ev.elem
           kind == doc[e].kind
           Q == IF ev.end THEN Popped(P, kind) ELSE Pushed(P, kind)
           root == ~ev.end /\ p.nest = 0 /\ p.rec # Nothing /\ Q.item # Nothing
           nest == IF ev.end THEN p.nest - 1 ELSE p.nest + 1
           roots == IF root THEN p.roots \cup {Q.item} ELSE p.roots
           next == Advanced(p, nest, roots)
           fr == [Q EXCEPT !.play = next]
           b == IF P.kind = "doc" THEN cap.base ELSE 1
           frag == IF P.kind = "doc" THEN cap.frag ELSE rec[p.rec].frag
<1>1. /\ UNCHANGED <<doc, open, cap, rec, val, todo>> /\ Replaying /\ Free # {}
      /\ p.left > 0 /\ p.pos < p.hi
      /\ obj' = IF ev.end THEN obj ELSE Created(P, e, kind)
      /\ stack' = WithTop(fr)
  <2>1. [p EXCEPT !.pos = @ + 1, !.nest = IF ev.end THEN @ - 1 ELSE @ + 1,
                  !.roots = IF root THEN @ \cup {Q.item} ELSE @] = next
    <3>1. P \in Frames /\ p \in Replays
      BY ReplayingFacts DEF Replay, Frames
    <3> HIDE DEF P, ev, Q, root, p
    <3> QED BY <3>1 DEF Advanced, Replays
  <2> QED BY <2>1 DEF Replay
<1>2. P \in Frames /\ stack # <<>> /\ p \in Replays /\ FrameSound(doc, obj, open, cap, rec, P)
  BY <1>1, ReplayingFacts DEF Frames
<1>3. /\ P.kind = "doc" => Expands(obj, P)
      /\ P.kind # "doc" => P.kind = "build" /\ BuildFrame(doc, obj, rec, P)
  BY <1>1, ReplayingFacts DEF Expands
<1>4. Plays(doc, obj, P, b, frag) /\ frag # Nothing
  <2>1. CASE P.kind = "doc"
    BY <1>3, <2>1, IInvFacts DEF Expands, Nothing
  <2>2. CASE P.kind # "doc"
    <3>1. rec[p.rec].frag # Nothing
      BY <1>3, <2>2, IInvFacts DEF BuildFrame, RecSound, RecordSound, Body, Nothing
    <3> QED BY <1>3, <2>2, <3>1 DEF BuildFrame
  <2> QED BY <2>1, <2>2
<1>5. /\ Len(par) \in Nat \ {0} /\ par # <<>> /\ par \in Seq(Ids \cup {Outer})
      /\ b \in Nat \ {0} /\ b \in 1 .. Len(par)
      /\ Last(par) = par[Len(par)] /\ Of(doc, obj, par[Len(par)], {frag})
      /\ e \in 1 .. Len(doc) /\ kind \notin Fragment
      /\ ~ev.end => doc[e].frag = frag /\ obj[par[Len(par)]].elem = doc[e].enc
      /\ ev.end => p.nest \in Nat \ {0}
      /\ p.nest \in Nat
  <2>1. par \in Seq(Ids \cup {Outer})
    BY <1>2 DEF Frames
  <2>2. b \in Nat \ {0} /\ b \in 1 .. Len(par) /\ p.nest \in Nat
    <3> HIDE DEF P, b, frag
    <3> QED BY <1>2, <1>4, PlayTypes
  <2>3. /\ Of(doc, obj, par[Len(par)], {frag})
        /\ e \in 1 .. Len(doc) /\ kind \notin Fragment
        /\ ~ev.end => doc[e].frag = frag /\ obj[par[Len(par)]].elem = doc[e].enc
        /\ ev.end => p.nest \in Nat \ {0}
    <3> HIDE DEF P, b, frag
    <3> QED BY <1>1, <1>2, <1>4, PlayTop, ZenonT(40)
  <2>4. Len(par) \in Nat \ {0} /\ par # <<>>
    <3> HIDE DEF P, p, b, frag, par
    <3> QED BY <2>1, <2>2
  <2>5. Last(par) = par[Len(par)]
    BY DEF Last
  <2> HIDE DEF P, p, b, frag, par, e, ev, kind
  <2> QED BY <2>1, <2>2, <2>3, <2>4, <2>5
<1>6. kind \in {"obj", "unknown", "else"} /\ DocSound(doc)
  <2>1. doc[e] \in Elements /\ DocSound(doc)
    <3> HIDE DEF P, p, b, frag, par, e, ev, kind
    <3>1. DocSound(doc)
      BY IInvFacts
    <3>2. doc \in Seq(Elements) /\ e \in 1 .. Len(doc)
      BY <1>5, <3>1 DEF DocSound
    <3> QED BY <3>1, <3>2
  <2> QED BY <1>5, <2>1 DEF Elements, Kinds, Fragment
<1> HIDE DEF P, b, frag
<1>7. /\ ObjSound(doc, obj') /\ Later(doc, obj, doc, obj', {})
      /\ ~ev.end /\ kind = "obj" => There(obj', NewId) /\ obj'[NewId].elem = e
  <2>1. CASE ev.end
    BY <1>1, <2>1, IInvFacts
  <2>2. CASE ~ev.end
    <3>1. /\ ObjSound(doc, obj') /\ Kept(doc, obj, obj', {})
          /\ kind = "obj" => There(obj', NewId) /\ obj'[NewId].elem = e
      <4>1. /\ obj' = Created(P, e, kind) /\ Of(doc, obj, Last(P.parents), {doc[e].frag})
            /\ obj[Last(P.parents)].elem = doc[e].enc /\ ObjSound(doc, obj) /\ e \in 1 .. Len(doc)
        BY <1>1, <1>5, <2>2, IInvFacts
      <4>2. kind = doc[e].kind /\ Free # {}
        BY <1>1
      <4>3. Creates(doc, obj, Last(P.parents), e, kind)
        BY <1>6, <4>1, <4>2 DEF Creates
      <4> HIDE DEF e, kind
      <4>4. HasNew(doc, obj, obj', e, kind, NewId)
        BY <4>1, <4>2, <4>3, CreatedSound
      <4> QED BY <4>4 DEF HasNew
    <3>2. Later(doc, obj, doc, obj', {})
      BY <3>1, IInvFacts DEF Later
    <3> QED BY <3>1, <3>2
  <2> QED BY <2>1, <2>2
<1>8. Plays(doc, obj', P, b, frag)
  BY <1>2, <1>4, <1>7, PlaysKept
<1>9. Of(doc, obj', par[Len(par)], {frag}) /\ obj'[par[Len(par)]].elem = obj[par[Len(par)]].elem
  <2>1. {frag} \cap {} = {}
    OBVIOUS
  <2>2. Later(doc, obj, doc, obj', {}) /\ Of(doc, obj, par[Len(par)], {frag})
    BY <1>5, <1>7
  <2> HIDE DEF par
  <2> QED BY <2>1, <2>2, OfKept
<1>10. /\ Q \in Frames /\ Q.kind = P.kind /\ Q.play = p
       /\ ev.end => Left(doc, P, Q, e)
       /\ ~ev.end => Entered(doc, obj', P, Q, e, frag)
       /\ Q.item = P.item \/ Q.item = Nothing \/ (~ev.end /\ kind = "obj" /\ Q.item = NewId)
  <2>0. kind = doc[e].kind
    OBVIOUS
  <2>1. CASE ev.end
    <3>1. Q = Popped(P, kind)
      BY <2>1
    <3> HIDE DEF kind, Q, e, ev
    <3> QED BY <1>2, <1>5, <1>6, <2>0, <2>1, <3>1, PoppedFacts
  <2>2. CASE ~ev.end
    <3>1. Q = Pushed(P, kind)
      BY <2>2
    <3>2. NewId \in Ids
      BY <1>1, NewIdFree
    <3>3. kind = "obj" => Of(doc, obj', NewId, {frag}) /\ obj'[NewId].elem = e
      BY <1>5, <1>7, <2>2 DEF Of
    <3>4. Of(doc, obj', Last(P.parents), {frag}) /\ obj'[Last(P.parents)].elem = doc[e].enc
      BY <1>5, <1>9, <2>2
    <3>5. Pushable(doc, obj', P, e, kind, frag, NewId)
      <4> HIDE DEF kind, e, ev, p
      <4> QED BY <1>2, <1>5, <1>6, <2>0, <3>2, <3>3, <3>4 DEF Pushable
    <3> HIDE DEF kind, Q, e, ev, p
    <3>6. Pushes(doc, obj', P, Q, e, kind, frag, NewId)
      BY <3>1, <3>5, PushedFacts
    <3>7. Q.play = p
      BY <3>6 DEF Pushes, p
    <3> QED BY <2>2, <3>6, <3>7 DEF Pushes
  <2> QED BY <2>1, <2>2
<1> HIDE DEF Q
<1>11. nest \in Nat /\ roots \in SUBSET Ids
  <2>1. nest \in Nat
    BY <1>5, SMTT(40)
  <2>2. p.roots \in SUBSET Ids /\ Q.item \in Ids \cup {Nothing}
    BY <1>2, <1>10 DEF Replays, Frames
  <2> QED BY <2>1, <2>2
<1> HIDE DEF nest, roots
<1>12. /\ next \in Replays /\ next.roots = roots /\ next.nest = nest /\ next.pos = p.pos + 1
       /\ next.on = p.on /\ next.rec = p.rec /\ next.events = p.events /\ next.left = p.left
       /\ next.lo = p.lo /\ next.hi = p.hi
  <2> HIDE DEF p, next
  <2>1. Advances(p, next, nest, roots)
    BY <1>2, <1>11, AdvancedIs DEF next
  <2> QED BY <2>1 DEF Advances
<1> HIDE DEF next
<1>13. /\ fr \in Frames /\ fr.kind = P.kind /\ fr.parents = Q.parents /\ fr.item = Q.item
       /\ fr.play = next
  BY <1>10, <1>12 DEF Frames
<1> HIDE DEF fr
<1>14. Plays(doc, obj', fr, b, frag)
  <2>1. Next1(P, fr, nest)
    BY <1>1, <1>12, <1>13 DEF Next1
  <2>2. CASE ev.end
    <3>1. Left(doc, P, fr, e) /\ nest = p.nest - 1
      BY <1>10, <1>13, <2>2 DEF Left, nest
    <3> QED BY <1>2, <1>8, <1>13, <2>1, <2>2, <3>1, PlayEnds
  <2>3. CASE ~ev.end
    <3>1. Entered(doc, obj', P, fr, e, frag) /\ nest = p.nest + 1
      BY <1>10, <1>13, <2>3 DEF Entered, nest
    <3> QED BY <1>2, <1>8, <1>13, <2>1, <2>3, <3>1, PlayStarts
  <2> QED BY <2>2, <2>3
<1>15. \A i \in 1 .. b : fr.parents[i] = P.parents[i]
  <2>1. b \in 1 .. Len(fr.parents) /\ Len(fr.parents) \in Nat
    BY <1>13, <1>14 DEF Plays, Frames
  <2>2. b \in 1 .. Len(par) /\ Len(par) \in Nat /\ fr.parents = Q.parents
    BY <1>5, <1>13
  <2>3. CASE ev.end
    <3>1. \A i \in 1 .. Len(Q.parents) : Q.parents[i] = par[i]
      BY <1>10, <2>3 DEF Left
    <3> HIDE DEF par
    <3>2. \A i \in 1 .. b : Q.parents[i] = par[i]
      BY <2>1, <2>2, <3>1
    <3> QED BY <2>2, <3>2 DEF par
  <2>4. CASE ~ev.end
    <3>1. \A i \in 1 .. Len(par) : Q.parents[i] = par[i]
      BY <1>10, <2>4 DEF Entered
    <3> HIDE DEF par
    <3>2. \A i \in 1 .. b : Q.parents[i] = par[i]
      BY <2>2, <3>1
    <3> QED BY <2>2, <3>2 DEF par
  <2> QED BY <2>3, <2>4
<1>16. P.kind = "build" => \A o \in fr.play.roots \cup ({fr.item} \ {Nothing}) :
                             There(obj', o) /\ doc[obj'[o].elem].frag = frag
  <2> SUFFICES ASSUME P.kind = "build",
                      NEW o, o \in fr.play.roots \/ (o = fr.item /\ o # Nothing)
               PROVE  There(obj', o) /\ doc[obj'[o].elem].frag = frag
    OBVIOUS
  <2>1. frag = rec[p.rec].frag
    BY DEF frag
  <2>2. ASSUME o \in p.roots \/ (o = P.item /\ o # Nothing)
        PROVE  There(obj', o) /\ doc[obj'[o].elem].frag = frag
    <3>1. There(obj, o) /\ doc[obj[o].elem].frag = frag
      BY <1>3, <2>1, <2>2 DEF BuildFrame
    <3>2. doc[obj[o].elem].frag \notin {}
      OBVIOUS
    <3>3. There(obj', o) /\ obj'[o].elem = obj[o].elem
      BY <1>7, <3>1 DEF Later, Kept, There
    <3> QED BY <3>1, <3>3
  <2>3. o \in p.roots \/ (o = Q.item /\ o # Nothing)
    BY <1>12, <1>13 DEF roots
  <2>4. CASE ~ev.end /\ kind = "obj" /\ o = NewId
    BY <1>5, <1>7, <2>4
  <2> QED BY <1>10, <2>2, <2>3, <2>4
<1>17. FrameSound(doc, obj', open, cap, rec, fr)
  <2>1. /\ IF Top.kind = "doc" THEN b = cap.base /\ frag = cap.frag
           ELSE b = 1 /\ frag = rec[Top.play.rec].frag
        /\ fr.kind = Top.kind /\ fr.play.rec = Top.play.rec
        /\ \A i \in 1 .. b : fr.parents[i] = Top.parents[i]
        /\ Top.kind = "build" => \A o \in fr.play.roots \cup ({fr.item} \ {Nothing}) :
                                   There(obj', o) /\ doc[obj'[o].elem].frag = frag
    BY <1>12, <1>13, <1>15, <1>16 DEF P, b, frag
  <2>2. Resumes(doc, obj', cap, rec, Top, fr, b, frag)
    BY <1>5, <1>13, <1>14, <2>1 DEF Resumes
  <2> QED BY <1>1, <1>7, <2>2, ReplayedFrame
<1>18. /\ RecSound(doc, obj', open, cap, rec)
       /\ \A i \in 1 .. Len(stack) : FrameSound(doc, obj', open, cap, rec, stack[i])
  BY <1>7, ObjectsKept
<1>19. stack' \in Seq(Frames) /\ StackSound(doc, obj', open, cap, rec, stack')
         /\ Len(stack') = Len(stack) /\ \A i \in 1 .. Len(stack) : stack'[i].kind = stack[i].kind
  <2>1. stack \in Seq(Frames) /\ Shape(stack) /\ fr.kind = Top.kind /\ fr.play.rec = Top.play.rec
    BY <1>12, <1>13, IInvFacts DEF StackSound, P
  <2>2. \A i \in 1 .. Len(stack) - 1 : FrameSound(doc, obj', open, cap, rec, stack[i])
    BY <1>2, <1>18, TopFacts
  <2> QED BY <1>1, <1>2, <1>13, <1>17, <2>1, <2>2, StackReplaced
<1>20. Typed'
  BY <1>1, <1>2, <1>19 DEF IInv, Typed
<1> QED BY <1>1, <1>7, <1>18, <1>19, <1>20, IInvFacts DEF IInv
-----------------------------------------------------------------------------
(* Between two tags of the document: the end of a fragment.                   *)

LEMMA OpenFront ==
  ASSUME NEW d, NEW op, Len(d) \in Nat, OpenSound(d, op), op # <<>>
  PROVE  /\ OpenSound(d, Front(op)) /\ Len(Front(op)) = Len(op) - 1 /\ Len(op) \in Nat \ {0}
         /\ \A i \in 1 .. Len(op) - 1 : Front(op)[i] = op[i]
<1>1. /\ op \in Seq(1 .. Len(d)) /\ (op # <<>> => op[1] = 1)
      /\ \A i, j \in 1 .. Len(op) : i < j => op[i] < op[j]
  BY DEF OpenSound
<1> DEFINE f == Front(op)
<1>2. /\ f \in Seq(1 .. Len(d)) /\ Len(f) = Len(op) - 1 /\ Len(op) \in Nat \ {0}
      /\ \A i \in 1 .. Len(op) - 1 : f[i] = op[i]
  BY <1>1, FrontFacts
<1> HIDE DEF f
<1>3. f # <<>> => f[1] = 1
  BY <1>1, <1>2
<1>4. \A i, j \in 1 .. Len(f) : i < j => f[i] < f[j]
  <2> SUFFICES ASSUME NEW i \in 1 .. Len(f), NEW j \in 1 .. Len(f), i < j PROVE f[i] < f[j]
    OBVIOUS
  <2>1. /\ i \in 1 .. Len(op) - 1 /\ j \in 1 .. Len(op) - 1
        /\ i \in 1 .. Len(op) /\ j \in 1 .. Len(op)
    BY <1>2
  <2>2. op[i] < op[j] /\ f[i] = op[i] /\ f[j] = op[j]
    BY <1>1, <1>2, <2>1
  <2> QED BY <2>2
<1>5. ASSUME NEW i \in 1 .. Len(f)
      PROVE  \E j \in 1 .. i : /\ f[j] = Cur(d, f[i]) /\ d[f[j]].kind = "obj"
                                /\ \A x \in j + 1 .. i : d[f[x]].kind # "obj"
  <2>1. i \in 1 .. Len(op) /\ i \in 1 .. Len(op) - 1 /\ f[i] = op[i]
    BY <1>2
  <2>2. PICK j \in 1 .. i : /\ op[j] = Cur(d, op[i]) /\ d[op[j]].kind = "obj"
                            /\ \A x \in j + 1 .. i : d[op[x]].kind # "obj"
    BY <2>1 DEF OpenSound
  <2>3. ASSUME NEW x \in 1 .. i PROVE f[x] = op[x]
    <3>1. x \in 1 .. Len(op) - 1
      BY <1>2, <2>1
    <3> QED BY <1>2, <3>1
  <2>4. f[j] = op[j] /\ \A x \in j + 1 .. i : x \in 1 .. i /\ f[x] = op[x]
    BY <2>3
  <2> QED BY <2>1, <2>2, <2>4
<1> QED BY <1>2, <1>3, <1>4, <1>5 DEF OpenSound, f

LEMMA ParsingFacts ==
  ASSUME IInv, Parsing
  PROVE  /\ stack # <<>> /\ Len(stack) = 1 /\ Top = stack[1] /\ Top \in Frames
         /\ Top.kind = "doc" /\ ~Top.play.on /\ Top.play.rec = Nothing
         /\ DocFrame(doc, obj, open, cap, Top) /\ Shape(stack) /\ val \in Nat /\ todo = {}
<1>1. stack # <<>> /\ Top.kind = "doc" /\ ~Top.play.on
  BY DEF Parsing, Idle
<1>2. /\ Len(stack) = 1 /\ Top = stack[1] /\ Top \in Frames /\ Shape(stack) /\ val \in Nat
      /\ DocFrame(doc, obj, open, cap, Top)
  BY <1>1, TopFacts DEF FrameSound
<1>3. todo = {}
  BY <1>1, <1>2, NoneDue
<1> QED BY <1>1, <1>2, <1>3 DEF DocFrame

\* The capture under way.
Holds(m, off, last) ==
  /\ CapSound(doc, open, cap, m, off, last)
  /\ cap.base = Len(Top.parents) /\ Stands(doc, obj, Top.parents, 1, cap.base, open, m - 1, {})
LEMMA CaptureFacts ==
  ASSUME IInv, Parsing, Capturing
  PROVE  \E m, off, last \in 1 .. Len(open) : Holds(m, off, last)
<1>1. DocFrame(doc, obj, open, cap, Top) /\ ~Top.play.on
  BY ParsingFacts
<1> QED BY <1>1 DEF DocFrame, Capturing, Holds

\* Where the capture closes, its whole body has been captured.
LEMMA ClosesFacts ==
  ASSUME IInv, Parsing, Closes
  PROVE  /\ Body(doc, cap.events, cap.frag, cap.split) /\ open # <<>> /\ Len(open) \in Nat \ {0, 1}
         /\ cap.frag = open[Len(open)] /\ Plain(doc, Front(open)) /\ cap.base = Len(Top.parents)
         /\ cap.base \in Nat \ {0}
         /\ Stands(doc, obj, Top.parents, 1, cap.base, Front(open), Len(Front(open)), {})
         /\ Of(doc, obj, Last(Top.parents), {}) /\ obj[Last(Top.parents)].elem = Cur(doc, cap.frag)
<1>1. PICK m, off, last \in 1 .. Len(open) : Holds(m, off, last)
  BY CaptureFacts DEF Closes
<1>2. /\ OpenSound(doc, open) /\ DocSound(doc) /\ open \in Seq(1 .. Len(doc)) /\ Len(open) \in Nat
      /\ Len(doc) \in Nat
  BY IInvFacts DEF OpenSound
<1>3. /\ CapSound(doc, open, cap, m, off, last) /\ m \in 2 .. Len(open) /\ off \in m .. m + 1
      /\ last \in off .. Len(open) /\ cap.frag = open[m] /\ doc[open[m]].kind \in Fragment
  BY <1>1 DEF Holds, CapSound, Marks
<1>4. cap.skip = 0 /\ doc[open[Len(open)]].kind = doc[cap.frag].kind
  BY DEF Closes, Last
<1>5. last = Len(open) /\ m = Len(open) /\ off = Len(open)
  <2>1. last = Len(open)
    BY <1>3, <1>4 DEF CapSound, Skips
  <2>2. Len(open) # m => doc[open[Len(open)]].kind \notin Fragment
    BY <1>2, <1>3, <2>1 DEF CapSound, Marks
  <2> QED BY <1>3, <1>4, <2>1, <2>2
<1>6. /\ open # <<>> /\ Len(Front(open)) = Len(open) - 1
      /\ \A i \in 1 .. Len(open) - 1 : Front(open)[i] = open[i]
  <2>1. open # <<>>
    BY <1>2, <1>3
  <2> QED BY <1>2, <2>1, FrontFacts
<1>7. Body(doc, cap.events, cap.frag, cap.split)
  <2>1. cap.frag \in 1 .. Len(doc)
    BY <1>2, <1>3
  <2>2. Taken(doc, cap.events, cap.frag, cap.split, Slice(open, off, last))
    BY <1>3 DEF CapSound
  <2>3. Slice(open, off, last) = <<>>
    BY <1>2, <1>5 DEF Slice
  <2> QED BY <2>1, <2>2, <2>3 DEF Body
<1>8. Plain(doc, Front(open))
  <2> SUFFICES ASSUME NEW i \in 1 .. Len(Front(open)) PROVE doc[Front(open)[i]].kind \notin Fragment
    BY DEF Plain
  <2>1. i \in 1 .. Len(open) - 1 /\ i \in 1 .. last /\ i # m
    BY <1>2, <1>5, <1>6
  <2>2. Front(open)[i] = open[i]
    BY <1>6, <2>1
  <2> QED BY <1>3, <2>1, <2>2 DEF CapSound, Marks
<1>9. Stands(doc, obj, Top.parents, 1, cap.base, open, m - 1, {}) /\ cap.base = Len(Top.parents)
  BY <1>1 DEF Holds
<1>10. Stands(doc, obj, Top.parents, 1, cap.base, Front(open), m - 1, {})
  <2>1. /\ m - 1 \in Nat /\ 1 \in Nat \ {0} /\ cap.base <= Len(Top.parents)
        /\ \A x \in 1 .. m - 1 : Front(open)[x] = open[x]
    BY <1>2, <1>5, <1>6, <1>9 DEF Stands
  <2> QED BY <1>9, <2>1, StandsSame
<1>11. Of(doc, obj, Top.parents[cap.base], {}) /\ obj[Top.parents[cap.base]].elem = Cur(doc, open[m - 1])
  <2>1. m - 1 \in Nat \ {0} /\ 1 \in Nat \ {0}
    BY <1>2, <1>3
  <2> QED BY <1>9, <2>1, StandsTop
<1>12. Cur(doc, cap.frag) = Cur(doc, open[m - 1])
  BY <1>3 DEF CapSound, Marks, Cur, Fragment
<1>13. cap.base \in Nat \ {0}
  <2>1. Top.parents \in Seq(Ids \cup {Outer})
    BY ParsingFacts DEF Frames
  <2>2. Height(doc, open, Level, m - 1) \in Nat
    <3>1. m - 1 \in Nat
      BY <1>2, <1>3
    <3> QED BY <3>1, HeightStep
  <2> QED BY <1>9, <2>1, <2>2 DEF Stands
<1> QED BY <1>3, <1>5, <1>6, <1>7, <1>8, <1>9, <1>10, <1>11, <1>12, <1>13 DEF Last

\* The records, where the parser goes on from op and c to op2 and c2.
LEMMA RecsPassed ==
  ASSUME IInv, NEW d2, NEW ob2, NEW op2, NEW c2, DocSound(d2), Later(doc, obj, d2, ob2, {}),
         \A f \in 1 .. Len(doc) : Behind(open, cap, f) => Behind(op2, c2, f)
  PROVE  RecSound(d2, ob2, op2, c2, rec)
<1>1. /\ DocSound(doc) /\ Grown(doc, d2) /\ RecSound(doc, obj, open, cap, rec)
      /\ rec \in Seq(Records)
  BY IInvFacts DEF Later
<1>2. ASSUME NEW i \in 1 .. Len(rec)
      PROVE  Through(doc, d2, obj, ob2, {}, open, op2, cap, c2, rec[i], rec[i])
  <2>1. RecordSound(doc, obj, rec[i]) /\ rec[i] \in Records /\ rec[i].frag \notin {}
    BY <1>1 DEF RecSound
  <2>2. rec[i].frag \in 1 .. Len(doc)
    BY <2>1 DEF RecordSound, Body
  <2>3. Updated(d2, ob2, rec[i], rec[i])
    BY <1>1, <2>1, SameUpdated
  <2> QED BY <1>1, <2>2, <2>3 DEF Through
<1>3. AllThrough(doc, d2, obj, ob2, {}, open, op2, cap, c2, rec, rec)
  BY <1>2 DEF AllThrough
<1> QED BY <1>1, <1>3, RecsKept

LEMMA RecsAppended ==
  ASSUME NEW d, NEW ob, NEW op, NEW c, NEW rc \in Seq(Records), NEW r \in Records,
         RecSound(d, ob, op, c, rc), RecordSound(d, ob, r), Behind(op, c, r.frag),
         \A i \in 1 .. Len(rc) : rc[i].frag # r.frag
  PROVE  RecSound(d, ob, op, c, Append(rc, r))
<1> DEFINE a == Append(rc, r)
<1>1. /\ Len(a) = Len(rc) + 1 /\ Len(rc) \in Nat /\ a[Len(rc) + 1] = r
      /\ \A i \in 1 .. Len(rc) : a[i] = rc[i]
  BY AppendFacts
<1> HIDE DEF a
<1>2. ASSUME NEW i \in 1 .. Len(a)
      PROVE  RecordSound(d, ob, a[i]) /\ Behind(op, c, a[i].frag)
  <2>1. CASE i = Len(rc) + 1
    BY <1>1, <2>1
  <2>2. CASE i \in 1 .. Len(rc)
    BY <1>1, <2>2 DEF RecSound
  <2> QED BY <1>1, <2>1, <2>2
<1>3. ASSUME NEW i \in 1 .. Len(a), NEW j \in 1 .. Len(a), a[i].frag = a[j].frag
      PROVE  i = j
  <2>1. CASE i = Len(rc) + 1 /\ j = Len(rc) + 1
    BY <2>1
  <2>2. CASE i \in 1 .. Len(rc) /\ j \in 1 .. Len(rc)
    BY <1>1, <1>3, <2>2 DEF RecSound
  <2>3. CASE i \in 1 .. Len(rc) /\ j = Len(rc) + 1
    BY <1>1, <1>3, <2>3
  <2>4. CASE i = Len(rc) + 1 /\ j \in 1 .. Len(rc)
    BY <1>1, <1>3, <2>4
  <2> QED BY <1>1, <2>1, <2>2, <2>3, <2>4
<1> QED BY <1>2, <1>3 DEF RecSound, a

\* A fragment that is expanded in place.
LEMMA InPlaceSound ==
  ASSUME IInv, Parsing, Closes, NEW v \in Nat, open' = Front(open),
         stack' = WithTop([Top EXCEPT !.play = Play(Nothing, cap, v)]),
         UNCHANGED <<doc, cap, obj, rec, val, todo>>
  PROVE  IInv'
<1> DEFINE play == Play(Nothing, cap, v)
           fr == [Top EXCEPT !.play = play]
           op == Front(open)
<1>1. /\ cap \in Captures /\ DocSound(doc) /\ OpenSound(doc, open) /\ ObjSound(doc, obj)
      /\ Len(doc) \in Nat /\ stack \in Seq(Frames)
  BY IInvFacts
<1>2. /\ stack # <<>> /\ Len(stack) = 1 /\ Top \in Frames /\ Top.kind = "doc" /\ Shape(stack)
      /\ Top.play.rec = Nothing /\ val \in Nat /\ todo = {}
  BY ParsingFacts
<1>3. /\ Body(doc, cap.events, cap.frag, cap.split) /\ open # <<>> /\ cap.frag \in 1 .. Len(doc)
      /\ Plain(doc, op) /\ cap.base = Len(Top.parents) /\ cap.base \in Nat \ {0}
      /\ Stands(doc, obj, Top.parents, 1, cap.base, op, Len(op), {})
      /\ Of(doc, obj, Top.parents[cap.base], {}) /\ obj[Top.parents[cap.base]].elem = Cur(doc, cap.frag)
  BY ClosesFacts DEF Body, Last
<1>4. cap.events \in Seq(Events) /\ (cap.split = -1 \/ cap.split \in 0 .. Len(cap.events))
  BY <1>1, <1>3 DEF Captures, Body, Taken
<1>5. play \in Replays /\ play.on /\ play.rec = Nothing
  <2>1. Nothing \in Nat
    BY DEF Nothing
  <2> QED BY <1>4, <2>1, PlayTyped
<1> HIDE DEF play
<1>6. fr \in Frames /\ fr.kind = "doc" /\ fr.parents = Top.parents /\ fr.play = play
  BY <1>2, <1>5 DEF Frames
<1>7. stack' = WithTop(fr)
  BY DEF play
<1> HIDE DEF fr, op
<1>8. Plays(doc, obj, fr, cap.base, cap.frag)
  <2>1. Nothing \in Nat /\ fr.play = Play(Nothing, cap, v) /\ cap.base = Len(fr.parents)
    BY <1>3, <1>6 DEF play, Nothing
  <2>2. Of(doc, obj, fr.parents[cap.base], {}) /\ obj[fr.parents[cap.base]].elem = Cur(doc, cap.frag)
    BY <1>3, <1>6
  <2> QED BY <1>3, <1>4, <2>1, <2>2, PlayBegins
<1>9. FrameSound(doc, obj, op, cap, rec, fr)
  <2>1. cap.frag # Nothing
    BY <1>1, <1>3 DEF Nothing
  <2>2. DocFrame(doc, obj, op, cap, fr)
    BY <1>3, <1>5, <1>6, <1>8, <2>1 DEF DocFrame
  <2> QED BY <1>6, <2>2 DEF FrameSound
<1>10. OpenSound(doc, op) /\ open' = op /\ RecSound(doc, obj, op, cap, rec)
  <2>1. /\ OpenSound(doc, op) /\ Len(op) = Len(open) - 1 /\ Len(open) \in Nat
        /\ \A i \in 1 .. Len(open) - 1 : op[i] = open[i]
    BY <1>1, <1>3, OpenFront DEF op
  <2>2. \A f \in 1 .. Len(doc) : Behind(open, cap, f) => Behind(op, cap, f)
    BY <2>1 DEF Behind
  <2>3. DocSound(doc) /\ Later(doc, obj, doc, obj, {})
    BY IInvFacts
  <2> QED BY <2>1, <2>2, <2>3, RecsPassed DEF op
<1>11. stack' \in Seq(Frames) /\ StackSound(doc, obj, op, cap, rec, stack')
  <2>1. \A i \in 1 .. Len(stack) - 1 : FrameSound(doc, obj, op, cap, rec, stack[i])
    BY <1>2
  <2>2. fr.kind = Top.kind /\ fr.play.rec = Top.play.rec
    BY <1>2, <1>5, <1>6
  <2> QED BY <1>1, <1>2, <1>6, <1>7, <1>9, <2>1, <2>2, StackReplaced
<1>12. Typed'
  BY <1>2, <1>11 DEF IInv, Typed
<1> QED BY <1>1, <1>10, <1>11, <1>12 DEF IInv

\* A fragment that is retained, and built for the first time.
LEMMA RetainedSound ==
  ASSUME IInv, Parsing, Closes, NEW observed \in BOOLEAN, open' = Front(open),
         rec' = Append(rec, Record(observed)), cap' = NoCapture,
         stack' = Append(stack, Frame("build", <<Last(Top.parents)>>, Play(Len(rec) + 1, cap, val))),
         UNCHANGED <<doc, obj, val, todo>>
  PROVE  IInv'
<1> DEFINE n == Len(rec) + 1
           play == Play(n, cap, val)
           top == Last(Top.parents)
           fr == Frame("build", <<top>>, play)
           op == Front(open)
           new == Record(observed)
<1>1. /\ cap \in Captures /\ DocSound(doc) /\ OpenSound(doc, open) /\ ObjSound(doc, obj)
      /\ Len(doc) \in Nat /\ stack \in Seq(Frames) /\ rec \in Seq(Records)
      /\ RecSound(doc, obj, open, cap, rec)
  BY IInvFacts
<1>2. /\ stack # <<>> /\ Len(stack) = 1 /\ Top \in Frames /\ Top.kind = "doc" /\ Shape(stack)
      /\ Top.play.rec = Nothing /\ ~Top.play.on /\ Top = stack[1] /\ val \in Nat /\ todo = {}
  BY ParsingFacts
<1>3. /\ Body(doc, cap.events, cap.frag, cap.split) /\ open # <<>> /\ Len(open) \in Nat \ {0, 1}
      /\ cap.frag = open[Len(open)] /\ cap.frag \in 1 .. Len(doc)
      /\ Plain(doc, op) /\ cap.base = Len(Top.parents) /\ cap.base \in Nat \ {0}
      /\ Stands(doc, obj, Top.parents, 1, cap.base, op, Len(op), {})
      /\ Of(doc, obj, top, {}) /\ obj[top].elem = Cur(doc, cap.frag)
  BY ClosesFacts DEF Body
<1>4. /\ cap.events \in Seq(Events) /\ (cap.split = -1 \/ cap.split \in 0 .. Len(cap.events))
      /\ cap.frag \in Nat /\ cap.split \in Int
  BY <1>1, <1>3 DEF Captures, Body, Taken
<1>5. n \in Nat \ {0} /\ play \in Replays /\ play.on /\ play.rec = n /\ play.roots = {}
  <2>1. n \in Nat \ {0}
    BY <1>1
  <2> HIDE DEF n
  <2> QED BY <1>2, <1>4, <2>1, PlayTyped
<1> HIDE DEF play
<1>6. top \in Ids \cup {Outer}
  BY <1>3 DEF Of, There
<1>7. /\ new \in Records /\ new.frag = cap.frag /\ new.parent = top /\ new.events = cap.events
      /\ new.split = cap.split /\ new.roots = {} /\ new.busy /\ new.live /\ new.hook
  BY <1>4, <1>6 DEF Record, Records
<1> HIDE DEF new, top
<1>8. fr \in Frames /\ fr.kind = "build" /\ fr.parents = <<top>> /\ fr.play = play /\ fr.item = Nothing
  BY <1>5, <1>6 DEF Frame, Frames
<1> HIDE DEF fr, op
<1>9. /\ OpenSound(doc, op) /\ open' = op /\ Len(op) = Len(open) - 1
      /\ \A i \in 1 .. Len(open) - 1 : op[i] = open[i]
  BY <1>1, <1>3, OpenFront DEF op
<1>10. RecSound(doc, obj, op, NoCapture, rec)
  <2>1. \A f \in 1 .. Len(doc) : Behind(open, cap, f) => Behind(op, NoCapture, f)
    BY <1>3, <1>9, NoCaptureTyped DEF Behind, Nothing
  <2>2. DocSound(doc) /\ Later(doc, obj, doc, obj, {})
    BY IInvFacts
  <2> QED BY <2>1, <2>2, RecsPassed
<1>11. Behind(op, NoCapture, cap.frag) /\ \A i \in 1 .. Len(rec) : rec[i].frag # cap.frag
  <2>1. \A i \in 1 .. Len(rec) : rec[i].frag # cap.frag
    BY <1>1 DEF RecSound, Behind
  <2>2. ASSUME NEW i \in 1 .. Len(op) PROVE op[i] # cap.frag
    <3>0. i \in 1 .. Len(open) - 1 /\ Len(open) \in Nat \ {0, 1}
      BY <1>3, <1>9
    <3>1. /\ i \in 1 .. Len(open) /\ Len(open) \in 1 .. Len(open) /\ i < Len(open)
          /\ open \in Seq(1 .. Len(doc)) /\ op[i] = open[i]
      <4>1. i \in 1 .. Len(open) /\ Len(open) \in 1 .. Len(open) /\ i < Len(open)
        BY <3>0
      <4>2. open \in Seq(1 .. Len(doc))
        BY <1>1 DEF OpenSound
      <4> QED BY <1>9, <3>0, <4>1, <4>2
    <3>2. open[i] < open[Len(open)]
      BY <1>1, <3>1 DEF OpenSound
    <3>3. open[i] \in Nat
      BY <3>1
    <3> QED BY <1>3, <1>4, <3>1, <3>2, <3>3
  <2> QED BY <1>3, <2>1, <2>2, NoCaptureTyped DEF Behind, Nothing
<1>12. RecSound(doc, obj, op, NoCapture, rec') /\ rec' \in Seq(Records) /\ Len(rec') = n /\ rec'[n] = new
  <2>1. RecordSound(doc, obj, new)
    BY <1>3, <1>7 DEF RecordSound
  <2>2. Behind(op, NoCapture, new.frag) /\ \A i \in 1 .. Len(rec) : rec[i].frag # new.frag
    BY <1>7, <1>11
  <2>3. rec' = Append(rec, new)
    BY DEF new
  <2>4. RecSound(doc, obj, op, NoCapture, rec')
    BY <1>1, <1>7, <1>10, <2>1, <2>2, <2>3, RecsAppended
  <2> QED BY <1>1, <1>7, <2>3, <2>4, AppendFacts
<1>13. FrameSound(doc, obj, op, NoCapture, rec', Top)
  <2>1. DocFrame(doc, obj, op, NoCapture, Top)
    BY <1>2, <1>3, NoCaptureTyped DEF DocFrame
  <2> QED BY <1>2, <2>1 DEF FrameSound
<1>14. FrameSound(doc, obj, op, NoCapture, rec', fr)
  <2>1. Len(fr.parents) = 1 /\ fr.parents[1] = top
    BY <1>8
  <2>2. Plays(doc, obj, fr, 1, cap.frag)
    <3>1. n \in Nat /\ fr.play = Play(n, cap, val) /\ 1 = Len(fr.parents) /\ 1 \in Nat \ {0}
      BY <1>5, <1>8, <2>1 DEF play
    <3>2. Of(doc, obj, fr.parents[1], {}) /\ obj[fr.parents[1]].elem = Cur(doc, cap.frag)
      BY <1>3, <2>1
    <3> HIDE DEF n
    <3> QED BY <1>2, <1>3, <1>4, <3>1, <3>2, PlayBegins
  <2>3. BuildFrame(doc, obj, rec', fr)
    <3>1. fr.play.rec = n /\ n \in 1 .. Len(rec') /\ fr.play.roots = {}
      BY <1>5, <1>8, <1>12
    <3> HIDE DEF n
    <3> QED BY <1>7, <1>8, <1>12, <2>2, <3>1 DEF BuildFrame
  <2> QED BY <1>8, <2>3 DEF FrameSound
<1>15. stack' \in Seq(Frames) /\ StackSound(doc, obj, op, NoCapture, rec', stack')
  <2>1. stack' = Append(stack, fr)
    BY DEF fr, play, top
  <2>2. \A i \in 1 .. Len(stack) : FrameSound(doc, obj, op, NoCapture, rec', stack[i])
    BY <1>2, <1>13
  <2>3. \A i \in 1 .. Len(stack) : stack[i].kind # "build"
    BY <1>2
  <2> QED BY <1>1, <1>2, <1>8, <1>14, <2>1, <2>2, <2>3, StackPushed
<1>16. Typed'
  BY <1>2, <1>12, <1>15, NoCaptureTyped DEF IInv, Typed
<1> QED BY <1>1, <1>9, <1>12, <1>15, <1>16 DEF IInv

LEMMA EndFragmentSound ==
  ASSUME IInv, EndFragment
  PROVE  IInv'
<1> DEFINE f == doc[cap.frag]
           v == IF f.bound THEN val ELSE f.num
<1>1. Parsing /\ Closes /\ open' = Front(open) /\ UNCHANGED <<doc, obj, val, todo>>
  BY DEF EndFragment
<1>2. CASE /\ stack' = WithTop([Top EXCEPT !.play = Play(Nothing, cap, v)])
           /\ UNCHANGED <<cap, rec>>
  <2>1. v \in Nat
    <3>1. cap.frag \in 1 .. Len(doc) /\ doc \in Seq(Elements) /\ val \in Nat
      BY <1>1, ClosesFacts, ParsingFacts, IInvFacts DEF Body, DocSound
    <3>2. f \in Elements
      BY <3>1
    <3> QED BY <3>1, <3>2 DEF Elements
  <2> HIDE DEF v
  <2> QED BY <1>1, <1>2, <2>1, InPlaceSound
<1>3. CASE /\ \E observed \in BOOLEAN : rec' = Append(rec, Record(observed))
           /\ stack' = Append(stack, Frame("build", <<Last(Top.parents)>>, Play(Len(rec) + 1, cap, val)))
           /\ cap' = NoCapture
  BY <1>1, <1>3, RetainedSound
<1> QED BY <1>2, <1>3 DEF EndFragment
-----------------------------------------------------------------------------
(* A start tag, as a reader of the document takes it.                         *)

\* What Read makes of a tag of this kind behind the open elements.
Reads(d, op, kind, E) ==
  /\ E \in Elements /\ E.kind = kind /\ E.up = op[Len(op)]
  /\ E.enc \in 1 .. Len(d) /\ d[E.enc].kind = "obj" /\ E.enc = Cur(d, op[Len(op)])
  /\ Plain(d, op) => E.frag = Nothing /\ ~E.nested
  /\ \A m, off, last \in 1 .. Len(op), skip \in Nat :
       Marks(d, op, m, off, last) /\ Skips(d, op, skip, last)
         => E.frag = op[m] /\ (E.nested <=> skip > 0 \/ kind \in Fragment)

LEMMA ReadFacts ==
  ASSUME IInv, open # <<>>, NEW kind \in Kinds, NEW bound \in BOOLEAN, NEW num \in Nat
  PROVE  Reads(doc, open, kind, Read(kind, bound, num))
<1> DEFINE n == Len(open)
           W == {i \in DOMAIN open : doc[open[i]].kind = "obj"}
           F == {i \in DOMAIN open : doc[open[i]].kind \in Fragment}
           w == CHOOSE i \in W : \A j \in W : j <= i
           first == CHOOSE i \in F : \A j \in F : i <= j
           frag == IF F = {} THEN Nothing ELSE open[first]
           nested == Cardinality(F) > 1 \/ (F # {} /\ kind \in Fragment)
           E == Read(kind, bound, num)
<1>1. /\ doc \in Seq(Elements) /\ Len(doc) \in Nat \ {0} /\ open \in Seq(1 .. Len(doc))
      /\ n \in Nat \ {0} /\ DOMAIN open = 1 .. n /\ OpenSound(doc, open)
  BY IInvFacts DEF DocSound, OpenSound
<1>2. E = [kind |-> kind, bound |-> bound, num |-> num, up |-> open[n], enc |-> open[w],
           frag |-> frag, nested |-> nested]
  BY DEF Read, Last
<1>3. w \in W /\ open[w] = Cur(doc, open[n])
  <2>1. PICK k \in 1 .. n : /\ open[k] = Cur(doc, open[n]) /\ doc[open[k]].kind = "obj"
                            /\ \A x \in k + 1 .. n : doc[open[x]].kind # "obj"
    BY <1>1, SMTT(20) DEF OpenSound
  <2>2. k \in W /\ \A j \in W : j <= k
    BY <1>1, <2>1
  <2>3. w \in W /\ \A j \in W : j <= w
    <3> HIDE DEF W
    <3> QED BY <2>2
  <2>4. w \in 1 .. n /\ k <= w /\ w <= k
    BY <1>1, <2>2, <2>3
  <2> HIDE DEF w, W
  <2>5. w = k
    BY <1>1, <2>1, <2>4
  <2> QED BY <2>1, <2>3, <2>5
<1>4. F # {} => first \in F /\ \A j \in F : first <= j
  <2>1. F \in SUBSET Nat
    BY <1>1
  <2> HIDE DEF F
  <2>2. F # {} => \E i \in F : \A j \in F : i <= j
    BY <2>1, Least
  <2> QED BY <2>2
<1>5. frag \in Nat /\ nested \in BOOLEAN /\ open[n] \in Nat /\ open[w] \in 1 .. Len(doc)
  <2>1. w \in 1 .. n /\ (F # {} => first \in 1 .. n)
    BY <1>1, <1>3, <1>4
  <2> HIDE DEF w, W, first, F
  <2>2. open[n] \in 1 .. Len(doc) /\ open[w] \in 1 .. Len(doc)
          /\ (F # {} => open[first] \in 1 .. Len(doc))
    BY <1>1, <2>1
  <2> QED BY <2>2 DEF Nothing
<1>6. Plain(doc, open) => F = {} /\ frag = Nothing /\ ~nested
  <2>1. Plain(doc, open) => F = {}
    BY <1>1 DEF Plain
  <2>2. Cardinality({}) = 0
    BY FS_EmptySet
  <2> SUFFICES ASSUME F = {} PROVE frag = Nothing /\ ~nested
    BY <2>1
  <2> HIDE DEF F, first
  <2>3. ~(Cardinality(F) > 1)
    BY <2>2
  <2> QED BY <2>3
<1>7. ASSUME NEW m \in 1 .. n, NEW off \in 1 .. n, NEW last \in 1 .. n, NEW skip \in Nat,
             Marks(doc, open, m, off, last), Skips(doc, open, skip, last)
      PROVE  frag = open[m] /\ (nested <=> skip > 0 \/ kind \in Fragment)
  <2>1. /\ doc[open[m]].kind \in Fragment /\ m <= last
        /\ \A j \in 1 .. last : j # m => doc[open[j]].kind \notin Fragment
    BY <1>1, <1>7 DEF Marks
  <2>2. m \in F
    BY <1>1, <2>1
  <2>3. first = m
    <3>1. first \in 1 .. n /\ first <= m /\ doc[open[first]].kind \in Fragment
      BY <1>1, <1>4, <2>2
    <3> HIDE DEF first
    <3>2. first \in 1 .. last
      BY <1>1, <2>1, <3>1
    <3> QED BY <2>1, <3>1, <3>2
  <2>4. Cardinality(F) = 1 + skip
    BY <1>1, <1>7 DEF Skips, Height
  <2> HIDE DEF first, F
  <2> QED BY <2>2, <2>3, <2>4
<1> HIDE DEF w, frag, nested, E
<1>8. E \in Elements /\ E.kind = kind /\ E.up = open[n] /\ E.enc = open[w]
        /\ E.frag = frag /\ E.nested = nested
  <2> HIDE DEF W, F
  <2>1. open[w] \in Nat
    BY <1>1, <1>5
  <2> QED BY <1>2, <1>5, <2>1 DEF Elements
<1>9. doc[open[w]].kind = "obj"
  BY <1>3
<1> HIDE DEF W, F
<1>10. \A m, off, last \in 1 .. Len(open), skip \in Nat :
         Marks(doc, open, m, off, last) /\ Skips(doc, open, skip, last)
           => E.frag = open[m] /\ (E.nested <=> skip > 0 \/ kind \in Fragment)
  BY <1>7, <1>8
<1>11. Reads(doc, open, kind, E)
  BY <1>3, <1>5, <1>6, <1>8, <1>9, <1>10 DEF Reads
<1> QED BY <1>11 DEF E

\* The j-th element of L is the widget around the i-th: w.
Around(d, L, w, i, j) ==
  /\ j \in 1 .. i /\ L[j] = w /\ d[L[j]].kind = "obj"
  /\ \A x \in j + 1 .. i : d[L[x]].kind # "obj"

\* The document is read on: the new start tag E is its n-th.
Onward(d, op, kind, E, n, d2, op2) ==
  /\ DocSound(d) /\ OpenSound(d, op) /\ Reads(d, op, kind, E) /\ Len(d) \in Nat /\ n = Len(d) + 1
  /\ DocSound(d2) /\ Grown(d, d2) /\ n \in 1 .. Len(d2) /\ d2[n] = E /\ OpenSound(d2, op2)
  /\ Len(op2) = Len(op) + 1 /\ op2[Len(op2)] = n /\ Len(op) \in Nat \ {0}
  /\ \A i \in 1 .. Len(op) : op2[i] = op[i] /\ op[i] \in 1 .. Len(d) /\ d2[op[i]] = d[op[i]]
LEMMA ReadOn ==
  ASSUME NEW d, NEW op, NEW kind, NEW E, NEW n, NEW d2, NEW op2,
         DocSound(d), OpenSound(d, op), op # <<>>, Reads(d, op, kind, E), n = Len(d) + 1,
         d2 = Append(d, E), op2 = Append(op, n)
  PROVE  Onward(d, op, kind, E, n, d2, op2)
<1>1. /\ d \in Seq(Elements) /\ Len(d) \in Nat \ {0} /\ op \in Seq(1 .. Len(d))
      /\ Len(op) \in Nat \ {0} /\ E \in Elements
  BY DEF DocSound, OpenSound, Reads
<1>2. /\ d2 \in Seq(Elements) /\ Len(d2) = n /\ n \in Nat /\ d2[n] = E
      /\ \A e \in 1 .. Len(d) : d2[e] = d[e]
  BY <1>1
<1>3. /\ op2 \in Seq(1 .. Len(d2)) /\ Len(op2) = Len(op) + 1 /\ op2[Len(op2)] = n
      /\ \A i \in 1 .. Len(op) : op2[i] = op[i] /\ op[i] \in 1 .. Len(d) /\ d2[op[i]] = d[op[i]]
  <2>1. op \in Seq(1 .. Len(d2)) /\ n \in 1 .. Len(d2)
    <3>1. op = [i \in 1 .. Len(op) |-> op[i]] /\ \A i \in 1 .. Len(op) : op[i] \in 1 .. Len(d2)
      BY <1>1, <1>2
    <3> QED BY <1>1, <1>2, <3>1
  <2>2. /\ op2 \in Seq(1 .. Len(d2)) /\ Len(op2) = Len(op) + 1 /\ op2[Len(op) + 1] = n
        /\ \A i \in 1 .. Len(op) : op2[i] = op[i]
    BY <2>1, AppendFacts
  <2> QED BY <1>1, <1>2, <2>2
<1>4. DocSound(d2)
  <2>1. d[1].kind = "obj" /\ d[1].frag = Nothing /\ d2[1] = d[1] /\ Len(d2) >= 1
    BY <1>1, <1>2 DEF DocSound
  <2>2. ASSUME NEW e \in 2 .. Len(d2)
        PROVE  d2[e].enc \in 1 .. Len(d2) /\ d2[d2[e].enc].kind = "obj"
    <3>1. CASE e = n
      BY <1>1, <1>2, <3>1 DEF Reads
    <3>2. CASE e \in 2 .. Len(d)
      <4>1. d[e].enc \in 1 .. Len(d) /\ d[d[e].enc].kind = "obj" /\ e \in 1 .. Len(d)
        BY <3>2 DEF DocSound
      <4> QED BY <1>1, <1>2, <4>1
    <3> QED BY <1>1, <1>2, <3>1, <3>2
  <2> QED BY <1>2, <2>1, <2>2 DEF DocSound
<1>5. op2[1] = 1
  <2>1. op[1] = 1 /\ 1 \in 1 .. Len(op)
    BY <1>1 DEF OpenSound
  <2> QED BY <1>3, <2>1
<1>6. \A i, j \in 1 .. Len(op2) : i < j => op2[i] < op2[j]
  <2> SUFFICES ASSUME NEW i \in 1 .. Len(op2), NEW j \in 1 .. Len(op2), i < j
               PROVE  op2[i] < op2[j]
    OBVIOUS
  <2>1. i \in 1 .. Len(op) /\ op2[i] = op[i] /\ op[i] \in 1 .. Len(d)
    BY <1>1, <1>3
  <2>2. CASE j = Len(op2)
    BY <1>1, <1>3, <2>1, <2>2
  <2>3. CASE j \in 1 .. Len(op)
    BY <1>3, <2>1, <2>3 DEF OpenSound
  <2> QED BY <1>1, <1>3, <2>2, <2>3, SMTT(20)
<1>7. ASSUME NEW i \in 1 .. Len(op2)
      PROVE  \E j \in 1 .. i : /\ op2[j] = Cur(d2, op2[i]) /\ d2[op2[j]].kind = "obj"
                                /\ \A x \in j + 1 .. i : d2[op2[x]].kind # "obj"
  <2>1. ASSUME NEW k \in 1 .. Len(op)
        PROVE  \E j : Around(d2, op2, Cur(d, op[k]), k, j)
    <3>1. PICK j \in 1 .. k : /\ op[j] = Cur(d, op[k]) /\ d[op[j]].kind = "obj"
                              /\ \A x \in j + 1 .. k : d[op[x]].kind # "obj"
      BY DEF OpenSound
    <3>2. ASSUME NEW x \in 1 .. k PROVE op2[x] = op[x] /\ d2[op2[x]] = d[op[x]]
      <4>1. x \in 1 .. Len(op)
        BY <1>1
      <4> QED BY <1>3, <4>1
    <3>3. op2[j] = Cur(d, op[k]) /\ d2[op2[j]].kind = "obj"
      BY <3>1, <3>2
    <3>4. ASSUME NEW x \in j + 1 .. k PROVE d2[op2[x]].kind # "obj"
      <4>1. x \in 1 .. k
        OBVIOUS
      <4> QED BY <3>1, <3>2, <4>1
    <3> QED BY <3>3, <3>4 DEF Around
  <2>2. CASE i \in 1 .. Len(op)
    <3>1. Cur(d2, op2[i]) = Cur(d, op[i])
      BY <1>3, <2>2 DEF Cur
    <3> QED BY <2>1, <2>2, <3>1 DEF Around
  <2>3. CASE i = Len(op2) /\ E.kind = "obj"
    <3>1. i \in 1 .. i /\ op2[i] = Cur(d2, op2[i]) /\ d2[op2[i]].kind = "obj"
      BY <1>1, <1>2, <1>3, <2>3 DEF Cur
    <3>2. \A x \in i + 1 .. i : FALSE
      BY <1>1, <1>3
    <3> QED BY <3>1, <3>2
  <2>4. CASE i = Len(op2) /\ E.kind # "obj"
    <3> DEFINE w == Cur(d, op[Len(op)])
    <3>1. Cur(d2, op2[i]) = w /\ d2[op2[i]].kind # "obj"
      BY <1>2, <1>3, <2>4 DEF Cur, Reads
    <3> HIDE DEF w
    <3>2. PICK j : Around(d2, op2, w, Len(op), j)
      <4>1. Len(op) \in 1 .. Len(op)
        BY <1>1
      <4> QED BY <2>1, <4>1 DEF w
    <3>3. j \in 1 .. i /\ \A x \in j + 1 .. i : x = i \/ x \in j + 1 .. Len(op)
      <4>1. j \in 1 .. Len(op) /\ i = Len(op) + 1
        BY <1>3, <2>4, <3>2 DEF Around
      <4> QED BY <1>1, <4>1
    <3>4. ASSUME NEW x \in j + 1 .. i PROVE d2[op2[x]].kind # "obj"
      BY <3>1, <3>2, <3>3 DEF Around
    <3>5. op2[j] = w /\ d2[op2[j]].kind = "obj"
      BY <3>2 DEF Around
    <3>6. /\ op2[j] = Cur(d2, op2[i]) /\ d2[op2[j]].kind = "obj"
          /\ \A x \in j + 1 .. i : d2[op2[x]].kind # "obj"
      BY <3>1, <3>4, <3>5
    <3> QED BY <3>3, <3>6
  <2>5. i \in 1 .. Len(op) \/ i = Len(op2)
    BY <1>1, <1>3
  <2> QED BY <2>2, <2>3, <2>4, <2>5
<1>8. OpenSound(d2, op2)
  BY <1>3, <1>5, <1>6, <1>7 DEF OpenSound
<1>9. Grown(d, d2) /\ n \in 1 .. Len(d2)
  BY <1>1, <1>2 DEF Grown
<1> QED BY <1>1, <1>2, <1>3, <1>4, <1>8, <1>9 DEF Onward

\* One more event is captured; s2 are the elements that are open behind it.
LEMMA TakenMore ==
  ASSUME NEW d, NEW events \in Seq(Events), NEW frag, NEW split, NEW s, NEW ev \in Events,
         NEW s2 \in Seq(1 .. Len(d)), Taken(d, events, frag, split, s),
         ev.elem \in 1 .. Len(d), d[ev.elem].kind \notin Fragment,
         IF ev.end THEN s = Append(s2, ev.elem)
         ELSE /\ s2 = Append(s, ev.elem)
              /\ d[ev.elem].enc = Cur(d, Inner(frag, s)) /\ d[ev.elem].frag = frag
  PROVE  Taken(d, Append(events, ev), frag, split, s2)
<1> DEFINE n == Len(events)
           a == Append(events, ev)
<1>1. PICK st : /\ Trace(d, events, frag, st) /\ st[n] = s
                /\ split = -1 \/ (split \in 0 .. n /\ st[split] = <<>>)
  BY DEF Taken
<1> DEFINE st2 == [i \in 0 .. n + 1 |-> IF i = n + 1 THEN s2 ELSE st[i]]
<1>2. /\ n \in Nat /\ Len(a) = n + 1 /\ a[n + 1] = ev /\ \A i \in 1 .. n : a[i] = events[i]
  BY AppendFacts
<1> HIDE DEF a
<1>3. st \in [0 .. n -> Seq(1 .. Len(d))] /\ st[0] = <<>>
  BY <1>1 DEF Trace
<1>4. /\ st2 \in [0 .. Len(a) -> Seq(1 .. Len(d))] /\ st2[n + 1] = s2
      /\ \A i \in 0 .. n : st2[i] = st[i]
  BY <1>2, <1>3
<1> HIDE DEF st2
<1>5. st2[0] = <<>> /\ st2[Len(a)] = s2
  BY <1>2, <1>3, <1>4
<1>6. \A i \in 1 .. Len(a) : a[i].elem \in 1 .. Len(d) /\ d[a[i].elem].kind \notin Fragment
  <2> SUFFICES ASSUME NEW i \in 1 .. Len(a)
               PROVE  a[i].elem \in 1 .. Len(d) /\ d[a[i].elem].kind \notin Fragment
    OBVIOUS
  <2>1. CASE i = n + 1
    BY <1>2, <2>1
  <2>2. CASE i \in 1 .. n
    BY <1>1, <1>2, <2>2 DEF Trace
  <2> QED BY <1>2, <2>1, <2>2
<1>7. ASSUME NEW i \in 1 .. Len(a)
      PROVE  LET e == a[i].elem
             IN  IF a[i].end THEN st2[i - 1] = Append(st2[i], e)
                 ELSE /\ st2[i] = Append(st2[i - 1], e)
                      /\ d[e].enc = Cur(d, Inner(frag, st2[i - 1])) /\ d[e].frag = frag
  <2>1. CASE i = n + 1
    <3>0. i - 1 = n /\ n \in 0 .. n
      BY <1>2, <2>1
    <3>1. st2[i - 1] = s /\ st2[i] = s2 /\ a[i] = ev
      BY <1>1, <1>2, <1>4, <2>1, <3>0
    <3> QED BY <3>1
  <2>2. CASE i \in 1 .. n
    <3>0. i - 1 \in 0 .. n /\ i \in 0 .. n
      BY <1>2, <2>2
    <3>1. st2[i - 1] = st[i - 1] /\ st2[i] = st[i] /\ a[i] = events[i]
      BY <1>2, <1>4, <2>2, <3>0
    <3> QED BY <1>1, <2>2, <3>1 DEF Trace
  <2> QED BY <1>2, <2>1, <2>2
<1>8. Trace(d, a, frag, st2)
  BY <1>4, <1>5, <1>6, <1>7 DEF Trace
<1>9. split = -1 \/ (split \in 0 .. Len(a) /\ st2[split] = <<>>)
  BY <1>1, <1>2, <1>4
<1>10. Taken(d, a, frag, split, s2)
  BY <1>5, <1>8, <1>9 DEF Taken
<1> QED BY <1>10 DEF a

LEMMA TakenKept ==
  ASSUME NEW d, NEW d2, NEW events, NEW frag \in 1 .. Len(d), NEW split, NEW s,
         events \in Seq(Events), DocSound(d), DocSound(d2), Grown(d, d2),
         Taken(d, events, frag, split, s)
  PROVE  Taken(d2, events, frag, split, s)
<1>1. PICK st : /\ Trace(d, events, frag, st) /\ st[Len(events)] = s
                /\ split = -1 \/ (split \in 0 .. Len(events) /\ st[split] = <<>>)
  BY DEF Taken
<1>2. Trace(d2, events, frag, st)
  BY <1>1, TraceKept
<1> QED BY <1>1, <1>2 DEF Taken
-----------------------------------------------------------------------------
(* A start tag in a capture.                                                  *)

\* The elements that were open before are as they were.
LEMMA Before ==
  ASSUME NEW d, NEW op, NEW kind, NEW E, NEW n, NEW d2, NEW op2,
         Onward(d, op, kind, E, n, d2, op2), NEW i \in 1 .. Len(op)
  PROVE  /\ op2[i] = op[i] /\ d2[op2[i]] = d[op[i]] /\ Cur(d2, op2[i]) = Cur(d, op[i])
         /\ op[i] \in 1 .. Len(d) /\ i \in 1 .. Len(op2)
  BY DEF Onward, Cur

LEMMA HeightBefore ==
  ASSUME NEW d, NEW op, NEW kind, NEW E, NEW n, NEW d2, NEW op2,
         Onward(d, op, kind, E, n, d2, op2), NEW K
  PROVE  /\ \A i \in 0 .. Len(op) : Height(d2, op2, K, i) = Height(d, op, K, i)
         /\ Height(d2, op2, K, Len(op2)) =
              IF kind \in K THEN Height(d, op, K, Len(op)) + 1 ELSE Height(d, op, K, Len(op))
         /\ Height(d, op, K, Len(op)) \in Nat
<1>1. /\ Len(op) \in Nat /\ Len(op2) = Len(op) + 1 /\ d2[op2[Len(op) + 1]].kind = kind
  BY DEF Onward, Reads
<1>2. ASSUME NEW i \in 0 .. Len(op) PROVE Height(d2, op2, K, i) = Height(d, op, K, i)
  <2>1. i \in Nat /\ \A x \in 1 .. i : d2[op2[x]].kind = d[op[x]].kind
    BY <1>1, Before
  <2> QED BY <2>1, HeightSame
<1>3. /\ Height(d2, op2, K, Len(op) + 1) =
           IF kind \in K THEN Height(d2, op2, K, Len(op)) + 1 ELSE Height(d2, op2, K, Len(op))
      /\ Height(d2, op2, K, Len(op)) \in Nat
  <2>1. PICK k \in Nat : k = Len(op)
    BY <1>1
  <2>2. /\ Height(d2, op2, K, k + 1) =
             IF d2[op2[k + 1]].kind \in K THEN Height(d2, op2, K, k) + 1
             ELSE Height(d2, op2, K, k)
        /\ Height(d2, op2, K, k) \in Nat
    BY HeightStep
  <2> QED BY <1>1, <2>1, <2>2
<1> QED BY <1>1, <1>2, <1>3

LEMMA MarksKept ==
  ASSUME NEW d, NEW op, NEW kind, NEW E, NEW n, NEW d2, NEW op2,
         Onward(d, op, kind, E, n, d2, op2),
         NEW m \in 1 .. Len(op), NEW off \in 1 .. Len(op), NEW last \in 1 .. Len(op),
         Marks(d, op, m, off, last), m < Len(op) \/ kind # "else" \/ d[op[m]].kind # "if"
  PROVE  Marks(d2, op2, m, off, last)
<1>1. /\ Len(op) \in Nat /\ Len(op2) = Len(op) + 1 /\ d2[op2[Len(op) + 1]].kind = kind
  BY DEF Onward, Reads
<1>2. /\ m \in 2 .. Len(op) /\ off \in m .. m + 1 /\ last \in off .. Len(op)
      /\ d[op[m]].kind \in Fragment /\ d[op[m]].enc = Cur(d, op[m - 1])
  BY DEF Marks
<1>3. m \in 2 .. Len(op2) /\ last \in off .. Len(op2) /\ m - 1 \in 1 .. Len(op)
  BY <1>1, <1>2
<1>4. d2[op2[m]] = d[op[m]] /\ d2[op2[off]] = d[op[off]] /\ Cur(d2, op2[m - 1]) = Cur(d, op[m - 1])
  BY <1>3, Before
<1>5. ASSUME NEW j \in 1 .. last
      PROVE  /\ j # m => d2[op2[j]].kind \notin Fragment
             /\ d[op[m]].kind = "if" => (j \in off + 1 .. last => d2[op2[j]].kind # "else")
  <2>1. j \in 1 .. Len(op)
    BY <1>1
  <2>2. d2[op2[j]] = d[op[j]]
    BY <2>1, Before
  <2> QED BY <2>2 DEF Marks
<1>6. off = m + 1 <=> d2[op2[m]].kind = "if" /\ m < Len(op2) /\ d2[op2[m + 1]].kind = "else"
  <2>1. CASE m < Len(op)
    <3>1. m + 1 \in 1 .. Len(op) /\ m < Len(op2)
      BY <1>1, <1>2, <2>1
    <3>2. d2[op2[m + 1]] = d[op[m + 1]]
      BY <3>1, Before
    <3> QED BY <1>4, <2>1, <3>1, <3>2 DEF Marks
  <2>2. CASE m = Len(op)
    <3>1. off # m + 1
      BY <1>1, <1>2, <2>2
    <3>2. ~(d2[op2[m]].kind = "if" /\ d2[op2[m + 1]].kind = "else")
      BY <1>1, <1>4, <2>2
    <3> QED BY <3>1, <3>2
  <2> QED BY <1>1, <1>2, <2>1, <2>2
<1>7. off = m + 1 => d2[op2[off]].enc = d2[op2[m]].enc
  BY <1>4 DEF Marks
<1>8. \A j \in off + 1 .. last : j \in 1 .. last
  BY <1>1, <1>2
<1>9. d2[op2[m]].kind = "if" => \A j \in off + 1 .. last : d2[op2[j]].kind # "else"
  BY <1>4, <1>5, <1>8
<1> QED BY <1>2, <1>3, <1>4, <1>5, <1>6, <1>7, <1>9 DEF Marks

\* What is open between two elements.
LEMMA Between ==
  ASSUME NEW d, NEW op, NEW kind, NEW E, NEW n, NEW d2, NEW op2,
         Onward(d, op, kind, E, n, d2, op2), NEW x \in Nat, NEW y \in Nat, y <= Len(op)
  PROVE  Slice(op2, x, y) = Slice(op, x, y)
<1>1. \A i \in x + 1 .. y : op2[i] = op[i]
  <2>1. \A i \in x + 1 .. y : i \in 1 .. Len(op)
    BY DEF Onward
  <2> QED BY <2>1, Before
<1> QED BY <1>1 DEF Slice

LEMMA CapSkips ==
  ASSUME NEW d, NEW op, NEW kind, NEW E, NEW n, NEW d2, NEW op2,
         Onward(d, op, kind, E, n, d2, op2), NEW c \in Captures, NEW c2 \in Captures,
         NEW m \in 1 .. Len(op), NEW off \in 1 .. Len(op), NEW last \in 1 .. Len(op),
         CapSound(d, op, c, m, off, last),
         c2.frag = c.frag, c2.events = c.events, c2.split = c.split,
         c.skip > 0 \/ kind \in Fragment,
         c2.skip = IF kind \in Fragment THEN c.skip + 1 ELSE c.skip
  PROVE  CapSound(d2, op2, c2, m, off, last)
<1>1. /\ Marks(d, op, m, off, last) /\ c.frag = op[m] /\ Skips(d, op, c.skip, last)
      /\ Taken(d, c.events, c.frag, c.split, Slice(op, off, last))
  BY DEF CapSound
<1>2. /\ Len(op) \in Nat /\ Len(op2) = Len(op) + 1 /\ d2[op2[Len(op) + 1]].kind = kind
      /\ m \in 2 .. Len(op) /\ off \in m .. m + 1 /\ last \in off .. Len(op)
  BY <1>1 DEF Onward, Reads, Marks
<1>3. c.skip \in Nat /\ c.events \in Seq(Events)
  BY DEF Captures
<1>4. Marks(d2, op2, m, off, last)
  <2>1. m < Len(op) \/ kind # "else" \/ d[op[m]].kind # "if"
    BY <1>1, <1>2, <1>3 DEF Skips, Fragment
  <2> QED BY <1>1, <2>1, MarksKept
<1>5. Skips(d2, op2, c2.skip, last)
  <2>1. Height(d, op, Fragment, Len(op)) = 1 + c.skip
    BY <1>1 DEF Skips
  <2>2. Height(d2, op2, Fragment, Len(op2)) = 1 + c2.skip
    BY <1>3, <2>1, HeightBefore
  <2>3. c2.skip \in Nat /\ c2.skip # 0 /\ last < Len(op2)
    BY <1>2, <1>3
  <2>4. d2[op2[last + 1]].kind \in Fragment
    <3>1. CASE c.skip = 0
      BY <1>1, <1>2, <3>1, SMTT(20) DEF Skips
    <3>2. CASE c.skip # 0
      <4>1. last + 1 \in 1 .. Len(op) /\ d[op[last + 1]].kind \in Fragment
        BY <1>1, <1>2, <3>2 DEF Skips
      <4> QED BY <4>1, Before
    <3> QED BY <3>1, <3>2
  <2> QED BY <2>2, <2>3, <2>4 DEF Skips
<1>6. Taken(d2, c2.events, c2.frag, c2.split, Slice(op2, off, last))
  <2>1. Slice(op2, off, last) = Slice(op, off, last)
    <3>1. off \in Nat /\ last \in Nat /\ last <= Len(op)
      BY <1>2
    <3> QED BY <3>1, Between
  <2>2. c.frag \in 1 .. Len(d) /\ DocSound(d) /\ DocSound(d2) /\ Grown(d, d2)
    BY <1>1 DEF Onward
  <2> QED BY <1>1, <1>3, <2>1, <2>2, TakenKept
<1>7. c2.frag = op2[m]
  BY <1>1, Before
<1> QED BY <1>4, <1>5, <1>6, <1>7 DEF CapSound

LEMMA SliceFacts ==
  ASSUME NEW S, NEW s \in Seq(S), NEW x \in Nat, NEW y \in Nat, x <= y, y <= Len(s)
  PROVE  /\ Slice(s, x, y) \in Seq(S) /\ Len(Slice(s, x, y)) = y - x
         /\ \A i \in 1 .. y - x : Slice(s, x, y)[i] = s[x + i]
         /\ x = y => Slice(s, x, y) = <<>>
         /\ x < y => Slice(s, x, y) # <<>> /\ Last(Slice(s, x, y)) = s[y]
<1> DEFINE t == Slice(s, x, y)
<1>1. t = [i \in 1 .. y - x |-> s[x + i]]
  BY DEF Slice
<1>2. \A i \in 1 .. y - x : x + i \in 1 .. Len(s)
  OBVIOUS
<1>3. t \in Seq(S) /\ Len(t) = y - x
  BY DEF Slice
<1> HIDE DEF t
<1>4. \A i \in 1 .. y - x : t[i] = s[x + i]
  BY <1>1
<1>5. x = y => t = <<>>
  BY <1>3
<1>6. x < y => t # <<>> /\ t[Len(t)] = s[y]
  <2> SUFFICES ASSUME x < y PROVE t # <<>> /\ t[Len(t)] = s[y]
    OBVIOUS
  <2>1. y - x \in 1 .. y - x /\ x + (y - x) = y
    OBVIOUS
  <2> QED BY <1>3, <1>4, <2>1
<1> QED BY <1>3, <1>4, <1>5, <1>6 DEF t, Last

LEMMA SliceMore ==
  ASSUME NEW S, NEW s \in Seq(S), NEW x \in Nat, NEW y \in Nat, NEW z, z = y + 1,
         x <= y, z <= Len(s)
  PROVE  Slice(s, x, z) = Append(Slice(s, x, y), s[z])
<1> DEFINE t == Slice(s, x, y)
           t2 == Slice(s, x, z)
           a == Append(t, s[z])
<1>1. /\ t \in Seq(S) /\ Len(t) = y - x /\ \A i \in 1 .. y - x : t[i] = s[x + i]
      /\ t2 \in Seq(S) /\ Len(t2) = z - x /\ \A i \in 1 .. z - x : t2[i] = s[x + i]
  <2>1. z \in Nat /\ x <= z /\ y <= Len(s)
    OBVIOUS
  <2>2. t \in Seq(S) /\ Len(t) = y - x /\ \A i \in 1 .. y - x : t[i] = s[x + i]
    <3>1. t = [i \in 1 .. y - x |-> s[x + i]]
      BY DEF Slice
    <3>2. t \in Seq(S) /\ Len(t) = y - x
      BY <2>1 DEF Slice
    <3> HIDE DEF t
    <3>3. ASSUME NEW i \in 1 .. y - x PROVE t[i] = s[x + i]
      BY <3>1, Zenon
    <3> QED BY <3>2, <3>3
  <2>3. t2 \in Seq(S) /\ Len(t2) = z - x /\ \A i \in 1 .. z - x : t2[i] = s[x + i]
    <3>1. t2 = [i \in 1 .. z - x |-> s[x + i]]
      BY DEF Slice
    <3>2. t2 \in Seq(S) /\ Len(t2) = z - x
      BY <2>1 DEF Slice
    <3> HIDE DEF t2
    <3>3. ASSUME NEW i \in 1 .. z - x PROVE t2[i] = s[x + i]
      BY <3>1, Zenon
    <3> QED BY <3>2, <3>3
  <2> QED BY <2>2, <2>3
<1>2. s[z] \in S
  OBVIOUS
<1> HIDE DEF t, t2
<1>3. /\ a \in Seq(S) /\ Len(a) = Len(t) + 1 /\ \A i \in 1 .. Len(t) : a[i] = t[i]
      /\ a[Len(t) + 1] = s[z]
  BY <1>1, <1>2
<1> HIDE DEF a
<1>4. Len(a) = Len(t2)
  BY <1>1, <1>3
<1>5. ASSUME NEW i \in 1 .. Len(t2) PROVE t2[i] = a[i]
  <2>1. CASE i = z - x
    <3>1. i = Len(t) + 1 /\ x + i = z /\ i \in 1 .. z - x
      BY <1>1, <2>1
    <3> QED BY <1>1, <1>3, <3>1
  <2>2. CASE i \in 1 .. y - x
    <3>1. i \in 1 .. Len(t) /\ i \in 1 .. z - x
      BY <1>1, <2>2
    <3> QED BY <1>1, <1>3, <2>2, <3>1
  <2>3. i = z - x \/ i \in 1 .. y - x
    BY <1>1
  <2> QED BY <2>1, <2>2, <2>3
<1>6. t2 = a
  BY <1>1, <1>3, <1>4, <1>5
<1> QED BY <1>6 DEF t, t2, a

\* <else> is where the events of an <if> split.
LEMMA CapElse ==
  ASSUME NEW d, NEW op, NEW kind, NEW E, NEW n, NEW d2, NEW op2,
         Onward(d, op, kind, E, n, d2, op2), NEW c \in Captures, NEW c2 \in Captures,
         NEW m \in 1 .. Len(op), NEW off \in 1 .. Len(op), NEW last \in 1 .. Len(op),
         CapSound(d, op, c, m, off, last), m = Len(op), kind = "else", d[op[m]].kind = "if",
         c.skip = 0, c2.skip = 0, c2.frag = c.frag, c2.events = c.events,
         c2.split = IF c.split = -1 THEN Len(c.events) ELSE c.split
  PROVE  CapSound(d2, op2, c2, m, Len(op2), Len(op2))
<1> DEFINE k == Len(op2)
<1>1. /\ Marks(d, op, m, off, last) /\ c.frag = op[m] /\ Skips(d, op, 0, last)
      /\ Taken(d, c.events, c.frag, c.split, Slice(op, off, last))
  BY DEF CapSound
<1>2. /\ Len(op) \in Nat /\ k = m + 1 /\ d2[op2[k]].kind = "else" /\ d2[op2[k]].enc = Cur(d, op[m])
      /\ m \in 2 .. Len(op) /\ off = m /\ last = m /\ op2 \in Seq(1 .. Len(d2))
  <2>1. /\ m \in 2 .. Len(op) /\ off \in m .. m + 1 /\ last \in off .. Len(op) /\ Len(op) \in Nat
    BY <1>1 DEF Onward, Marks
  <2>2. off = m /\ last = m
    BY <2>1
  <2> QED BY <2>1, <2>2 DEF Onward, Reads, OpenSound
<1>3. c.events \in Seq(Events) /\ Len(c.events) \in Nat
  BY DEF Captures
<1>4. /\ d2[op2[m]] = d[op[m]] /\ op2[m] = op[m] /\ Cur(d2, op2[m - 1]) = Cur(d, op[m - 1])
      /\ \A j \in 1 .. m - 1 : d2[op2[j]] = d[op[j]]
  <2>1. m - 1 \in 1 .. Len(op) /\ \A j \in 1 .. m - 1 : j \in 1 .. Len(op)
    BY <1>2
  <2>2. ASSUME NEW j \in 1 .. m - 1 PROVE d2[op2[j]] = d[op[j]]
    BY <2>1, Before, SMTT(20)
  <2>3. d2[op2[m]] = d[op[m]] /\ op2[m] = op[m] /\ Cur(d2, op2[m - 1]) = Cur(d, op[m - 1])
    BY <2>1, Before
  <2> QED BY <2>2, <2>3
<1>5. Marks(d2, op2, m, k, k)
  <2>1. m \in 2 .. k /\ k \in m .. m + 1 /\ k \in k .. k /\ m < k /\ k \in Nat
    BY <1>2
  <2>2. d2[op2[m]].kind \in Fragment /\ d2[op2[m]].enc = Cur(d2, op2[m - 1])
    BY <1>1, <1>4 DEF Marks
  <2>3. ASSUME NEW j \in 1 .. k, j # m PROVE d2[op2[j]].kind \notin Fragment
    <3>1. CASE j = k
      BY <1>2, <3>1 DEF Fragment
    <3>2. CASE j \in 1 .. m - 1
      <4>1. j \in 1 .. last /\ d2[op2[j]] = d[op[j]]
        BY <1>2, <1>4, <3>2
      <4> QED BY <1>1, <2>3, <4>1 DEF Marks
    <3> QED BY <1>2, <2>3, <3>1, <3>2
  <2>4. d2[op2[k]].enc = d2[op2[m]].enc
    BY <1>2, <1>4 DEF Cur
  <2>5. \A j \in k + 1 .. k : FALSE
    BY <2>1
  <2> QED BY <1>2, <1>4, <2>1, <2>2, <2>3, <2>4, <2>5 DEF Marks
<1>6. Skips(d2, op2, c2.skip, k)
  <2>1. kind \notin Fragment /\ Height(d, op, Fragment, Len(op)) = 1 + 0
    BY <1>1 DEF Fragment, Skips
  <2>2. Height(d2, op2, Fragment, Len(op2)) = 1 + 0
    BY <2>1, HeightBefore
  <2> QED BY <2>2 DEF Skips
<1>7. Taken(d2, c2.events, c2.frag, c2.split, Slice(op2, k, k))
  <2>1. Slice(op, off, last) = <<>> /\ Slice(op2, k, k) = <<>>
    BY <1>2 DEF OpenSound, Onward, Slice
  <2>2. c.frag \in 1 .. Len(d) /\ DocSound(d) /\ DocSound(d2) /\ Grown(d, d2)
    BY <1>1 DEF Onward
  <2>3. Taken(d2, c.events, c.frag, c.split, <<>>)
    BY <1>1, <1>3, <2>1, <2>2, TakenKept
  <2>4. PICK st : /\ Trace(d2, c.events, c.frag, st) /\ st[Len(c.events)] = <<>>
                  /\ c.split = -1 \/ (c.split \in 0 .. Len(c.events) /\ st[c.split] = <<>>)
    BY <2>3 DEF Taken
  <2>5. Len(c.events) \in 0 .. Len(c.events)
    BY <1>3
  <2>6. c2.split = -1 \/ (c2.split \in 0 .. Len(c.events) /\ st[c2.split] = <<>>)
    BY <2>4, <2>5
  <2>7. Taken(d2, c.events, c.frag, c2.split, <<>>)
    BY <2>4, <2>6 DEF Taken
  <2> QED BY <2>1, <2>7
<1> QED BY <1>1, <1>4, <1>5, <1>6, <1>7 DEF CapSound

\* The start of an element is captured.
LEMMA CapEvent ==
  ASSUME NEW d, NEW op, NEW kind, NEW E, NEW n, NEW d2, NEW op2,
         Onward(d, op, kind, E, n, d2, op2), NEW c \in Captures, NEW c2 \in Captures,
         NEW m \in 1 .. Len(op), NEW off \in 1 .. Len(op), NEW last \in 1 .. Len(op),
         CapSound(d, op, c, m, off, last), kind \in {"obj", "unknown", "else"},
         ~(kind = "else" /\ d[op[m]].kind = "if"),
         c.skip = 0, c2.skip = 0, c2.frag = c.frag, c2.split = c.split,
         c2.events = Append(c.events, [elem |-> n, end |-> FALSE])
  PROVE  CapSound(d2, op2, c2, m, off, Len(op2))
<1> DEFINE k == Len(op2)
           ev == [elem |-> n, end |-> FALSE]
<1>1. /\ Marks(d, op, m, off, last) /\ c.frag = op[m] /\ Skips(d, op, 0, last)
      /\ Taken(d, c.events, c.frag, c.split, Slice(op, off, last))
  BY DEF CapSound
<1>2. /\ Len(op) \in Nat /\ k = Len(op) + 1 /\ last = Len(op) /\ m \in 2 .. Len(op)
      /\ off \in m .. m + 1 /\ off <= last /\ off \in Nat /\ last \in Nat /\ k = last + 1 /\ k \in Nat
      /\ off <= k
  <2>1. last = Len(op)
    BY <1>1 DEF Skips
  <2>2. Len(op) \in Nat /\ k = Len(op) + 1
    BY DEF Onward
  <2>3. m \in 2 .. Len(op) /\ off \in m .. m + 1 /\ last \in off .. Len(op)
    BY <1>1 DEF Marks
  <2> HIDE DEF k
  <2> QED BY <2>1, <2>2, <2>3
<1>9. op \in Seq(1 .. Len(d)) /\ op2 \in Seq(1 .. Len(d2))
  BY DEF Onward, OpenSound
<1>3. /\ op2[k] = n /\ n \in 1 .. Len(d2) /\ d2[n] = E /\ E.kind = kind /\ kind \notin Fragment
      /\ E.enc = Cur(d, op[Len(op)]) /\ E.frag = op[m]
  <2>1. E.frag = op[m]
    BY <1>1 DEF Onward, Reads
  <2> QED BY <2>1 DEF Onward, Reads, Fragment
<1> HIDE DEF k
<1>4. c.events \in Seq(Events) /\ ev \in Events
  <2>1. n \in Nat
    BY DEF Onward
  <2> QED BY <2>1 DEF Captures, Events
<1>5. Marks(d2, op2, m, off, k)
  <2>1. Marks(d2, op2, m, off, last)
    BY <1>1, MarksKept
  <2>2. off \in m .. m + 1 /\ k \in off .. k
    BY <1>2
  <2>3. ASSUME NEW j \in 1 .. k, j # m PROVE d2[op2[j]].kind \notin Fragment
    <3>1. CASE j = k
      BY <1>3, <3>1
    <3>2. CASE j \in 1 .. last
      BY <2>1, <2>3, <3>2 DEF Marks
    <3>3. j = k \/ j \in 1 .. last
      BY <1>2
    <3> QED BY <3>1, <3>2, <3>3
  <2>4. d2[op2[m]].kind = d[op[m]].kind
    BY Before
  <2>5. ASSUME d2[op2[m]].kind = "if", NEW j \in off + 1 .. k PROVE d2[op2[j]].kind # "else"
    <3>1. CASE j = k
      BY <1>3, <2>4, <2>5, <3>1
    <3>2. CASE j \in off + 1 .. last
      BY <2>1, <2>5, <3>2 DEF Marks
    <3>3. j = k \/ j \in off + 1 .. last
      BY <1>2
    <3> QED BY <3>1, <3>2, <3>3
  <2> QED BY <2>1, <2>2, <2>3, <2>5 DEF Marks, k
<1>6. Skips(d2, op2, c2.skip, k)
  <2>1. Height(d, op, Fragment, Len(op)) = 1 + 0
    BY <1>1 DEF Skips
  <2>2. Height(d2, op2, Fragment, Len(op2)) = 1 + 0
    BY <1>3, <2>1, HeightBefore
  <2> QED BY <2>2 DEF Skips, k
<1>7. Taken(d2, c2.events, c2.frag, c2.split, Slice(op2, off, k))
  <2> DEFINE s == Slice(op, off, last)
             s2 == Slice(op2, off, k)
  <2>1. s2 \in Seq(1 .. Len(d2)) /\ s2 = Append(Slice(op2, off, last), n)
    <3>1. off <= k /\ k <= Len(op2) /\ off <= last
      BY <1>2 DEF k
    <3>2. s2 \in Seq(1 .. Len(d2))
      BY <1>2, <1>9, <3>1, SliceFacts
    <3>3. /\ op2 \in Seq(1 .. Len(d2)) /\ off \in Nat /\ last \in Nat /\ k = last + 1
          /\ off <= last /\ k <= Len(op2)
      BY <1>2, <1>9, <3>1
    <3>4. s2 = Append(Slice(op2, off, last), op2[k])
      BY <3>3, SliceMore
    <3> QED BY <1>3, <3>2, <3>4
  <2>2. Slice(op2, off, last) = s
    <3>1. last <= Len(op)
      BY <1>2
    <3> QED BY <1>2, <3>1, Between
  <2>9. s \in Seq(1 .. Len(d)) /\ (off = last => s = <<>>) /\ (off < last => s # <<>> /\ Last(s) = op[last])
    <3>1. op \in Seq(1 .. Len(d)) /\ off \in Nat /\ last \in Nat /\ off <= last /\ last <= Len(op)
      BY <1>2, <1>9
    <3> QED BY <3>1, SliceFacts
  <2> HIDE DEF s
  <2>3. Cur(d, Inner(c.frag, s)) = E.enc
    <3>1. CASE off = last
      <4>1. s = <<>>
        BY <2>9, <3>1
      <4>2. Cur(d, op[m]) = d[op[m]].enc
        BY <1>1 DEF Marks, Cur, Fragment
      <4>3. Cur(d, op[off]) = d[op[m]].enc
        <5>1. CASE off = m
          BY <4>2, <5>1
        <5>2. CASE off = m + 1
          <6>1. d[op[off]].enc = d[op[m]].enc /\ d[op[m + 1]].kind = "else"
            BY <1>1, <5>2 DEF Marks
          <6> QED BY <5>2, <6>1 DEF Cur
        <5> QED BY <1>2, <5>1, <5>2
      <4>4. E.enc = Cur(d, op[off]) /\ Inner(c.frag, s) = op[m]
        BY <1>1, <1>2, <1>3, <3>1, <4>1 DEF Inner
      <4> QED BY <4>2, <4>3, <4>4
    <3>2. CASE off < last
      <4>1. s # <<>> /\ s[Len(s)] = op[last]
        BY <2>9, <3>2 DEF Last
      <4> QED BY <1>2, <1>3, <4>1 DEF Inner
    <3> QED BY <1>2, <3>1, <3>2
  <2>4. Inner(c.frag, s) \in 1 .. Len(d)
    <3>1. s \in Seq(1 .. Len(d)) /\ c.frag \in 1 .. Len(d)
      BY <1>1, <1>2, <1>9, <2>9, SMTT(20)
    <3> HIDE DEF s
    <3>2. s # <<>> => s[Len(s)] \in 1 .. Len(d)
      BY <3>1
    <3> QED BY <3>1, <3>2 DEF Inner
  <2> HIDE DEF s, s2
  <2>5. Cur(d2, Inner(c.frag, s)) = E.enc
    <3>1. d2[Inner(c.frag, s)] = d[Inner(c.frag, s)]
      BY <2>4 DEF Onward, Grown
    <3> QED BY <2>3, <3>1 DEF Cur
  <2>6. Taken(d2, c.events, c.frag, c.split, s)
    <3>1. c.frag \in 1 .. Len(d) /\ DocSound(d) /\ DocSound(d2) /\ Grown(d, d2)
      BY <1>1 DEF Onward
    <3>2. Taken(d, c.events, c.frag, c.split, s)
      BY <1>1 DEF s
    <3> QED BY <1>4, <3>1, <3>2, TakenKept
  <2>7. /\ ev.elem = n /\ ~ev.end /\ s2 = Append(s, n)
        /\ d2[n].enc = Cur(d2, Inner(c.frag, s)) /\ d2[n].frag = c.frag
        /\ d2[n].kind \notin Fragment
    BY <1>1, <1>3, <2>1, <2>2, <2>5
  <2> HIDE DEF ev
  <2>8. Taken(d2, Append(c.events, ev), c.frag, c.split, s2)
    BY <1>3, <1>4, <2>1, <2>6, <2>7, TakenMore
  <2> QED BY <2>8 DEF s2, ev
<1>8. c2.frag = op2[m]
  BY <1>1, Before
<1> QED BY <1>5, <1>6, <1>7, <1>8 DEF CapSound, k

\* A fragment opens the capture.
LEMMA CapOpens ==
  ASSUME NEW d, NEW op, NEW kind, NEW E, NEW n, NEW d2, NEW op2,
         Onward(d, op, kind, E, n, d2, op2), NEW c2, Plain(d, op), kind \in Fragment,
         c2.skip = 0, c2.frag = n, c2.split = -1, c2.events = <<>>
  PROVE  CapSound(d2, op2, c2, Len(op2), Len(op2), Len(op2))
<1> DEFINE k == Len(op2)
<1>1. /\ Len(op) \in Nat \ {0} /\ k = Len(op) + 1 /\ op2[k] = n /\ d2[n].kind = kind
      /\ d2[n].enc = Cur(d, op[Len(op)]) /\ op2 \in Seq(1 .. Len(d2)) /\ Len(d2) \in Nat
  BY DEF Onward, Reads, OpenSound, DocSound
<1>2. ASSUME NEW j \in 1 .. Len(op)
      PROVE  d2[op2[j]].kind \notin Fragment /\ Cur(d2, op2[j]) = Cur(d, op[j])
  BY Before DEF Plain
<1>3. Marks(d2, op2, k, k, k)
  <2>1. k \in 2 .. k /\ k \in k .. k + 1 /\ k \in k .. k /\ k \in Nat /\ k - 1 = Len(op)
    BY <1>1
  <2>2. d2[op2[k]].enc = Cur(d2, op2[k - 1])
    BY <1>1, <1>2, <2>1
  <2>3. \A j \in 1 .. k : j # k => d2[op2[j]].kind \notin Fragment
    BY <1>1, <1>2
  <2>4. (k # k + 1) /\ ~(k < k) /\ \A j \in k + 1 .. k : FALSE
    BY <2>1
  <2> QED BY <1>1, <2>1, <2>2, <2>3, <2>4 DEF Marks
<1>4. Skips(d2, op2, 0, k)
  <2>1. Height(d, op, Fragment, Len(op)) = 0
    BY <1>1, HeightNone DEF Plain
  <2>2. Height(d2, op2, Fragment, Len(op2)) = 1 + 0
    BY <2>1, HeightBefore
  <2> QED BY <2>2 DEF Skips
<1>5. Taken(d2, <<>>, n, -1, Slice(op2, k, k))
  <2> DEFINE st == [i \in 0 .. Len(<<>>) |-> <<>>]
  <2>1. Slice(op2, k, k) = <<>> /\ <<>> \in Seq(1 .. Len(d2)) /\ Len(<<>>) = 0
    BY <1>1 DEF Slice
  <2>2. st \in [0 .. Len(<<>>) -> Seq(1 .. Len(d2))] /\ st[0] = <<>> /\ st[Len(<<>>)] = <<>>
    BY <2>1
  <2> HIDE DEF st
  <2>3. Trace(d2, <<>>, n, st)
    BY <2>2 DEF Trace
  <2> QED BY <2>1, <2>2, <2>3 DEF Taken
<1> QED BY <1>1, <1>3, <1>4, <1>5 DEF CapSound
-----------------------------------------------------------------------------
(* Between two tags of the document: a start tag.                             *)

\* A start tag of this kind, read as E.
Starts(kind, E, n) ==
  /\ Onward(doc, open, kind, E, n, doc', open') /\ Later(doc, obj, doc', obj, {})
  /\ ObjSound(doc', obj) /\ Parsing /\ Free # {} /\ UNCHANGED <<rec, val, todo>>
  /\ kind \in Kinds /\ n = Len(doc) + 1

LEMMA StartsFacts ==
  ASSUME IInv, NEW kind \in Kinds, NEW bound \in BOOLEAN, NEW num \in Values \cup {0},
         StartTag(kind, bound, num), NEW E, E = Read(kind, bound, num),
         NEW n, n = Len(doc) + 1
  PROVE  Starts(kind, E, n)
<1>1. /\ Parsing /\ open # <<>> /\ Free # {} /\ UNCHANGED <<rec, val, todo>>
      /\ doc' = Append(doc, E) /\ open' = Append(open, n)
  BY DEF StartTag
<1>2. num \in Nat
  BY FragmentAssumption
<1>3. Reads(doc, open, kind, E)
  BY <1>1, <1>2, ReadFacts
<1>4. DocSound(doc) /\ OpenSound(doc, open) /\ ObjSound(doc, obj) /\ obj \in [Ids -> Objects(doc)]
  BY IInvFacts
<1>5. Onward(doc, open, kind, E, n, doc', open')
  BY <1>1, <1>3, <1>4, ReadOn
<1>6. DocSound(doc') /\ Grown(doc, doc')
  BY <1>5 DEF Onward
<1>7. ObjSound(doc', obj)
  BY <1>4, <1>6, ObjGrown
<1>8. Later(doc, obj, doc', obj, {})
  BY <1>4, <1>6 DEF Later, Kept
<1> QED BY <1>1, <1>5, <1>7, <1>8 DEF Starts

\* The records are those of fragments that came before.
LEMMA StartsRecs ==
  ASSUME IInv, NEW kind, NEW E, NEW n, Starts(kind, E, n), NEW ob2, NEW c2,
         Later(doc, obj, doc', ob2, {}), c2.frag = cap.frag \/ c2.frag = n
  PROVE  RecSound(doc', ob2, open', c2, rec)
<1>1. /\ DocSound(doc') /\ n = Len(doc) + 1 /\ Len(doc) \in Nat /\ Len(open) \in Nat
      /\ Len(open') = Len(open) + 1 /\ open'[Len(open')] = n
      /\ \A i \in 1 .. Len(open) : open'[i] = open[i]
  BY DEF Starts, Onward
<1>2. ASSUME NEW f \in 1 .. Len(doc), Behind(open, cap, f)
      PROVE  Behind(open', c2, f)
  <2>1. f # n
    BY <1>1
  <2>2. ASSUME NEW i \in 1 .. Len(open') PROVE f # open'[i]
    <3>1. CASE i = Len(open')
      BY <1>1, <2>1, <3>1
    <3>2. CASE i \in 1 .. Len(open)
      BY <1>1, <1>2, <3>2 DEF Behind
    <3> QED BY <1>1, <3>1, <3>2
  <2> QED BY <1>2, <2>1, <2>2 DEF Behind
<1> QED BY <1>1, <1>2, RecsPassed

\* Outside of fragments, it creates and pushes.
LEMMA StartPushes ==
  ASSUME IInv, NEW kind, NEW E, NEW n, Starts(kind, E, n), ~Capturing, kind \notin Fragment,
         cap' = cap, stack' = WithTop(Pushed(Top, kind)), obj' = Created(Top, n, kind)
  PROVE  IInv'
<1> DEFINE P == Top
           par == P.parents
           Q == Pushed(Top, kind)
<1>1. /\ stack # <<>> /\ Len(stack) = 1 /\ P \in Frames /\ P.kind = "doc" /\ Shape(stack)
      /\ P.play.rec = Nothing /\ ~P.play.on /\ val \in Nat /\ todo = {}
      /\ DocFrame(doc, obj, open, cap, P)
  BY ParsingFacts DEF Starts
<1>2. /\ Onward(doc, open, kind, E, n, doc', open') /\ Later(doc, obj, doc', obj, {})
      /\ ObjSound(doc', obj) /\ Free # {} /\ UNCHANGED <<rec, val, todo>> /\ kind \in Kinds
  BY DEF Starts
<1>3. /\ Plain(doc, open) /\ Stands(doc, obj, par, 1, Len(par), open, Len(open), {})
  BY <1>1 DEF DocFrame, Capturing
<1>4. /\ DocSound(doc') /\ Len(open) \in Nat \ {0} /\ Len(open') = Len(open) + 1
      /\ n \in 1 .. Len(doc') /\ doc'[n] = E /\ E.kind = kind /\ OpenSound(doc', open')
      /\ E.enc = Cur(doc, open[Len(open)]) /\ E.frag = Nothing
      /\ open'[Len(open')] = n /\ \A i \in 1 .. Len(open) : open'[i] = open[i] /\ doc'[open[i]] = doc[open[i]]
      /\ open \in Seq(1 .. Len(doc))
  BY <1>2, <1>3 DEF Onward, Reads, OpenSound
<1>5. par \in Seq(Ids \cup {Outer}) /\ par # <<>> /\ Last(par) = par[Len(par)] /\ Len(par) \in Nat \ {0}
  <2>1. par \in Seq(Ids \cup {Outer})
    BY <1>1 DEF Frames
  <2>2. Len(par) = 1 + Height(doc, open, Level, Len(open))
    BY <1>3 DEF Stands
  <2>3. Height(doc, open, Level, Len(open)) \in Nat
    BY <1>4, HeightStep
  <2>4. Len(par) \in Nat \ {0}
    BY <2>2, <2>3
  <2> QED BY <2>1, <2>4 DEF Last
<1>6. Of(doc, obj, Last(par), {}) /\ obj[Last(par)].elem = E.enc
  <2>1. Of(doc, obj, par[Len(par)], {}) /\ obj[par[Len(par)]].elem = Cur(doc, open[Len(open)])
    <3>1. 1 \in Nat \ {0}
      OBVIOUS
    <3> HIDE DEF par
    <3> QED BY <1>3, <1>4, <3>1, StandsTop
  <2> QED BY <1>4, <1>5, <2>1
<1> DEFINE top == Last(par)
<1>7. kind \in {"obj", "unknown", "else"}
  BY <1>2 DEF Kinds
<1>8. HasNew(doc', obj, obj', n, kind, NewId)
  <2>1. {} \cap {} = {}
    OBVIOUS
  <2>2. Of(doc', obj, top, {})
    <3> HIDE DEF top
    <3> QED BY <1>2, <1>6, <2>1, OfKept DEF top
  <2>3. Creates(doc', obj, Last(P.parents), n, kind)
    BY <1>2, <1>4, <1>6, <2>2 DEF Creates, Of
  <2> HIDE DEF par, top
  <2> QED BY <1>2, <2>3, CreatedSound
<1>9. ObjSound(doc', obj') /\ Later(doc, obj, doc', obj', {})
  <2>1. Kept(doc, obj, obj', {})
    BY <1>8 DEF HasNew, Kept
  <2> QED BY <1>2, <1>8, <2>1 DEF HasNew, Later
<1>10. Of(doc', obj', top, {}) /\ obj'[top].elem = E.enc
  <2>1. {} \cap {} = {}
    OBVIOUS
  <2> HIDE DEF top
  <2> QED BY <1>6, <1>9, <2>1, OfKept DEF top
<1>11. Pushes(doc', obj', P, Q, n, kind, Nothing, NewId)
  <2>1. NewId \in Ids
    BY <1>2, NewIdFree
  <2>2. kind = "obj" => Of(doc', obj', NewId, {Nothing}) /\ obj'[NewId].elem = n
    BY <1>4, <1>8 DEF HasNew, Of
  <2>3. Of(doc', obj', Last(P.parents), {Nothing}) /\ obj'[Last(P.parents)].elem = doc'[n].enc
    BY <1>4, <1>10 DEF Of
  <2>4. Pushable(doc', obj', P, n, kind, Nothing, NewId)
    BY <1>1, <1>4, <1>5, <1>7, <2>1, <2>2, <2>3 DEF Pushable
  <2> HIDE DEF par, top, Q
  <2> QED BY <2>4, PushedFacts DEF Q
<1> HIDE DEF top, Q
<1>12. /\ Q \in Frames /\ Q.kind = P.kind /\ Q.play = P.play /\ Entered(doc', obj', P, Q, n, Nothing)
  BY <1>11 DEF Pushes
<1>13. Stands(doc', obj', Q.parents, 1, Len(Q.parents), open', Len(open'), {})
  <2> DEFINE par2 == Q.parents
             u == Len(open)
             u2 == Len(open')
             k == Len(par)
             k2 == Len(par2)
  <2>1. Stands(doc', obj', par, 1, k, open, u, {})
    <3>1. u \in 0 .. Len(open) /\ {} \cap {} = {}
      BY <1>4
    <3> HIDE DEF par, k, u
    <3> QED BY <1>3, <1>4, <1>9, <3>1, StandsKept DEF k, u
  <2>2. Widened(doc', obj', par, par2, k, k2, open, open', u, u2, {})
    <3>1. /\ k2 = (IF doc'[n].kind \in Level THEN k + 1 ELSE k) /\ \A i \in 1 .. k : par2[i] = par[i]
          /\ Of(doc', obj', par2[k2], {Nothing}) /\ obj'[par2[k2]].elem = Cur(doc', n)
      BY <1>12 DEF Entered
    <3>2. Of(doc', obj', par2[k2], {})
      BY <3>1 DEF Of
    <3>3. par2 \in Seq(Ids \cup {Outer})
      BY <1>12 DEF Frames
    <3> HIDE DEF par, par2
    <3>4. k \in Nat /\ k2 \in Nat /\ k <= k2
      BY <1>5, <3>1, <3>3
    <3>5. u \in Nat /\ u2 = u + 1 /\ \A x \in 1 .. u : open'[x] = open[x]
      BY <1>4
    <3> QED BY <1>4, <3>1, <3>2, <3>4, <3>5 DEF Widened
  <2>3. 1 \in Nat \ {0}
    OBVIOUS
  <2> HIDE DEF par, par2, u, u2, k, k2
  <2>4. Stands(doc', obj', par2, 1, k2, open', u2, {})
    BY <2>1, <2>2, <2>3, StandsMore
  <2> QED BY <2>4 DEF par2, u2, k2
<1>14. Plain(doc', open')
  <2> SUFFICES ASSUME NEW i \in 1 .. Len(open') PROVE doc'[open'[i]].kind \notin Fragment
    BY DEF Plain
  <2>1. CASE i = Len(open')
    BY <1>4, <2>1
  <2>2. CASE i \in 1 .. Len(open)
    BY <1>3, <1>4, <2>2 DEF Plain
  <2> QED BY <1>4, <2>1, <2>2
<1>15. FrameSound(doc', obj', open', cap', rec, Q)
  <2>1. DocFrame(doc', obj', open', cap', Q)
    BY <1>1, <1>12, <1>13, <1>14 DEF DocFrame, Capturing
  <2> QED BY <1>1, <1>12, <2>1 DEF FrameSound
<1>16. RecSound(doc', obj', open', cap', rec)
  BY <1>9, StartsRecs
<1>17. stack' \in Seq(Frames) /\ StackSound(doc', obj', open', cap', rec, stack')
  <2>1. \A i \in 1 .. Len(stack) - 1 : FrameSound(doc', obj', open', cap', rec, stack[i])
    BY <1>1
  <2>2. stack \in Seq(Frames) /\ stack' = WithTop(Q) /\ Q.kind = Top.kind /\ Q.play.rec = Top.play.rec
    BY <1>12, IInvFacts DEF Q
  <2> QED BY <1>1, <1>12, <1>15, <2>1, <2>2, StackReplaced
<1>18. Typed'
  BY <1>1, <1>2, <1>17 DEF IInv, Typed
<1> QED BY <1>2, <1>4, <1>9, <1>16, <1>17, <1>18 DEF IInv

\* In a fragment, or where one begins, it is captured or skipped.
LEMMA StartTaken ==
  ASSUME IInv, NEW kind, NEW E, NEW n, Starts(kind, E, n), stack' = stack, obj' = obj,
         cap' \in Captures, cap'.frag = cap.frag \/ cap'.frag = n, cap'.frag # Nothing,
         NEW m \in 1 .. Len(open'), NEW off \in 1 .. Len(open'), NEW last \in 1 .. Len(open'),
         CapSound(doc', open', cap', m, off, last), cap'.base = Len(Top.parents),
         Stands(doc, obj, Top.parents, 1, cap'.base, open, m - 1, {})
  PROVE  IInv'
<1> DEFINE P == Top
<1>1. /\ stack # <<>> /\ Len(stack) = 1 /\ P \in Frames /\ P.kind = "doc" /\ Shape(stack)
      /\ P.play.rec = Nothing /\ ~P.play.on /\ val \in Nat /\ todo = {} /\ P = stack[1]
  BY ParsingFacts DEF Starts
<1>2. /\ Onward(doc, open, kind, E, n, doc', open') /\ Later(doc, obj, doc', obj, {})
      /\ ObjSound(doc', obj) /\ UNCHANGED <<rec, val, todo>>
  BY DEF Starts
<1>3. /\ DocSound(doc') /\ Len(open) \in Nat \ {0} /\ Len(open') = Len(open) + 1
      /\ OpenSound(doc', open') /\ \A i \in 1 .. Len(open) : open'[i] = open[i]
      /\ open \in Seq(1 .. Len(doc))
  BY <1>2 DEF Onward, OpenSound
<1>4. Stands(doc', obj, P.parents, 1, cap'.base, open', m - 1, {})
  <2>1. m - 1 \in 0 .. Len(open) /\ m - 1 \in Nat /\ {} \cap {} = {} /\ 1 \in Nat \ {0}
    BY <1>3
  <2>2. Stands(doc', obj, P.parents, 1, cap'.base, open, m - 1, {})
    <3> HIDE DEF P
    <3> QED BY <1>2, <1>3, <2>1, StandsKept DEF P
  <2>3. cap'.base <= Len(P.parents) /\ \A x \in 1 .. m - 1 : open'[x] = open[x]
    BY <1>3, <2>1, <2>2 DEF Stands
  <2> HIDE DEF P
  <2> QED BY <2>1, <2>2, <2>3, StandsSame
<1>5. FrameSound(doc', obj, open', cap', rec, P)
  <2>1. \E i, j, k \in 1 .. Len(open') :
          /\ CapSound(doc', open', cap', i, j, k)
          /\ Stands(doc', obj, P.parents, 1, cap'.base, open', i - 1, {})
    BY <1>4
  <2>2. DocFrame(doc', obj, open', cap', P)
    BY <1>1, <2>1 DEF DocFrame
  <2> QED BY <1>1, <2>2 DEF FrameSound
<1>6. RecSound(doc', obj, open', cap', rec)
  BY <1>2, StartsRecs
<1>7. StackSound(doc', obj, open', cap', rec, stack)
  <2>1. \A i \in 1 .. Len(stack) : FrameSound(doc', obj, open', cap', rec, stack[i])
    BY <1>1, <1>5
  <2> QED BY <1>1, <2>1 DEF StackSound
<1>8. Typed'
  BY <1>1, <1>2 DEF IInv, Typed
<1> QED BY <1>2, <1>3, <1>6, <1>7, <1>8 DEF IInv

\* What a step leaves of a capture, or puts in its place.
Amends(c, c2, events, split, skip) ==
  /\ c2 \in Captures /\ c2.frag = c.frag /\ c2.base = c.base
  /\ c2.events = events /\ c2.split = split /\ c2.skip = skip

LEMMA SkipAmends ==
  ASSUME NEW c \in Captures, c.frag # Nothing, NEW k \in Nat, NEW c2, c2 = [c EXCEPT !.skip = k]
  PROVE  Amends(c, c2, c.events, c.split, k)
  BY DEF Captures, Amends

LEMMA SplitAmends ==
  ASSUME NEW c \in Captures, c.frag # Nothing, NEW k \in Int, NEW c2, c2 = [c EXCEPT !.split = k]
  PROVE  Amends(c, c2, c.events, k, c.skip)
  BY DEF Captures, Amends

WithEvent(c, ev) == [c EXCEPT !.events = Append(@, ev)]
LEMMA EventAmends ==
  ASSUME NEW c \in Captures, c.frag # Nothing, NEW ev \in Events, NEW c2, c2 = WithEvent(c, ev)
  PROVE  Amends(c, c2, Append(c.events, ev), c.split, c.skip)
<1> DEFINE a == Append(c.events, ev)
<1>1. c2 = [c EXCEPT !.events = a] /\ a \in Seq(Events)
  <2>1. c.events \in Seq(Events)
    BY DEF Captures
  <2> QED BY <2>1 DEF Captures, WithEvent
<1> HIDE DEF a
<1>2. Amends(c, c2, a, c.split, c.skip)
  BY <1>1 DEF Captures, Amends
<1> QED BY <1>2 DEF a

LEMMA StartOpens ==
  ASSUME IInv, NEW kind, NEW E, NEW n, Starts(kind, E, n), ~Capturing, kind \in Fragment,
         cap' = Captured(n, kind), stack' = stack, obj' = obj
  PROVE  IInv'
<1> DEFINE k == Len(open')
<1>1. DocFrame(doc, obj, open, cap, Top) /\ Top \in Frames
  BY ParsingFacts DEF Starts
<1>2. /\ Plain(doc, open)
      /\ Stands(doc, obj, Top.parents, 1, Len(Top.parents), open, Len(open), {})
  BY <1>1 DEF DocFrame, Capturing
<1>3. Onward(doc, open, kind, E, n, doc', open') /\ n \in Nat \ {0}
  BY DEF Starts, Onward
<1>4. Len(open) \in Nat \ {0} /\ k = Len(open) + 1
  BY <1>3 DEF Onward
<1>5. /\ cap' \in Captures /\ cap'.skip = 0 /\ cap'.frag = n /\ cap'.split = -1
      /\ cap'.events = <<>> /\ cap'.base = Len(Top.parents)
  <2>1. cap \in Captures /\ cap.frag = Nothing
    BY IInvFacts DEF Capturing
  <2>2. cap.skip = 0
    BY <2>1 DEF Captures
  <2>3. cap' = [NoCapture EXCEPT !.frag = n, !.base = Len(Top.parents)]
    <3>1. ~(cap.skip > 0)
      BY <2>2
    <3>2. Captured(n, kind) = [NoCapture EXCEPT !.frag = n, !.base = Len(Top.parents)]
      BY <3>1, Zenon DEF Captured
    <3> QED BY <3>2
  <2>4. Len(Top.parents) \in Nat
    BY <1>1 DEF Frames
  <2>5. cap' = [frag |-> n, base |-> Len(Top.parents), events |-> <<>>, split |-> -1, skip |-> 0]
    BY <2>3 DEF NoCapture
  <2>6. <<>> \in Seq(Events)
    OBVIOUS
  <2> QED BY <1>3, <2>4, <2>5, <2>6 DEF Captures
<1>6. CapSound(doc', open', cap', k, k, k)
  BY <1>2, <1>3, <1>5, CapOpens
<1>7. k \in 1 .. Len(open') /\ k - 1 = Len(open)
  BY <1>4
<1>8. Stands(doc, obj, Top.parents, 1, cap'.base, open, k - 1, {})
  BY <1>2, <1>5, <1>7
<1> HIDE DEF k
<1>9. cap'.frag # Nothing
  BY <1>3, <1>5 DEF Nothing
<1> QED BY <1>5, <1>6, <1>7, <1>8, <1>9, StartTaken

LEMMA StartInside ==
  ASSUME IInv, NEW kind, NEW E, NEW n, Starts(kind, E, n), Capturing, Writable(E),
         cap' = Captured(n, kind), stack' = stack, obj' = obj
  PROVE  IInv'
<1>1. PICK m, off, last \in 1 .. Len(open) : Holds(m, off, last)
  BY CaptureFacts DEF Starts
<1>2. /\ CapSound(doc, open, cap, m, off, last) /\ cap.base = Len(Top.parents)
      /\ Stands(doc, obj, Top.parents, 1, cap.base, open, m - 1, {})
  BY <1>1 DEF Holds
<1>3. /\ Onward(doc, open, kind, E, n, doc', open') /\ n \in Nat /\ kind \in Kinds
      /\ Len(open) \in Nat \ {0} /\ Len(open') = Len(open) + 1
  BY DEF Starts, Onward
<1>4. cap \in Captures /\ cap.frag # Nothing /\ cap.skip \in Nat /\ cap.split \in Int
        /\ cap.events \in Seq(Events)
  BY IInvFacts DEF Capturing, Captures
<1>5. /\ m \in 1 .. Len(open') /\ off \in 1 .. Len(open') /\ last \in 1 .. Len(open')
      /\ Len(open') \in 1 .. Len(open')
  BY <1>3
<1>6. cap.frag = open[m] /\ Marks(doc, open, m, off, last) /\ Skips(doc, open, cap.skip, last)
  BY <1>2 DEF CapSound
<1>7. CASE cap.skip > 0 \/ kind \in Fragment
  <2> DEFINE k == IF kind \in Fragment THEN cap.skip + 1 ELSE cap.skip
  <2>1. k \in Nat /\ cap' = [cap EXCEPT !.skip = k]
    <3>1. CASE cap.skip > 0
      <4>1. Captured(n, kind) = [cap EXCEPT !.skip = k]
        BY <3>1, Zenon DEF Captured
      <4> QED BY <1>4, <4>1
    <3>2. CASE ~(cap.skip > 0) /\ kind \in Fragment
      <4>1. Captured(n, kind) = [cap EXCEPT !.skip = 1]
        BY <3>2, Zenon DEF Captured
      <4>2. k = 1
        BY <1>4, <3>2
      <4> QED BY <4>1, <4>2
    <3> QED BY <1>7, <3>1, <3>2
  <2> HIDE DEF k
  <2>2. Amends(cap, cap', cap.events, cap.split, k)
    BY <1>4, <2>1, SkipAmends
  <2>3. CapSound(doc', open', cap', m, off, last)
    BY <1>2, <1>3, <1>4, <1>7, <2>2, CapSkips DEF Amends, k
  <2> QED BY <1>2, <1>4, <1>5, <2>2, <2>3, StartTaken DEF Amends
<1>8. CASE cap.skip = 0 /\ kind = "else" /\ doc[cap.frag].kind = "if"
  <2> DEFINE k == IF cap.split = -1 THEN Len(cap.events) ELSE cap.split
  <2>1. k \in Int /\ cap' = [cap EXCEPT !.split = k]
    BY <1>4, <1>8 DEF Captured, Captures, Fragment
  <2> HIDE DEF k
  <2>2. Amends(cap, cap', cap.events, k, cap.skip)
    BY <1>4, <2>1, SplitAmends
  <2>3. m = Len(open)
    <3>1. E.frag = open[m] /\ ~E.nested /\ E.kind = "else" /\ E.up = open[Len(open)]
      BY <1>3, <1>4, <1>6, <1>8, SMTT(20) DEF Onward, Reads, Fragment
    <3>2. open[Len(open)] = open[m]
      BY <1>4, <1>6, <1>8, <3>1 DEF Writable
    <3>3. m < Len(open) => open[m] < open[Len(open)]
      <4>1. Len(open) \in 1 .. Len(open)
        BY <1>3
      <4> QED BY <1>3, <4>1 DEF Onward, OpenSound
    <3>4. open[m] \in Nat
      BY <1>3 DEF Onward
    <3> QED BY <1>3, <3>2, <3>3, <3>4
  <2>4. CapSound(doc', open', cap', m, Len(open'), Len(open'))
    BY <1>2, <1>3, <1>4, <1>6, <1>8, <2>2, <2>3, CapElse DEF Amends, k
  <2> QED BY <1>2, <1>4, <1>5, <2>2, <2>4, StartTaken DEF Amends
<1>9. CASE cap.skip = 0 /\ kind \notin Fragment /\ ~(kind = "else" /\ doc[cap.frag].kind = "if")
  <2> DEFINE ev == [elem |-> n, end |-> FALSE]
  <2>1. ev \in Events /\ cap' = WithEvent(cap, ev)
    <3>1. ~(cap.skip > 0)
      BY <1>9
    <3>2. Captured(n, kind) = [cap EXCEPT !.events = Append(@, ev)]
      BY <1>9, <3>1, Zenon DEF Captured
    <3> QED BY <1>3, <3>2 DEF Events, WithEvent
  <2>2. kind \in {"obj", "unknown", "else"}
    BY <1>3, <1>9 DEF Kinds
  <2> HIDE DEF ev
  <2>5. cap \in Captures /\ cap.frag # Nothing
    BY <1>4
  <2>3. Amends(cap, cap', Append(cap.events, ev), cap.split, cap.skip)
    BY <2>1, <2>5, EventAmends
  <2>4. CapSound(doc', open', cap', m, off, Len(open'))
    <3>1. /\ cap' \in Captures /\ cap'.skip = 0 /\ cap'.frag = cap.frag /\ cap'.split = cap.split
          /\ cap'.events = Append(cap.events, [elem |-> n, end |-> FALSE])
      BY <1>9, <2>3 DEF Amends, ev
    <3>2. ~(kind = "else" /\ doc[open[m]].kind = "if") /\ cap.skip = 0
      BY <1>6, <1>9
    <3>3. CapSound(doc, open, cap, m, off, last) /\ Onward(doc, open, kind, E, n, doc', open')
      BY <1>2, <1>3
    <3> QED BY <2>2, <2>5, <3>1, <3>2, <3>3, CapEvent, ZenonT(40)
  <2> QED BY <1>2, <1>4, <1>5, <2>3, <2>4, StartTaken DEF Amends
<1> QED BY <1>4, <1>7, <1>8, <1>9

LEMMA StartTagSound ==
  ASSUME IInv, NEW kind \in Kinds, NEW bound \in BOOLEAN, NEW num \in Values \cup {0},
         StartTag(kind, bound, num)
  PROVE  IInv'
<1> DEFINE E == Read(kind, bound, num)
           n == Len(doc) + 1
<1>1. /\ Writable(E)
      /\ cap' = (IF Capturing \/ kind \in Fragment THEN Captured(n, kind) ELSE cap)
      /\ stack' = (IF Capturing \/ kind \in Fragment THEN stack ELSE WithTop(Pushed(Top, kind)))
      /\ obj' = (IF Capturing \/ kind \in Fragment THEN obj ELSE Created(Top, n, kind))
  BY DEF StartTag
<1> HIDE DEF E, n
<1>2. Starts(kind, E, n)
  BY StartsFacts DEF E, n
<1>3. CASE ~Capturing /\ kind \notin Fragment
  BY <1>1, <1>2, <1>3, StartPushes
<1>4. CASE ~Capturing /\ kind \in Fragment
  BY <1>1, <1>2, <1>4, StartOpens
<1>5. CASE Capturing
  BY <1>1, <1>2, <1>5, StartInside
<1> QED BY <1>3, <1>4, <1>5
-----------------------------------------------------------------------------
(* Between two tags of the document: an end tag.                              *)

\* The innermost element of op is closed.
Backward(d, op, op2) ==
  /\ DocSound(d) /\ op \in Seq(1 .. Len(d)) /\ op2 \in Seq(1 .. Len(d)) /\ Len(op) \in Nat \ {0}
  /\ Len(op2) = Len(op) - 1 /\ \A i \in 1 .. Len(op) - 1 : op2[i] = op[i]

LEMMA HeightBack ==
  ASSUME NEW d, NEW op, NEW op2, Backward(d, op, op2), NEW K
  PROVE  /\ \A i \in 0 .. Len(op2) : Height(d, op2, K, i) = Height(d, op, K, i)
         /\ Height(d, op, K, Len(op)) = Height(d, op2, K, Len(op2)) +
                                          (IF d[op[Len(op)]].kind \in K THEN 1 ELSE 0)
         /\ Height(d, op2, K, Len(op2)) \in Nat
<1> DEFINE n == Len(op2)
<1>1. Len(op) = n + 1 /\ n \in Nat /\ \A i \in 1 .. n : op2[i] = op[i]
  <2>1. Len(op) \in Nat \ {0} /\ Len(op2) = Len(op) - 1
    BY DEF Backward
  <2>2. \A i \in 1 .. Len(op) - 1 : op2[i] = op[i]
    BY DEF Backward
  <2>3. Len(op) = n + 1 /\ n \in Nat /\ n = Len(op) - 1
    BY <2>1
  <2> HIDE DEF n
  <2> QED BY <2>2, <2>3
<1>2. ASSUME NEW i \in 0 .. n PROVE Height(d, op2, K, i) = Height(d, op, K, i)
  <2>1. i \in Nat /\ \A x \in 1 .. i : d[op2[x]].kind = d[op[x]].kind
    BY <1>1
  <2> QED BY <2>1, HeightSame
<1>3. Height(d, op2, K, n) = Height(d, op, K, n) /\ Height(d, op, K, n) \in Nat
  <2>1. n \in 0 .. n
    BY <1>1
  <2> HIDE DEF n
  <2> QED BY <1>1, <1>2, <2>1, HeightStep
<1> DEFINE h == Height(d, op, K, n)
<1>4. Height(d, op, K, n + 1) = h + (IF d[op[n + 1]].kind \in K THEN 1 ELSE 0)
  <2>0. n \in Nat
    BY <1>1
  <2> HIDE DEF n
  <2>1. CASE d[op[n + 1]].kind \in K
    BY <2>0, <2>1, HeightFacts
  <2>2. CASE d[op[n + 1]].kind \notin K
    <3>1. Height(d, op, K, n + 1) = h /\ h \in Nat
      BY <2>0, <2>2, HeightFacts, ZenonT(40)
    <3> QED BY <2>2, <3>1
  <2> QED BY <2>1, <2>2
<1> QED BY <1>1, <1>2, <1>3, <1>4

LEMMA MarksBack ==
  ASSUME NEW d, NEW op, NEW op2, Backward(d, op, op2), NEW m, NEW off, NEW last,
         Marks(d, op, m, off, last), NEW last2 \in Nat, off <= last2, last2 <= last, last2 <= Len(op2)
  PROVE  Marks(d, op2, m, off, last2)
<1>1. /\ Len(op) \in Nat \ {0} /\ Len(op2) = Len(op) - 1
      /\ \A i \in 1 .. Len(op) - 1 : op2[i] = op[i]
  BY DEF Backward
<1>2. m \in 2 .. Len(op) /\ off \in m .. m + 1 /\ last \in off .. Len(op)
  BY DEF Marks
<1>3. m \in 2 .. Len(op2) /\ last2 \in off .. Len(op2)
  BY <1>1, <1>2
<1>4. op2[m] = op[m] /\ op2[m - 1] = op[m - 1] /\ op2[off] = op[off]
  <2>1. /\ m \in 1 .. Len(op) - 1 /\ m - 1 \in 1 .. Len(op) - 1
        /\ off \in 1 .. Len(op) - 1
    BY <1>1, <1>2, <1>3
  <2> QED BY <1>1, <2>1
<1>5. d[op2[m]].kind \in Fragment /\ d[op2[m]].enc = Cur(d, op2[m - 1])
  BY <1>4 DEF Marks
<1>6. ASSUME NEW j \in 1 .. last2 PROVE op2[j] = op[j] /\ j \in 1 .. last
  <2>1. j \in 1 .. Len(op) - 1 /\ j \in 1 .. last
    BY <1>1, <1>2
  <2> QED BY <1>1, <2>1
<1>7. \A j \in 1 .. last2 : j # m => d[op2[j]].kind \notin Fragment
  BY <1>6 DEF Marks
<1>8. off = m + 1 <=> d[op2[m]].kind = "if" /\ m < Len(op2) /\ d[op2[m + 1]].kind = "else"
  <2>1. off = m + 1 <=> d[op[m]].kind = "if" /\ m < Len(op) /\ d[op[m + 1]].kind = "else"
    BY DEF Marks
  <2>2. CASE m < Len(op2)
    <3>1. m + 1 \in 1 .. Len(op) - 1 /\ m < Len(op)
      BY <1>1, <1>2, <2>2
    <3>2. op2[m + 1] = op[m + 1]
      BY <1>1, <3>1
    <3> QED BY <1>4, <2>1, <2>2, <3>1, <3>2
  <2>3. CASE ~(m < Len(op2))
    <3>1. off # m + 1
      BY <1>1, <1>2, <1>3, <2>3
    <3> QED BY <2>3, <3>1
  <2> QED BY <2>2, <2>3
<1>9. off = m + 1 => d[op2[off]].enc = d[op2[m]].enc
  BY <1>4 DEF Marks
<1>10. ASSUME d[op2[m]].kind = "if", NEW j \in off + 1 .. last2 PROVE d[op2[j]].kind # "else"
  <2>1. j \in 1 .. last2 /\ j \in off + 1 .. last
    BY <1>2
  <2>2. op2[j] = op[j] /\ d[op[m]].kind = "if"
    BY <1>4, <1>6, <1>10, <2>1
  <2> QED BY <2>1, <2>2 DEF Marks
<1> QED BY <1>2, <1>3, <1>5, <1>7, <1>8, <1>9, <1>10 DEF Marks

LEMMA BetweenBack ==
  ASSUME NEW d, NEW op, NEW op2, Backward(d, op, op2), NEW x \in Nat, NEW y \in Nat, y <= Len(op2)
  PROVE  Slice(op2, x, y) = Slice(op, x, y)
<1>1. ASSUME NEW i \in x + 1 .. y PROVE op2[i] = op[i]
  <2>1. i \in 1 .. Len(op) - 1
    BY DEF Backward
  <2> QED BY <2>1 DEF Backward
<1> QED BY <1>1 DEF Slice

\* One fragment is open as far as a capture reaches.
LEMMA HeightOne ==
  ASSUME NEW d, NEW op, NEW m, NEW off, NEW last, Len(op) \in Nat, Marks(d, op, m, off, last)
  PROVE  Height(d, op, Fragment, last) = 1
<1>1. m \in 1 .. last /\ last \in Nat
  BY DEF Marks
<1>2. {x \in 1 .. last : d[op[x]].kind \in Fragment} = {m}
  BY <1>1 DEF Marks
<1>3. Cardinality({m}) = 1
  BY FS_Singleton
<1> QED BY <1>2, <1>3 DEF Height

\* In a fragment that is skipped.
LEMMA BackSkips ==
  ASSUME NEW d, NEW op, NEW op2, Backward(d, op, op2), NEW c, NEW c2, NEW m, NEW off, NEW last,
         CapSound(d, op, c, m, off, last), c.skip > 0,
         c2.frag = c.frag, c2.events = c.events, c2.split = c.split,
         c2.skip = IF d[op[Len(op)]].kind \in Fragment THEN c.skip - 1 ELSE c.skip
  PROVE  CapSound(d, op2, c2, m, off, last)
<1>1. /\ Marks(d, op, m, off, last) /\ c.frag = op[m] /\ Skips(d, op, c.skip, last)
      /\ Taken(d, c.events, c.frag, c.split, Slice(op, off, last))
  BY DEF CapSound
<1>2. /\ Len(op) \in Nat \ {0} /\ Len(op2) = Len(op) - 1 /\ Len(op2) \in Nat
      /\ \A i \in 1 .. Len(op) - 1 : op2[i] = op[i]
  BY DEF Backward
<1>3. /\ m \in 2 .. Len(op) /\ off \in m .. m + 1 /\ last \in off .. Len(op)
      /\ c.skip \in Nat /\ last < Len(op) /\ d[op[last + 1]].kind \in Fragment
      /\ Height(d, op, Fragment, Len(op)) = 1 + c.skip
  BY <1>1 DEF Marks, Skips
<1>4. last \in Nat /\ off \in Nat /\ off <= last /\ last <= Len(op2) /\ m \in 1 .. Len(op) - 1
  BY <1>2, <1>3
<1>5. Marks(d, op2, m, off, last)
  BY <1>1, <1>4, MarksBack
<1>6. Height(d, op2, Fragment, Len(op2)) = 1 + c2.skip /\ c2.skip \in Nat
  <2> DEFINE h == Height(d, op2, Fragment, Len(op2))
  <2>1. h \in Nat /\ 1 + c.skip = h + (IF d[op[Len(op)]].kind \in Fragment THEN 1 ELSE 0)
    BY <1>3, HeightBack
  <2> HIDE DEF h
  <2>2. h = 1 + c2.skip /\ c2.skip \in Nat
    BY <1>3, <2>1
  <2> QED BY <2>2 DEF h
<1>7. Height(d, op2, Fragment, last) = 1
  <2>1. Len(op2) \in Nat
    BY <1>2
  <2> QED BY <1>5, <2>1, HeightOne, Zenon
<1>10. /\ Taken(d, c2.events, c2.frag, c2.split, Slice(op2, off, last)) /\ c2.frag = op2[m]
  <2>1. Slice(op2, off, last) = Slice(op, off, last)
    BY <1>4, BetweenBack
  <2> QED BY <1>1, <1>2, <1>4, <2>1
<1>8. CASE last = Len(op2)
  <2>1. c2.skip = 0
    <3>1. Height(d, op2, Fragment, Len(op2)) = 1
      BY <1>7, <1>8, Zenon
    <3> DEFINE h == Height(d, op2, Fragment, Len(op2))
               k == c2.skip
    <3>2. h = 1 + k /\ k \in Nat /\ h = 1
      BY <1>6, <3>1
    <3> HIDE DEF h, k
    <3>3. k = 0
      BY <3>2
    <3> QED BY <3>3 DEF k
  <2>2. Skips(d, op2, c2.skip, last)
    BY <1>6, <1>8, <2>1 DEF Skips
  <2> QED BY <1>5, <1>10, <2>2 DEF CapSound
<1>9. CASE last # Len(op2)
  <2>1. last < Len(op2) /\ last + 1 <= Len(op2) /\ last + 1 \in Nat /\ last + 1 \in 1 .. Len(op) - 1
    <3> DEFINE k == Len(op2)
    <3>1. k \in Nat /\ last \in Nat /\ last <= k /\ last # k /\ k = Len(op) - 1
      BY <1>2, <1>4, <1>9
    <3> HIDE DEF k
    <3>2. last < k /\ last + 1 <= k /\ last + 1 \in Nat /\ last + 1 \in 1 .. k
      BY <3>1
    <3> QED BY <3>1, <3>2 DEF k
  <2>2. d[op2[last + 1]].kind \in Fragment
    BY <1>2, <1>3, <2>1
  <2>3. Height(d, op2, Fragment, last + 1) = 2
    <3>1. last \in Nat
      BY <1>4
    <3>2. Height(d, op2, Fragment, last + 1) = Height(d, op2, Fragment, last) + 1
      BY <2>2, <3>1, HeightFacts
    <3> QED BY <1>7, <3>2
  <2>4. 2 <= Height(d, op2, Fragment, Len(op2))
    BY <1>2, <2>1, <2>3, HeightGrows
  <2>5. c2.skip # 0
    BY <1>6, <2>4
  <2>6. Skips(d, op2, c2.skip, last)
    BY <1>6, <2>1, <2>2, <2>5 DEF Skips
  <2> QED BY <1>5, <1>10, <2>6 DEF CapSound
<1> QED BY <1>8, <1>9

\* At the end of the <else> of an <if>.
LEMMA BackElse ==
  ASSUME NEW d, NEW op, NEW op2, Backward(d, op, op2), NEW c, NEW m, NEW off, NEW last,
         CapSound(d, op, c, m, off, last), c.skip = 0,
         d[op[Len(op)]].kind = "else", d[op[m]].kind = "if"
  PROVE  CapSound(d, op2, c, m, m, m) /\ m \in 1 .. Len(op2)
<1>1. /\ Marks(d, op, m, off, last) /\ c.frag = op[m] /\ Skips(d, op, 0, last)
      /\ Taken(d, c.events, c.frag, c.split, Slice(op, off, last))
  BY DEF CapSound
<1>2. /\ Len(op) \in Nat \ {0} /\ Len(op2) = Len(op) - 1 /\ Len(op2) \in Nat
      /\ op \in Seq(1 .. Len(d)) /\ op2 \in Seq(1 .. Len(d))
      /\ \A i \in 1 .. Len(op) - 1 : op2[i] = op[i]
  BY DEF Backward
<1>3. /\ m \in 2 .. Len(op) /\ off \in m .. m + 1 /\ last = Len(op) /\ off <= last
      /\ \A j \in off + 1 .. last : d[op[j]].kind # "else"
  BY <1>1 DEF Marks, Skips
<1>4. off = m + 1 /\ m = Len(op2) /\ off = Len(op)
  <2>1. m # Len(op)
    OBVIOUS
  <2>2. ~(Len(op) \in off + 1 .. last)
    BY <1>3
  <2> QED BY <1>2, <1>3, <2>1, <2>2
<1>5. op2[m] = op[m] /\ op2[m - 1] = op[m - 1] /\ m \in 1 .. Len(op2) /\ m \in Nat
  <2>1. m \in 1 .. Len(op) - 1 /\ m - 1 \in 1 .. Len(op) - 1 /\ m \in 1 .. Len(op2) /\ m \in Nat
    BY <1>2, <1>3, <1>4
  <2>2. \A i \in 1 .. Len(op) - 1 : op2[i] = op[i]
    BY <1>2
  <2> QED BY <2>1, <2>2
<1>6. Marks(d, op2, m, m, m)
  <2>1. m \in 2 .. Len(op2) /\ m \in m .. m + 1 /\ m \in m .. Len(op2)
    BY <1>3, <1>4, <1>5
  <2>2. d[op2[m]].kind \in Fragment /\ d[op2[m]].enc = Cur(d, op2[m - 1])
    BY <1>1, <1>5 DEF Marks
  <2>3. ASSUME NEW j \in 1 .. m, j # m PROVE d[op2[j]].kind \notin Fragment
    <3>1. j \in 1 .. Len(op) - 1 /\ j \in 1 .. last
      BY <1>2, <1>3, <1>4
    <3> QED BY <1>1, <1>2, <2>3, <3>1 DEF Marks
  <2>4. m # m + 1 /\ ~(m < Len(op2)) /\ \A j \in m + 1 .. m : FALSE
    BY <1>4, <1>5
  <2> QED BY <2>1, <2>2, <2>3, <2>4 DEF Marks
<1>7. Skips(d, op2, 0, m)
  <2>1. Height(d, op, Fragment, Len(op)) = 1 + 0 /\ d[op[Len(op)]].kind \notin Fragment
    BY <1>1 DEF Skips, Fragment
  <2>2. Height(d, op2, Fragment, Len(op2)) = 1 + 0
    BY <2>1, HeightBack
  <2> QED BY <1>4, <2>2 DEF Skips
<1>8. Slice(op, off, last) = <<>> /\ Slice(op2, m, m) = <<>>
  BY <1>2, <1>3, <1>4, <1>5 DEF Slice
<1> QED BY <1>1, <1>5, <1>6, <1>7, <1>8 DEF CapSound

\* The end of an element is captured.
LEMMA BackEvent ==
  ASSUME NEW d, NEW op, NEW op2, Backward(d, op, op2), NEW c \in Captures, NEW c2,
         NEW m, NEW off, NEW last, NEW e, e = op[Len(op)],
         CapSound(d, op, c, m, off, last), c.skip = 0, m # Len(op),
         ~(d[e].kind = "else" /\ d[op[m]].kind = "if"),
         c2.skip = 0, c2.frag = c.frag, c2.split = c.split,
         c2.events = Append(c.events, [elem |-> e, end |-> TRUE])
  PROVE  CapSound(d, op2, c2, m, off, Len(op2)) /\ off \in 1 .. Len(op2)
<1> DEFINE k == Len(op2)
           n == Len(op)
           ev == [elem |-> e, end |-> TRUE]
<1>1. /\ Marks(d, op, m, off, last) /\ c.frag = op[m] /\ Skips(d, op, 0, last)
      /\ Taken(d, c.events, c.frag, c.split, Slice(op, off, last))
  BY DEF CapSound
<1>2. /\ n \in Nat \ {0} /\ n = k + 1 /\ k \in Nat
      /\ op \in Seq(1 .. Len(d)) /\ op2 \in Seq(1 .. Len(d))
      /\ \A i \in 1 .. Len(op) - 1 : op2[i] = op[i]
  BY DEF Backward
<1>3. /\ m \in 2 .. n /\ off \in m .. m + 1 /\ last = n /\ off <= last /\ off \in Nat
      /\ d[e].kind \notin Fragment
  <2>1. m \in 2 .. n /\ off \in m .. m + 1 /\ last = n /\ off <= last /\ off \in Nat
    BY <1>1, <1>2 DEF Marks, Skips
  <2>2. n \in 1 .. last
    BY <1>2, <2>1
  <2> QED BY <1>1, <2>1, <2>2 DEF Marks
<1>4. off <= k
  <2>1. off = m + 1 => d[op[m]].kind = "if" /\ d[op[m + 1]].kind = "else"
    BY <1>1 DEF Marks
  <2>2. off # n
    <3> SUFFICES ASSUME off = n PROVE FALSE
      OBVIOUS
    <3>1. off = m + 1
      BY <1>2, <1>3, SMTT(20)
    <3> QED BY <2>1, <3>1
  <2> HIDE DEF k, n
  <2> QED BY <1>2, <1>3, <2>2
<1> HIDE DEF k, n
<1>5. Marks(d, op2, m, off, k)
  <2>1. k <= last /\ k <= Len(op2)
    BY <1>2, <1>3 DEF k
  <2> QED BY <1>1, <1>2, <1>4, <2>1, MarksBack
<1>6. Skips(d, op2, c2.skip, k)
  <2>1. Height(d, op, Fragment, Len(op)) = 1 + 0 /\ d[op[Len(op)]].kind \notin Fragment
    BY <1>1, <1>3 DEF Skips
  <2>2. Height(d, op2, Fragment, Len(op2)) = 1 + 0
    BY <2>1, HeightBack
  <2> QED BY <2>2 DEF Skips, k
<1>7. Taken(d, c2.events, c2.frag, c2.split, Slice(op2, off, k))
  <2> DEFINE s == Slice(op, off, last)
             s2 == Slice(op2, off, k)
  <2>1. s2 = Slice(op, off, k)
    <3>1. k <= Len(op2)
      BY <1>2 DEF k
    <3> QED BY <1>2, <1>3, <3>1, BetweenBack
  <2>2. s = Append(Slice(op, off, k), op[n])
    <3>1. n <= Len(op)
      BY <1>2 DEF n
    <3>3. /\ op \in Seq(1 .. Len(d)) /\ off \in Nat /\ k \in Nat /\ n = k + 1
          /\ off <= k /\ n <= Len(op)
      BY <1>2, <1>3, <1>4, <3>1
    <3>2. Slice(op, off, n) = Append(Slice(op, off, k), op[n])
      BY <3>3, SliceMore
    <3> QED BY <1>3, <3>2
  <2>3. s2 \in Seq(1 .. Len(d))
    <3>1. k <= Len(op2)
      BY <1>2 DEF k
    <3> QED BY <1>2, <1>3, <1>4, <3>1, SliceFacts
  <2>4. e \in 1 .. Len(d) /\ e = op[n]
    BY <1>2 DEF n
  <2>5. c.events \in Seq(Events) /\ ev \in Events /\ ev.elem = e /\ ev.end
    BY <2>4 DEF Captures, Events
  <2>6. Taken(d, c.events, c.frag, c.split, s)
    BY <1>1
  <2> HIDE DEF s, s2, ev
  <2>7. s = Append(s2, ev.elem)
    BY <2>1, <2>2, <2>4, <2>5
  <2>8. ev.elem \in 1 .. Len(d) /\ d[ev.elem].kind \notin Fragment
    BY <1>3, <2>4, <2>5
  <2>9. Taken(d, Append(c.events, ev), c.frag, c.split, s2)
    BY <2>3, <2>5, <2>6, <2>7, <2>8, TakenMore
  <2> QED BY <2>9 DEF s2, ev
<1>8. c2.frag = op2[m]
  <2>1. m \in 1 .. Len(op) - 1
    BY <1>2, <1>3, <1>4 DEF n
  <2> QED BY <1>1, <1>2, <2>1
<1>9. off \in 1 .. k
  BY <1>2, <1>3, <1>4
<1> QED BY <1>5, <1>6, <1>7, <1>8, <1>9 DEF CapSound, k

\* An end tag of element e, that does not end a capture.
Ends(e) ==
  /\ Parsing /\ ~Closes /\ e = open[Len(open)] /\ UNCHANGED <<doc, obj, rec, val, todo>>
  /\ Backward(doc, open, open') /\ OpenSound(doc, open')

LEMMA EndsFacts ==
  ASSUME IInv, EndTag
  PROVE  Ends(open[Len(open)])
<1>1. Parsing /\ open # <<>> /\ ~Closes /\ open' = Front(open) /\ UNCHANGED <<doc, obj, rec, val, todo>>
  BY DEF EndTag
<1>2. DocSound(doc) /\ OpenSound(doc, open) /\ Len(doc) \in Nat
  BY IInvFacts
<1>3. /\ OpenSound(doc, open') /\ Len(open') = Len(open) - 1 /\ Len(open) \in Nat \ {0}
      /\ \A i \in 1 .. Len(open) - 1 : open'[i] = open[i]
  BY <1>1, <1>2, OpenFront
<1> QED BY <1>1, <1>2, <1>3 DEF Ends, Backward, OpenSound

LEMMA EndsRecs ==
  ASSUME IInv, NEW e, Ends(e), NEW c2, c2.frag = cap.frag
  PROVE  RecSound(doc, obj, open', c2, rec)
<1>1. \A f \in 1 .. Len(doc) : Behind(open, cap, f) => Behind(open', c2, f)
  <2> SUFFICES ASSUME NEW f \in 1 .. Len(doc), Behind(open, cap, f), NEW i \in 1 .. Len(open')
               PROVE  f # open'[i]
    BY DEF Behind
  <2>1. i \in 1 .. Len(open) - 1 /\ i \in 1 .. Len(open)
    BY DEF Ends, Backward
  <2>2. open'[i] = open[i]
    BY <2>1 DEF Ends, Backward
  <2> QED BY <2>1, <2>2 DEF Behind
<1>2. DocSound(doc) /\ Later(doc, obj, doc, obj, {})
  BY IInvFacts
<1> QED BY <1>1, <1>2, RecsPassed

\* Outside of fragments, it pops what its start tag has pushed.
LEMMA EndPops ==
  ASSUME IInv, NEW e, Ends(e), ~Capturing, cap' = cap, stack' = WithTop(Popped(Top, doc[e].kind))
  PROVE  IInv'
<1> DEFINE P == Top
           par == P.parents
           kind == doc[e].kind
           Q == Popped(P, kind)
           u == Len(open')
           h == Height(doc, open, Level, u)
<1>1. /\ stack # <<>> /\ Len(stack) = 1 /\ P \in Frames /\ P.kind = "doc" /\ Shape(stack)
      /\ P.play.rec = Nothing /\ ~P.play.on /\ val \in Nat /\ todo = {}
      /\ DocFrame(doc, obj, open, cap, P)
  BY ParsingFacts DEF Ends
<1>2. /\ Plain(doc, open) /\ Stands(doc, obj, par, 1, Len(par), open, Len(open), {})
  BY <1>1 DEF DocFrame, Capturing
<1>3. /\ DocSound(doc) /\ open \in Seq(1 .. Len(doc)) /\ Len(open) \in Nat \ {0}
      /\ Len(open) = u + 1 /\ u \in Nat /\ e = open[Len(open)] /\ OpenSound(doc, open')
      /\ \A i \in 1 .. u : open'[i] = open[i]
      /\ UNCHANGED <<doc, obj, rec, val, todo>>
  BY DEF Ends, Backward
<1>4. kind \in {"obj", "unknown", "else"}
  <2>1. e \in 1 .. Len(doc) /\ doc \in Seq(Elements)
    BY <1>3 DEF DocSound
  <2>2. doc[e] \in Elements
    BY <2>1
  <2>3. kind \notin Fragment
    <3>1. Len(open) \in 1 .. Len(open)
      BY <1>3
    <3> QED BY <1>2, <1>3, <3>1 DEF Plain
  <2> QED BY <2>2, <2>3 DEF Elements, Kinds, Fragment
<1>5. /\ Stands(doc, obj, par, 1, 1 + h, open, u, {}) /\ h \in Nat
      /\ Len(par) = 1 + h + (IF doc[open[u + 1]].kind \in Level THEN 1 ELSE 0)
  <2>1. Stands(doc, obj, par, 1, Len(par), open, u + 1, {}) /\ 1 \in Nat \ {0} /\ u \in Nat
    BY <1>2, <1>3
  <2> HIDE DEF par, u
  <2> QED BY <2>1, StandsFewer
<1>6. doc[open[u + 1]].kind = kind
  BY <1>3
<1> HIDE DEF h, u
<1>7. Len(par) \in Nat \ {0} /\ par # <<>>
  BY <1>5
<1>8. Q \in Frames /\ Q.kind = P.kind /\ Q.play = P.play /\ Left(doc, P, Q, e)
  <2> HIDE DEF Q, P
  <2>1. P \in Frames /\ P.parents # <<>>
    BY <1>1, <1>7
  <2> HIDE DEF kind, par
  <2> QED BY <1>4, <2>1, PoppedFacts DEF Q, kind
<1> HIDE DEF Q
<1>9. Len(Q.parents) = 1 + h /\ \A i \in 1 .. 1 + h : Q.parents[i] = par[i]
  <2>1. /\ Len(Q.parents) = (IF kind \in Level THEN Len(par) - 1 ELSE Len(par))
        /\ \A i \in 1 .. Len(Q.parents) : Q.parents[i] = par[i]
    BY <1>8 DEF Left
  <2> HIDE DEF kind, par
  <2>2. Len(Q.parents) = 1 + h
    BY <1>5, <1>6, <2>1
  <2> QED BY <2>1, <2>2
<1>10. Stands(doc, obj, Q.parents, 1, Len(Q.parents), open', Len(open'), {})
  <2> DEFINE n == 1 + h
             par2 == Q.parents
  <2>1. /\ Stands(doc, obj, par, 1, n, open, u, {}) /\ n <= Len(par2) /\ 1 \in Nat \ {0} /\ u \in Nat
        /\ \A i \in 1 .. n : par2[i] = par[i]
        /\ \A x \in 1 .. u : open'[x] = open[x]
    BY <1>3, <1>5, <1>9 DEF u
  <2> HIDE DEF n, par2, par
  <2>2. Stands(doc, obj, par2, 1, n, open', u, {})
    BY <2>1, StandsSame
  <2> QED BY <1>9, <2>2 DEF n, par2, u
<1>11. Plain(doc, open')
  <2> SUFFICES ASSUME NEW i \in 1 .. Len(open') PROVE doc[open'[i]].kind \notin Fragment
    BY DEF Plain
  <2>1. i \in 1 .. u /\ i \in 1 .. Len(open)
    BY <1>3 DEF u
  <2> QED BY <1>2, <1>3, <2>1 DEF Plain
<1>12. FrameSound(doc, obj, open', cap', rec, Q)
  <2>1. DocFrame(doc, obj, open', cap', Q)
    BY <1>1, <1>8, <1>10, <1>11 DEF DocFrame, Capturing
  <2> QED BY <1>1, <1>8, <2>1 DEF FrameSound
<1>13. RecSound(doc, obj, open', cap', rec)
  BY EndsRecs
<1>14. stack' \in Seq(Frames) /\ StackSound(doc, obj, open', cap', rec, stack')
  <2>1. \A i \in 1 .. Len(stack) - 1 : FrameSound(doc, obj, open', cap', rec, stack[i])
    BY <1>1
  <2>2. stack \in Seq(Frames) /\ stack' = WithTop(Q) /\ Q.kind = Top.kind /\ Q.play.rec = Top.play.rec
    BY <1>8, IInvFacts DEF Q
  <2> QED BY <1>1, <1>8, <1>12, <2>1, <2>2, StackReplaced
<1>15. Typed'
  BY <1>1, <1>3, <1>14 DEF IInv, Typed
<1>16. ObjSound(doc, obj)
  BY IInvFacts
<1> QED BY <1>3, <1>13, <1>14, <1>15, <1>16 DEF IInv

\* In a fragment, it is captured or skipped.
LEMMA EndTaken ==
  ASSUME IInv, NEW e, Ends(e), stack' = stack, cap' \in Captures, cap'.frag = cap.frag,
         cap.frag # Nothing, cap'.base = cap.base,
         NEW m \in 1 .. Len(open'), NEW off \in 1 .. Len(open'), NEW last \in 1 .. Len(open'),
         CapSound(doc, open', cap', m, off, last), cap.base = Len(Top.parents),
         Stands(doc, obj, Top.parents, 1, cap.base, open, m - 1, {})
  PROVE  IInv'
<1> DEFINE P == Top
<1>1. /\ stack # <<>> /\ Len(stack) = 1 /\ P \in Frames /\ P.kind = "doc" /\ Shape(stack)
      /\ P.play.rec = Nothing /\ ~P.play.on /\ val \in Nat /\ todo = {} /\ P = stack[1]
  BY ParsingFacts DEF Ends
<1>2. /\ Len(open) \in Nat \ {0} /\ Len(open') = Len(open) - 1 /\ OpenSound(doc, open')
      /\ \A i \in 1 .. Len(open) - 1 : open'[i] = open[i]
      /\ UNCHANGED <<doc, obj, rec, val, todo>>
  BY DEF Ends, Backward
<1>3. Stands(doc, obj, P.parents, 1, cap'.base, open', m - 1, {})
  <2>1. /\ m - 1 \in Nat /\ 1 \in Nat \ {0} /\ cap.base <= Len(P.parents)
        /\ \A x \in 1 .. m - 1 : open'[x] = open[x]
    BY <1>2 DEF Stands
  <2> HIDE DEF P
  <2>2. Stands(doc, obj, P.parents, 1, cap.base, open, m - 1, {})
    BY DEF P
  <2> QED BY <2>1, <2>2, StandsSame
<1>4. FrameSound(doc, obj, open', cap', rec, P)
  <2>1. \E i, j, k \in 1 .. Len(open') :
          /\ CapSound(doc, open', cap', i, j, k)
          /\ Stands(doc, obj, P.parents, 1, cap'.base, open', i - 1, {})
    BY <1>3
  <2>2. DocFrame(doc, obj, open', cap', P)
    BY <1>1, <2>1 DEF DocFrame
  <2> QED BY <1>1, <2>2 DEF FrameSound
<1>5. RecSound(doc, obj, open', cap', rec)
  BY EndsRecs
<1>6. StackSound(doc, obj, open', cap', rec, stack)
  <2>1. \A i \in 1 .. Len(stack) : FrameSound(doc, obj, open', cap', rec, stack[i])
    BY <1>1, <1>4
  <2> QED BY <1>1, <2>1 DEF StackSound
<1>7. Typed'
  BY <1>1, <1>2 DEF IInv, Typed
<1>8. DocSound(doc) /\ ObjSound(doc, obj)
  BY IInvFacts
<1> QED BY <1>2, <1>5, <1>6, <1>7, <1>8 DEF IInv

LEMMA EndInside ==
  ASSUME IInv, NEW e, Ends(e), Capturing, stack' = stack, cap' = CapturedEnd(e, doc[e].kind)
  PROVE  IInv'
<1> DEFINE kind == doc[e].kind
<1>1. PICK m, off, last \in 1 .. Len(open) : Holds(m, off, last)
  BY CaptureFacts DEF Ends
<1>2. /\ CapSound(doc, open, cap, m, off, last) /\ cap.base = Len(Top.parents)
      /\ Stands(doc, obj, Top.parents, 1, cap.base, open, m - 1, {})
  BY <1>1 DEF Holds
<1>3. /\ Backward(doc, open, open') /\ Len(open) \in Nat \ {0} /\ Len(open') = Len(open) - 1
      /\ e = open[Len(open)] /\ e \in Nat
  BY DEF Ends, Backward
<1>4. cap \in Captures /\ cap.frag # Nothing /\ cap.skip \in Nat
  BY IInvFacts DEF Capturing, Captures
<1>5. /\ cap.frag = open[m] /\ Skips(doc, open, cap.skip, last)
      /\ m \in 2 .. Len(open) /\ off \in m .. m + 1 /\ last \in off .. Len(open)
  BY <1>2 DEF CapSound, Marks
<1>6. CASE cap.skip > 0
  <2> DEFINE k == IF kind \in Fragment THEN cap.skip - 1 ELSE cap.skip
  <2>1. k \in Nat /\ cap' = [cap EXCEPT !.skip = k]
    <3>1. CapturedEnd(e, kind) = [cap EXCEPT !.skip = k]
      BY <1>6, Zenon DEF CapturedEnd
    <3> QED BY <1>4, <1>6, <3>1
  <2> HIDE DEF k
  <2>2. Amends(cap, cap', cap.events, cap.split, k)
    BY <1>4, <2>1, SkipAmends
  <2>3. CapSound(doc, open', cap', m, off, last)
    <3>1. /\ cap'.frag = cap.frag /\ cap'.events = cap.events /\ cap'.split = cap.split
          /\ cap'.skip = (IF doc[open[Len(open)]].kind \in Fragment THEN cap.skip - 1 ELSE cap.skip)
      BY <1>3, <2>2 DEF Amends, k
    <3> QED BY <1>2, <1>3, <1>6, <3>1, BackSkips
  <2>4. m \in 1 .. Len(open') /\ off \in 1 .. Len(open') /\ last \in 1 .. Len(open')
    BY <1>3, <1>5, <1>6 DEF Skips
  <2> QED BY <1>2, <1>4, <2>2, <2>3, <2>4, EndTaken DEF Amends
<1>7. CASE cap.skip = 0 /\ kind = "else" /\ doc[cap.frag].kind = "if"
  <2>1. cap' = cap
    <3>1. ~(cap.skip > 0)
      BY <1>7
    <3>2. CapturedEnd(e, kind) = cap
      BY <1>7, <3>1, Zenon DEF CapturedEnd
    <3> QED BY <3>2
  <2>2. doc[open[Len(open)]].kind = "else" /\ doc[open[m]].kind = "if" /\ cap.skip = 0
    BY <1>3, <1>5, <1>7
  <2>3. CapSound(doc, open', cap', m, m, m) /\ m \in 1 .. Len(open')
    BY <1>2, <1>3, <2>1, <2>2, BackElse
  <2> QED BY <1>2, <1>4, <2>1, <2>3, EndTaken
<1>8. CASE cap.skip = 0 /\ ~(kind = "else" /\ doc[cap.frag].kind = "if")
  <2> DEFINE ev == [elem |-> e, end |-> TRUE]
  <2>1. ev \in Events /\ cap' = WithEvent(cap, ev)
    <3>1. ~(cap.skip > 0)
      BY <1>8
    <3>2. CapturedEnd(e, kind) = [cap EXCEPT !.events = Append(@, ev)]
      BY <1>8, <3>1, Zenon DEF CapturedEnd
    <3> QED BY <1>3, <3>2 DEF Events, WithEvent
  <2>2. m # Len(open)
    BY <1>2, <1>3, <1>5, <1>8 DEF Ends, Closes, Capturing, Last
  <2> HIDE DEF ev
  <2>3. Amends(cap, cap', Append(cap.events, ev), cap.split, cap.skip)
    BY <1>4, <2>1, EventAmends
  <2>4. CapSound(doc, open', cap', m, off, Len(open')) /\ off \in 1 .. Len(open')
    <3>1. /\ cap'.skip = 0 /\ cap'.frag = cap.frag /\ cap'.split = cap.split
          /\ cap'.events = Append(cap.events, [elem |-> e, end |-> TRUE])
      BY <1>8, <2>3 DEF Amends, ev
    <3>2. ~(doc[e].kind = "else" /\ doc[open[m]].kind = "if") /\ cap.skip = 0 /\ cap \in Captures
      BY <1>4, <1>5, <1>8
    <3>3. CapSound(doc, open, cap, m, off, last) /\ Backward(doc, open, open') /\ e = open[Len(open)]
      BY <1>2, <1>3
    <3> QED BY <2>2, <3>1, <3>2, <3>3, BackEvent, SMTT(30)
  <2>5. m \in 1 .. Len(open') /\ Len(open') \in 1 .. Len(open')
    BY <1>3, <1>5, <2>2, <2>4
  <2> QED BY <1>2, <1>4, <2>3, <2>4, <2>5, EndTaken DEF Amends
<1> QED BY <1>4, <1>6, <1>7, <1>8

LEMMA EndTagSound ==
  ASSUME IInv, EndTag
  PROVE  IInv'
<1> DEFINE e == open[Len(open)]
<1>1. Ends(e)
  BY EndsFacts
<1>2. /\ cap' = (IF Capturing THEN CapturedEnd(e, doc[e].kind) ELSE cap)
      /\ stack' = (IF Capturing THEN stack ELSE WithTop(Popped(Top, doc[e].kind)))
  BY DEF EndTag, Last
<1> HIDE DEF e
<1>3. CASE Capturing
  BY <1>1, <1>2, <1>3, EndInside
<1>4. CASE ~Capturing
  BY <1>1, <1>2, <1>4, EndPops
<1> QED BY <1>3, <1>4
-----------------------------------------------------------------------------
(* The invariant, from the start and in each step.                            *)

LEMMA InitSound ==
  ASSUME Init
  PROVE  IInv
<1> DEFINE first == [kind |-> "obj", bound |-> FALSE, num |-> 0, up |-> Nothing,
                     enc |-> Nothing, frag |-> Nothing, nested |-> FALSE]
           fr == Frame("doc", <<Outer, 1>>, NoReplay)
<1>1. /\ doc = <<first>> /\ open = <<1>> /\ cap = NoCapture /\ stack = <<fr>>
      /\ obj = [o \in Ids |->
                 IF o = 1 THEN [NoObject EXCEPT !.elem = 1, !.above = {1}] ELSE NoObject]
      /\ rec = <<>> /\ val \in Values /\ todo = {}
  BY DEF Init
<1>2. 1 \in Ids /\ Outer \notin Ids /\ Ids \subseteq Nat
  BY FragmentAssumption DEF Ids, Outer
<1>3. first \in Elements /\ first.kind = "obj" /\ first.frag = Nothing
  BY DEF Elements, Kinds, Nothing
<1> HIDE DEF first
<1>4. doc \in Seq(Elements) /\ Len(doc) = 1 /\ doc[1] = first
  BY <1>1, <1>3
<1>5. DocSound(doc)
  BY <1>3, <1>4 DEF DocSound
<1>6. open \in Seq(1 .. Len(doc)) /\ Len(open) = 1 /\ open[1] = 1
  BY <1>1, <1>4
<1>7. OpenSound(doc, open)
  <2>1. /\ 1 \in 1 .. 1 /\ open[1] = Cur(doc, open[1]) /\ doc[open[1]].kind = "obj"
        /\ \A x \in 1 + 1 .. 1 : FALSE
    BY <1>3, <1>4, <1>6 DEF Cur
  <2>2. \A i, j \in 1 .. Len(open) : i < j => open[i] < open[j]
    BY <1>6
  <2>3. ASSUME NEW i \in 1 .. Len(open)
        PROVE  \E j \in 1 .. i : /\ open[j] = Cur(doc, open[i]) /\ doc[open[j]].kind = "obj"
                                  /\ \A x \in j + 1 .. i : doc[open[x]].kind # "obj"
    <3>1. i = 1
      BY <1>6
    <3> QED BY <2>1, <3>1
  <2> QED BY <1>6, <2>2, <2>3 DEF OpenSound
<1>8. /\ obj[1] = [elem |-> 1, par |-> Outer, above |-> {1}, sunk |-> FALSE]
      /\ \A o \in Ids \ {1} : obj[o] = [elem |-> 0, par |-> Outer, above |-> {}, sunk |-> FALSE]
  BY <1>1, <1>2 DEF NoObject, Nothing
<1>9. There(obj, 1) /\ \A o : There(obj, o) => o = 1
  <2>1. obj[1].elem # Nothing /\ ~obj[1].sunk
    BY <1>8 DEF Nothing
  <2>2. ASSUME NEW o \in Ids, o # 1 PROVE obj[o].elem = Nothing
    BY <1>8, <2>2 DEF Nothing
  <2> QED BY <1>2, <2>1, <2>2 DEF There
<1>10. ObjSound(doc, obj)
  <2>1. obj \in [Ids -> Objects(doc)]
    <3>1. obj[1] \in Objects(doc)
      BY <1>2, <1>4, <1>8 DEF Objects
    <3>2. ASSUME NEW o \in Ids, o # 1 PROVE obj[o] \in Objects(doc)
      <4>1. obj[o] = [elem |-> 0, par |-> Outer, above |-> {}, sunk |-> FALSE]
        BY <1>8, <3>2
      <4> QED BY <1>4, <4>1 DEF Objects
    <3>3. \A o \in Ids : obj[o] \in Objects(doc)
      BY <3>1, <3>2
    <3> QED BY <1>1, <3>3
  <2>2. Of(doc, obj, 1, {doc[obj[1].elem].frag}) /\ obj[1].above = {1}
    BY <1>8, <1>9 DEF Of
  <2>3. {1, obj[1].par} \ {Outer} \subseteq obj[1].above
    BY <1>8
  <2>4. obj[1].elem = 1 /\ obj[1].par = Outer /\ ~obj[1].sunk
    BY <1>8
  <2>5. \A a \in obj[1].above : Of(doc, obj, a, {doc[obj[1].elem].frag}) /\ obj[a].above \subseteq obj[1].above
    BY <2>2
  <2> QED BY <1>9, <2>1, <2>3, <2>4, <2>5 DEF ObjSound
<1>11. /\ fr \in Frames /\ fr.kind = "doc" /\ fr.play = NoReplay /\ fr.parents = <<Outer, 1>>
  <2>1. <<Outer, 1>> \in Seq(Ids \cup {Outer})
    BY <1>2
  <2> QED BY <2>1, NoReplayTyped DEF Frames, Frame
<1> HIDE DEF fr
<1>12. stack \in Seq(Frames) /\ Len(stack) = 1 /\ stack[1] = fr
  BY <1>1, <1>11
<1>13. Plain(doc, open)
  <2>1. \A i \in 1 .. Len(open) : i = 1
    BY <1>6
  <2> QED BY <1>3, <1>4, <1>6, <2>1 DEF Plain, Fragment
<1>14. Stands(doc, obj, fr.parents, 1, Len(fr.parents), open, Len(open), {})
  <2>1. Len(fr.parents) = 2 /\ fr.parents[2] = 1
    BY <1>11
  <2>2. Height(doc, open, Level, 1) = 1
    <3>1. {x \in 1 .. 1 : doc[open[x]].kind \in Level} = {1}
      BY <1>3, <1>4, <1>6 DEF Level
    <3>2. Cardinality({1}) = 1
      BY FS_Singleton
    <3> QED BY <3>1, <3>2 DEF Height
  <2>3. Of(doc, obj, 1, {}) /\ obj[1].elem = Cur(doc, open[1])
    BY <1>3, <1>4, <1>6, <1>8, <1>9 DEF Of, Cur
  <2>4. ASSUME NEW i \in 1 .. Len(open)
        PROVE  LET o == fr.parents[1 + Height(doc, open, Level, i)]
               IN  Of(doc, obj, o, {}) /\ obj[o].elem = Cur(doc, open[i])
    <3>1. i = 1
      BY <1>6
    <3>2. fr.parents[1 + Height(doc, open, Level, i)] = 1
      BY <2>1, <2>2, <3>1
    <3> QED BY <2>3, <3>1, <3>2
  <2> QED BY <1>6, <2>1, <2>2, <2>4 DEF Stands
<1>15. cap.frag = Nothing /\ cap \in Captures
  BY <1>1, NoCaptureTyped
<1>16. StackSound(doc, obj, open, cap, rec, stack)
  <2>1. DocFrame(doc, obj, open, cap, fr)
    BY <1>11, <1>13, <1>14, <1>15, NoReplayTyped DEF DocFrame
  <2>2. FrameSound(doc, obj, open, cap, rec, fr)
    BY <1>11, <2>1 DEF FrameSound
  <2>3. \A i \in 1 .. Len(stack) : i = 1 /\ stack[i] = fr
    BY <1>12
  <2>4. Shape(stack)
    BY <1>12, <2>3 DEF Shape
  <2> QED BY <2>2, <2>3, <2>4 DEF StackSound
<1>17. RecSound(doc, obj, open, cap, rec)
  BY <1>1 DEF RecSound
<1>18. Typed
  <2>1. rec \in Seq(Records) /\ todo \subseteq {r \in 1 .. Len(rec) : rec[r].obs}
    BY <1>1
  <2> QED BY <1>1, <1>12, <1>15, <2>1 DEF Typed
<1> QED BY <1>5, <1>7, <1>10, <1>16, <1>17, <1>18 DEF IInv

LEMMA NextSound ==
  ASSUME IInv, [Next]_vars
  PROVE  IInv'
<1>1. CASE UNCHANGED vars
  BY <1>1 DEF vars, IInv, Typed
<1>2. CASE \E kind \in Kinds, bound \in BOOLEAN, num \in Values \cup {0} : StartTag(kind, bound, num)
  BY <1>2, StartTagSound
<1>3. CASE EndTag \/ EndFragment \/ ParseEnd \/ ParseFails
  BY <1>3, EndTagSound, EndFragmentSound, ParseEndSound, ParseFailsSound
<1>4. CASE Replay \/ ReplayAgain \/ ReplayDone
  BY <1>4, ReplaySound, ReplayAgainSound, ReplayDoneSound
<1>5. CASE (\E v \in Values : SetSubject(v)) \/ Notified
  BY <1>5, SetSubjectSound, NotifiedSound
<1>6. CASE \E r \in DOMAIN rec : Observe(r)
  BY <1>6, ObserveSound
<1>7. CASE Delete \/ SinkDelete \/ SubjectGone \/ Sweep
  BY <1>7, DeleteSound, SinkDeletesSound, SubjectGoneSound, SweepSound
<1> QED BY <1>1, <1>2, <1>3, <1>4, <1>5, <1>6, <1>7 DEF Next

LEMMA Invariance == Spec => []IInv
<1>1. Init => IInv
  BY InitSound
<1>2. IInv /\ [Next]_vars => IInv'
  BY NextSound
<1> QED BY <1>1, <1>2, PTL DEF Spec
-----------------------------------------------------------------------------
(* What it means.                                                             *)

\* The balance of the parser's stack, as a height.
LEMMA Balanced ==
  ASSUME IInv
  PROVE  StackBalanced
<1> SUFFICES ASSUME Parsing
             PROVE  Len(Top.parents) = 1 + Cardinality({i \in DOMAIN open :
                      /\ doc[open[i]].kind \in {"obj", "unknown"}
                      /\ \A j \in 1 .. i : doc[open[j]].kind \notin Fragment})
  BY DEF StackBalanced
<1> DEFINE S == {i \in DOMAIN open : /\ doc[open[i]].kind \in Level
                                     /\ \A j \in 1 .. i : doc[open[j]].kind \notin Fragment}
<1>1. DocFrame(doc, obj, open, cap, Top) /\ ~Top.play.on
  BY ParsingFacts
<1>2. DOMAIN open = 1 .. Len(open) /\ Len(open) \in Nat
  BY IInvFacts DEF OpenSound
<1>3. CASE ~Capturing
  <2>1. Plain(doc, open) /\ Len(Top.parents) = 1 + Height(doc, open, Level, Len(open))
    BY <1>1, <1>3 DEF DocFrame, Capturing, Stands
  <2>2. S = {x \in 1 .. Len(open) : doc[open[x]].kind \in Level}
    BY <1>2, <2>1 DEF Plain
  <2> QED BY <2>1, <2>2 DEF Height, Level
<1>4. CASE Capturing
  <2>1. PICK m, off, last \in 1 .. Len(open) : Holds(m, off, last)
    BY <1>4, CaptureFacts
  <2>2. Marks(doc, open, m, off, last) /\ Len(Top.parents) = 1 + Height(doc, open, Level, m - 1)
    BY <2>1 DEF Holds, CapSound, Stands
  <2>3. /\ m <= last /\ doc[open[m]].kind \in Fragment
        /\ \A j \in 1 .. m - 1 : doc[open[j]].kind \notin Fragment
    <3>1. m <= last /\ doc[open[m]].kind \in Fragment
      BY <1>2, <2>2 DEF Marks
    <3>2. \A j \in 1 .. m - 1 : j \in 1 .. last /\ j # m
      BY <3>1
    <3> QED BY <2>2, <3>1, <3>2 DEF Marks
  <2>4. S = {x \in 1 .. m - 1 : doc[open[x]].kind \in Level}
    <3>1. ASSUME NEW i \in S PROVE i \in 1 .. m - 1
      <4>1. i \in 1 .. Len(open) /\ ~(m \in 1 .. i)
        BY <1>2, <2>3
      <4> QED BY <1>2, <4>1
    <3>2. ASSUME NEW i \in 1 .. m - 1, doc[open[i]].kind \in Level PROVE i \in S
      <4>1. i \in 1 .. Len(open) /\ \A j \in 1 .. i : j \in 1 .. m - 1
        BY <1>2
      <4> QED BY <1>2, <2>3, <3>2, <4>1
    <3> QED BY <3>1, <3>2
  <2> QED BY <2>2, <2>4 DEF Height, Level
<1> QED BY <1>3, <1>4

\* Every object of the tree hangs where the document says and the parser's stack is
\* balanced between two tags: for all documents, nestings of tags that are known and
\* unknown, values of the subject, rebuilds within rebuilds, failures and deletions
\* that the model has, and for every bound.
THEOREM ObjectsAlwaysPlaced == Spec => []WellPlaced
<1>1. IInv => WellPlaced
  <2> SUFFICES ASSUME IInv PROVE WellPlaced
    OBVIOUS
  <2>1. ObjSound(doc, obj)
    BY IInvFacts
  <2>2. ASSUME NEW o \in Ids, obj[o].elem # Nothing, ~obj[o].sunk
        PROVE  IF o = 1 THEN obj[o].par = Outer
               ELSE /\ obj[o].par # Outer
                    /\ obj[obj[o].par].elem = doc[obj[o].elem].enc /\ ~obj[obj[o].par].sunk
    <3>1. There(obj, o)
      BY <2>2 DEF There
    <3>2. IF o = 1 THEN obj[o].elem = 1 /\ obj[o].par = Outer
          ELSE There(obj, obj[o].par) /\ obj[obj[o].par].elem = doc[obj[o].elem].enc
      BY <2>1, <3>1 DEF ObjSound
    <3>3. There(obj, obj[o].par) => obj[o].par # Outer /\ ~obj[obj[o].par].sunk
      BY DEF There, Outer, Ids
    <3> QED BY <3>2, <3>3
  <2> QED BY <2>2, Balanced DEF WellPlaced
<1> QED BY <1>1, Invariance, PTL

\* No observer was removed twice, and a record that keeps a handle has the observer as
\* long as the subject is there.
Handled(r, v) == ~r.twice /\ (r.handle /\ v # Gone => r.obs)
HandlesSound == \A r \in DOMAIN rec : Handled(rec[r], val)

LEMMA HandledTyped ==
  ASSUME NEW r \in Records, NEW v, Handled(r, v)
  PROVE  /\ Handled(Freed(r), v) /\ Handled(Unobserved(r), Gone)
         /\ v # Gone => Handled(Swept(r), v)
         /\ \A R \in SUBSET Ids : Handled([r EXCEPT !.roots = R, !.busy = FALSE], v)
         /\ Handled([r EXCEPT !.busy = TRUE, !.missed = FALSE, !.roots = {}], v)
         /\ Handled([r EXCEPT !.missed = TRUE], v)
<1>1. Handled(Freed(r), v) /\ Handled(Unobserved(r), Gone)
  BY DEF Handled, Records, Freed, Unobserved
<1>2. ASSUME v # Gone PROVE Handled(Swept(r), v)
  <2>1. Freed(r) \in Records /\ ~Freed(r).handle /\ ~(r.handle /\ ~r.obs)
    <3>1. Freed(r) \in Records /\ ~Freed(r).handle
      BY DEF Records, Freed
    <3> QED BY <1>2, <3>1 DEF Handled
  <2>2. Swept(r) = [Freed(r) EXCEPT !.twice = FALSE]
    BY <2>1 DEF Swept, Records
  <2> HIDE DEF Freed
  <2>3. ~Swept(r).twice /\ ~Swept(r).handle
    BY <2>1, <2>2 DEF Records
  <2> QED BY <2>3 DEF Handled
<1>3. /\ \A R \in SUBSET Ids : Handled([r EXCEPT !.roots = R, !.busy = FALSE], v)
      /\ Handled([r EXCEPT !.busy = TRUE, !.missed = FALSE, !.roots = {}], v)
      /\ Handled([r EXCEPT !.missed = TRUE], v)
  BY DEF Handled, Records
<1> QED BY <1>1, <1>2, <1>3

\* Where no subject goes before the scope, no step removes an observer twice.
LEMMA HandledNext ==
  ASSUME "drained" \notin Env, IInv, HandlesSound, [Next]_vars
  PROVE  HandlesSound'
<1>1. /\ rec \in Seq(Records) /\ DOMAIN rec = 1 .. Len(rec)
      /\ \A i \in DOMAIN rec : rec[i] \in Records /\ Handled(rec[i], val)
  BY IInvFacts DEF HandlesSound
<1>2. ASSUME UNCHANGED <<rec, val>> PROVE HandlesSound'
  BY <1>2 DEF HandlesSound
<1>3. CASE UNCHANGED vars
  BY <1>2, <1>3 DEF vars
<1>4. CASE \E kind \in Kinds, bound \in BOOLEAN, num \in Values \cup {0} : StartTag(kind, bound, num)
  BY <1>2, <1>4 DEF StartTag
<1>5. CASE EndTag \/ ParseEnd \/ Replay \/ ReplayAgain \/ Notified \/ SinkDelete
  BY <1>2, <1>5 DEF EndTag, ParseEnd, Replay, ReplayAgain, Notified, SinkDelete
<1>6. CASE \E v \in Values : SetSubject(v)
  <2>1. UNCHANGED rec /\ val # Gone
    BY <1>6 DEF SetSubject
  <2> QED BY <1>1, <2>1 DEF HandlesSound, Handled
<1>7. CASE EndFragment
  <2>1. CASE UNCHANGED rec
    BY <1>2, <1>7, <2>1 DEF EndFragment
  <2>2. CASE \E observed \in {TRUE, FALSE} : rec' = Append(rec, Record(observed))
    <3>1. PICK observed \in {TRUE, FALSE} : rec' = Append(rec, Record(observed))
      BY <2>2
    <3>2. Handled(Record(observed), val) /\ UNCHANGED val
      BY <1>7 DEF EndFragment, Record, Handled
    <3> HIDE DEF Record
    <3>3. /\ DOMAIN rec' = 1 .. Len(rec) + 1 /\ Len(rec) \in Nat
          /\ \A i \in 1 .. Len(rec) : rec'[i] = rec[i]
          /\ rec'[Len(rec) + 1] = Record(observed)
      BY <1>1, <3>1
    <3>4. ASSUME NEW i \in DOMAIN rec' PROVE Handled(rec'[i], val')
      <4>1. CASE i = Len(rec) + 1
        BY <3>2, <3>3, <4>1
      <4>2. CASE i \in 1 .. Len(rec)
        BY <1>1, <3>2, <3>3, <4>2
      <4> QED BY <3>3, <4>1, <4>2
    <3> QED BY <3>4 DEF HandlesSound
  <2> QED BY <1>7, <2>1, <2>2 DEF EndFragment
<1>8. CASE ReplayDone
  <2>1. CASE UNCHANGED rec
    BY <1>2, <1>8, <2>1 DEF ReplayDone
  <2>2. CASE Top.kind = "build"
    <3> DEFINE k == Top.play.rec
               new == [rec[k] EXCEPT !.roots = Top.play.roots, !.busy = FALSE]
    <3>1. rec' = [rec EXCEPT ![k] = new] /\ UNCHANGED val
      BY <1>8, <2>2 DEF ReplayDone
    <3>2. Top.play.roots \in SUBSET Ids
      <4>1. Top \in Frames
        BY <1>8, ReplayingFacts DEF ReplayDone
      <4> QED BY <4>1 DEF Frames, Replays
    <3>3. ASSUME k \in DOMAIN rec PROVE Handled(new, val)
      BY <1>1, <3>2, <3>3, HandledTyped
    <3> QED BY <1>1, <3>1, <3>3 DEF HandlesSound
  <2> QED BY <1>8, <2>1, <2>2 DEF ReplayDone
<1>9. CASE \E r \in DOMAIN rec : Observe(r)
  <2>1. PICK r \in DOMAIN rec : Observe(r)
    BY <1>9
  <2>2. UNCHANGED val
    BY <2>1 DEF Observe
  <2>3. CASE Guarded(r)
    <3> DEFINE new == [rec[r] EXCEPT !.missed = TRUE]
    <3>1. rec' = [rec EXCEPT ![r] = new]
      BY <2>1, <2>3 DEF Observe
    <3>2. Handled(new, val)
      BY <1>1, HandledTyped
    <3> QED BY <1>1, <2>2, <3>1, <3>2 DEF HandlesSound
  <2>4. CASE ~Guarded(r)
    <3> DEFINE new == [rec[r] EXCEPT !.busy = TRUE, !.missed = FALSE, !.roots = {}]
    <3>1. rec' = [rec EXCEPT ![r] = new]
      BY <2>1, <2>4 DEF Observe
    <3>2. Handled(new, val)
      BY <1>1, HandledTyped
    <3> QED BY <1>1, <2>2, <3>1, <3>2 DEF HandlesSound
  <2> QED BY <2>3, <2>4
<1>10. CASE Delete \/ ParseFails
  <2>1. /\ rec' = [r \in DOMAIN rec |-> IF rec[r].hook THEN Freed(rec[r]) ELSE rec[r]]
        /\ UNCHANGED val
    BY <1>10 DEF Delete, ParseFails, Deleted
  <2> QED BY <1>1, <2>1, HandledTyped DEF HandlesSound
<1>11. CASE SubjectGone
  <2>1. rec' = [r \in DOMAIN rec |-> Unobserved(rec[r])] /\ val' = Gone
    BY <1>11 DEF SubjectGone, Unobserved
  <2> QED BY <1>1, <2>1, HandledTyped DEF HandlesSound
<1>12. CASE Sweep
  <2>1. /\ rec' = [r \in DOMAIN rec |-> IF rec[r].live THEN Swept(rec[r]) ELSE rec[r]]
        /\ UNCHANGED val /\ val # Gone
    BY <1>12 DEF Sweep
  <2> QED BY <1>1, <2>1, HandledTyped DEF HandlesSound
<1> QED BY <1>3, <1>4, <1>5, <1>6, <1>7, <1>8, <1>9, <1>10, <1>11, <1>12 DEF Next

LEMMA HandlesAlwaysSound ==
  ASSUME "drained" \notin Env
  PROVE  Spec => []HandlesSound
<1>1. Init => HandlesSound
  BY DEF Init, HandlesSound
<1>2. IInv /\ HandlesSound /\ [Next]_vars => HandlesSound'
  BY HandledNext
<1> QED BY <1>1, <1>2, Invariance, PTL DEF Spec

\* The observer and the delete hook of a record refer to a record that is there, it is
\* there only with its instance, its roots are objects of the tree, and no observer is
\* removed twice: whichever of the instance, the subject and the scope goes first, and
\* whatever a rebuild runs into, unless both the subject and then the scope go before the
\* instance ("drained"), as at a deinit that finds the scope retired.
THEOREM RecordsAlwaysSound ==
  ASSUME "drained" \notin Env
  PROVE  Spec => []RecordsSound
<1>1. IInv /\ HandlesSound => RecordsSound
  <2> SUFFICES ASSUME IInv, HandlesSound, NEW r \in DOMAIN rec
               PROVE  /\ ~rec[r].twice
                      /\ rec[r].hook \/ rec[r].obs => rec[r].live
                      /\ rec[r].live => Alive /\ rec[r].hook
                      /\ \A o \in rec[r].roots : obj[o].elem # Nothing /\ ~obj[o].sunk
    BY DEF RecordsSound
  <2>1. r \in 1 .. Len(rec) /\ ObjSound(doc, obj) /\ RecSound(doc, obj, open, cap, rec)
    BY IInvFacts
  <2>2. RecordSound(doc, obj, rec[r])
    BY <2>1 DEF RecSound
  <2>3. ASSUME rec[r].live PROVE Alive /\ rec[r].hook
    <3>1. There(obj, rec[r].parent) /\ rec[r].hook /\ rec[r].parent \in Ids
      BY <2>2, <2>3 DEF RecordSound, Of, There
    <3>2. There(obj, 1)
      BY <2>1, <3>1 DEF ObjSound
    <3>3. obj[1].elem = 1
      BY <2>1, <3>2 DEF ObjSound, There
    <3> QED BY <3>1, <3>2, <3>3 DEF Alive, There
  <2>4. rec[r].hook \/ rec[r].obs => rec[r].live
    BY <2>2 DEF RecordSound
  <2>5. \A o \in rec[r].roots : obj[o].elem # Nothing /\ ~obj[o].sunk
    BY <2>2 DEF RecordSound, There
  <2>6. ~rec[r].twice
    BY DEF HandlesSound, Handled
  <2> QED BY <2>3, <2>4, <2>5, <2>6
<1>2. Spec => []HandlesSound
  BY HandlesAlwaysSound
<1> QED BY <1>1, <1>2, Invariance, PTL
=============================================================================
