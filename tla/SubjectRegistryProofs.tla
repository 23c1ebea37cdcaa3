------------------------ MODULE SubjectRegistryProofs ------------------------
(***************************************************************************)
(* Proofs about SubjectRegistry, for every set of scopes, names, subjects  *)
(* and widgets.  What the application must not do is a hypothesis of the   *)
(* theorem that needs it, never of the others.  The argument: a subject    *)
(* the parser made is named by one record, whose scope releases it, and is *)
(* read from that scope only (ReadsLocal) unless "globals" owns it; so the *)
(* release of a subject finds its readers in the expressions of the same   *)
(* scope, which it drops first.                                            *)
(***************************************************************************)
EXTENDS SubjectRegistry, TLAPS

\* The initial states satisfy the invariant.
LEMMA InitIInv == Init => IInv
<1> SUFFICES ASSUME Init PROVE IInv
  OBVIOUS
<1> USE SubjectAssumption DEF Init, AllScopes, Subs, Readers, NoRecord, Empty
<1>1. TypeOK
  BY DEF TypeOK, ExprRecord
<1>2. ScopesStand
  BY DEF ScopesStand, Parsing
<1>3. OwnersSound
  BY DEF OwnersSound, Usable
<1>4. FeedsSound
  BY DEF FeedsSound
<1>5. ReadersSound /\ ReadsLocal
  BY DEF ReadersSound, ReadsLocal, Reads
<1>6. InputsKept /\ DeinitQuiet
  BY DEF InputsKept, DeinitQuiet
<1> QED BY <1>1, <1>2, <1>3, <1>4, <1>5, <1>6 DEF IInv
-----------------------------------------------------------------------------
(* Registration.                                                           *)

\* What register_subject_impl() changes, point by point.
LEMMA RegisterFacts ==
  ASSUME TypeOK, NEW s \in AllScopes, NEW n \in Names, NEW x \in Subs,
         NEW owned \in BOOLEAN, RegisterSubject(s, n, x, owned)
  PROVE  /\ rec' \in [AllScopes -> [Names -> Subs \cup {NoSub}]]
         /\ own' \in [AllScopes -> [Names -> BOOLEAN]]
         /\ sub' \in [Subs -> {"unused", "live", "released", "app"}]
         /\ rec'[s][n] = x /\ own'[s][n] = owned
         /\ \A t \in AllScopes, m \in Names :
              t # s \/ m # n => rec'[t][m] = rec[t][m] /\ own'[t][m] = own[t][m]
         /\ sub'[x] = IF owned THEN "live" ELSE "app"
         /\ \A y \in Subs \ {x} :
              sub'[y] = IF own[s][n] /\ y = rec[s][n] THEN "released" ELSE sub[y]
BY DEF TypeOK, RegisterSubject, Released, Owned

\* Registration leaves every subject at most one owner.
LEMMA RegisterOwners ==
  ASSUME TypeOK, OwnersSound, NEW s \in AllScopes, NEW n \in Names, NEW x \in Subs,
         NEW owned \in BOOLEAN, RegisterSubject(s, n, x, owned),
         owned => x \in Made /\ sub[x] = "unused",
         ~owned => x \in App \/ x = rec[s][n],
         sst[s] \notin {"unused", "freed"}, sst' = sst
  PROVE  OwnersSound'
<1> USE SubjectAssumption DEF Subs
<1>1. \A y \in App : sub'[y] = "app"
  BY RegisterFacts DEF OwnersSound
<1>2. ASSUME NEW t \in AllScopes, NEW m \in Names
      PROVE  /\ own'[t][m] => rec'[t][m] \in Made /\ sub'[rec'[t][m]] = "live"
             /\ rec'[t][m] \in Subs =>
                  sub'[rec'[t][m]] \in {"live", "app"} /\ sst'[t] \notin {"unused", "freed"}
  <2>1. CASE t = s /\ m = n
    <3>1. rec'[t][m] = x /\ own'[t][m] = owned
      BY <2>1, RegisterFacts
    <3>2. sub'[x] = IF owned THEN "live" ELSE "app"
      BY RegisterFacts
    <3> QED BY <2>1, <3>1, <3>2
  <2>2. CASE t # s \/ m # n
    <3>1. rec'[t][m] = rec[t][m] /\ own'[t][m] = own[t][m]
      BY <2>2, RegisterFacts
    <3>2. /\ own[s][n] => rec[t][m] # rec[s][n]
          /\ own[t][m] => rec[s][n] # rec[t][m]
      BY <2>2 DEF OwnersSound
    <3>3. /\ own[t][m] => rec[t][m] \in Made /\ sub[rec[t][m]] = "live"
          /\ rec[t][m] \in Subs =>
               sub[rec[t][m]] \in {"live", "app"} /\ sst[t] \notin {"unused", "freed"}
      BY DEF OwnersSound, Usable
    <3>4. rec[t][m] \in Subs /\ rec[t][m] # x =>
            sub'[rec[t][m]] = IF own[s][n] /\ rec[t][m] = rec[s][n]
                                THEN "released" ELSE sub[rec[t][m]]
      BY RegisterFacts
    <3>5. sub'[x] = IF owned THEN "live" ELSE "app"
      BY RegisterFacts
    <3> QED BY <3>1, <3>2, <3>3, <3>4, <3>5
  <2> QED BY <2>1, <2>2
<1>3. ASSUME NEW t \in AllScopes, NEW u \in AllScopes, NEW m \in Names, NEW k \in Names,
             own'[t][m], rec'[u][k] = rec'[t][m]
      PROVE  u = t /\ k = m
  <2>1. own[s][n] /\ rec[t][m] = rec[s][n] => t = s /\ m = n
    BY DEF OwnersSound
  <2>2. own[t][m] /\ rec[u][k] = rec[t][m] => u = t /\ k = m
    BY DEF OwnersSound
  <2>3. own[t][m] /\ rec[s][n] = rec[t][m] => s = t /\ n = m
    BY DEF OwnersSound
  <2>4. /\ own[t][m] => rec[t][m] \in Made /\ sub[rec[t][m]] = "live"
        /\ rec[u][k] \in Subs => sub[rec[u][k]] \in {"live", "app"}
    BY DEF OwnersSound, Usable
  <2>5. /\ t = s /\ m = n => rec'[t][m] = x /\ own'[t][m] = owned
        /\ u = s /\ k = n => rec'[u][k] = x
        /\ t # s \/ m # n => rec'[t][m] = rec[t][m] /\ own'[t][m] = own[t][m]
        /\ u # s \/ k # n => rec'[u][k] = rec[u][k]
    BY RegisterFacts
  <2> QED BY <1>3, <2>1, <2>2, <2>3, <2>4, <2>5
<1>4. ASSUME NEW y \in Made, sub'[y] = "live"
      PROVE  \E t \in AllScopes, m \in Names : own'[t][m] /\ rec'[t][m] = y
  <2>1. CASE y = x
    BY <2>1, <1>4, RegisterFacts
  <2>2. CASE y # x
    <3>1. sub[y] = "live" /\ ~(own[s][n] /\ y = rec[s][n])
      BY <2>2, <1>4, RegisterFacts
    <3>2. PICK t \in AllScopes, m \in Names : own[t][m] /\ rec[t][m] = y
      BY <3>1 DEF OwnersSound
    <3>3. t # s \/ m # n
      BY <3>1, <3>2
    <3>4. rec'[t][m] = y /\ own'[t][m]
      BY <3>2, <3>3, RegisterFacts
    <3> QED BY <3>4
  <2> QED BY <2>1, <2>2
<1> QED BY <1>1, <1>2, <1>3, <1>4 DEF OwnersSound, Usable
-----------------------------------------------------------------------------
(* Release.                                                                *)

\* A step takes the expression records of D off, releases the subjects X and adds
\* at most the records of P, as the code must have seen to: whoever feeds X is in
\* D, and nobody else reads X.
Withdrawal(D, X, P) ==
  /\ D \in SUBSET Made /\ X \in SUBSET Subs /\ P \in SUBSET Made
  /\ UNCHANGED <<phase, inst, cond>>
  /\ expr' \in [Made -> ExprRecord] /\ obs' \in [Subs -> SUBSET Readers]
  /\ \A d \in Made \ P : expr'[d] = Dropped(D)[d]
  /\ \A y \in Subs : obs'[y] \ P = Detached(D, X)[y] \ P
  /\ \A y \in Subs \ X : sub'[y] = sub[y] \/ sub'[y] \in {"live", "app"}
  /\ \A y \in X : sub'[y] = "released"
  /\ \A d \in Made \ D : expr[d].scope # NoScope =>
       sst'[expr[d].scope] = sst[expr[d].scope]
  /\ \A d \in (X \cap Made) \ D : "derived" \notin Env => expr[d].scope = NoScope
  /\ \A t \in AllScopes, m \in Names : own'[t][m] =>
       \/ own[t][m] /\ rec'[t][m] = rec[t][m]
       \/ rec'[t][m] \in Made /\ sub[rec'[t][m]] = "unused"
  /\ \A d \in Made \ D :
       /\ {"inputs", "held"} \cap Env = {}
       /\ expr[d].scope # NoScope
       /\ phase = "up" \/ sst[expr[d].scope] # "lost"
       => expr[d].reads \cap X = {}
  /\ {"inputs", "instances"} \cap Env = {} =>
       \A w \in Widgets : cond[w] \cap X = {}
  /\ \A d \in P :
       /\ sub[d] = "unused" /\ sub'[d] = "live"
       /\ expr'[d].scope \in AllScopes /\ expr'[d].kept \subseteq expr'[d].reads
       /\ sst'[expr'[d].scope] \notin {"unused", "freed"}
       /\ \A y \in Subs : d \in obs'[y] <=> y \in expr'[d].kept
       /\ \A y \in expr'[d].reads :
            sub'[y] # "unused" /\ ("inputs" \notin Env => sub'[y] \in {"live", "app"})
       /\ \A t \in AllScopes, m \in Names : own'[t][m] =>
            /\ rec'[t][m] \in expr'[d].reads => t \in {Globals, expr'[d].scope}
            /\ rec'[t][m] = d => expr'[d].scope = t

\* A withdrawal keeps what is known of readers.
LEMMA WithdrawKeeps ==
  ASSUME IInv, NEW D, NEW X, NEW P, Withdrawal(D, X, P)
  PROVE  FeedsSound' /\ ReadersSound' /\ ReadsLocal' /\ InputsKept'
<1> USE SubjectAssumption DEF Subs, Readers, Withdrawal
<1>1. \A d \in Made : expr[d] \in ExprRecord /\ expr'[d] \in ExprRecord
  BY DEF IInv, TypeOK
<1>2. ASSUME NEW d \in Made \ P
      PROVE  expr'[d] = IF d \in D THEN NoRecord ELSE expr[d]
  BY DEF Dropped
<1>3. ASSUME NEW y \in Subs, NEW r \in Readers, r \notin P
      PROVE  r \in obs'[y] <=> y \notin X /\ r \in obs[y] /\ r \notin D
  <2>1. obs'[y] \ P = Detached(D, X)[y] \ P
    OBVIOUS
  <2>2. Detached(D, X)[y] = IF y \in X THEN {} ELSE obs[y] \ D
    BY DEF Detached
  <2> QED BY <1>3, <2>1, <2>2
<1>4. \A w \in Widgets : w \notin P /\ w \notin D /\ w \notin Made
  OBVIOUS
<1>5. \A y \in Subs : sub[y] # "unused" => sub'[y] # "unused"
  OBVIOUS
<1>6. \A y \in Subs : Usable(y) /\ y \notin X => sub'[y] \in {"live", "app"}
  BY DEF Usable
<1>7. FeedsSound'
  <2>1. ASSUME NEW d \in Made
        PROVE  /\ expr'[d].kept \subseteq expr'[d].reads
               /\ expr'[d].scope = NoScope => expr'[d].reads = {}
               /\ expr'[d].scope # NoScope =>
                    /\ sst'[expr'[d].scope] \notin {"unused", "freed"}
                    /\ sub'[d] # "unused"
                    /\ "derived" \notin Env => sub'[d] \in {"live", "app"}
    <3>1. CASE d \in P
      BY <3>1
    <3>2. CASE d \notin P /\ d \in D
      BY <3>2, <1>2 DEF NoRecord
    <3>3. CASE d \notin P /\ d \notin D
      <4>1. expr'[d] = expr[d]
        BY <3>3, <1>2
      <4>2. /\ expr[d].kept \subseteq expr[d].reads
            /\ expr[d].scope = NoScope => expr[d].reads = {}
            /\ expr[d].scope # NoScope =>
                 /\ sst[expr[d].scope] \notin {"unused", "freed"}
                 /\ sub[d] # "unused"
                 /\ "derived" \notin Env => Usable(d)
        BY DEF IInv, FeedsSound
      <4>3. expr[d].scope # NoScope => sst'[expr[d].scope] = sst[expr[d].scope]
        BY <3>3
      <4>4. expr[d].scope # NoScope /\ "derived" \notin Env => d \notin X
        BY <3>3
      <4> QED BY <4>1, <4>2, <4>3, <4>4, <1>5, <1>6
    <3> QED BY <3>1, <3>2, <3>3
  <2>2. ASSUME NEW t \in AllScopes, NEW m \in Names, own'[t][m]
        PROVE  expr'[rec'[t][m]].scope \in {NoScope, t}
    <3>1. CASE rec'[t][m] \in P
      BY <2>2, <3>1
    <3>2. CASE rec'[t][m] \notin P /\ own[t][m] /\ rec'[t][m] = rec[t][m]
      BY <3>2, <1>2 DEF IInv, OwnersSound, FeedsSound, NoRecord
    <3>3. CASE /\ rec'[t][m] \notin P
               /\ rec'[t][m] \in Made /\ sub[rec'[t][m]] = "unused"
      BY <3>3, <1>2 DEF IInv, FeedsSound, NoRecord
    <3> QED BY <2>2, <3>1, <3>2, <3>3
  <2> QED BY <2>1, <2>2, Zenon DEF FeedsSound, Usable
<1>8. ReadersSound'
  <2>1. ASSUME NEW y \in Subs, NEW d \in Made, d \in obs'[y]
        PROVE  y \in expr'[d].kept
    BY <2>1, <1>2, <1>3 DEF IInv, ReadersSound
  <2>2. ASSUME NEW y \in Subs, NEW w \in Widgets, w \in obs'[y]
        PROVE  y \in cond'[w]
    BY <2>2, <1>3, <1>4 DEF IInv, ReadersSound
  <2>3. \A w \in Widgets : inst'[w] = NoScope => cond'[w] = {}
    BY DEF IInv, ReadersSound
  <2>4. ASSUME NEW r \in Readers, NEW y \in Reads(r)'
        PROVE  sub'[y] # "unused"
    <3>1. CASE r \in P
      BY <3>1 DEF Reads
    <3>2. CASE r \in Made \ P
      BY <3>2, <1>1, <1>2, <1>5 DEF IInv, ReadersSound, Reads, NoRecord, ExprRecord
    <3>3. CASE r \in Widgets
      BY <3>3, <1>4, <1>5 DEF IInv, ReadersSound, Reads, TypeOK
    <3> QED BY <3>1, <3>2, <3>3
  <2> QED BY <2>1, <2>2, <2>3, <2>4 DEF ReadersSound
<1>9. ReadsLocal'
  <2> SUFFICES ASSUME NEW t \in AllScopes, NEW m \in Names, NEW r \in Readers,
                      own'[t][m], rec'[t][m] \in Reads(r)'
               PROVE  t \in {Globals, Home(r)'}
    BY DEF ReadsLocal
  <2>1. CASE r \in P
    BY <2>1 DEF Reads, Home
  <2>2. CASE r \notin P
    <3>1. Reads(r)' \subseteq Reads(r) /\ (Reads(r)' # {} => Home(r)' = Home(r))
      BY <2>2, <1>2, <1>4 DEF Reads, Home, NoRecord
    <3>2. rec'[t][m] \in Reads(r)
      BY <3>1
    <3>3. sub[rec'[t][m]] # "unused"
      BY <3>2 DEF IInv, ReadersSound
    <3>4. own[t][m] /\ rec'[t][m] = rec[t][m]
      BY <3>3
    <3>5. t \in {Globals, Home(r)}
      BY <3>2, <3>4 DEF IInv, ReadsLocal
    <3> QED BY <3>1, <3>5
  <2> QED BY <2>1, <2>2
<1>10. InputsKept'
  <2>1. ASSUME {"inputs", "held"} \cap Env = {}, NEW d \in Made,
               phase' = "up" \/ ~LeftBehind(d)'
        PROVE  /\ \A y \in expr'[d].reads : sub'[y] \in {"live", "app"}
               /\ \A y \in expr'[d].kept : d \in obs'[y]
    <3>1. CASE d \in P
      BY <2>1, <3>1, <1>1 DEF ExprRecord
    <3>2. CASE d \notin P /\ (d \in D \/ expr[d].scope = NoScope)
      BY <3>2, <1>2 DEF NoRecord, IInv, FeedsSound
    <3>3. CASE d \notin P /\ d \notin D /\ expr[d].scope # NoScope
      <4>1. expr'[d] = expr[d] /\ sst'[expr[d].scope] = sst[expr[d].scope]
        BY <3>3, <1>2
      <4>2. phase = "up" \/ sst[expr[d].scope] # "lost"
        BY <2>1, <3>3, <4>1 DEF LeftBehind
      <4>3. phase = "up" \/ ~LeftBehind(d)
        BY <4>2 DEF LeftBehind
      <4>4. /\ \A y \in expr[d].reads : Usable(y)
            /\ \A y \in expr[d].kept : d \in obs[y]
        BY <2>1, <4>3 DEF IInv, InputsKept
      <4>5. expr[d].reads \cap X = {}
        BY <2>1, <3>3, <4>2
      <4>6. expr[d].reads \subseteq Subs /\ expr[d].kept \subseteq expr[d].reads
        BY <1>1 DEF ExprRecord, IInv, FeedsSound
      <4> QED BY <3>3, <4>1, <4>4, <4>5, <4>6, <1>3, <1>6
    <3> QED BY <3>1, <3>2, <3>3
  <2>2. ASSUME {"inputs", "instances"} \cap Env = {}, NEW w \in Widgets
        PROVE  \A y \in cond'[w] : sub'[y] \in {"live", "app"}
    <3>1. \A y \in cond[w] : y \in Subs /\ Usable(y)
      BY <2>2 DEF IInv, InputsKept, TypeOK
    <3>2. cond[w] \cap X = {} /\ cond'[w] = cond[w]
      BY <2>2
    <3> QED BY <3>1, <3>2, <1>6
  <2> QED BY <2>1, <2>2 DEF InputsKept, Usable
<1> QED BY <1>7, <1>8, <1>9, <1>10

\* Records that come off and observers that are detached leave typed state.
LEMMA WithdrawTyped ==
  ASSUME TypeOK, NEW D \in SUBSET Made, NEW X \in SUBSET Subs
  PROVE  /\ Dropped(D) \in [Made -> ExprRecord]
         /\ Detached(D, X) \in [Subs -> SUBSET Readers]
<1>1. NoRecord \in ExprRecord
  BY DEF NoRecord, ExprRecord
<1>2. Dropped(D) \in [Made -> ExprRecord]
  BY <1>1 DEF Dropped, TypeOK
<1>3. Detached(D, X) \in [Subs -> SUBSET Readers]
  BY DEF Detached, TypeOK
<1> QED BY <1>2, <1>3

\* What the application owes, reader by reader.
LEMMA UnreadFacts ==
  ASSUME TypeOK, NEW X \in SUBSET Subs, Unread(X), "inputs" \notin Env
  PROVE  /\ \A d \in Made : expr[d].reads \cap X = {}
         /\ \A w \in Widgets : cond[w] \cap X = {}
BY SubjectAssumption DEF Unread, Readers, Reads

\* What registering x under n releases.
Displaced(s, n, x) == Owned(s, n) \ {x}

\* A step releases X, which s owned, and drops who fed it from s.
Releases(s, X) ==
  /\ X \in SUBSET Subs /\ Feeding(s, X) \in SUBSET Made
  /\ \A y \in Subs \ X : sub'[y] = sub[y] \/ sub'[y] \in {"live", "app"}
  /\ \A y \in X : sub'[y] = "released"
  /\ \A d \in (X \cap Made) \ Feeding(s, X) : expr[d].scope = NoScope
  /\ \A t \in AllScopes, m \in Names : own'[t][m] =>
       \/ own[t][m] /\ rec'[t][m] = rec[t][m]
       \/ rec'[t][m] \in Made /\ sub[rec'[t][m]] = "unused"
  /\ "inputs" \notin Env =>
       /\ \A d \in Made : expr[d].reads \cap X = {}
       /\ \A w \in Widgets : cond[w] \cap X = {}

\* register_subject_impl() releases what its record owned.
LEMMA RegisterReleases ==
  ASSUME IInv, NEW s \in AllScopes, NEW n \in Names, NEW x \in Subs,
         NEW owned \in BOOLEAN, RegisterSubject(s, n, x, owned),
         owned => x \in Made /\ sub[x] = "unused"
  PROVE  Releases(s, Displaced(s, n, x))
<1> DEFINE X == Displaced(s, n, x)
<1> USE DEF IInv, Displaced
<1>1. \A y \in X : own[s][n] /\ y = rec[s][n] /\ y # x /\ y \in Made
  BY DEF Owned, OwnersSound
<1>2. X \in SUBSET Subs /\ Feeding(s, X) \in SUBSET Made
  BY <1>1 DEF Subs, Feeding
<1>3. \A y \in Subs \ X : sub'[y] = sub[y] \/ sub'[y] \in {"live", "app"}
  <2> SUFFICES ASSUME NEW y \in Subs, y \notin X
               PROVE  sub'[y] = sub[y] \/ sub'[y] \in {"live", "app"}
    OBVIOUS
  <2>1. y = x \/ ~(own[s][n] /\ y = rec[s][n])
    BY DEF Owned
  <2> QED BY <2>1, RegisterFacts
<1>4. \A y \in X : sub'[y] = "released"
  BY <1>1, <1>2, RegisterFacts
<1>5. \A d \in (X \cap Made) \ Feeding(s, X) : expr[d].scope = NoScope
  BY <1>1 DEF Feeding, FeedsSound
<1>6. ASSUME NEW t \in AllScopes, NEW m \in Names, own'[t][m]
      PROVE  \/ own[t][m] /\ rec'[t][m] = rec[t][m]
             \/ rec'[t][m] \in Made /\ sub[rec'[t][m]] = "unused"
  <2>1. CASE t = s /\ m = n
    BY <1>6, <2>1, RegisterFacts
  <2>2. CASE t # s \/ m # n
    BY <1>6, <2>2, RegisterFacts
  <2> QED BY <2>1, <2>2
<1>7. Unread(X)
  BY DEF RegisterSubject
<1> QED BY <1>2, <1>3, <1>4, <1>5, <1>6, <1>7, UnreadFacts DEF Releases

\* Nothing that decides where scopes and instances stand has changed.
LEMMA StandsStill ==
  ASSUME IInv, UNCHANGED <<phase, sst, inst>>
  PROVE  ScopesStand'
BY DEF IInv, ScopesStand, Parsing

\* <subject>.
LEMMA SubjectStep ==
  ASSUME IInv, NEW s \in AllScopes, NEW n \in Names, NEW x \in Made, Subject(s, n, x)
  PROVE  IInv'
<1> DEFINE X == Displaced(s, n, x)
<1> x \in Subs
  BY DEF Subs
<1>1. /\ RegisterSubject(s, n, x, TRUE) /\ sub[x] = "unused" /\ phase = "up"
      /\ expr' = Dropped(Feeding(s, X)) /\ obs' = Detached(Feeding(s, X), X)
      /\ UNCHANGED <<phase, sst, inst, cond>>
  BY DEF Subject, Filled, Displaced
<1>2. sst[s] \notin {"unused", "freed"}
  BY DEF Subject, Filled, IInv, ScopesStand
<1>3. Releases(s, X)
  BY <1>1, RegisterReleases
<1>4. expr' \in [Made -> ExprRecord] /\ obs' \in [Subs -> SUBSET Readers]
  BY <1>1, <1>3, WithdrawTyped DEF IInv, Releases
<1>5. TypeOK'
  BY <1>1, <1>4, RegisterFacts DEF IInv, TypeOK
<1>6. OwnersSound'
  BY <1>1, <1>2, RegisterOwners DEF IInv
<1>7. Withdrawal(Feeding(s, X), X, {})
  BY <1>1, <1>3, <1>4 DEF Withdrawal, Releases
<1>8. ScopesStand' /\ DeinitQuiet'
  BY <1>1, StandsStill DEF DeinitQuiet
<1> QED BY <1>5, <1>6, <1>7, <1>8, WithdrawKeeps DEF IInv

\* lv_xml_register_subject() by the application.
LEMMA AppRegisterStep ==
  ASSUME IInv, NEW s \in AllScopes, NEW n \in Names, NEW x \in Subs, AppRegister(s, n, x)
  PROVE  IInv'
<1> DEFINE X == Displaced(s, n, x)
<1>1. /\ RegisterSubject(s, n, x, FALSE) /\ phase = "up"
      /\ expr' = Dropped(Feeding(s, X)) /\ obs' = Detached(Feeding(s, X), X)
      /\ UNCHANGED <<phase, sst, inst, cond>>
  BY DEF AppRegister, AppRuns, Displaced
<1>2. sst[s] \notin {"unused", "freed"} /\ (x \in App \/ x = rec[s][n])
  BY DEF AppRegister
<1>3. Releases(s, X)
  BY <1>1, RegisterReleases
<1>4. expr' \in [Made -> ExprRecord] /\ obs' \in [Subs -> SUBSET Readers]
  BY <1>1, <1>3, WithdrawTyped DEF IInv, Releases
<1>5. TypeOK'
  BY <1>1, <1>4, RegisterFacts DEF IInv, TypeOK
<1>6. OwnersSound'
  BY <1>1, <1>2, RegisterOwners DEF IInv
<1>7. Withdrawal(Feeding(s, X), X, {})
  BY <1>1, <1>3, <1>4 DEF Withdrawal, Releases
<1>8. ScopesStand' /\ DeinitQuiet'
  BY <1>1, StandsStill DEF DeinitQuiet
<1> QED BY <1>5, <1>6, <1>7, <1>8, WithdrawKeeps DEF IInv

\* The names of an expression resolve to usable subjects that the scope or
\* "globals" holds, none of them new.
LEMMA ResolvedFacts ==
  ASSUME IInv, NEW s \in AllScopes, NEW N \in SUBSET Names, NoSub \notin Resolved(s, N)
  PROVE  /\ Resolved(s, N) \in SUBSET Subs
         /\ \A y \in Resolved(s, N) : Usable(y)
         /\ \A y \in Resolved(s, N), t \in AllScopes, m \in Names :
              own[t][m] /\ rec[t][m] = y => t \in {Globals, s}
<1> SUFFICES ASSUME NEW y \in Resolved(s, N)
             PROVE  /\ y \in Subs /\ Usable(y)
                    /\ \A t \in AllScopes, m \in Names :
                         own[t][m] /\ rec[t][m] = y => t \in {Globals, s}
  BY Zenon
<1>1. PICK k \in N : y = Find(s, k)
  BY DEF Resolved
<1>2. PICK u \in {Globals, s} : y = rec[u][k]
  BY <1>1 DEF Find
<1>3. u \in AllScopes /\ k \in Names
  BY DEF AllScopes
<1>4. y \in Subs
  BY <1>2, <1>3 DEF IInv, TypeOK
<1> QED BY <1>2, <1>3, <1>4 DEF IInv, OwnersSound

\* <subject_expr>: the new subject is fed by the inputs its names resolved to.
LEMMA SubjectExprStep ==
  ASSUME IInv, NEW s \in AllScopes, NEW n \in Names, NEW x \in Made,
         NEW N \in SUBSET Names, SubjectExpr(s, n, x, N)
  PROVE  IInv'
<1> DEFINE X == Displaced(s, n, x)
           D == Feeding(s, X)
           I == Resolved(s, N)
<1> x \in Subs
  BY DEF Subs
<1>1. /\ RegisterSubject(s, n, x, TRUE) /\ sub[x] = "unused" /\ phase = "up"
      /\ UNCHANGED <<phase, sst, inst, cond>>
      /\ NoSub \notin I /\ ("inputs" \in Env \/ I \cap X = {})
  BY DEF SubjectExpr, Filled, Displaced
<1>2. PICK K \in {I, {}} :
        /\ expr' = [Dropped(D) EXCEPT ![x] = [scope |-> s, reads |-> I, kept |-> K]]
        /\ obs' = [y \in Subs |-> Detached(D, X)[y] \cup (IF y \in K THEN {x} ELSE {})]
  BY ZenonT(40) DEF SubjectExpr, Displaced
<1>3. sst[s] \notin {"unused", "freed"}
  BY DEF SubjectExpr, Filled, IInv, ScopesStand
<1>4. Releases(s, X)
  BY <1>1, RegisterReleases
<1>5. /\ I \in SUBSET Subs /\ \A y \in I : Usable(y) /\ y # x
      /\ \A y \in I, t \in AllScopes, m \in Names :
           own[t][m] /\ rec[t][m] = y => t \in {Globals, s}
  BY <1>1, ResolvedFacts DEF Usable
<1> HIDE DEF I
<1>6. Dropped(D) \in [Made -> ExprRecord] /\ Detached(D, X) \in [Subs -> SUBSET Readers]
  BY <1>4, WithdrawTyped DEF IInv, Releases
<1>7. expr' \in [Made -> ExprRecord] /\ obs' \in [Subs -> SUBSET Readers]
  BY <1>2, <1>5, <1>6 DEF ExprRecord, Readers
<1>8. TypeOK'
  BY <1>1, <1>7, RegisterFacts DEF IInv, TypeOK
<1>9. OwnersSound'
  BY <1>1, <1>3, RegisterOwners DEF IInv
<1>10. expr'[x] = [scope |-> s, reads |-> I, kept |-> K]
  BY <1>2, <1>6
<1>11. ASSUME NEW y \in Subs
       PROVE  x \in obs'[y] <=> y \in K
  <2>1. x \notin obs[y]
    BY <1>1 DEF IInv, ReadersSound, FeedsSound
  <2>2. obs'[y] = Detached(D, X)[y] \cup (IF y \in K THEN {x} ELSE {})
    BY <1>2
  <2>3. x \notin Detached(D, X)[y]
    BY <2>1 DEF Detached
  <2> QED BY <2>2, <2>3
<1>12. ASSUME NEW y \in I
       PROVE  sub'[y] # "unused" /\ ("inputs" \notin Env => sub'[y] \in {"live", "app"})
  BY <1>1, <1>4, <1>5 DEF Releases, Usable
<1>13. ASSUME NEW t \in AllScopes, NEW m \in Names, own'[t][m]
       PROVE  /\ rec'[t][m] \in I => t \in {Globals, s}
              /\ rec'[t][m] = x => s = t
  <2>1. CASE t = s /\ m = n
    <3>1. rec'[t][m] = x
      BY <1>1, <2>1, RegisterFacts DEF IInv
    <3> QED BY <2>1, <3>1, <1>5
  <2>2. CASE t # s \/ m # n
    <3>1. own[t][m] /\ rec'[t][m] = rec[t][m]
      BY <1>1, <1>13, <2>2 DEF RegisterSubject, IInv, TypeOK
    <3>2. sub[rec[t][m]] = "live"
      BY <3>1 DEF IInv, OwnersSound
    <3>3. rec[t][m] # x
      BY <1>1, <3>2
    <3> QED BY <1>5, <3>1, <3>3
  <2> QED BY <2>1, <2>2
<1>14. Withdrawal(D, X, {x})
  <2>1. \A d \in Made \ {x} : expr'[d] = Dropped(D)[d]
    BY <1>2, <1>6
  <2>2. \A y \in Subs : obs'[y] \ {x} = Detached(D, X)[y] \ {x}
    BY <1>2
  <2>3. sub'[x] = "live" /\ sst' = sst
    BY <1>1, RegisterFacts DEF IInv
  <2>4. /\ sub[x] = "unused" /\ sub'[x] = "live"
        /\ expr'[x].scope \in AllScopes /\ expr'[x].kept \subseteq expr'[x].reads
        /\ sst'[expr'[x].scope] \notin {"unused", "freed"}
        /\ \A y \in Subs : x \in obs'[y] <=> y \in expr'[x].kept
        /\ \A y \in expr'[x].reads :
             sub'[y] # "unused" /\ ("inputs" \notin Env => sub'[y] \in {"live", "app"})
        /\ \A t \in AllScopes, m \in Names : own'[t][m] =>
             /\ rec'[t][m] \in expr'[x].reads => t \in {Globals, expr'[x].scope}
             /\ rec'[t][m] = x => expr'[x].scope = t
    BY <1>1, <1>3, <1>10, <1>11, <1>12, <1>13, <2>3
  <2> HIDE DEF X, D
  <2> QED BY <1>1, <1>4, <1>7, <2>1, <2>2, <2>3, <2>4 DEF Withdrawal, Releases, D
<1>15. ScopesStand' /\ DeinitQuiet'
  BY <1>1, StandsStill DEF DeinitQuiet
<1> QED BY <1>8, <1>9, <1>14, <1>15, WithdrawKeeps DEF IInv

\* lv_xml_unregister_subject().
LEMMA AppUnregisterStep ==
  ASSUME IInv, NEW s \in AllScopes, NEW n \in Names, AppUnregister(s, n)
  PROVE  IInv'
<1> DEFINE X == Owned(s, n)
<1>1. /\ Unread(X) /\ phase = "up"
      /\ "derived" \in Env \/ \A x \in X : expr[x].scope = NoScope
      /\ rec' = [rec EXCEPT ![s][n] = NoSub]
      /\ own' = [own EXCEPT ![s][n] = FALSE]
      /\ sub' = Released(X) /\ obs' = Detached({}, X)
      /\ UNCHANGED <<phase, sst, expr, inst, cond>>
  BY DEF AppUnregister, AppRuns
<1>2. \A y \in X : own[s][n] /\ y = rec[s][n] /\ y \in Made
  BY DEF Owned, IInv, OwnersSound
<1>3. X \in SUBSET Subs /\ {} \in SUBSET Made
  BY <1>2 DEF Subs
<1>4. obs' \in [Subs -> SUBSET Readers] /\ Dropped({}) = expr
  BY <1>1, <1>3, WithdrawTyped DEF IInv, Dropped, TypeOK
<1>5. TypeOK'
  BY <1>1, <1>4 DEF IInv, TypeOK, Released
<1>6. \A t \in AllScopes, m \in Names :
        /\ t = s /\ m = n => rec'[t][m] = NoSub /\ ~own'[t][m]
        /\ t # s \/ m # n => rec'[t][m] = rec[t][m] /\ own'[t][m] = own[t][m]
  BY <1>1 DEF IInv, TypeOK
<1>7. \A y \in Subs : sub'[y] = IF own[s][n] /\ y = rec[s][n] THEN "released" ELSE sub[y]
  BY <1>1 DEF Released, Owned
<1>8. OwnersSound'
  <2> USE SubjectAssumption
  <2>1. \A y \in App : sub'[y] = "app"
    BY <1>2, <1>7 DEF IInv, OwnersSound, Owned, Subs
  <2>2. ASSUME NEW t \in AllScopes, NEW m \in Names
        PROVE  /\ own'[t][m] => rec'[t][m] \in Made /\ sub'[rec'[t][m]] = "live"
               /\ rec'[t][m] \in Subs =>
                    sub'[rec'[t][m]] \in {"live", "app"} /\ sst'[t] \notin {"unused", "freed"}
    <3>1. CASE t = s /\ m = n
      BY <3>1, <1>6
    <3>2. CASE t # s \/ m # n
      <4>1. rec'[t][m] = rec[t][m] /\ (own'[t][m] <=> own[t][m])
        BY <3>2, <1>6
      <4>2. own[s][n] => rec[t][m] # rec[s][n]
        BY <3>2 DEF IInv, OwnersSound
      <4>3. /\ own[t][m] => rec[t][m] \in Made /\ sub[rec[t][m]] = "live"
            /\ rec[t][m] \in Subs =>
                 sub[rec[t][m]] \in {"live", "app"} /\ sst[t] \notin {"unused", "freed"}
        BY DEF IInv, OwnersSound, Usable
      <4> QED BY <1>1, <1>7, <4>1, <4>2, <4>3 DEF Subs
    <3> QED BY <3>1, <3>2
  <2>3. \A t, u \in AllScopes, m, k \in Names :
          own'[t][m] /\ rec'[u][k] = rec'[t][m] => u = t /\ k = m
    BY <1>6, <2>2 DEF IInv, OwnersSound, Subs
  <2>4. ASSUME NEW y \in Made, sub'[y] = "live"
        PROVE  \E t \in AllScopes, m \in Names : own'[t][m] /\ rec'[t][m] = y
    <3>1. sub[y] = "live" /\ ~(own[s][n] /\ y = rec[s][n])
      BY <2>4, <1>7 DEF Subs
    <3>2. PICK t \in AllScopes, m \in Names : own[t][m] /\ rec[t][m] = y
      BY <3>1 DEF IInv, OwnersSound
    <3>3. own'[t][m] /\ rec'[t][m] = y
      BY <3>1, <3>2, <1>6
    <3> QED BY <3>3
  <2> QED BY <2>1, <2>2, <2>3, <2>4 DEF OwnersSound, Usable
<1>9. Withdrawal({}, X, {})
  <2>1. "inputs" \notin Env =>
          /\ \A d \in Made : expr[d].reads \cap X = {}
          /\ \A w \in Widgets : cond[w] \cap X = {}
    BY <1>1, <1>3, UnreadFacts DEF IInv
  <2>2. \A t \in AllScopes, m \in Names :
          own'[t][m] => own[t][m] /\ rec'[t][m] = rec[t][m]
    BY <1>6
  <2>3. /\ \A y \in Subs \ X : sub'[y] = sub[y]
        /\ \A y \in X : sub'[y] = "released"
    BY <1>1, <1>3 DEF Released
  <2> QED BY <1>1, <1>3, <1>4, <2>1, <2>2, <2>3 DEF Withdrawal, IInv, TypeOK
<1>10. ScopesStand' /\ DeinitQuiet'
  BY <1>1, StandsStill DEF DeinitQuiet
<1> QED BY <1>5, <1>8, <1>9, <1>10, WithdrawKeeps DEF IInv

\* What component_scope_free() needs: in lv_xml_component_deinit() every scope but
\* "globals" is drained from the list before it, and before that no instance holds
\* the scope.
Freeable(s) ==
  /\ sst[s] \in {"live", "pending"}
  /\ \/ phase = "up" /\ s # Globals /\ ~HasInstances(s)
     \/ phase = "draining" /\ (s = Globals => \A t \in Scopes : sst[t] # "live")

\* component_scope_free(): whatever reads what the scope owns goes with it.
LEMMA FreeStep ==
  ASSUME IInv, NEW s \in AllScopes, Freeable(s), Free(s), phase' = phase
  PROVE  IInv'
<1> DEFINE X == UNION {Owned(s, n) : n \in Names}
           D == {d \in Made : expr[d].scope = s}
<1> USE SubjectAssumption
<1>1. /\ sst' = [sst EXCEPT ![s] = "freed"]
      /\ rec' = [rec EXCEPT ![s] = Empty]
      /\ own' = [own EXCEPT ![s] = [n \in Names |-> FALSE]]
      /\ sub' = Released(X) /\ expr' = Dropped(D) /\ obs' = Detached(D, X)
      /\ UNCHANGED <<phase, inst, cond>>
  BY DEF Free
<1>2. \A y : y \in X <=> \E n \in Names : own[s][n] /\ y = rec[s][n]
  BY DEF Owned
<1>3. X \in SUBSET Made /\ X \in SUBSET Subs /\ D \in SUBSET Made
  BY <1>2 DEF IInv, OwnersSound, Subs
<1> HIDE DEF X, D
<1>4. expr' \in [Made -> ExprRecord] /\ obs' \in [Subs -> SUBSET Readers]
  BY <1>1, <1>3, WithdrawTyped DEF IInv
<1>5. TypeOK'
  BY <1>1, <1>4 DEF IInv, TypeOK, Released, Empty
<1>6. \A t \in AllScopes, m \in Names :
        /\ t = s => rec'[t][m] = NoSub /\ ~own'[t][m]
        /\ t # s => rec'[t][m] = rec[t][m] /\ own'[t][m] = own[t][m] /\ sst'[t] = sst[t]
  BY <1>1 DEF IInv, TypeOK, Empty
<1>7. /\ \A y \in Subs \ X : sub'[y] = sub[y]
      /\ \A y \in X : sub'[y] = "released"
  BY <1>1, <1>3 DEF Released
<1>8. OwnersSound'
  <2>1. \A y \in App : sub'[y] = "app"
    BY <1>3, <1>7 DEF IInv, OwnersSound, Subs
  <2>2. ASSUME NEW t \in AllScopes, NEW m \in Names
        PROVE  /\ own'[t][m] => rec'[t][m] \in Made /\ sub'[rec'[t][m]] = "live"
               /\ rec'[t][m] \in Subs =>
                    sub'[rec'[t][m]] \in {"live", "app"} /\ sst'[t] \notin {"unused", "freed"}
    <3>1. CASE t = s
      BY <3>1, <1>6 DEF Subs
    <3>2. CASE t # s
      <4>1. rec'[t][m] = rec[t][m] /\ (own'[t][m] <=> own[t][m]) /\ sst'[t] = sst[t]
        BY <3>2, <1>6
      <4>2. rec[t][m] \notin X
        BY <3>2, <1>2 DEF IInv, OwnersSound
      <4>3. /\ own[t][m] => rec[t][m] \in Made /\ sub[rec[t][m]] = "live"
            /\ rec[t][m] \in Subs =>
                 sub[rec[t][m]] \in {"live", "app"} /\ sst[t] \notin {"unused", "freed"}
        BY DEF IInv, OwnersSound, Usable
      <4> QED BY <1>7, <4>1, <4>2, <4>3 DEF Subs
    <3> QED BY <3>1, <3>2
  <2>3. \A t, u \in AllScopes, m, k \in Names :
          own'[t][m] /\ rec'[u][k] = rec'[t][m] => u = t /\ k = m
    BY <1>6, <2>2 DEF IInv, OwnersSound, Subs
  <2>4. ASSUME NEW y \in Made, sub'[y] = "live"
        PROVE  \E t \in AllScopes, m \in Names : own'[t][m] /\ rec'[t][m] = y
    <3>1. sub[y] = "live" /\ y \notin X
      BY <2>4, <1>7 DEF Subs
    <3>2. PICK t \in AllScopes, m \in Names : own[t][m] /\ rec[t][m] = y
      BY <3>1 DEF IInv, OwnersSound
    <3>3. own'[t][m] /\ rec'[t][m] = y
      BY <3>1, <3>2, <1>2, <1>6
    <3> QED BY <3>3
  <2> QED BY <2>1, <2>2, <2>3, <2>4 DEF OwnersSound, Usable
<1>9. Withdrawal(D, X, {})
  <2>1. ASSUME NEW d \in Made, d \notin D, {"inputs", "held"} \cap Env = {},
               expr[d].scope # NoScope, phase = "up" \/ sst[expr[d].scope] # "lost"
        PROVE  expr[d].reads \cap X = {}
    <3> SUFFICES ASSUME NEW n \in Names, own[s][n], rec[s][n] \in expr[d].reads
                 PROVE  FALSE
      BY <1>2
    <3>1. s \in {Globals, expr[d].scope}
      BY DEF IInv, ReadsLocal, Reads, Home, Readers
    <3>2. s = Globals /\ expr[d].scope # s
      BY <2>1, <3>1 DEF D
    <3>3. phase = "draining" /\ \A t \in Scopes : sst[t] # "live"
      BY <3>2 DEF Freeable
    <3>4. expr[d].scope \in Scopes
      BY <2>1, <3>2 DEF IInv, TypeOK, ExprRecord, AllScopes
    <3>5. sst[expr[d].scope] \notin {"unused", "freed", "parsing", "live", "lost"}
      BY <2>1, <3>3, <3>4 DEF IInv, FeedsSound, ScopesStand, Parsing
    <3>6. sst[expr[d].scope] = "pending"
      BY <3>4, <3>5 DEF IInv, TypeOK, AllScopes
    <3> QED BY <2>1, <3>2, <3>3, <3>6 DEF IInv, DeinitQuiet
  <2>2. ASSUME {"inputs", "instances"} \cap Env = {}, NEW w \in Widgets
        PROVE  cond[w] \cap X = {}
    <3> SUFFICES ASSUME NEW n \in Names, own[s][n], rec[s][n] \in cond[w]
                 PROVE  FALSE
      BY <1>2
    <3>1. inst[w] # NoScope
      BY DEF IInv, ReadersSound
    <3>2. phase = "up" /\ s # Globals /\ ~HasInstances(s)
      BY <2>2, <3>1 DEF Freeable, IInv, DeinitQuiet
    <3>3. s \in {Globals, inst[w]}
      BY DEF IInv, ReadsLocal, Reads, Home, Readers
    <3> QED BY <3>2, <3>3 DEF HasInstances
  <2>3. \A t \in AllScopes, m \in Names :
          own'[t][m] => own[t][m] /\ rec'[t][m] = rec[t][m]
    BY <1>6
  <2>4. \A d \in Made \ D : expr[d].scope # NoScope =>
          sst'[expr[d].scope] = sst[expr[d].scope]
    BY <1>1 DEF D, IInv, TypeOK
  <2>5. \A d \in (X \cap Made) \ D : expr[d].scope = NoScope
    BY <1>2 DEF D, IInv, FeedsSound
  <2> QED BY <1>1, <1>3, <1>4, <1>7, <2>1, <2>2, <2>3, <2>4, <2>5 DEF Withdrawal
<1>10. ScopesStand'
  BY <1>1, <1>6 DEF IInv, TypeOK, ScopesStand, Parsing, Freeable, HasInstances, AllScopes
<1>11. DeinitQuiet'
  <2>1. ASSUME NEW d \in Made, expr'[d].scope # NoScope
        PROVE  expr'[d] = expr[d] /\ expr[d].scope # s
    BY <1>1, <2>1 DEF Dropped, NoRecord, D
  <2>2. ASSUME phase # "up", "held" \notin Env, NEW d \in Made, NEW n \in Names,
               expr'[d].scope # NoScope, sst'[expr'[d].scope] = "pending",
               own'[Globals][n]
        PROVE  rec'[Globals][n] \notin expr'[d].reads
    <3>1. expr'[d] = expr[d] /\ sst[expr[d].scope] = "pending"
      BY <2>1, <2>2, <1>1 DEF IInv, TypeOK
    <3>2. own[Globals][n] /\ rec'[Globals][n] = rec[Globals][n]
      BY <2>2, <1>6 DEF AllScopes
    <3> QED BY <2>2, <3>1, <3>2 DEF IInv, DeinitQuiet
  <2> QED BY <1>1, <2>2 DEF IInv, DeinitQuiet
<1> QED BY <1>5, <1>8, <1>9, <1>10, <1>11, WithdrawKeeps DEF IInv
-----------------------------------------------------------------------------
(* The other steps.                                                        *)

\* A scope that was not freed before and is not freed now changes its state while
\* the system is up: nothing that is known of subjects depends on it.
LEMMA ScopeMoves ==
  ASSUME IInv, NEW s \in Scopes, phase = "up",
         NEW v \in {"parsing", "live", "pending", "lost"}, sst' = [sst EXCEPT ![s] = v],
         \A w \in Widgets : inst[w] = s => v = "pending",
         UNCHANGED <<phase, rec, own, sub, expr, obs, inst, cond>>
  PROVE  IInv'
<1> USE SubjectAssumption DEF AllScopes
<1>1. TypeOK'
  BY DEF IInv, TypeOK
<1>2. \A t \in AllScopes : sst'[t] = IF t = s THEN v ELSE sst[t]
  BY DEF IInv, TypeOK
<1>3. ScopesStand'
  BY <1>2 DEF IInv, TypeOK, ScopesStand
<1>4. OwnersSound'
  BY <1>2 DEF IInv, OwnersSound, Usable
<1>5. FeedsSound'
  <2>1. \A d \in Made : expr[d].scope # NoScope => expr[d].scope \in AllScopes
    BY DEF IInv, TypeOK, ExprRecord
  <2> QED BY <1>2, <2>1 DEF IInv, FeedsSound, Usable
<1>6. ReadersSound' /\ ReadsLocal'
  BY DEF IInv, ReadersSound, ReadsLocal, Reads, Home
<1>7. InputsKept' /\ DeinitQuiet'
  BY DEF IInv, InputsKept, DeinitQuiet, Usable
<1> QED BY <1>1, <1>3, <1>4, <1>5, <1>6, <1>7 DEF IInv

\* lv_xml_register_component_from_data() begins and ends.
LEMMA ParseSteps ==
  ASSUME IInv, NEW s \in Scopes, ParseBegin(s) \/ ParseEnd(s)
  PROVE  IInv'
<1>1. phase = "up" /\ \A w \in Widgets : inst[w] # s
  BY SubjectAssumption
     DEF ParseBegin, ParseEnd, AppRuns, IInv, ScopesStand, Parsing, AllScopes
<1>2. CASE ParseBegin(s)
  BY <1>1, <1>2, ScopeMoves DEF ParseBegin
<1>3. CASE ParseEnd(s)
  BY <1>1, <1>3, ScopeMoves DEF ParseEnd
<1> QED BY <1>2, <1>3

\* component_scope_retire() and scope_free_async_cb().
LEMMA RetireSteps ==
  ASSUME IInv, NEW s \in Scopes, Retire(s) \/ FreeAsync(s)
  PROVE  IInv'
<1> USE SubjectAssumption
<1>1. s \in AllScopes /\ s # Globals /\ phase = "up" /\ phase' = phase
  BY DEF AllScopes, Retire, FreeAsync, AppRuns
<1>2. CASE sst[s] \in {"live", "pending"} /\ ~HasInstances(s) /\ Free(s)
  BY <1>1, <1>2, FreeStep DEF Freeable
<1>3. CASE /\ sst' = [sst EXCEPT ![s] = "pending"]
           /\ UNCHANGED <<rec, own, sub, expr, obs, inst, cond>>
  BY <1>1, <1>3, ScopeMoves
<1> QED BY <1>2, <1>3 DEF Retire, FreeAsync

\* lv_xml_component_deinit() frees the next scope.
LEMMA DrainStep ==
  ASSUME IInv, NEW s \in AllScopes, Drain(s)
  PROVE  IInv'
<1>1. Freeable(s) /\ Free(s) /\ phase' = phase
  BY DEF Drain, Freeable, AllScopes
<1> QED BY <1>1, FreeStep

\* lv_xml_deinit() begins and ends.
LEMMA DeinitSteps ==
  ASSUME IInv, DeinitBegin \/ DeinitEnd
  PROVE  IInv'
<1>1. UNCHANGED <<sst, rec, own, sub, expr, obs, inst, cond>>
  BY DEF DeinitBegin, DeinitEnd
<1>2. /\ phase' \in {"draining", "down"}
      /\ phase = "up" => ~Parsing
  BY DEF DeinitBegin, DeinitEnd, AppRuns
<1>3. TypeOK'
  BY <1>1, <1>2 DEF IInv, TypeOK
<1>4. ScopesStand'
  BY <1>1, <1>2 DEF IInv, ScopesStand, Parsing
<1>5. OwnersSound' /\ FeedsSound'
  BY <1>1 DEF IInv, OwnersSound, FeedsSound, Usable
<1>6. ReadersSound' /\ ReadsLocal'
  BY <1>1 DEF IInv, ReadersSound, ReadsLocal, Reads, Home
<1>7. InputsKept'
  BY <1>1, <1>2 DEF IInv, InputsKept, Usable, LeftBehind
<1>8. DeinitQuiet'
  <2>1. CASE DeinitBegin
    <3>1. "held" \notin Env => \A d \in Made, n \in Names :
            expr[d].scope # NoScope /\ sst[expr[d].scope] = "pending" /\ own[Globals][n]
              => rec[Globals][n] \notin expr[d].reads
      BY <2>1 DEF DeinitBegin, Owned
    <3>2. "instances" \notin Env => \A w \in Widgets : inst[w] = NoScope
      BY <2>1 DEF DeinitBegin
    <3> QED BY <1>1, <3>1, <3>2 DEF DeinitQuiet
  <2>2. CASE DeinitEnd
    BY <1>1, <2>2 DEF DeinitEnd, IInv, DeinitQuiet
  <2> QED BY <2>1, <2>2
<1> QED BY <1>3, <1>4, <1>5, <1>6, <1>7, <1>8 DEF IInv

\* An instance appears: its condition reads what its component resolves.
LEMMA CreateStep ==
  ASSUME IInv, NEW w \in Widgets, NEW s \in Scopes, NEW N \in SUBSET Names,
         Create(w, s, N)
  PROVE  IInv'
<1> USE SubjectAssumption
<1> DEFINE I == Resolved(s, N)
<1>1. /\ phase = "up" /\ sst[s] = "live" /\ NoSub \notin I
      /\ inst' = [inst EXCEPT ![w] = s] /\ cond' = [cond EXCEPT ![w] = I]
      /\ obs' = [x \in Subs |-> IF x \in I THEN obs[x] \cup {w} ELSE obs[x]]
      /\ UNCHANGED <<phase, sst, rec, own, sub, expr>>
  BY DEF Create, AppRuns
<1>2. /\ I \in SUBSET Subs /\ \A y \in I : Usable(y)
      /\ \A y \in I, t \in AllScopes, m \in Names :
           own[t][m] /\ rec[t][m] = y => t \in {Globals, s}
  BY <1>1, ResolvedFacts DEF AllScopes
<1> HIDE DEF I
<1>3. TypeOK'
  BY <1>1, <1>2 DEF IInv, TypeOK, Readers
<1>4. /\ inst'[w] = s /\ cond'[w] = I
      /\ \A v \in Widgets \ {w} : inst'[v] = inst[v] /\ cond'[v] = cond[v]
  BY <1>1 DEF IInv, TypeOK
<1>5. \A x \in Subs : obs'[x] \ {w} = obs[x] \ {w} /\ (w \in obs'[x] => x \in I \/ w \in obs[x])
  BY <1>1
<1>6. ScopesStand'
  BY <1>1, <1>4 DEF IInv, ScopesStand, Parsing
<1>7. OwnersSound' /\ FeedsSound'
  BY <1>1 DEF IInv, OwnersSound, FeedsSound, Usable
<1>8. ReadersSound'
  <2>1. \A x \in Subs : \A d \in obs'[x] \cap Made : x \in expr'[d].kept
    BY <1>1, <1>5 DEF IInv, ReadersSound
  <2>2. \A x \in Subs : \A v \in obs'[x] \cap Widgets : x \in cond'[v]
    <3>1. cond[w] = {}
      BY DEF Create, IInv, ReadersSound
    <3> QED BY <1>4, <1>5, <3>1 DEF IInv, ReadersSound
  <2>3. \A v \in Widgets : inst'[v] = NoScope => cond'[v] = {}
    BY <1>4 DEF IInv, ReadersSound, AllScopes
  <2>4. \A r \in Readers : \A y \in Reads(r)' : sub'[y] # "unused"
    BY <1>1, <1>2, <1>4 DEF IInv, ReadersSound, Reads, Readers, Usable
  <2> QED BY <2>1, <2>2, <2>3, <2>4 DEF ReadersSound
<1>9. ReadsLocal'
  <2> SUFFICES ASSUME NEW t \in AllScopes, NEW m \in Names, NEW r \in Readers,
                      own'[t][m], rec'[t][m] \in Reads(r)'
               PROVE  t \in {Globals, Home(r)'}
    BY DEF ReadsLocal
  <2>1. CASE r = w
    BY <1>1, <1>2, <1>4, <2>1 DEF Reads, Home
  <2>2. CASE r # w
    <3>1. Reads(r)' = Reads(r) /\ Home(r)' = Home(r)
      BY <1>1, <1>4, <2>2 DEF Reads, Home, Readers
    <3> QED BY <1>1, <3>1 DEF IInv, ReadsLocal
  <2> QED BY <2>1, <2>2
<1>10. InputsKept'
  <2>1. ASSUME {"inputs", "held"} \cap Env = {}, NEW d \in Made
        PROVE  /\ \A y \in expr'[d].reads : sub'[y] \in {"live", "app"}
               /\ \A y \in expr'[d].kept : d \in obs'[y]
    <3>1. /\ \A y \in expr[d].reads : Usable(y)
          /\ \A y \in expr[d].kept : d \in obs[y]
      BY <1>1, <2>1 DEF IInv, InputsKept
    <3>2. expr[d].kept \subseteq Subs
      BY DEF IInv, TypeOK, ExprRecord
    <3>3. d # w
      OBVIOUS
    <3> QED BY <1>1, <1>5, <3>1, <3>2, <3>3 DEF Usable
  <2>2. ASSUME {"inputs", "instances"} \cap Env = {}, NEW v \in Widgets
        PROVE  \A y \in cond'[v] : sub'[y] \in {"live", "app"}
    BY <1>1, <1>2, <1>4, <2>2 DEF IInv, InputsKept, Usable
  <2> QED BY <2>1, <2>2 DEF InputsKept, Usable
<1>11. DeinitQuiet'
  BY <1>1 DEF DeinitQuiet
<1> QED BY <1>3, <1>6, <1>7, <1>8, <1>9, <1>10, <1>11 DEF IInv

\* An instance goes, and its observers with it.
LEMMA DeleteStep ==
  ASSUME IInv, NEW w \in Widgets, Delete(w)
  PROVE  IInv'
<1> USE SubjectAssumption
<1>1. /\ inst' = [inst EXCEPT ![w] = NoScope] /\ cond' = [cond EXCEPT ![w] = {}]
      /\ obs' = [x \in Subs |-> obs[x] \ {w}]
      /\ UNCHANGED <<phase, sst, rec, own, sub, expr>>
  BY DEF Delete
<1>2. TypeOK'
  BY <1>1 DEF IInv, TypeOK
<1>3. /\ inst'[w] = NoScope /\ cond'[w] = {}
      /\ \A v \in Widgets \ {w} : inst'[v] = inst[v] /\ cond'[v] = cond[v]
  BY <1>1 DEF IInv, TypeOK
<1>4. ScopesStand'
  BY <1>1, <1>3 DEF IInv, ScopesStand, Parsing
<1>5. OwnersSound' /\ FeedsSound'
  BY <1>1 DEF IInv, OwnersSound, FeedsSound, Usable
<1>6. \A r \in Readers : Reads(r)' \subseteq Reads(r) /\ (Reads(r)' # {} => Home(r)' = Home(r))
  BY <1>1, <1>3 DEF Reads, Home, Readers
<1>7. ReadersSound'
  <2>1. \A r \in Readers : \A y \in Reads(r)' : sub'[y] # "unused"
    BY <1>1, <1>6 DEF IInv, ReadersSound
  <2> QED BY <1>1, <1>3, <2>1 DEF IInv, ReadersSound
<1>8. ReadsLocal'
  BY <1>1, <1>6 DEF IInv, ReadsLocal
<1>9. InputsKept'
  <2>1. ASSUME {"inputs", "held"} \cap Env = {}, NEW d \in Made,
               phase' = "up" \/ ~LeftBehind(d)'
        PROVE  /\ \A y \in expr'[d].reads : sub'[y] \in {"live", "app"}
               /\ \A y \in expr'[d].kept : d \in obs'[y]
    <3>1. phase = "up" \/ ~LeftBehind(d)
      BY <1>1, <2>1 DEF LeftBehind
    <3>2. /\ \A y \in expr[d].reads : Usable(y)
          /\ \A y \in expr[d].kept : d \in obs[y]
      BY <2>1, <3>1 DEF IInv, InputsKept
    <3>3. expr[d].kept \subseteq Subs /\ d # w
      BY DEF IInv, TypeOK, ExprRecord
    <3> QED BY <1>1, <3>2, <3>3 DEF Usable
  <2>2. ASSUME {"inputs", "instances"} \cap Env = {}, NEW v \in Widgets
        PROVE  \A y \in cond'[v] : sub'[y] \in {"live", "app"}
    BY <1>1, <1>3, <2>2 DEF IInv, InputsKept, Usable
  <2> QED BY <2>1, <2>2 DEF InputsKept, Usable
<1>10. DeinitQuiet'
  BY <1>1, <1>3 DEF IInv, DeinitQuiet
<1> QED BY <1>2, <1>4, <1>5, <1>7, <1>8, <1>9, <1>10 DEF IInv
-----------------------------------------------------------------------------
\* A stuttering step changes nothing the invariant reads.
LEMMA StutterStep == IInv /\ UNCHANGED vars => IInv'
BY DEF vars, IInv, TypeOK, ScopesStand, Parsing, OwnersSound, FeedsSound, Usable,
       ReadersSound, Reads, ReadsLocal, Home, InputsKept, LeftBehind, DeinitQuiet

\* Every step keeps the invariant.
LEMMA NextIInv == IInv /\ [Next]_vars => IInv'
<1> SUFFICES ASSUME IInv, [Next]_vars PROVE IInv'
  OBVIOUS
<1>1. CASE UNCHANGED vars
  BY <1>1, StutterStep
<1>2. ASSUME NEW s \in AllScopes, NEW n \in Names, NEW x \in Made,
             Subject(s, n, x) \/ \E N \in SUBSET Names : SubjectExpr(s, n, x, N)
      PROVE  IInv'
  BY <1>2, SubjectStep, SubjectExprStep
<1>3. ASSUME NEW s \in Scopes, ParseBegin(s) \/ ParseEnd(s) \/ Retire(s) \/ FreeAsync(s)
      PROVE  IInv'
  BY <1>3, ParseSteps, RetireSteps
<1>4. ASSUME NEW s \in AllScopes, NEW n \in Names,
             AppUnregister(s, n) \/ \E x \in Subs : AppRegister(s, n, x)
      PROVE  IInv'
  BY <1>4, AppUnregisterStep, AppRegisterStep
<1>5. ASSUME NEW w \in Widgets, NEW s \in Scopes, NEW N \in SUBSET Names, Create(w, s, N)
      PROVE  IInv'
  BY <1>5, CreateStep
<1>6. ASSUME NEW w \in Widgets, Delete(w)
      PROVE  IInv'
  BY <1>6, DeleteStep
<1>7. ASSUME NEW s \in AllScopes, Drain(s)
      PROVE  IInv'
  BY <1>7, DrainStep
<1>8. CASE DeinitBegin \/ DeinitEnd
  BY <1>8, DeinitSteps
<1> QED BY <1>1, <1>2, <1>3, <1>4, <1>5, <1>6, <1>7, <1>8 DEF Next

\* The invariant holds throughout.
LEMMA AlwaysIInv == Spec => []IInv
BY InitIInv, NextIInv, PTL DEF Spec

\* Every variable keeps its type, whatever the application does.
THEOREM SubjectTypeCorrect == Spec => []TypeOK
<1>1. IInv => TypeOK
  BY DEF IInv
<1> QED BY <1>1, AlwaysIInv, PTL

\* While nobody unregisters a <subject_expr> by its name, a subject that can be set
\* writes into no released one: not after its inputs were released by name, nor
\* when the scopes are drained in whatever order with widgets about, nor after the
\* XML broke off or memory ran out.
THEOREM TargetsAlwaysAlive ==
  ASSUME "derived" \notin Env PROVE Spec => []TargetsAlive
<1>1. IInv => TargetsAlive
  BY DEF IInv, TypeOK, ReadersSound, FeedsSound, TargetsAlive
<1> QED BY <1>1, AlwaysIInv, PTL

\* While no input is released by name and lv_xml_deinit() meets neither widgets nor
\* a retired scope that reads subjects of "globals", whatever a subject that can
\* be set evaluates reads no released subject.
THEOREM ReadsAlwaysAlive ==
  ASSUME {"inputs", "held", "instances"} \cap Env = {} PROVE Spec => []ReadsAlive
<1>1. ASSUME IInv, NEW x \in Subs, NEW r \in obs[x], Usable(x),
             phase = "up" \/ ~LeftBehind(r)
      PROVE  \A y \in Reads(r) : Usable(y)
  <2>1. CASE r \in Made
    BY <1>1, <2>1 DEF IInv, InputsKept, Reads
  <2>2. CASE r \in Widgets
    BY <1>1, <2>2, SubjectAssumption DEF IInv, InputsKept, Reads
  <2> QED BY <1>1, <2>1, <2>2 DEF IInv, TypeOK, Readers
<1>2. IInv => ReadsAlive
  BY <1>1 DEF ReadsAlive
<1> QED BY <1>2, AlwaysIInv, PTL

\* Under the first two of these conditions the handles a <subject_expr> retains are
\* exactly those of its attached observers, widgets about or not.
THEOREM HandlesAlwaysAttached ==
  ASSUME {"inputs", "held"} \cap Env = {} PROVE Spec => []HandlesAttached
<1>1. ASSUME IInv, NEW d \in Made, phase = "up" \/ ~LeftBehind(d), NEW x \in Subs
      PROVE  d \in obs[x] <=> x \in expr[d].kept
  BY <1>1 DEF IInv, ReadersSound, InputsKept
<1>2. IInv => HandlesAttached
  BY <1>1 DEF HandlesAttached
<1> QED BY <1>2, AlwaysIInv, PTL

\* What is known of owners says that nothing is leaked and nothing freed twice.
LEMMA OwnersOnce == IInv => OwnedOnce
<1> SUFFICES ASSUME IInv, NEW x \in Made
             PROVE  /\ sub[x] = "live" => \E s \in AllScopes, n \in Names :
                         /\ rec[s][n] = x /\ own[s][n] /\ sst[s] # "freed"
                         /\ \A t \in AllScopes, m \in Names :
                              rec[t][m] = x => <<t, m>> = <<s, n>>
                    /\ \A s \in AllScopes, n \in Names : rec[s][n] = x => Usable(x)
  BY DEF OwnedOnce
<1>1. ASSUME sub[x] = "live"
      PROVE  \E s \in AllScopes, n \in Names :
               /\ rec[s][n] = x /\ own[s][n] /\ sst[s] # "freed"
               /\ \A t \in AllScopes, m \in Names :
                    rec[t][m] = x => <<t, m>> = <<s, n>>
  <2>1. PICK s \in AllScopes, n \in Names : own[s][n] /\ rec[s][n] = x
    BY <1>1 DEF IInv, OwnersSound
  <2>2. sst[s] # "freed"
    BY <2>1 DEF IInv, OwnersSound, Subs
  <2>3. \A t \in AllScopes, m \in Names : rec[t][m] = x => t = s /\ m = n
    BY <2>1 DEF IInv, OwnersSound
  <2> QED BY <2>1, <2>2, <2>3
<1>2. \A s \in AllScopes, n \in Names : rec[s][n] = x => Usable(x)
  BY DEF IInv, OwnersSound, Subs
<1> QED BY <1>1, <1>2

\* No step takes what the application lent, nor a widget off it that stays.
LEMMA BorrowedStep == IInv /\ [Next]_vars => BorrowedIntact \/ UNCHANGED vars
<1> SUFFICES ASSUME IInv, Next, NEW x \in Subs, sub[x] = "app"
             PROVE  /\ sub'[x] = "app"
                    /\ \A r \in obs[x] \ obs'[x] : r \in Widgets => inst'[r] = NoScope
  BY DEF BorrowedIntact
<1> USE SubjectAssumption
<1>1. ASSUME NEW D \in SUBSET Made, NEW X, x \notin X,
             \A r \in Readers \ Made : r \in Detached(D, X)[x] => r \in obs'[x]
      PROVE  \A r \in obs[x] \ obs'[x] : r \in Widgets => inst'[r] = NoScope
  BY <1>1 DEF Detached, IInv, TypeOK, Readers
<1>2. \A s \in AllScopes, n \in Names : x \notin Owned(s, n)
  BY DEF Owned, IInv, OwnersSound
<1>3. \A s, X : Feeding(s, X) \in SUBSET Made
  BY DEF Feeding
<1>4. ASSUME NEW s \in AllScopes, NEW n \in Names, NEW z \in Made,
             Subject(s, n, z) \/ \E N \in SUBSET Names : SubjectExpr(s, n, z, N)
      PROVE  /\ sub'[x] = "app"
             /\ \A r \in obs[x] \ obs'[x] : r \in Widgets => inst'[r] = NoScope
  <2> DEFINE X == Owned(s, n) \ {z}
             D == Feeding(s, X)
  <2>1. /\ RegisterSubject(s, n, z, TRUE) /\ sub[z] = "unused"
        /\ \A r \in Readers \ Made : r \in Detached(D, X)[x] => r \in obs'[x]
    BY <1>4, ZenonT(40) DEF Subject, SubjectExpr
  <2>2. sub'[x] = "app"
    BY <2>1, <1>2 DEF RegisterSubject, Released, IInv, TypeOK
  <2> HIDE DEF D
  <2>3. x \notin X /\ D \in SUBSET Made
    BY <1>2, <1>3 DEF D
  <2> HIDE DEF X
  <2> QED BY <1>1, <2>1, <2>2, <2>3
<1>5. ASSUME NEW s \in AllScopes, NEW n \in Names, NEW z \in Subs, AppRegister(s, n, z)
      PROVE  /\ sub'[x] = "app"
             /\ \A r \in obs[x] \ obs'[x] : r \in Widgets => inst'[r] = NoScope
  <2> DEFINE X == Owned(s, n) \ {z}
             D == Feeding(s, X)
  <2>1. RegisterSubject(s, n, z, FALSE) /\ obs' = Detached(D, X)
    BY <1>5 DEF AppRegister
  <2>2. sub'[x] = "app"
    BY <2>1, <1>2 DEF RegisterSubject, Released, IInv, TypeOK
  <2> HIDE DEF D
  <2>3. x \notin X /\ D \in SUBSET Made
    BY <1>2, <1>3 DEF D
  <2> HIDE DEF X
  <2> QED BY <1>1, <2>1, <2>2, <2>3
<1>6. ASSUME NEW s \in AllScopes, NEW n \in Names, AppUnregister(s, n)
      PROVE  /\ sub'[x] = "app"
             /\ \A r \in obs[x] \ obs'[x] : r \in Widgets => inst'[r] = NoScope
  <2>1. sub' = Released(Owned(s, n)) /\ obs' = Detached({}, Owned(s, n))
    BY <1>6 DEF AppUnregister
  <2>2. sub'[x] = "app"
    BY <2>1, <1>2 DEF Released
  <2> QED BY <1>1, <1>2, <2>1, <2>2
<1>7. ASSUME NEW s \in AllScopes, Free(s)
      PROVE  /\ sub'[x] = "app"
             /\ \A r \in obs[x] \ obs'[x] : r \in Widgets => inst'[r] = NoScope
  <2> DEFINE X == UNION {Owned(s, n) : n \in Names}
             D == {d \in Made : expr[d].scope = s}
  <2>1. sub' = Released(X) /\ obs' = Detached(D, X)
    BY <1>7 DEF Free
  <2>2. x \notin X /\ D \in SUBSET Made
    BY <1>2
  <2> HIDE DEF X, D
  <2>3. sub'[x] = "app"
    BY <2>1, <2>2 DEF Released
  <2> QED BY <1>1, <2>1, <2>2, <2>3
<1>8. ASSUME sub' = sub, obs' = obs
      PROVE  /\ sub'[x] = "app"
             /\ \A r \in obs[x] \ obs'[x] : r \in Widgets => inst'[r] = NoScope
  BY <1>8
<1>9. ASSUME NEW w \in Widgets, NEW s \in Scopes, NEW N \in SUBSET Names, Create(w, s, N)
      PROVE  /\ sub'[x] = "app"
             /\ \A r \in obs[x] \ obs'[x] : r \in Widgets => inst'[r] = NoScope
  BY <1>9 DEF Create
<1>10. ASSUME NEW w \in Widgets, Delete(w)
       PROVE  /\ sub'[x] = "app"
              /\ \A r \in obs[x] \ obs'[x] : r \in Widgets => inst'[r] = NoScope
  BY <1>10 DEF Delete, IInv, TypeOK
<1>11. ASSUME NEW s \in Scopes, ParseBegin(s) \/ ParseEnd(s) \/ Retire(s) \/ FreeAsync(s)
       PROVE  Free(s) \/ (sub' = sub /\ obs' = obs)
  BY <1>11 DEF ParseBegin, ParseEnd, Retire, FreeAsync
<1>12. ASSUME NEW s \in AllScopes, Drain(s)
       PROVE  Free(s)
  BY <1>12 DEF Drain
<1>13. DeinitBegin \/ DeinitEnd => sub' = sub /\ obs' = obs
  BY DEF DeinitBegin, DeinitEnd
<1>14. \A s \in Scopes : s \in AllScopes
  BY DEF AllScopes
<1> QED
  BY <1>4, <1>5, <1>6, <1>7, <1>8, <1>9, <1>10, <1>11, <1>12, <1>13, <1>14 DEF Next

\* Whatever the application does, what XML declared keeps its one owner until it
\* is released, and what the application lent is never taken from it.
THEOREM OwnershipAlwaysKept == Spec => OwnershipKept
<1>1. IInv' => OwnedOnce'
  BY OwnersOnce, PTL
<1>2. IInv /\ IInv' /\ [Next]_vars => [OwnedOnce' /\ BorrowedIntact]_vars
  BY <1>1, BorrowedStep
<1> QED BY <1>2, AlwaysIInv, PTL DEF Spec, OwnershipKept
=============================================================================
