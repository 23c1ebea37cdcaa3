---------------------------- MODULE TestbedProofs ----------------------------
(***************************************************************************)
(* The test runner on what a loader registered, and the name index: what   *)
(* MCTestbed runs together.  First the index, which answers as the walk of  *)
(* the list for any names, any hashes, any number of records and any first  *)
(* size of the table; then the loader and the runner, for any directories,  *)
(* tests and screens.                                                      *)
(***************************************************************************)
EXTENDS TestRunner, NameIndex, Iteration, SequenceTheorems

Hashing == hash \in [Names -> Hashes]

-----------------------------------------------------------------------------
(* Probing wraps around the end of the table.                              *)

LEMMA Remainder ==
  ASSUME NEW c \in Nat \ {0}, NEW q \in Int, NEW r \in 0 .. c - 1
  PROVE  (c * q + r) % c = r
<1> DEFINE x == c * q + r
<1>1. x \in Int /\ x = c * (x \div c) + (x % c) /\ x % c \in 0 .. c - 1 /\ x \div c \in Int
  OBVIOUS
<1> DEFINE d == q - x \div c
<1>2. c * d = (x % c) - r /\ d \in Int
  BY <1>1
<1>3. d >= 1 => c * d >= c
  BY <1>2
<1>4. d <= -1 => c * d <= -c
  BY <1>2
<1>5. d = 0
  BY <1>1, <1>2, <1>3, <1>4
<1> QED BY <1>1, <1>2, <1>5

\* k slots after the slot a, in a table of c slots.
Wrap(a, k, c) == IF a + k < c THEN a + k ELSE a + k - c

LEMMA Wrapped ==
  ASSUME NEW c \in Nat \ {0}, NEW h \in Nat
  PROVE  /\ h % c \in 0 .. c - 1
         /\ \A k \in 0 .. c : (h + k) % c = Wrap(h % c, k, c)
<1> SUFFICES ASSUME NEW k \in 0 .. c
             PROVE  h % c \in 0 .. c - 1 /\ (h + k) % c = Wrap(h % c, k, c)
  OBVIOUS
<1> DEFINE q == h \div c
           a == h % c
<1>1. h = c * q + a /\ a \in 0 .. c - 1 /\ q \in Int
  OBVIOUS
<1>2. CASE a + k < c
  <2>1. h + k = c * q + (a + k) /\ a + k \in 0 .. c - 1
    BY <1>1, <1>2
  <2> QED BY <1>1, <1>2, <2>1, Remainder DEF Wrap
<1>3. CASE a + k >= c
  <2>1. h + k = c * (q + 1) + (a + k - c) /\ a + k - c \in 0 .. c - 1 /\ q + 1 \in Int
    BY <1>1, <1>3
  <2>2. (c * (q + 1) + (a + k - c)) % c = a + k - c
    <3> HIDE DEF a, q
    <3> QED BY <2>1, Remainder
  <2> HIDE DEF a, q
  <2>3. (h + k) % c = a + k - c
    BY <2>1, <2>2
  <2>4. Wrap(a, k, c) = a + k - c
    BY <1>1, <1>3 DEF Wrap
  <2> QED BY <1>1, <2>3, <2>4 DEF a
<1> QED BY <1>1, <1>2, <1>3

\* The home of a name, and the slots of its probe run.
Bucket(n, c) == hash[n] % c

LEMMA Probes ==
  ASSUME NEW c \in Nat \ {0}, Hashing, NEW n \in Names
  PROVE  /\ Bucket(n, c) \in 0 .. c - 1
         /\ \A k \in 0 .. c : Probe(n, k, c) = Wrap(Bucket(n, c), k, c)
<1> DEFINE h == hash[n]
<1>1. h \in Nat
  BY IndexAssumption DEF Hashing
<1>2. h % c \in 0 .. c - 1 /\ \A k \in 0 .. c : (h + k) % c = Wrap(h % c, k, c)
  <2> HIDE DEF h
  <2> QED BY <1>1, Wrapped
<1> QED BY <1>2 DEF Bucket, Probe

\* The slots after a slot are those of a table once around.
LEMMA Hops ==
  ASSUME NEW c \in Nat \ {0}, NEW s \in 0 .. c - 1
  PROVE  \A k \in 0 .. c : (s + k) % c = Wrap(s, k, c)
<1>1. \A q \in Int : (c * q + s) % c = s
  BY Remainder
<1>2. 0 \in Int /\ c * 0 + s = s /\ s \in Nat
  OBVIOUS
<1>3. s % c = s
  BY <1>1, <1>2
<1> QED BY <1>2, <1>3, Wrapped

\* Each slot is a certain number of slots after a given one.
LEMMA Around ==
  ASSUME NEW c \in Nat \ {0}, NEW a \in 0 .. c - 1
  PROVE  /\ \A k \in 0 .. c - 1 : Wrap(a, k, c) \in 0 .. c - 1
         /\ Wrap(a, 0, c) = a
         /\ \A j, k \in 0 .. c - 1 : Wrap(a, j, c) = Wrap(a, k, c) => j = k
         /\ \A s \in 0 .. c - 1 : \E k \in 0 .. c - 1 : Wrap(a, k, c) = s
<1>1. \A s \in 0 .. c - 1 : \E k \in 0 .. c - 1 : Wrap(a, k, c) = s
  <2> SUFFICES ASSUME NEW s \in 0 .. c - 1
               PROVE  \E k \in 0 .. c - 1 : Wrap(a, k, c) = s
    OBVIOUS
  <2> DEFINE k == IF s >= a THEN s - a ELSE s - a + c
  <2>1. k \in 0 .. c - 1 /\ Wrap(a, k, c) = s
    BY DEF Wrap
  <2> QED BY <2>1
<1>2. \A k \in 0 .. c - 1 : Wrap(a, k, c) \in 0 .. c - 1
  BY DEF Wrap
<1>3. \A j, k \in 0 .. c - 1 : Wrap(a, j, c) = Wrap(a, k, c) => j = k
  BY DEF Wrap
<1>4. Wrap(a, 0, c) = a
  BY DEF Wrap
<1> QED BY <1>1, <1>2, <1>3, <1>4

\* The slots from the j-th after s to the e-th.
Between(s, j, e, c) == {Wrap(s, m, c) : m \in j .. e}

\* A probe run that passes the slot j after s, and ends neither there nor in the slots
\* up to the one e after s, passes that one.
LEMMA NoCross ==
  ASSUME NEW c \in Nat \ {0}, NEW a \in 0 .. c - 1, NEW s \in 0 .. c - 1,
         NEW k \in 0 .. c - 1, NEW i \in 0 .. k - 1, NEW j \in 0 .. c - 1, NEW e \in j .. c - 1,
         Wrap(a, i, c) = Wrap(s, j, c),
         Wrap(a, k, c) \notin Between(s, j, e, c)
  PROVE  \E b \in 0 .. k - 1 : Wrap(a, b, c) = Wrap(s, e, c)
<1> DEFINE b == i + (e - j)
<1>1. b >= k => j + (k - i) \in j .. e /\ Wrap(a, k, c) = Wrap(s, j + (k - i), c)
  BY DEF Wrap
<1>2. b < k
  BY <1>1 DEF Between
<1>3. b \in 0 .. k - 1 /\ Wrap(a, b, c) = Wrap(s, e, c)
  BY <1>2 DEF Wrap
<1> QED BY <1>3

-----------------------------------------------------------------------------
(* Searching                                                               *)

LEMMA FirstIs ==
  ASSUME NEW S \in SUBSET Nat, S # {}
  PROVE  First(S) \in S /\ \A j \in S : First(S) <= j
<1>1. \E i \in S : \A j \in S : i <= j
  BY Least
<1> QED BY <1>1 DEF First

LEMMA FirstAt ==
  ASSUME NEW S \in SUBSET Nat, NEW k \in S, \A j \in 0 .. k - 1 : j \notin S
  PROVE  First(S) = k
<1>1. First(S) \in S /\ First(S) <= k
  BY FirstIs
<1>2. First(S) \in Nat /\ k \in Nat
  BY <1>1
<1>3. First(S) \notin 0 .. k - 1
  BY <1>1
<1> QED BY <1>1, <1>2, <1>3

LEMMA RecordFacts ==
  /\ Null \notin Recs
  /\ \A r \in Recs : NameOf(r) \in Names
BY IndexAssumption DEF Recs, NameOf

LEMMA Probing ==
  ASSUME NEW c \in Nat \ {0}, Hashing, NEW n \in Names
  PROVE  /\ \A k \in 0 .. c - 1 : Probe(n, k, c) \in 0 .. c - 1
         /\ \A j, k \in 0 .. c - 1 : Probe(n, j, c) = Probe(n, k, c) => j = k
         /\ \A s \in 0 .. c - 1 : \E k \in 0 .. c - 1 : Probe(n, k, c) = s
<1>1. Bucket(n, c) \in 0 .. c - 1 /\ \A k \in 0 .. c - 1 : Probe(n, k, c) = Wrap(Bucket(n, c), k, c)
  BY Probes
<1> DEFINE a == Bucket(n, c)
<1> HIDE DEF a
<1>2. a \in 0 .. c - 1 /\ \A k \in 0 .. c - 1 : Probe(n, k, c) = Wrap(a, k, c)
  BY <1>1 DEF a
<1>3. /\ \A k \in 0 .. c - 1 : Wrap(a, k, c) \in 0 .. c - 1
      /\ \A j, k \in 0 .. c - 1 : Wrap(a, j, c) = Wrap(a, k, c) => j = k
      /\ \A s \in 0 .. c - 1 : \E k \in 0 .. c - 1 : Wrap(a, k, c) = s
  BY <1>2, Around
<1> QED BY <1>2, <1>3

LEMMA SlotFacts ==
  ASSUME NEW slots, NEW cap, NEW P, SoundBut(slots, cap, P)
  PROVE  /\ cap \in Nat \ {0} /\ DOMAIN slots = 0 .. cap - 1
         /\ \A s \in 0 .. cap - 1 : slots[s] = Null \/ slots[s] \in Recs
         /\ \A s \in 0 .. cap - 1 : slots[s] # Null => NameOf(slots[s]) \in Names
BY RecordFacts DEF SoundBut

\* What is in the table is found.
LEMMA FindsHeld ==
  ASSUME NEW t, Hashing, SoundBut(t.slots, t.cap, {}),
         NEW s \in 0 .. t.cap - 1, t.slots[s] # Null
  PROVE  Find(t, NameOf(t.slots[s])) = t.slots[s]
<1> DEFINE slots == t.slots
           cap   == t.cap
           n     == NameOf(slots[s])
<1>1. cap \in Nat \ {0} /\ n \in Names
  BY SlotFacts
<1>2. PICK k \in 0 .. cap - 1 : /\ Probe(n, k, cap) = s
                                /\ \A j \in 0 .. k - 1 : slots[Probe(n, j, cap)] # Null
  BY DEF SoundBut, Reached
<1>3. \A j \in 0 .. k - 1 : Probe(n, j, cap) \in 0 .. cap - 1 /\ Probe(n, j, cap) # s
  <2>1. \A j \in 0 .. k - 1 : j \in 0 .. cap - 1 /\ j # k
    BY <1>1
  <2> HIDE DEF n, cap
  <2> QED BY <1>1, <1>2, <2>1, Probing
<1>4. \A j \in 0 .. k - 1 : NameOf(slots[Probe(n, j, cap)]) # n
  BY <1>2, <1>3 DEF SoundBut
<1> DEFINE S == Stops(t, n)
<1>5. k \in S /\ \A j \in 0 .. k - 1 : j \notin S
  BY <1>2, <1>4 DEF Stops
<1>6. S \in SUBSET Nat
  BY <1>1 DEF Stops
<1>7. First(S) = k
  <2> HIDE DEF S
  <2> QED BY <1>5, <1>6, FirstAt
<1> QED BY <1>1, <1>2, <1>7 DEF Find

\* A search for what is not there ends at an empty slot.
LEMMA FindsNothing ==
  ASSUME NEW t, Hashing, SoundBut(t.slots, t.cap, {}), NEW n \in Names,
         NEW e \in 0 .. t.cap - 1, t.slots[e] = Null,
         \A s \in 0 .. t.cap - 1 : t.slots[s] # Null => NameOf(t.slots[s]) # n
  PROVE  Find(t, n) = Null
<1> DEFINE S == Stops(t, n)
<1>1. t.cap \in Nat \ {0}
  BY SlotFacts
<1>2. PICK k \in 0 .. t.cap - 1 : Probe(n, k, t.cap) = e
  BY <1>1, Probing
<1>3. k \in S /\ S \in SUBSET Nat
  BY <1>1, <1>2 DEF Stops
<1>4. First(S) \in S
  <2> HIDE DEF S
  <2> QED BY <1>3, FirstIs
<1>5. First(S) \in 0 .. t.cap - 1
        /\ (t.slots[Probe(n, First(S), t.cap)] = Null
              \/ NameOf(t.slots[Probe(n, First(S), t.cap)]) = n)
  BY <1>4 DEF Stops
<1>6. Probe(n, First(S), t.cap) \in 0 .. t.cap - 1
  BY <1>1, <1>5, Probing
<1> QED BY <1>1, <1>5, <1>6 DEF Find

-----------------------------------------------------------------------------
(* Placing                                                                 *)

\* A slot gets a record, or is emptied.
With(slots, at, x) == [slots EXCEPT ![at] = x]

\* Where a record is placed.
Spot(slots, cap, n) == Probe(n, First(Empty(slots, cap, n)), cap)

LEMMA SpotFacts ==
  ASSUME NEW slots, NEW cap \in Nat \ {0}, Hashing, NEW n \in Names,
         NEW e \in 0 .. cap - 1, slots[e] = Null
  PROVE  /\ Spot(slots, cap, n) \in 0 .. cap - 1 /\ slots[Spot(slots, cap, n)] = Null
         /\ \E k \in 0 .. cap - 1 :
              /\ Spot(slots, cap, n) = Probe(n, k, cap)
              /\ \A j \in 0 .. k - 1 : slots[Probe(n, j, cap)] # Null
<1> DEFINE S == Empty(slots, cap, n)
           k == First(S)
<1>1. PICK i \in 0 .. cap - 1 : Probe(n, i, cap) = e
  BY Probing
<1>2. i \in S /\ S \in SUBSET Nat
  BY <1>1 DEF Empty
<1>3. k \in S /\ \A j \in S : k <= j
  <2> HIDE DEF S
  <2> QED BY <1>2, FirstIs
<1>4. k \in 0 .. cap - 1 /\ slots[Probe(n, k, cap)] = Null
  BY <1>3 DEF Empty
<1>5. \A j \in 0 .. k - 1 : slots[Probe(n, j, cap)] # Null
  <2>1. \A j \in 0 .. k - 1 : j \in 0 .. cap - 1 /\ ~(k <= j)
    <3> HIDE DEF k
    <3> QED BY <1>4
  <2>2. \A j \in 0 .. k - 1 : j \notin S
    BY <1>3, <2>1
  <2> QED BY <2>1, <2>2 DEF Empty
<1>6. Probe(n, k, cap) \in 0 .. cap - 1
  BY <1>4, Probing
<1> QED BY <1>4, <1>5, <1>6 DEF Spot

\* Filling an empty slot loses no record that was found before.
LEMMA ReachedStill ==
  ASSUME NEW cap \in Nat \ {0}, Hashing, NEW slots \in [0 .. cap - 1 -> Recs \cup {Null}],
         NEW r \in Recs, NEW at \in 0 .. cap - 1, slots[at] = Null,
         NEW s \in 0 .. cap - 1, slots[s] # Null, Reached(slots, cap, s)
  PROVE  Reached(With(slots, at, r), cap, s)
<1> DEFINE new == With(slots, at, r)
           n   == NameOf(slots[s])
<1>1. PICK k \in 0 .. cap - 1 : /\ Probe(n, k, cap) = s
                                /\ \A j \in 0 .. k - 1 : slots[Probe(n, j, cap)] # Null
  BY DEF Reached
<1>2. new[s] = slots[s]
  BY DEF With
<1>3. \A u \in 0 .. cap - 1 : slots[u] # Null => new[u] # Null
  BY RecordFacts DEF With
<1>4. \A j \in 0 .. k - 1 : Probe(n, j, cap) \in 0 .. cap - 1
  <2>1. n \in Names
    BY RecordFacts
  <2>2. \A j \in 0 .. k - 1 : j \in 0 .. cap - 1
    OBVIOUS
  <2> HIDE DEF n
  <2> QED BY <2>1, <2>2, Probing
<1> HIDE DEF new
<1> QED BY <1>1, <1>2, <1>3, <1>4 DEF Reached, new

LEMMA PlaceFacts ==
  ASSUME NEW slots, NEW cap, NEW P, Hashing, SoundBut(slots, cap, P), NEW r \in Recs,
         NEW e \in 0 .. cap - 1, slots[e] = Null,
         \A s \in 0 .. cap - 1 : slots[s] # Null => NameOf(slots[s]) # NameOf(r)
  PROVE  /\ Spot(slots, cap, NameOf(r)) \in 0 .. cap - 1
         /\ slots[Spot(slots, cap, NameOf(r))] = Null
         /\ Place(slots, cap, r) = With(slots, Spot(slots, cap, NameOf(r)), r)
         /\ SoundBut(Place(slots, cap, r), cap, P \ {Spot(slots, cap, NameOf(r))})
<1> DEFINE n   == NameOf(r)
           at  == Spot(slots, cap, n)
           new == With(slots, at, r)
<1>1. cap \in Nat \ {0} /\ n \in Names /\ slots \in [0 .. cap - 1 -> Recs \cup {Null}]
  BY RecordFacts DEF SoundBut
<1>2. at \in 0 .. cap - 1 /\ slots[at] = Null
  BY <1>1, SpotFacts
<1>3. PICK k \in 0 .. cap - 1 : /\ at = Probe(n, k, cap)
                                /\ \A j \in 0 .. k - 1 : slots[Probe(n, j, cap)] # Null
  BY <1>1, SpotFacts
<1>4. Place(slots, cap, r) = new
  BY DEF Place, Spot, With
<1> HIDE DEF at
<1>5. new[at] = r /\ \A s \in (0 .. cap - 1) \ {at} : new[s] = slots[s]
  BY <1>1, <1>2 DEF With
<1>6. new \in [0 .. cap - 1 -> Recs \cup {Null}]
  BY <1>1, <1>2 DEF With
<1> HIDE DEF new
<1>7. Reached(new, cap, at)
  <2>1. \A j \in 0 .. k - 1 : Probe(n, j, cap) \in 0 .. cap - 1
    <3>1. \A j \in 0 .. k - 1 : j \in 0 .. cap - 1
      BY <1>1
    <3> HIDE DEF n
    <3> QED BY <1>1, <3>1, Probing
  <2>2. \A j \in 0 .. k - 1 : new[Probe(n, j, cap)] # Null
    BY <1>2, <1>3, <1>5, <2>1
  <2> QED BY <1>3, <1>5, <2>2 DEF Reached
<1>8. ASSUME NEW s \in (0 .. cap - 1) \ (P \ {at}), new[s] # Null
      PROVE  Reached(new, cap, s)
  <2>1. CASE s = at
    BY <1>7, <2>1
  <2>2. CASE s # at
    <3>1. slots[s] # Null /\ Reached(slots, cap, s)
      BY <1>5, <1>8, <2>2 DEF SoundBut
    <3> QED BY <1>1, <1>2, <3>1, ReachedStill DEF new
  <2> QED BY <2>1, <2>2
<1>9. ASSUME NEW s \in 0 .. cap - 1, NEW u \in 0 .. cap - 1, new[s] # Null, new[u] # Null,
             NameOf(new[s]) = NameOf(new[u])
      PROVE  s = u
  BY <1>5, <1>9 DEF SoundBut
<1>10. SoundBut(new, cap, P \ {at})
  BY <1>1, <1>6, <1>8, <1>9 DEF SoundBut
<1> QED BY <1>2, <1>4, <1>10 DEF new, at

-----------------------------------------------------------------------------
(* The slots in use                                                        *)

Tables(cap) == [0 .. cap - 1 -> Recs \cup {Null}]

LEMMA UsedFinite ==
  ASSUME NEW cap \in Nat, NEW slots \in Tables(cap)
  PROVE  /\ IsFiniteSet(Used(slots)) /\ Cardinality(Used(slots)) \in Nat
         /\ Used(slots) = {s \in 0 .. cap - 1 : slots[s] # Null}
         /\ Cardinality(Used(slots)) < cap => \E e \in 0 .. cap - 1 : slots[e] = Null
<1>1. Used(slots) = {s \in 0 .. cap - 1 : slots[s] # Null}
  BY DEF Used, Tables
<1>2. Used(slots) \in SUBSET (0 .. cap - 1)
  BY <1>1
<1>3. IsFiniteSet(0 .. cap - 1) /\ Cardinality(0 .. cap - 1) = cap
  <2>1. 0 \in Int /\ cap - 1 \in Int
    OBVIOUS
  <2>2. Cardinality(0 .. cap - 1) = IF 0 > cap - 1 THEN 0 ELSE (cap - 1) - 0 + 1
    BY <2>1, FS_Interval
  <2>3. IsFiniteSet(0 .. cap - 1)
    BY <2>1, FS_Interval
  <2> QED BY <2>2, <2>3
<1>4. IsFiniteSet(Used(slots))
  BY <1>2, <1>3, FS_Subset
<1>5. Cardinality(Used(slots)) \in Nat
  BY <1>4, FS_CardinalityType
<1>6. ASSUME Cardinality(Used(slots)) < cap
      PROVE  \E e \in 0 .. cap - 1 : slots[e] = Null
  <2> SUFFICES ASSUME \A e \in 0 .. cap - 1 : slots[e] # Null PROVE FALSE
    OBVIOUS
  <2>1. Used(slots) = 0 .. cap - 1
    BY <1>1
  <2> QED BY <1>3, <1>6, <2>1
<1> QED BY <1>1, <1>4, <1>5, <1>6

LEMMA Filled ==
  ASSUME NEW cap \in Nat, NEW slots \in Tables(cap), NEW r \in Recs,
         NEW at \in 0 .. cap - 1, slots[at] = Null
  PROVE  /\ With(slots, at, r) \in Tables(cap)
         /\ Held(With(slots, at, r)) = Held(slots) \cup {r}
         /\ Cardinality(Used(With(slots, at, r))) = Cardinality(Used(slots)) + 1
<1> DEFINE new == With(slots, at, r)
<1>1. new \in Tables(cap)
  BY DEF Tables, With
<1>2. new[at] = r /\ \A s \in (0 .. cap - 1) \ {at} : new[s] = slots[s]
  BY DEF Tables, With
<1>3. r # Null
  BY RecordFacts
<1> HIDE DEF new
<1>4. /\ Used(new) = {s \in 0 .. cap - 1 : new[s] # Null}
      /\ Used(slots) = {s \in 0 .. cap - 1 : slots[s] # Null} /\ IsFiniteSet(Used(slots))
  BY <1>1, UsedFinite
<1>5. Used(new) = Used(slots) \cup {at} /\ at \notin Used(slots)
  BY <1>2, <1>3, <1>4
<1>6. Cardinality(Used(new)) = Cardinality(Used(slots)) + 1
  BY <1>4, <1>5, FS_AddElement
<1>7. Held(new) = Held(slots) \cup {r}
  BY <1>2, <1>4, <1>5 DEF Held
<1> QED BY <1>1, <1>6, <1>7 DEF new

LEMMA Freed ==
  ASSUME NEW cap, NEW P, NEW slots, SoundBut(slots, cap, P),
         NEW at \in 0 .. cap - 1, slots[at] # Null
  PROVE  /\ With(slots, at, Null) \in Tables(cap)
         /\ Held(With(slots, at, Null)) = Held(slots) \ {slots[at]}
         /\ Cardinality(Used(With(slots, at, Null))) = Cardinality(Used(slots)) - 1
<1> DEFINE new == With(slots, at, Null)
<1>1. new \in Tables(cap) /\ slots \in Tables(cap) /\ cap \in Nat
  BY DEF Tables, SoundBut, With
<1>2. new[at] = Null /\ \A s \in (0 .. cap - 1) \ {at} : new[s] = slots[s]
  BY <1>1 DEF Tables, With
<1> HIDE DEF new
<1>3. /\ Used(new) = {s \in 0 .. cap - 1 : new[s] # Null} /\ IsFiniteSet(Used(new))
      /\ Used(slots) = {s \in 0 .. cap - 1 : slots[s] # Null} /\ IsFiniteSet(Used(slots))
  BY <1>1, UsedFinite
<1>4. Used(new) = Used(slots) \ {at} /\ at \in Used(slots)
  BY <1>2, <1>3
<1>5. Cardinality(Used(new)) = Cardinality(Used(slots)) - 1
  BY <1>3, <1>4, FS_RemoveElement
<1>6. \A s \in Used(slots) : slots[s] = slots[at] => s = at
  BY <1>3 DEF SoundBut
<1>7. Held(new) = Held(slots) \ {slots[at]}
  BY <1>2, <1>3, <1>4, <1>6 DEF Held
<1> QED BY <1>1, <1>5, <1>7 DEF new

LEMMA PlaceTyped ==
  ASSUME NEW cap, NEW slots \in Tables(cap), NEW r \in Recs \cup {Null}
  PROVE  Place(slots, cap, r) \in Tables(cap)
<1>1. \A x : With(slots, x, r) \in Tables(cap)
  BY DEF Tables, With
<1> QED BY <1>1 DEF Place, With

LEMMA Weaker ==
  ASSUME NEW slots, NEW cap, NEW P, NEW Q, P \subseteq Q, SoundBut(slots, cap, P)
  PROVE  SoundBut(slots, cap, Q)
BY DEF SoundBut

-----------------------------------------------------------------------------
(* Growing                                                                 *)

\* The records of the first i slots of the old table.
Old(t, i) == {j \in 0 .. i - 1 : t.slots[j] # Null}

\* What the new table holds when these have been placed.
Rehash(t, i, new) ==
  /\ SoundBut(new, GrownCap(t), {})
  /\ Held(new) = {t.slots[j] : j \in Old(t, i)}
  /\ Cardinality(Used(new)) = Cardinality(Old(t, i))

LEMMA RehashStep ==
  ASSUME NEW t, Hashing, SoundBut(t.slots, t.cap, {}), t.count \in Nat, 2 * t.count <= t.cap,
         t.count = Cardinality(Used(t.slots)),
         NEW i \in 1 .. t.cap, NEW new, Rehash(t, i - 1, new)
  PROVE  Rehash(t, i, Rehashed(new, GrownCap(t), t.slots[i - 1]))
<1> DEFINE C == GrownCap(t)
           r == t.slots[i - 1]
<1>1. t.cap \in Nat \ {0} /\ C \in Nat /\ C = 2 * t.cap /\ t.slots \in Tables(t.cap)
  BY DEF SoundBut, GrownCap, Tables
<1>2. i - 1 \in 0 .. t.cap - 1
  BY <1>1
<1>3. new \in Tables(C)
  BY DEF Rehash, SoundBut, Tables
<1> HIDE DEF C
<1>4. CASE r = Null
  <2>1. Old(t, i) = Old(t, i - 1)
    <3>1. \A j \in 0 .. i - 1 : j \in 0 .. (i - 1) - 1 \/ j = i - 1
      BY <1>1
    <3>2. \A j \in 0 .. (i - 1) - 1 : j \in 0 .. i - 1
      BY <1>1
    <3> QED BY <1>4, <3>1, <3>2 DEF Old
  <2>2. Rehashed(new, C, r) = new
    BY <1>4 DEF Rehashed
  <2> QED BY <2>1, <2>2 DEF Rehash, C
<1>5. CASE r # Null
  <2>1. r \in Recs /\ Rehashed(new, C, r) = Place(new, C, r)
    BY <1>1, <1>2, <1>5 DEF Rehashed, Tables
  <2>2. Old(t, i) = Old(t, i - 1) \cup {i - 1} /\ i - 1 \notin Old(t, i - 1)
    <3>1. \A j \in 0 .. i - 1 : j \in 0 .. (i - 1) - 1 \/ j = i - 1
      BY <1>1
    <3>2. (\A j \in 0 .. (i - 1) - 1 : j \in 0 .. i - 1) /\ i - 1 \in 0 .. i - 1
            /\ i - 1 \notin 0 .. (i - 1) - 1
      BY <1>1
    <3> QED BY <1>5, <3>1, <3>2 DEF Old
  <2>3. Old(t, i - 1) \in SUBSET Used(t.slots) /\ IsFiniteSet(Used(t.slots))
    <3>1. \A j \in 0 .. (i - 1) - 1 : j \in 0 .. t.cap - 1
      BY <1>1
    <3> QED BY <1>1, <3>1, UsedFinite DEF Old
  <2>4. IsFiniteSet(Old(t, i - 1)) /\ Cardinality(Old(t, i - 1)) <= t.count
    BY <2>3, FS_Subset
  <2>5. Cardinality(Old(t, i)) = Cardinality(Old(t, i - 1)) + 1
    BY <2>2, <2>4, FS_AddElement
  <2>6. Cardinality(Used(new)) < C
    <3>1. Cardinality(Old(t, i - 1)) \in Nat
      BY <2>4, FS_CardinalityType
    <3> QED BY <1>1, <2>4, <3>1 DEF Rehash
  <2>7. PICK e \in 0 .. C - 1 : new[e] = Null
    BY <1>1, <1>3, <2>6, UsedFinite
  <2>8. ASSUME NEW s \in 0 .. C - 1, new[s] # Null
        PROVE  NameOf(new[s]) # NameOf(r)
    <3>1. s \in Used(new)
      BY <1>1, <1>3, <2>8, UsedFinite
    <3>2. PICK j \in Old(t, i - 1) : new[s] = t.slots[j]
      BY <3>1 DEF Rehash, Held
    <3>3. j \in 0 .. t.cap - 1 /\ t.slots[j] # Null /\ j # i - 1
      BY <1>1, <2>2, <2>3, <3>2, UsedFinite DEF Old
    <3> QED BY <1>2, <1>5, <3>2, <3>3 DEF SoundBut
  <2>9. SoundBut(new, C, {})
    BY DEF Rehash, C
  <2>10. PICK at \in 0 .. C - 1 : /\ new[at] = Null /\ Place(new, C, r) = With(new, at, r)
                                  /\ SoundBut(Place(new, C, r), C, {} \ {at})
    BY <2>1, <2>7, <2>8, <2>9, PlaceFacts
  <2>11. SoundBut(Place(new, C, r), C, {})
    BY <2>10, Weaker
  <2>12. /\ Held(Place(new, C, r)) = Held(new) \cup {r}
         /\ Cardinality(Used(Place(new, C, r))) = Cardinality(Used(new)) + 1
    <3> DEFINE more == With(new, at, r)
    <3>1. Held(more) = Held(new) \cup {r} /\ Cardinality(Used(more)) = Cardinality(Used(new)) + 1
      <4>1. C \in Nat /\ r \in Recs /\ new \in Tables(C) /\ new[at] = Null
        BY <1>1, <1>3, <2>1, <2>10
      <4> HIDE DEF r
      <4> QED BY <4>1, Filled
    <3>2. Place(new, C, r) = more
      BY <2>10
    <3> HIDE DEF more
    <3> QED BY <3>1, <3>2
  <2>13. Held(Place(new, C, r)) = {t.slots[j] : j \in Old(t, i)}
    BY <2>2, <2>12 DEF Rehash
  <2> QED BY <2>1, <2>5, <2>11, <2>12, <2>13 DEF Rehash, C
<1> QED BY <1>4, <1>5

LEMMA GrownFacts ==
  ASSUME NEW t, Hashing, TableSound(t), ~t.failed, MustGrow(t)
  PROVE  /\ SoundBut(Grown(t), GrownCap(t), {})
         /\ Held(Grown(t)) = Held(t.slots)
         /\ Cardinality(Used(Grown(t))) = t.count
         /\ GrownCap(t) >= 2 /\ 2 * (t.count + 1) <= GrownCap(t)
<1> DEFINE n == t.cap
           C == GrownCap(t)
           T == Tables(C)
           empty == [s \in 0 .. C - 1 |-> Null]
           After(g) == g = [i \in 0 .. n |-> IF i = 0 THEN empty
                                             ELSE Rehashed(g[i - 1], C, t.slots[i - 1])]
           into == CHOOSE g : After(g)
           step == [i \in 1 .. n |-> [a \in T |-> Rehashed(a, C, t.slots[i - 1])]]
<1>1. CASE n = 0
  <2>1. t.slots = <<>> /\ t.count = 0 /\ C = FirstCap /\ C \in Nat /\ C >= 2
    BY <1>1, IndexAssumption DEF TableSound, NoTable, GrownCap, SoundBut
  <2>2. \A g : After(g) => g[0] = empty
    BY <1>1
  <2>3. After([i \in 0 .. n |-> empty])
    BY <1>1
  <2>4. Grown(t) = empty
    BY <1>1, <2>2, <2>3 DEF Grown
  <2>5. Used(empty) = {} /\ Used(t.slots) = {}
    BY <2>1 DEF Used
  <2>6. Held(empty) = {} /\ Held(t.slots) = {}
    BY <2>5 DEF Held
  <2>7. SoundBut(empty, C, {})
    BY <2>1 DEF SoundBut
  <2> HIDE DEF empty, C
  <2>8. Cardinality(Used(empty)) = 0
    BY <2>5, FS_EmptySet
  <2> QED BY <2>1, <2>4, <2>6, <2>7, <2>8 DEF C
<1>2. CASE n # 0
  <2>1. /\ SoundBut(t.slots, n, {}) /\ n >= 2 /\ n \in Nat /\ t.count \in Nat /\ 2 * t.count <= n
        /\ t.count = Cardinality(Used(t.slots)) /\ C = 2 * n /\ C \in Nat \ {0}
    BY <1>2 DEF TableSound, NoTable, SoundBut, GrownCap
  <2>2. t.slots \in Tables(n)
    BY <2>1 DEF SoundBut, Tables
  <2>3. empty \in T
    BY DEF Tables
  <2>4. \A i \in 1 .. n, a \in T : Rehashed(a, C, t.slots[i - 1]) \in T
    <3>1. \A i \in 1 .. n : t.slots[i - 1] \in Recs \cup {Null}
      BY <2>1, <2>2 DEF Tables
    <3> HIDE DEF C, n
    <3> QED BY <3>1, PlaceTyped DEF Rehashed
  <2>5. step \in [1 .. n -> [T -> T]]
    <3> HIDE DEF T, C
    <3> QED BY <2>4
  <2>6. PICK g \in [0 .. n -> T] : IsRun(g, n, empty, step)
    <3> HIDE DEF step, T, C, empty
    <3> QED BY <2>1, <2>3, <2>5, Iterates
  <2>7. After(g)
    <3>1. g = [i \in 0 .. n |-> IF i = 0 THEN empty ELSE step[i][g[i - 1]]]
      BY <2>6 DEF IsRun
    <3>2. \A i \in 0 .. n : i # 0 => step[i][g[i - 1]] = Rehashed(g[i - 1], C, t.slots[i - 1])
      <4>1. \A i \in 0 .. n : i # 0 => i \in 1 .. n /\ i - 1 \in 0 .. n
        BY <2>1
      <4>2. \A i \in 0 .. n : i # 0 => g[i - 1] \in T
        BY <2>6, <4>1
      <4> HIDE DEF T, C
      <4> QED BY <4>1, <4>2
    <3> HIDE DEF step, C, empty
    <3> QED BY <3>1, <3>2
  <2>8. After(into)
    <3> HIDE DEF After
    <3> QED BY <2>7
  <2>9. Grown(t) = into[n]
    BY DEF Grown
  <2>10. into[0] = empty /\ \A i \in 1 .. n :
                              into[i] = Rehashed(into[i - 1], C, t.slots[i - 1])
    <3> HIDE DEF into, empty, C
    <3> QED BY <2>1, <2>8
  <2>11. Rehash(t, 0, empty)
    <3>1. Used(empty) = {} /\ Old(t, 0) = {}
      BY DEF Used, Old
    <3>2. Held(empty) = {}
      BY <3>1 DEF Held
    <3>3. SoundBut(empty, C, {})
      BY <2>1 DEF SoundBut
    <3> HIDE DEF empty
    <3> QED BY <3>1, <3>2, <3>3 DEF Rehash
  <2> DEFINE S == {i \in 0 .. n : Rehash(t, i, into[i])}
  <2> HIDE DEF into, empty, C
  <2>12. 0 \in S
    BY <2>1, <2>10, <2>11
  <2>13. \A i \in 1 .. n : i - 1 \in S => i \in S
    <3> SUFFICES ASSUME NEW i \in 1 .. n, i - 1 \in S PROVE i \in S
      OBVIOUS
    <3>1. Rehash(t, i, into[i])
      BY <2>1, <2>10, RehashStep DEF C
    <3> QED BY <2>1, <3>1
  <2>14. Rehash(t, n, into[n])
    <3>1. \A i \in 0 .. n : i \in S
      <4> HIDE DEF S
      <4> QED BY <2>1, <2>12, <2>13, Walked
    <3> QED BY <2>1, <3>1
  <2>15. Old(t, n) = Used(t.slots)
    BY <2>1, <2>2, UsedFinite DEF Old
  <2>16. Held(t.slots) = {t.slots[j] : j \in Old(t, n)}
    BY <2>15 DEF Held
  <2>17. C >= 2 /\ 2 * (t.count + 1) <= C
    BY <2>1
  <2> QED BY <2>1, <2>9, <2>14, <2>15, <2>16, <2>17 DEF Rehash, C
<1> QED BY <1>1, <1>2

-----------------------------------------------------------------------------
(* Closing a hole                                                          *)

\* The slots from the i-th after the hole up to the e-th: what is still to be moved.
Pending(hole, i, e, cap) == {Wrap(hole, m, cap) : m \in i .. e - 1}

\* The slot next to be moved is emptied: whoever is before the run, or has been moved,
\* is found without it.
LEMMA FreedSound ==
  ASSUME NEW slots, NEW cap, Hashing, NEW hole \in 0 .. cap - 1,
         NEW e \in 1 .. cap - 1, NEW k \in 0 .. e - 1,
         SoundBut(slots, cap, Pending(hole, k, e, cap)),
         slots[Wrap(hole, e, cap)] = Null
  PROVE  SoundBut(With(slots, Wrap(hole, k, cap), Null), cap, Pending(hole, k + 1, e, cap))
<1> DEFINE at  == Wrap(hole, k, cap)
           new == With(slots, at, Null)
           P   == Pending(hole, k, e, cap)
           Q   == Pending(hole, k + 1, e, cap)
<1>1. cap \in Nat \ {0} /\ slots \in Tables(cap)
  BY DEF SoundBut, Tables
<1>2. at \in 0 .. cap - 1
  <2>1. k \in 0 .. cap - 1
    BY <1>1
  <2> QED BY <1>1, <2>1, Around
<1>3. new[at] = Null /\ \A s \in (0 .. cap - 1) \ {at} : new[s] = slots[s]
  BY <1>1, <1>2 DEF Tables, With
<1>4. new \in Tables(cap)
  BY <1>1 DEF Tables, With
<1>5. ASSUME NEW s \in (0 .. cap - 1) \ Q, new[s] # Null
      PROVE  Reached(new, cap, s)
  <2> DEFINE n == NameOf(slots[s])
             a == Bucket(n, cap)
  <2>1. s # at /\ new[s] = slots[s] /\ slots[s] # Null
    BY <1>3, <1>5
  <2>2. s \notin P
    <3>1. \A m \in k .. e - 1 : m = k \/ m \in k + 1 .. e - 1
      OBVIOUS
    <3> QED BY <1>5, <2>1, <3>1 DEF Pending
  <2>3. Reached(slots, cap, s)
    BY <2>1, <2>2 DEF SoundBut
  <2>4. PICK i \in 0 .. cap - 1 : /\ Probe(n, i, cap) = s
                                  /\ \A j \in 0 .. i - 1 : slots[Probe(n, j, cap)] # Null
    BY <2>3 DEF Reached
  <2>5. n \in Names
    BY <2>1, SlotFacts
  <2> HIDE DEF n
  <2>6. a \in 0 .. cap - 1 /\ \A j \in 0 .. cap - 1 : Probe(n, j, cap) = Wrap(a, j, cap)
    BY <1>1, <2>5, Probes
  <2>7. Wrap(a, i, cap) \notin Between(hole, k, e, cap)
    <3> SUFFICES ASSUME NEW m \in k .. e PROVE s # Wrap(hole, m, cap)
      BY <2>4, <2>6 DEF Between
    <3>1. CASE m = e
      BY <2>1, <3>1
    <3>2. CASE m # e
      <4>1. m \in k .. e - 1
        BY <3>2
      <4> QED BY <2>2, <4>1 DEF Pending
    <3> QED BY <3>1, <3>2
  <2> HIDE DEF a, at
  <2>8. ASSUME NEW j \in 0 .. i - 1, Probe(n, j, cap) = at
        PROVE  FALSE
    <3>1. Wrap(a, j, cap) = Wrap(hole, k, cap) /\ k \in 0 .. cap - 1 /\ e \in k .. cap - 1
      BY <1>1, <2>6, <2>8 DEF at
    <3>2. PICK b \in 0 .. i - 1 : Wrap(a, b, cap) = Wrap(hole, e, cap)
      <4>1. cap \in Nat \ {0} /\ a \in 0 .. cap - 1
        BY <1>1, <2>6
      <4> QED BY <2>7, <3>1, <4>1, NoCross
    <3>3. slots[Probe(n, b, cap)] = Null
      BY <1>1, <2>6, <3>2
    <3> QED BY <2>4, <3>3
  <2>9. \A j \in 0 .. i - 1 : new[Probe(n, j, cap)] # Null
    <3> SUFFICES ASSUME NEW j \in 0 .. i - 1 PROVE new[Probe(n, j, cap)] # Null
      OBVIOUS
    <3>1. j \in 0 .. cap - 1
      BY <1>1
    <3>2. Probe(n, j, cap) \in 0 .. cap - 1
      BY <1>1, <2>5, <3>1, Probing
    <3> QED BY <1>3, <2>4, <2>8, <3>2
  <2> QED BY <2>1, <2>4, <2>9 DEF Reached, n
<1>6. ASSUME NEW s \in 0 .. cap - 1, NEW u \in 0 .. cap - 1, new[s] # Null, new[u] # Null,
             NameOf(new[s]) = NameOf(new[u])
      PROVE  s = u
  BY <1>3, <1>6 DEF SoundBut
<1> HIDE DEF new, at, Q
<1>7. SoundBut(new, cap, Q)
  BY <1>1, <1>4, <1>5, <1>6 DEF SoundBut, Tables
<1> QED BY <1>7 DEF new, at, Q

\* The table when the k records after the hole have been moved.
Shifted(slots, cap, hole, e, k, now) ==
  /\ SoundBut(now, cap, Pending(hole, k + 1, e, cap))
  /\ \A m \in k + 1 .. e : now[Wrap(hole, m, cap)] = slots[Wrap(hole, m, cap)]
  /\ Held(now) = Held(slots) \ {slots[hole]}
  /\ Cardinality(Used(now)) = Cardinality(Used(slots)) - 1

\* A moved record lands on the run it is reached by, not behind the slot it had.
LEMMA MovedStep ==
  ASSUME NEW slots, NEW cap, Hashing, SoundBut(slots, cap, {}), NEW hole \in 0 .. cap - 1,
         NEW e \in 1 .. cap - 1, slots[Wrap(hole, e, cap)] = Null,
         \A m \in 0 .. e - 1 : slots[Wrap(hole, m, cap)] # Null,
         NEW k \in 1 .. e - 1, NEW now, Shifted(slots, cap, hole, e, k - 1, now)
  PROVE  Shifted(slots, cap, hole, e, k, Moved(now, cap, Wrap(hole, k, cap)))
<1> DEFINE at   == Wrap(hole, k, cap)
           r    == slots[at]
           free == With(now, at, Null)
           n    == NameOf(r)
           to   == Spot(free, cap, n)
           new  == With(free, to, r)
           Q    == Pending(hole, k + 1, e, cap)
<1>1. cap \in Nat \ {0} /\ slots \in Tables(cap) /\ now \in Tables(cap)
  BY DEF SoundBut, Tables, Shifted
<1>2. \A m \in 0 .. e : Wrap(hole, m, cap) \in 0 .. cap - 1
  <2>1. \A m \in 0 .. e : m \in 0 .. cap - 1
    BY <1>1
  <2> QED BY <1>1, <2>1, Around
<1>3. at \in 0 .. cap - 1 /\ now[at] = r /\ r # Null /\ r \in Recs /\ n \in Names
  <2>1. k \in 0 .. e - 1 /\ k \in 0 .. e /\ k \in (k - 1) + 1 .. e
    OBVIOUS
  <2>2. at \in 0 .. cap - 1 /\ now[at] = r /\ r # Null
    BY <1>2, <2>1 DEF Shifted
  <2> QED BY <1>1, <2>2, RecordFacts DEF Tables
<1>4. \A m \in k .. e : now[Wrap(hole, m, cap)] = slots[Wrap(hole, m, cap)]
  <2>1. \A m \in k .. e : m \in (k - 1) + 1 .. e
    OBVIOUS
  <2> QED BY <2>1 DEF Shifted
<1>5. SoundBut(now, cap, Pending(hole, k, e, cap)) /\ now[Wrap(hole, e, cap)] = Null
  BY <1>4 DEF Shifted
<1>6. SoundBut(free, cap, Q)
  BY <1>5, FreedSound
<1>7. /\ free \in Tables(cap) /\ Held(free) = Held(now) \ {r}
      /\ Cardinality(Used(free)) = Cardinality(Used(now)) - 1
  BY <1>3, <1>5, Freed
<1>8. free[at] = Null /\ \A s \in (0 .. cap - 1) \ {at} : free[s] = now[s]
  BY <1>1, <1>3 DEF Tables, With
<1> HIDE DEF free, r, at
<1>9. \A s \in 0 .. cap - 1 : free[s] # Null => NameOf(free[s]) # n
  BY <1>3, <1>5, <1>8 DEF SoundBut
<1>10. /\ to \in 0 .. cap - 1 /\ free[to] = Null
       /\ Place(free, cap, r) = new /\ SoundBut(new, cap, Q \ {to})
  <2> HIDE DEF Q
  <2>1. /\ to \in 0 .. cap - 1 /\ free[to] = Null
        /\ Place(free, cap, r) = With(free, to, r)
        /\ SoundBut(Place(free, cap, r), cap, Q \ {to})
    BY <1>3, <1>6, <1>8, <1>9, PlaceFacts
  <2> QED BY <2>1
<1>11. PICK i \in 0 .. cap - 1 : /\ to = Probe(n, i, cap)
                                 /\ \A j \in 0 .. i - 1 : free[Probe(n, j, cap)] # Null
  BY <1>1, <1>3, <1>8, SpotFacts
<1>12. PICK x \in 0 .. cap - 1 : /\ at = Probe(n, x, cap)
                                 /\ \A j \in 0 .. x - 1 : slots[Probe(n, j, cap)] # Null
  BY <1>3 DEF SoundBut, Reached, r
<1>13. i <= x
  <2> SUFFICES ASSUME x < i PROVE FALSE
    BY <1>1
  <2>1. x \in 0 .. i - 1
    BY <1>1
  <2> QED BY <1>8, <1>11, <1>12, <2>1
<1> HIDE DEF to
<1>14. \A m \in k + 1 .. e : to # Wrap(hole, m, cap)
  <2> SUFFICES ASSUME NEW m \in k + 1 .. e, to = Wrap(hole, m, cap) PROVE FALSE
    OBVIOUS
  <2>1. m \in k .. e /\ m \in 0 .. cap - 1 /\ k \in 0 .. cap - 1 /\ m # k
    BY <1>1
  <2>2. to # at
    BY <1>1, <2>1, Around DEF at
  <2>3. now[to] = Null /\ slots[to] = Null
    BY <1>4, <1>8, <1>10, <2>1, <2>2
  <2>4. i # x
    BY <1>11, <1>12, <2>2
  <2>5. i \in 0 .. x - 1
    BY <1>1, <1>13, <2>4
  <2> QED BY <1>11, <1>12, <2>3, <2>5
<1>15. \A m \in k + 1 .. e : new[Wrap(hole, m, cap)] = slots[Wrap(hole, m, cap)]
  <2> SUFFICES ASSUME NEW m \in k + 1 .. e
               PROVE  new[Wrap(hole, m, cap)] = slots[Wrap(hole, m, cap)]
    OBVIOUS
  <2> DEFINE s == Wrap(hole, m, cap)
  <2>1. m \in k .. e /\ m \in 0 .. e /\ m \in 0 .. cap - 1 /\ k \in 0 .. cap - 1 /\ m # k
    BY <1>1
  <2>2. s # at
    BY <1>1, <2>1, Around DEF at
  <2>3. s \in 0 .. cap - 1 /\ s # to /\ now[s] = slots[s]
    BY <1>2, <1>4, <1>14, <2>1
  <2> HIDE DEF s
  <2>4. free[s] = slots[s]
    BY <1>8, <2>2, <2>3
  <2>5. new[s] = free[s]
    BY <1>7, <2>3 DEF Tables, With
  <2> QED BY <2>4, <2>5 DEF s
<1>16. /\ Held(new) = Held(free) \cup {r}
       /\ Cardinality(Used(new)) = Cardinality(Used(free)) + 1
  <2>1. cap \in Nat
    BY <1>1
  <2> QED BY <1>3, <1>7, <1>10, <2>1, Filled
<1>17. r \in Held(now)
  BY <1>1, <1>3, UsedFinite DEF Held
<1>18. SoundBut(new, cap, Q)
  BY <1>10, Weaker
<1>19. Moved(now, cap, at) = new
  BY <1>3, <1>10 DEF Moved, free, With
<1>20. Cardinality(Used(now)) \in Nat
  BY <1>1, UsedFinite
<1> HIDE DEF new, Q
<1>21. Held(new) = Held(slots) \ {slots[hole]}
         /\ Cardinality(Used(new)) = Cardinality(Used(slots)) - 1
  BY <1>7, <1>16, <1>17, <1>20 DEF Shifted
<1>22. Shifted(slots, cap, hole, e, k, new)
  BY <1>15, <1>18, <1>21 DEF Shifted, Q
<1> QED BY <1>19, <1>22 DEF at

LEMMA RunEnds ==
  ASSUME NEW slots, NEW cap \in Nat \ {0}, NEW hole \in 0 .. cap - 1, slots[hole] # Null,
         NEW z \in 0 .. cap - 1, slots[z] = Null
  PROVE  /\ RunEnd(slots, cap, hole) \in 1 .. cap - 1
         /\ slots[Wrap(hole, RunEnd(slots, cap, hole), cap)] = Null
         /\ \A m \in 0 .. RunEnd(slots, cap, hole) - 1 : slots[Wrap(hole, m, cap)] # Null
<1> DEFINE S == {k \in 1 .. cap : slots[(hole + k) % cap] = Null \/ k = cap}
           e == First(S)
<1>1. \A k \in 0 .. cap : (hole + k) % cap = Wrap(hole, k, cap)
  BY Hops
<1>2. PICK x \in 0 .. cap - 1 : Wrap(hole, x, cap) = z
  BY Around
<1>3. Wrap(hole, 0, cap) = hole
  BY Around
<1>4. x \in S /\ x < cap
  BY <1>1, <1>2, <1>3
<1>5. e \in S /\ \A j \in S : e <= j
  <2> S \in SUBSET Nat
    OBVIOUS
  <2> HIDE DEF S
  <2> QED BY <1>4, FirstIs
<1>6. e \in 1 .. cap - 1
  <2> HIDE DEF e
  <2> QED BY <1>4, <1>5
<1>7. slots[Wrap(hole, e, cap)] = Null
  <2> HIDE DEF e
  <2> QED BY <1>1, <1>5, <1>6
<1>8. \A m \in 0 .. e - 1 : slots[Wrap(hole, m, cap)] # Null
  <2> HIDE DEF e
  <2> SUFFICES ASSUME NEW m \in 0 .. e - 1, m # 0 PROVE slots[Wrap(hole, m, cap)] # Null
    BY <1>3
  <2>1. m \in 1 .. cap /\ m \in 0 .. cap /\ ~(e <= m)
    BY <1>6
  <2>2. m \notin S
    BY <1>5, <2>1
  <2> QED BY <1>1, <2>1, <2>2
<1>9. RunEnd(slots, cap, hole) = e
  BY DEF RunEnd
<1> HIDE DEF e
<1> QED BY <1>6, <1>7, <1>8, <1>9

LEMMA ClosedFacts ==
  ASSUME NEW slots, NEW cap, Hashing, SoundBut(slots, cap, {}),
         NEW hole \in 0 .. cap - 1, slots[hole] # Null,
         NEW z \in 0 .. cap - 1, slots[z] = Null
  PROVE  /\ SoundBut(Closed(slots, cap, hole), cap, {})
         /\ Held(Closed(slots, cap, hole)) = Held(slots) \ {slots[hole]}
         /\ Cardinality(Used(Closed(slots, cap, hole))) = Cardinality(Used(slots)) - 1
<1> DEFINE e == RunEnd(slots, cap, hole)
           n == e - 1
           T == Tables(cap)
           first == With(slots, hole, Null)
           at(i) == (hole + i) % cap
           After(g) == g = [i \in 0 .. n |-> IF i = 0 THEN [slots EXCEPT ![hole] = Null]
                                             ELSE Moved(g[i - 1], cap, (hole + i) % cap)]
           shift == CHOOSE g : After(g)
           step == [i \in 1 .. n |-> [a \in T |-> Moved(a, cap, at(i))]]
<1>1. cap \in Nat \ {0} /\ slots \in T
  BY DEF SoundBut, Tables
<1>2. /\ e \in 1 .. cap - 1 /\ slots[Wrap(hole, e, cap)] = Null
      /\ \A m \in 0 .. e - 1 : slots[Wrap(hole, m, cap)] # Null
  BY <1>1, RunEnds
<1>3. Closed(slots, cap, hole) = shift[n]
  BY DEF Closed
<1> HIDE DEF e
<1>4. n \in Nat /\ n \in 0 .. cap - 1
  BY <1>1, <1>2
<1>5. \A i \in 1 .. n : at(i) = Wrap(hole, i, cap) /\ at(i) \in 0 .. cap - 1
  <2>1. \A i \in 1 .. n : i \in 0 .. cap /\ i \in 0 .. cap - 1
    BY <1>1, <1>4
  <2>2. \A i \in 0 .. cap : at(i) = Wrap(hole, i, cap)
    BY <1>1, Hops
  <2>3. \A i \in 0 .. cap - 1 : Wrap(hole, i, cap) \in 0 .. cap - 1
    BY <1>1, Around
  <2> HIDE DEF n, at
  <2> QED BY <2>1, <2>2, <2>3
<1>6. first \in T
  BY <1>1 DEF Tables, With
<1>7. \A i \in 1 .. n, a \in T : Moved(a, cap, at(i)) \in T
  <2> SUFFICES ASSUME NEW i \in 1 .. n, NEW a \in T PROVE Moved(a, cap, at(i)) \in T
    <3> HIDE DEF at, n, T
    <3> QED OBVIOUS
  <2>1. a[at(i)] \in Recs \cup {Null} /\ With(a, at(i), Null) \in T
    BY <1>5 DEF Tables, With
  <2> HIDE DEF at
  <2> QED BY <2>1, PlaceTyped DEF Moved, With
<1>8. step \in [1 .. n -> [T -> T]]
  <2> HIDE DEF T, at, n
  <2> QED BY <1>7
<1>9. PICK g \in [0 .. n -> T] : IsRun(g, n, first, step)
  <2> HIDE DEF step, T, first, n
  <2> QED BY <1>4, <1>6, <1>8, Iterates
<1>10. After(g)
  <2>1. g = [i \in 0 .. n |-> IF i = 0 THEN first ELSE step[i][g[i - 1]]]
    BY <1>9 DEF IsRun
  <2>2. \A i \in 0 .. n : i # 0 => step[i][g[i - 1]] = Moved(g[i - 1], cap, (hole + i) % cap)
    <3>1. \A i \in 0 .. n : i # 0 => i \in 1 .. n /\ i - 1 \in 0 .. n
      BY <1>4
    <3>2. \A i \in 0 .. n : i # 0 => g[i - 1] \in T
      BY <1>9, <3>1
    <3> HIDE DEF T
    <3> QED BY <3>1, <3>2
  <2> HIDE DEF step
  <2> QED BY <2>1, <2>2 DEF With
<1>11. After(shift)
  <2> HIDE DEF After
  <2> QED BY <1>10
<1>12. shift[0] = first /\ \A i \in 1 .. n : shift[i] = Moved(shift[i - 1], cap, at(i))
  <2> HIDE DEF shift, n
  <2>1. shift = [i \in 0 .. n |-> IF i = 0 THEN first ELSE Moved(shift[i - 1], cap, at(i))]
    BY <1>11 DEF With
  <2> HIDE DEF first, at, After
  <2>2. 0 \in 0 .. n /\ \A i \in 1 .. n : i \in 0 .. n /\ i # 0
    BY <1>4
  <2> QED BY <2>1, <2>2
<1> HIDE DEF shift, first, at
<1>13. Shifted(slots, cap, hole, e, 0, first)
  <2>1. Wrap(hole, 0, cap) = hole
    BY <1>1, Around
  <2>2. SoundBut(slots, cap, Pending(hole, 0, e, cap))
    BY Weaker
  <2>3. 0 \in 0 .. e - 1
    BY <1>2
  <2>4. SoundBut(first, cap, Pending(hole, 0 + 1, e, cap))
    BY <1>2, <2>1, <2>2, <2>3, FreedSound DEF first
  <2>5. \A m \in 0 + 1 .. e : first[Wrap(hole, m, cap)] = slots[Wrap(hole, m, cap)]
    <3> SUFFICES ASSUME NEW m \in 1 .. e
                 PROVE  first[Wrap(hole, m, cap)] = slots[Wrap(hole, m, cap)]
      OBVIOUS
    <3>1. m \in 0 .. cap - 1 /\ 0 \in 0 .. cap - 1 /\ m # 0
      BY <1>1, <1>2
    <3>2. Wrap(hole, m, cap) # hole /\ Wrap(hole, m, cap) \in 0 .. cap - 1
      BY <1>1, <2>1, <3>1, Around
    <3> QED BY <1>1, <3>2 DEF first, With, Tables
  <2>6. /\ Held(first) = Held(slots) \ {slots[hole]}
        /\ Cardinality(Used(first)) = Cardinality(Used(slots)) - 1
    BY Freed DEF first
  <2> QED BY <2>4, <2>5, <2>6 DEF Shifted
<1> DEFINE S == {i \in 0 .. n : Shifted(slots, cap, hole, e, i, shift[i])}
<1>14. 0 \in S
  BY <1>4, <1>12, <1>13
<1>15. \A i \in 1 .. n : i - 1 \in S => i \in S
  <2> SUFFICES ASSUME NEW i \in 1 .. n, i - 1 \in S PROVE i \in S
    OBVIOUS
  <2>1. i \in 1 .. e - 1 /\ i \in 0 .. n
    BY <1>4
  <2>2. Shifted(slots, cap, hole, e, i - 1, shift[i - 1])
    OBVIOUS
  <2>3. Shifted(slots, cap, hole, e, i, Moved(shift[i - 1], cap, Wrap(hole, i, cap)))
    BY <1>2, <2>1, <2>2, MovedStep
  <2>4. shift[i] = Moved(shift[i - 1], cap, Wrap(hole, i, cap))
    BY <1>5, <1>12
  <2> QED BY <2>1, <2>3, <2>4
<1>16. Shifted(slots, cap, hole, e, n, shift[n])
  <2>1. \A i \in 0 .. n : i \in S
    <3> HIDE DEF S, n
    <3> QED BY <1>4, <1>14, <1>15, Walked
  <2> QED BY <1>4, <2>1
<1>17. Pending(hole, n + 1, e, cap) = {}
  BY <1>2 DEF Pending
<1> HIDE DEF n
<1> QED BY <1>3, <1>16, <1>17 DEF Shifted

-----------------------------------------------------------------------------
(* Tables                                                                  *)

Table(slots, cap, count, failed) ==
  [slots |-> slots, cap |-> cap, count |-> count, failed |-> failed]
IsTable(t) == t = Table(t.slots, t.cap, t.count, t.failed)

LEMMA Fields ==
  ASSUME NEW slots, NEW cap, NEW count, NEW failed
  PROVE  /\ Table(slots, cap, count, failed).slots = slots
         /\ Table(slots, cap, count, failed).cap = cap
         /\ Table(slots, cap, count, failed).count = count
         /\ Table(slots, cap, count, failed).failed = failed
         /\ IsTable(Table(slots, cap, count, failed))
BY DEF Table, IsTable

LEMMA Excepts ==
  ASSUME NEW t, IsTable(t), NEW s, NEW c
  PROVE  /\ [t EXCEPT !.slots = s, !.count = c] = Table(s, t.cap, c, t.failed)
         /\ [t EXCEPT !.slots = s, !.cap = c] = Table(s, c, t.count, t.failed)
<1> DEFINE u == Table(t.slots, t.cap, t.count, t.failed)
           v == Table(s, t.cap, t.count, t.failed)
<1>1. [u EXCEPT !.slots = s] = v
  BY DEF Table
<1>2. [v EXCEPT !.count = c] = Table(s, t.cap, c, t.failed)
  BY DEF Table
<1>3. [v EXCEPT !.cap = c] = Table(s, c, t.count, t.failed)
  BY DEF Table
<1>4. t = u
  BY DEF IsTable
<1> HIDE DEF u, v
<1> QED BY <1>1, <1>2, <1>3, <1>4, Zenon

LEMMA NoTableIs ==
  ASSUME NEW failed
  PROVE  [NoTable EXCEPT !.failed = failed] = Table(<<>>, 0, 0, failed)
BY DEF NoTable, Table

\* Without slots nothing is used.
LEMMA NoneUsed == Used(<<>>) = {} /\ Held(<<>>) = {} /\ Cardinality(Used(<<>>)) = 0
<1>1. Used(<<>>) = {}
  BY DEF Used
<1>2. Held(<<>>) = {}
  BY <1>1 DEF Held
<1> QED BY <1>1, <1>2, FS_EmptySet

LEMMA NoTableSound ==
  ASSUME NEW failed \in BOOLEAN
  PROVE  TableSound(Table(<<>>, 0, 0, failed))
<1> DEFINE t == Table(<<>>, 0, 0, failed)
<1>1. t.slots = <<>> /\ t.cap = 0 /\ t.count = 0 /\ t.failed = failed
  BY DEF Table
<1>2. t = [NoTable EXCEPT !.failed = failed]
  BY NoTableIs
<1> HIDE DEF t
<1>3. TableSound(t)
  BY <1>1, <1>2, NoneUsed DEF TableSound
<1> QED BY <1>3 DEF t

\* A table with slots is in use and has an empty one.
LEMMA InUse ==
  ASSUME NEW t, TableSound(t), t.cap # 0
  PROVE  /\ ~t.failed /\ SoundBut(t.slots, t.cap, {}) /\ t.cap >= 2 /\ t.cap \in Nat
         /\ t.slots \in Tables(t.cap)
         /\ \E e \in 0 .. t.cap - 1 : t.slots[e] = Null
<1>1. ~t.failed /\ SoundBut(t.slots, t.cap, {}) /\ t.cap >= 2
  <2>1. Table(<<>>, 0, 0, t.failed).cap = 0
    BY DEF Table
  <2>2. t # [NoTable EXCEPT !.failed = t.failed]
    BY <2>1, NoTableIs
  <2> QED BY <2>2 DEF TableSound
<1>2. t.cap \in Nat /\ t.slots \in Tables(t.cap)
  BY <1>1 DEF SoundBut, Tables
<1>3. Cardinality(Used(t.slots)) < t.cap
  BY <1>2 DEF TableSound
<1> QED BY <1>1, <1>2, <1>3, UsedFinite

LEMMA RemoveFacts ==
  ASSUME NEW t, Hashing, IsTable(t), TableSound(t), NEW r \in Held(t.slots)
  PROVE  /\ IsTable(Remove(t, r)) /\ TableSound(Remove(t, r))
         /\ Held(Remove(t, r).slots) = Held(t.slots) \ {r}
         /\ Remove(t, r).cap = t.cap /\ Remove(t, r).count = t.count - 1
         /\ t.count \in Nat \ {0} /\ ~t.failed /\ Remove(t, r).failed = t.failed
<1> DEFINE slots == t.slots
           cap   == t.cap
           n     == NameOf(r)
<1>1. PICK s \in Used(slots) : slots[s] = r
  BY DEF Held
<1>2. cap # 0
  <2> SUFFICES ASSUME cap = 0 PROVE FALSE
    OBVIOUS
  <2>1. t = [NoTable EXCEPT !.failed = t.failed]
    BY DEF TableSound
  <2>2. Table(<<>>, 0, 0, t.failed).slots = <<>>
    BY DEF Table
  <2>3. slots = <<>>
    BY <2>1, <2>2, NoTableIs
  <2> QED BY <1>1, <2>3, NoneUsed
<1>3. /\ ~t.failed /\ SoundBut(slots, cap, {}) /\ cap >= 2 /\ cap \in Nat
      /\ slots \in Tables(cap)
  BY <1>2, InUse
<1>4. PICK z \in 0 .. cap - 1 : slots[z] = Null
  BY <1>2, InUse
<1>5. s \in 0 .. cap - 1 /\ r # Null /\ r \in Recs /\ n \in Names
  <2>1. s \in 0 .. cap - 1 /\ r # Null
    BY <1>1, <1>3, UsedFinite
  <2> QED BY <1>1, <1>3, <2>1, RecordFacts DEF Tables
<1>6. PICK k \in 0 .. cap - 1 : /\ Probe(n, k, cap) = s
                                /\ \A j \in 0 .. k - 1 : slots[Probe(n, j, cap)] # Null
  BY <1>1, <1>3, <1>5 DEF SoundBut, Reached
<1>7. \A j \in 0 .. k - 1 : slots[Probe(n, j, cap)] \notin {r, Null}
  <2> SUFFICES ASSUME NEW j \in 0 .. k - 1, slots[Probe(n, j, cap)] = r PROVE FALSE
    BY <1>6
  <2>1. j \in 0 .. cap - 1 /\ j # k /\ cap \in Nat \ {0}
    BY <1>3
  <2>2. Probe(n, j, cap) \in 0 .. cap - 1 /\ Probe(n, j, cap) # s
    BY <1>5, <1>6, <2>1, Probing
  <2> QED BY <1>1, <1>3, <1>5, <2>2 DEF SoundBut
<1> DEFINE S == Passes(t, r)
<1>8. First(S) = k
  <2>1. k \in S /\ \A j \in 0 .. k - 1 : j \notin S
    BY <1>1, <1>6, <1>7 DEF Passes
  <2>2. S \in SUBSET Nat
    BY <1>3 DEF Passes
  <2> HIDE DEF S
  <2> QED BY <2>1, <2>2, FirstAt
<1> DEFINE c == Closed(slots, cap, s)
<1>9. /\ SoundBut(c, cap, {}) /\ Held(c) = Held(slots) \ {r}
      /\ Cardinality(Used(c)) = Cardinality(Used(slots)) - 1
  BY <1>1, <1>3, <1>4, <1>5, ClosedFacts
<1> HIDE DEF c
<1>10. Remove(t, r) = [t EXCEPT !.slots = c, !.count = t.count - 1]
  BY <1>1, <1>2, <1>3, <1>5, <1>6, <1>8 DEF Remove, c
<1> DEFINE u == Table(c, cap, t.count - 1, t.failed)
<1>11. Remove(t, r) = u
  BY <1>10, Excepts
<1>12. /\ IsTable(u) /\ u.slots = c /\ u.cap = cap /\ u.count = t.count - 1
       /\ u.failed = t.failed
  BY Fields
<1> HIDE DEF u
<1>13. t.count \in Nat /\ t.count = Cardinality(Used(slots)) /\ 2 * t.count <= cap
  BY DEF TableSound
<1>14. Cardinality(Used(c)) \in Nat
  <2>1. c \in Tables(cap)
    BY <1>9 DEF SoundBut, Tables
  <2> QED BY <1>3, <2>1, UsedFinite
<1>15. t.count \in Nat \ {0}
  BY <1>9, <1>13, <1>14
<1>16. TableSound(u)
  BY <1>3, <1>9, <1>12, <1>13, <1>15 DEF TableSound
<1> QED BY <1>3, <1>9, <1>11, <1>12, <1>15, <1>16

\* The table that the record is placed into.
LEMMA RoomFacts ==
  ASSUME NEW t, Hashing, IsTable(t), TableSound(t), ~t.failed
  PROVE  /\ IsTable(WithRoom(t)) /\ WithRoom(t).failed = t.failed
         /\ SoundBut(WithRoom(t).slots, WithRoom(t).cap, {}) /\ WithRoom(t).cap >= 2
         /\ Held(WithRoom(t).slots) = Held(t.slots)
         /\ WithRoom(t).count = t.count
         /\ Cardinality(Used(WithRoom(t).slots)) = t.count
         /\ 2 * (t.count + 1) <= WithRoom(t).cap
<1>1. CASE MustGrow(t)
  <2> DEFINE u == Table(Grown(t), GrownCap(t), t.count, t.failed)
  <2>1. WithRoom(t) = u
    BY <1>1, Excepts DEF WithRoom
  <2>2. /\ IsTable(u) /\ u.slots = Grown(t) /\ u.cap = GrownCap(t) /\ u.count = t.count
        /\ u.failed = t.failed
    BY Fields
  <2> HIDE DEF u
  <2> QED BY <1>1, <2>1, <2>2, GrownFacts
<1>2. CASE ~MustGrow(t)
  <2>1. WithRoom(t) = t
    BY <1>2 DEF WithRoom
  <2>2. t.count \in Nat /\ 2 * t.count <= t.cap /\ t.count = Cardinality(Used(t.slots))
    BY DEF TableSound
  <2>3. t.cap # 0
    BY <1>2, <2>2 DEF MustGrow
  <2>4. t.cap \in Nat
    BY <2>3, InUse
  <2>5. 2 * (t.count + 1) <= t.cap
    BY <1>2, <2>2, <2>4 DEF MustGrow
  <2> QED BY <2>1, <2>2, <2>3, <2>5, InUse
<1> QED BY <1>1, <1>2

LEMMA InsertFacts ==
  ASSUME NEW t, Hashing, IsTable(t), TableSound(t), t.failed \in BOOLEAN, NEW r \in Recs,
         NEW oom \in BOOLEAN, \A q \in Held(t.slots) : NameOf(q) # NameOf(r)
  PROVE  /\ IsTable(Insert(t, r, oom)) /\ TableSound(Insert(t, r, oom))
         /\ Insert(t, r, oom).failed \in BOOLEAN
         /\ ~Insert(t, r, oom).failed =>
              ~t.failed /\ Held(Insert(t, r, oom).slots) = Held(t.slots) \cup {r}
         /\ ~t.failed /\ ~oom => ~Insert(t, r, oom).failed
<1>1. CASE t.failed
  BY <1>1 DEF Insert
<1>2. CASE ~t.failed /\ MustGrow(t) /\ oom
  <2> DEFINE u == Table(<<>>, 0, 0, TRUE)
  <2>1. Insert(t, r, oom) = u
    BY <1>2, NoTableIs DEF Insert
  <2>2. IsTable(u) /\ u.failed = TRUE /\ TableSound(u)
    <3>1. IsTable(u)
      BY Fields
    <3>2. u.failed = TRUE
      BY DEF Table
    <3>3. TableSound(u)
      BY NoTableSound
    <3> QED BY <3>1, <3>2, <3>3
  <2> HIDE DEF u
  <2> QED BY <1>2, <2>1, <2>2
<1>3. CASE ~t.failed /\ ~(MustGrow(t) /\ oom)
  <2> DEFINE w == WithRoom(t)
             n == NameOf(r)
             at == Spot(w.slots, w.cap, n)
  <2>1. /\ IsTable(w) /\ w.failed = t.failed /\ SoundBut(w.slots, w.cap, {}) /\ w.cap >= 2
        /\ Held(w.slots) = Held(t.slots) /\ w.count = t.count
        /\ Cardinality(Used(w.slots)) = t.count /\ 2 * (t.count + 1) <= w.cap
    BY <1>3, RoomFacts
  <2>2. w.slots \in Tables(w.cap) /\ w.cap \in Nat /\ t.count \in Nat
    BY <2>1 DEF SoundBut, Tables, TableSound
  <2>3. PICK e \in 0 .. w.cap - 1 : w.slots[e] = Null
    <3>1. Cardinality(Used(w.slots)) < w.cap
      BY <2>1, <2>2
    <3> HIDE DEF w
    <3> QED BY <2>2, <3>1, UsedFinite
  <2> DEFINE c == Place(w.slots, w.cap, r)
             u == Table(c, w.cap, t.count + 1, w.failed)
  <2>4. Insert(t, r, oom) = u
    <3>1. Insert(t, r, oom) = [w EXCEPT !.slots = c, !.count = w.count + 1]
      BY <1>3 DEF Insert
    <3> HIDE DEF w, c
    <3>2. [w EXCEPT !.slots = c, !.count = w.count + 1] = Table(c, w.cap, w.count + 1, w.failed)
      BY <2>1, Excepts
    <3> QED BY <2>1, <3>1, <3>2
  <2> HIDE DEF w
  <2>5. \A s \in 0 .. w.cap - 1 : w.slots[s] # Null => NameOf(w.slots[s]) # n
    <3> SUFFICES ASSUME NEW s \in 0 .. w.cap - 1, w.slots[s] # Null
                 PROVE  NameOf(w.slots[s]) # n
      OBVIOUS
    <3>1. s \in Used(w.slots)
      BY <2>2, UsedFinite
    <3> QED BY <2>1, <3>1 DEF Held
  <2>6. /\ at \in 0 .. w.cap - 1 /\ w.slots[at] = Null
        /\ c = With(w.slots, at, r) /\ SoundBut(c, w.cap, {} \ {at})
    BY <2>1, <2>3, <2>5, PlaceFacts
  <2> HIDE DEF at
  <2>7. SoundBut(c, w.cap, {})
    <3> HIDE DEF c
    <3> QED BY <2>6, Weaker
  <2>8. Held(c) = Held(w.slots) \cup {r} /\ Cardinality(Used(c)) = t.count + 1
    <3>1. /\ Held(With(w.slots, at, r)) = Held(w.slots) \cup {r}
          /\ Cardinality(Used(With(w.slots, at, r))) = Cardinality(Used(w.slots)) + 1
      BY <2>2, <2>6, Filled
    <3> HIDE DEF c
    <3> QED BY <2>1, <2>6, <3>1
  <2> HIDE DEF c
  <2>9. /\ IsTable(u) /\ u.slots = c /\ u.cap = w.cap /\ u.count = t.count + 1
        /\ u.failed = w.failed
    BY Fields
  <2> HIDE DEF u
  <2>10. TableSound(u)
    BY <1>3, <2>1, <2>2, <2>7, <2>8, <2>9 DEF TableSound
  <2>11. u.failed = FALSE
    BY <1>3, <2>1, <2>9
  <2> QED BY <1>3, <2>1, <2>4, <2>8, <2>9, <2>10, <2>11
<1> QED BY <1>1, <1>2, <1>3

-----------------------------------------------------------------------------
(* The list                                                                *)

\* The first record of a name in a list l.
NamedIn(l, n) == {i \in DOMAIN l : NameOf(l[i]) = n}
FirstIn(l, n) == IF NamedIn(l, n) = {} THEN Null ELSE l[First(NamedIn(l, n))]

LEMMA FirstInAt ==
  ASSUME NEW l \in Seq(Recs), NEW n, NEW i \in 1 .. Len(l), NameOf(l[i]) = n,
         \A j \in 1 .. i - 1 : NameOf(l[j]) # n
  PROVE  FirstIn(l, n) = l[i]
<1> DEFINE S == NamedIn(l, n)
<1>1. i \in S /\ S \in SUBSET Nat
  BY DEF NamedIn
<1>2. \A j \in 0 .. i - 1 : j \notin S
  <2>1. \A j \in 0 .. i - 1 : j \in DOMAIN l => j \in 1 .. i - 1
    OBVIOUS
  <2> QED BY <2>1 DEF NamedIn
<1>3. First(S) = i
  <2> HIDE DEF S
  <2> QED BY <1>1, <1>2, FirstAt
<1> QED BY <1>1, <1>3 DEF FirstIn

LEMMA FirstInNone ==
  ASSUME NEW l \in Seq(Recs), NEW n, \A i \in 1 .. Len(l) : NameOf(l[i]) # n
  PROVE  FirstIn(l, n) = Null
BY DEF FirstIn, NamedIn

LEMMA FirstInIs ==
  ASSUME NEW l \in Seq(Recs), NEW n
  PROVE  \/ /\ FirstIn(l, n) = Null
            /\ \A i \in 1 .. Len(l) : NameOf(l[i]) # n
         \/ \E i \in 1 .. Len(l) :
              /\ FirstIn(l, n) = l[i] /\ l[i] \in Recs /\ NameOf(l[i]) = n
              /\ \A j \in 1 .. i - 1 : NameOf(l[j]) # n
<1> DEFINE S == NamedIn(l, n)
           i == First(S)
<1>1. CASE S = {}
  BY <1>1 DEF NamedIn, FirstIn
<1>2. CASE S # {}
  <2>1. S \in SUBSET Nat
    BY DEF NamedIn
  <2>2. i \in S /\ \A j \in S : i <= j
    <3> HIDE DEF S
    <3> QED BY <1>2, <2>1, FirstIs
  <2>3. FirstIn(l, n) = l[i]
    BY <1>2 DEF FirstIn
  <2> HIDE DEF i
  <2>4. i \in 1 .. Len(l) /\ NameOf(l[i]) = n
    BY <2>2 DEF NamedIn
  <2>5. \A j \in 1 .. i - 1 : NameOf(l[j]) # n
    <3> SUFFICES ASSUME NEW j \in 1 .. i - 1, NameOf(l[j]) = n PROVE FALSE
      OBVIOUS
    <3>1. j \in 1 .. Len(l) /\ ~(i <= j)
      BY <2>4
    <3>2. j \in S
      BY <3>1 DEF NamedIn
    <3> QED BY <2>2, <3>1, <3>2
  <2>6. l[i] \in Recs
    BY <2>4
  <2> QED BY <2>3, <2>4, <2>5, <2>6
<1> QED BY <1>1, <1>2

\* A record in front shadows those of its name and no other.
LEMMA InFront ==
  ASSUME NEW l \in Seq(Recs), NEW r \in Recs, NEW n
  PROVE  FirstIn(<<r>> \o l, n) = IF n = NameOf(r) THEN r ELSE FirstIn(l, n)
<1> DEFINE m == <<r>> \o l
<1>1. m \in Seq(Recs) /\ Len(m) = Len(l) + 1 /\ m[1] = r /\ \A j \in 1 .. Len(l) : m[j + 1] = l[j]
  OBVIOUS
<1> HIDE DEF m
<1>2. CASE n = NameOf(r)
  <2>1. 1 \in 1 .. Len(m) /\ \A j \in 1 .. 1 - 1 : NameOf(m[j]) # n
    BY <1>1
  <2>2. FirstIn(m, n) = m[1]
    BY <1>1, <1>2, <2>1, FirstInAt
  <2> QED BY <1>1, <1>2, <2>2 DEF m
<1>3. CASE n # NameOf(r)
  <2>1. CASE FirstIn(l, n) = Null /\ \A i \in 1 .. Len(l) : NameOf(l[i]) # n
    <3>1. \A i \in 1 .. Len(m) : NameOf(m[i]) # n
      <4> SUFFICES ASSUME NEW i \in 1 .. Len(m), i # 1 PROVE NameOf(m[i]) # n
        BY <1>1, <1>3
      <4>1. i - 1 \in 1 .. Len(l) /\ (i - 1) + 1 = i
        BY <1>1
      <4> QED BY <1>1, <2>1, <4>1
    <3> QED BY <1>1, <1>3, <2>1, <3>1, FirstInNone DEF m
  <2>2. ASSUME NEW i \in 1 .. Len(l), FirstIn(l, n) = l[i], NameOf(l[i]) = n,
               \A j \in 1 .. i - 1 : NameOf(l[j]) # n
        PROVE  FirstIn(m, n) = FirstIn(l, n)
    <3>1. i + 1 \in 1 .. Len(m) /\ m[i + 1] = l[i]
      BY <1>1
    <3>2. \A j \in 1 .. (i + 1) - 1 : NameOf(m[j]) # n
      <4> SUFFICES ASSUME NEW j \in 1 .. i, j # 1 PROVE NameOf(m[j]) # n
        BY <1>1, <1>3
      <4>1. j - 1 \in 1 .. i - 1 /\ j - 1 \in 1 .. Len(l) /\ (j - 1) + 1 = j
        OBVIOUS
      <4> QED BY <1>1, <2>2, <4>1
    <3>3. FirstIn(m, n) = m[i + 1]
      BY <1>1, <2>2, <3>1, <3>2, FirstInAt
    <3> QED BY <2>2, <3>1, <3>3
  <2> QED BY <1>3, <2>1, <2>2, FirstInIs DEF m
<1> QED BY <1>2, <1>3

\* The list without its i-th record.
Without(l, i) == SubSeq(l, 1, i - 1) \o SubSeq(l, i + 1, Len(l))

LEMMA WithoutIs ==
  ASSUME NEW l \in Seq(Recs), NEW i \in 1 .. Len(l)
  PROVE  /\ Without(l, i) \in Seq(Recs) /\ Len(Without(l, i)) = Len(l) - 1
         /\ \A j \in 1 .. Len(l) - 1 : Without(l, i)[j] = IF j < i THEN l[j] ELSE l[j + 1]
<1> DEFINE a == SubSeq(l, 1, i - 1)
           b == SubSeq(l, i + 1, Len(l))
<1>1. a \in Seq(Recs) /\ Len(a) = i - 1 /\ \A j \in 1 .. i - 1 : a[j] = l[j]
  OBVIOUS
<1>2. b \in Seq(Recs) /\ Len(b) = Len(l) - i /\ \A j \in 1 .. Len(l) - i : b[j] = l[i + j]
  OBVIOUS
<1> HIDE DEF a, b
<1>3. /\ a \o b \in Seq(Recs) /\ Len(a \o b) = Len(a) + Len(b)
      /\ \A j \in 1 .. Len(a) + Len(b) : (a \o b)[j] = IF j <= Len(a) THEN a[j] ELSE b[j - Len(a)]
  BY <1>1, <1>2, ConcatProperties
<1> DEFINE c == a \o b
<1> HIDE DEF c
<1>4. c \in Seq(Recs) /\ Len(c) = Len(l) - 1
  BY <1>1, <1>2, <1>3 DEF c
<1>5. ASSUME NEW j \in 1 .. Len(l) - 1
      PROVE  c[j] = IF j < i THEN l[j] ELSE l[j + 1]
  <2>1. c[j] = IF j <= i - 1 THEN a[j] ELSE b[j - (i - 1)]
    BY <1>1, <1>2, <1>3 DEF c
  <2>2. CASE j < i
    BY <1>1, <2>1, <2>2
  <2>3. CASE ~(j < i)
    <3>1. j - (i - 1) \in 1 .. Len(l) - i /\ i + (j - (i - 1)) = j + 1
      BY <2>3
    <3> QED BY <1>2, <2>1, <2>3, <3>1
  <2> QED BY <2>2, <2>3
<1> QED BY <1>4, <1>5 DEF Without, a, b, c

\* The others of a name than the i-th record.
Apart(l, i, n) == {j \in DOMAIN l : j # i /\ NameOf(l[j]) = n}

LEMMA FirstWithout ==
  ASSUME NEW l \in Seq(Recs), NEW i \in 1 .. Len(l), NEW n
  PROVE  /\ Apart(l, i, n) = {} => FirstIn(Without(l, i), n) = Null
         /\ Apart(l, i, n) # {} =>
              /\ First(Apart(l, i, n)) \in Apart(l, i, n)
              /\ FirstIn(Without(l, i), n) = l[First(Apart(l, i, n))]
<1> DEFINE m == Without(l, i)
           O == Apart(l, i, n)
<1>1. /\ m \in Seq(Recs) /\ Len(m) = Len(l) - 1 /\ Len(l) \in Nat
      /\ \A j \in 1 .. Len(l) - 1 : m[j] = IF j < i THEN l[j] ELSE l[j + 1]
  <2>1. m \in Seq(Recs) /\ Len(m) = Len(l) - 1
    BY WithoutIs
  <2>2. \A j \in 1 .. Len(l) - 1 : m[j] = IF j < i THEN l[j] ELSE l[j + 1]
    BY WithoutIs
  <2>3. Len(l) \in Nat
    OBVIOUS
  <2> QED BY <2>1, <2>2, <2>3
<1> HIDE DEF m
<1>2. \A j \in 1 .. Len(l) : j < i => j \in 1 .. Len(m) /\ m[j] = l[j]
  BY <1>1
<1>3. \A j \in 1 .. Len(l) : j > i => j - 1 \in 1 .. Len(m) /\ m[j - 1] = l[j]
  <2> SUFFICES ASSUME NEW j \in 1 .. Len(l), j > i
               PROVE  j - 1 \in 1 .. Len(m) /\ m[j - 1] = l[j]
    OBVIOUS
  <2>1. j - 1 \in 1 .. Len(l) - 1 /\ ~(j - 1 < i) /\ (j - 1) + 1 = j
    BY <1>1
  <2> QED BY <1>1, <2>1
<1>4. ASSUME FirstIn(m, n) = Null, \A k \in 1 .. Len(m) : NameOf(m[k]) # n
      PROVE  O = {}
  <2> SUFFICES ASSUME NEW j \in 1 .. Len(l), j # i, NameOf(l[j]) = n PROVE FALSE
    BY DEF Apart
  <2>1. j < i \/ j > i
    OBVIOUS
  <2> QED BY <1>2, <1>3, <1>4, <2>1
<1>5. ASSUME NEW k \in 1 .. Len(m), FirstIn(m, n) = m[k], NameOf(m[k]) = n,
             \A x \in 1 .. k - 1 : NameOf(m[x]) # n
      PROVE  First(O) \in O /\ FirstIn(m, n) = l[First(O)]
  <2> DEFINE up == IF k < i THEN k ELSE k + 1
  <2>1. up \in 1 .. Len(l) /\ up # i /\ m[k] = l[up]
    BY <1>1
  <2>2. \A x \in 1 .. up - 1 : x # i => NameOf(l[x]) # n
    <3> SUFFICES ASSUME NEW x \in 1 .. up - 1, x # i PROVE NameOf(l[x]) # n
      OBVIOUS
    <3>1. x \in 1 .. Len(l)
      BY <2>1
    <3>2. CASE x < i
      <4>1. x \in 1 .. k - 1
        BY <3>2
      <4> QED BY <1>2, <1>5, <3>1, <3>2, <4>1
    <3>3. CASE x > i
      <4>1. x - 1 \in 1 .. k - 1
        BY <3>3
      <4> QED BY <1>3, <1>5, <3>1, <3>3, <4>1
    <3> QED BY <3>2, <3>3
  <2> HIDE DEF up
  <2>3. up \in O
    BY <1>5, <2>1 DEF Apart
  <2>4. \A x \in 0 .. up - 1 : x \notin O
    <3>1. \A x \in 0 .. up - 1 : x \in DOMAIN l => x \in 1 .. up - 1
      BY <2>1
    <3> QED BY <2>2, <3>1 DEF Apart
  <2>5. O \in SUBSET Nat
    BY DEF Apart
  <2>6. First(O) = up
    <3> HIDE DEF O
    <3> QED BY <2>3, <2>4, <2>5, FirstAt
  <2> QED BY <1>5, <2>1, <2>3, <2>6
<1>6. ASSUME O = {} PROVE FirstIn(m, n) = Null
  BY <1>1, <1>5, <1>6, FirstInIs
<1>7. ASSUME O # {} PROVE First(O) \in O /\ FirstIn(m, n) = l[First(O)]
  <2> HIDE DEF O
  <2> QED BY <1>1, <1>4, <1>5, <1>7, FirstInIs
<1> QED BY <1>6, <1>7 DEF m

\* What the index is to hold: the first record of each name that is listed.
Due(l) == {FirstIn(l, n) : n \in Names} \ {Null}

\* All that is due has its name, and the name decides it.
LEMMA DueIs ==
  ASSUME NEW l \in Seq(Recs)
  PROVE  \A q : q \in Due(l) <=> /\ q \in Recs
                                 /\ FirstIn(l, NameOf(q)) = q
<1> SUFFICES ASSUME NEW q PROVE q \in Due(l) <=> q \in Recs /\ FirstIn(l, NameOf(q)) = q
  OBVIOUS
<1>1. ASSUME q \in Due(l) PROVE q \in Recs /\ FirstIn(l, NameOf(q)) = q
  <2>1. PICK n \in Names : q = FirstIn(l, n) /\ q # Null
    BY <1>1 DEF Due
  <2> QED BY <2>1, FirstInIs
<1>2. ASSUME q \in Recs, FirstIn(l, NameOf(q)) = q PROVE q \in Due(l)
  BY <1>2, RecordFacts DEF Due
<1> QED BY <1>1, <1>2

-----------------------------------------------------------------------------
(* The index and the list                                                  *)

Agree(t, l) ==
  /\ IsTable(t) /\ t.failed \in BOOLEAN /\ TableSound(t)
  /\ ~t.failed => Held(t.slots) = Due(l)

\* What is not held is not found, whatever the table.
LEMMA Finding ==
  ASSUME NEW t, NEW l \in Seq(Recs), Hashing, Agree(t, l), ~t.failed, NEW n \in Names
  PROVE  Find(t, n) = FirstIn(l, n)
<1>1. CASE FirstIn(l, n) # Null
  <2> DEFINE q == FirstIn(l, n)
  <2>1. q \in Recs /\ NameOf(q) = n
    BY <1>1, FirstInIs
  <2>2. q \in Held(t.slots)
    BY <1>1 DEF Agree, Due
  <2> HIDE DEF q
  <2>3. PICK s \in Used(t.slots) : t.slots[s] = q
    BY <2>2 DEF Held
  <2>4. t.cap # 0
    <3>1. t.count \in Nat \ {0}
      BY <2>2, RemoveFacts DEF Agree
    <3> QED BY <3>1 DEF Agree, TableSound
  <2>5. SoundBut(t.slots, t.cap, {}) /\ t.cap \in Nat /\ t.slots \in Tables(t.cap)
    BY <2>4, InUse DEF Agree
  <2>6. s \in 0 .. t.cap - 1 /\ t.slots[s] # Null
    BY <2>3, <2>5, UsedFinite
  <2> QED BY <2>1, <2>3, <2>5, <2>6, FindsHeld DEF q
<1>2. CASE FirstIn(l, n) = Null /\ t.cap # 0
  <2>1. SoundBut(t.slots, t.cap, {}) /\ t.cap \in Nat /\ t.slots \in Tables(t.cap)
    BY <1>2, InUse DEF Agree
  <2>2. PICK e \in 0 .. t.cap - 1 : t.slots[e] = Null
    BY <1>2, InUse DEF Agree
  <2>3. ASSUME NEW s \in 0 .. t.cap - 1, t.slots[s] # Null
        PROVE  NameOf(t.slots[s]) # n
    <3>1. s \in Used(t.slots)
      BY <2>1, <2>3, UsedFinite
    <3>2. t.slots[s] \in Due(l)
      BY <3>1 DEF Agree, Held
    <3> QED BY <1>2, <2>3, <3>2, DueIs
  <2> QED BY <1>2, <2>1, <2>2, <2>3, FindsNothing
<1>3. CASE FirstIn(l, n) = Null /\ t.cap = 0
  BY <1>3 DEF Find
<1> QED BY <1>1, <1>2, <1>3

\* A failed index finds nothing and changes no more.
LEMMA FailedStays ==
  ASSUME NEW t, TableSound(t), t.failed
  PROVE  /\ \A n : Find(t, n) = Null
         /\ \A r, oom : Insert(t, r, oom) = t
         /\ \A r : Remove(t, r) = t
<1>1. t.cap = 0
  <2>1. t = [NoTable EXCEPT !.failed = t.failed]
    BY DEF TableSound
  <2>2. Table(<<>>, 0, 0, t.failed).cap = 0
    BY DEF Table
  <2> QED BY <2>1, <2>2, NoTableIs
<1> QED BY <1>1 DEF Find, Insert, Remove

\* A record of a name the list does not have goes in front.
LEMMA InsertAgrees ==
  ASSUME NEW t, NEW l \in Seq(Recs), Hashing, Agree(t, l), NEW r \in Recs, NEW oom \in BOOLEAN,
         FirstIn(l, NameOf(r)) = Null
  PROVE  Agree(Insert(t, r, oom), <<r>> \o l)
<1> DEFINE u == Insert(t, r, oom)
           m == <<r>> \o l
<1>1. CASE t.failed
  BY <1>1, FailedStays DEF Agree
<1>2. CASE ~t.failed
  <2>1. \A q \in Held(t.slots) : NameOf(q) # NameOf(r)
    BY <1>2, DueIs, RecordFacts DEF Agree
  <2>2. /\ IsTable(u) /\ TableSound(u) /\ u.failed \in BOOLEAN
        /\ ~u.failed => Held(u.slots) = Held(t.slots) \cup {r}
    BY <2>1, InsertFacts DEF Agree
  <2>3. m \in Seq(Recs)
    OBVIOUS
  <2>4. \A q : q \in Due(m) <=> q \in Recs /\ FirstIn(m, NameOf(q)) = q
    <3> HIDE DEF m
    <3> QED BY <2>3, DueIs
  <2>5. \A n : FirstIn(m, n) = IF n = NameOf(r) THEN r ELSE FirstIn(l, n)
    BY InFront
  <2>6. \A q : q \in Due(l) <=> q \in Recs /\ FirstIn(l, NameOf(q)) = q
    BY DueIs
  <2> HIDE DEF m, u
  <2>7. Due(m) = Due(l) \cup {r}
    BY <2>4, <2>5, <2>6, RecordFacts
  <2>8. Agree(u, m)
    BY <1>2, <2>2, <2>7 DEF Agree
  <2> QED BY <2>8 DEF m, u
<1> QED BY <1>1, <1>2

\* A record in front takes the place of the one it shadows.
LEMMA LinkAgrees ==
  ASSUME NEW t, NEW l \in Seq(Recs), Hashing, Agree(t, l), NEW r \in Recs, NEW oom \in BOOLEAN
  PROVE  Agree(Linked(t, r, oom), <<r>> \o l)
<1> DEFINE n == NameOf(r)
           u == Linked(t, r, oom)
           m == <<r>> \o l
<1>1. n \in Names
  BY RecordFacts
<1>2. CASE t.failed
  <2>1. Linked(t, r, oom) = t
    BY <1>2, FailedStays DEF Agree, Linked
  <2> QED BY <1>2, <2>1 DEF Agree
<1>3. CASE ~t.failed /\ FirstIn(l, n) = Null
  <2>1. Linked(t, r, oom) = Insert(t, r, oom)
    BY <1>1, <1>3, Finding DEF Linked
  <2> QED BY <1>3, <2>1, InsertAgrees
<1>4. CASE ~t.failed /\ FirstIn(l, n) # Null
  <2> DEFINE q == FirstIn(l, n)
             v == Remove(t, q)
  <2>1. q \in Recs /\ NameOf(q) = n /\ q \in Due(l)
    <3>1. q \in Recs /\ NameOf(q) = n
      BY <1>4, FirstInIs
    <3> QED BY <3>1, DueIs
  <2>2. u = Insert(v, r, oom)
    BY <1>1, <1>4, Finding DEF Linked
  <2>3. \A x : x \in Due(l) <=> x \in Recs /\ FirstIn(l, NameOf(x)) = x
    BY DueIs
  <2>4. q \in Held(t.slots) /\ Held(t.slots) = Due(l)
    BY <1>4, <2>1 DEF Agree
  <2> HIDE DEF q, n
  <2>5. IsTable(v) /\ TableSound(v) /\ Held(v.slots) = Due(l) \ {q} /\ v.failed = t.failed
    <3>1. IsTable(t) /\ TableSound(t)
      BY DEF Agree
    <3>2. /\ IsTable(Remove(t, q)) /\ TableSound(Remove(t, q))
          /\ Held(Remove(t, q).slots) = Held(t.slots) \ {q}
          /\ Remove(t, q).failed = t.failed
      BY <2>4, <3>1, RemoveFacts
    <3> QED BY <2>4, <3>2
  <2>6. \A x \in Held(v.slots) : NameOf(x) # n
    BY <2>3, <2>5 DEF q
  <2>7. v.failed = FALSE
    BY <1>4, <2>5 DEF Agree
  <2> HIDE DEF v
  <2>8. /\ IsTable(u) /\ TableSound(u) /\ u.failed \in BOOLEAN
        /\ ~u.failed => Held(u.slots) = Held(v.slots) \cup {r}
    <3>1. v.failed \in BOOLEAN /\ \A x \in Held(v.slots) : NameOf(x) # NameOf(r)
      BY <2>6, <2>7 DEF n
    <3> DEFINE w == Insert(v, r, oom)
    <3>2. /\ IsTable(w) /\ TableSound(w) /\ w.failed \in BOOLEAN
          /\ ~w.failed => Held(w.slots) = Held(v.slots) \cup {r}
      BY <2>5, <3>1, InsertFacts
    <3> HIDE DEF w, u
    <3> QED BY <2>2, <3>2 DEF w
  <2>9. m \in Seq(Recs)
    OBVIOUS
  <2>10. \A x : x \in Due(m) <=> x \in Recs /\ FirstIn(m, NameOf(x)) = x
    <3> HIDE DEF m
    <3> QED BY <2>9, DueIs
  <2>11. \A x : FirstIn(m, x) = IF x = n THEN r ELSE FirstIn(l, x)
    BY InFront DEF n
  <2> HIDE DEF m, u
  <2>12. Due(m) = (Due(l) \ {q}) \cup {r}
    BY <2>1, <2>3, <2>10, <2>11 DEF n, q
  <2>13. Agree(u, m)
    BY <2>5, <2>8, <2>12 DEF Agree
  <2> QED BY <2>13 DEF m, u
<1> QED BY <1>2, <1>3, <1>4

\* A record that leaves the list matters to no name it did not answer to.
LEMMA OthersStay ==
  ASSUME NEW l \in Seq(Recs), NEW i \in 1 .. Len(l), NEW n, FirstIn(l, n) # l[i]
  PROVE  FirstIn(Without(l, i), n) = FirstIn(l, n)
<1> DEFINE O == Apart(l, i, n)
<1>1. CASE FirstIn(l, n) = Null /\ \A k \in 1 .. Len(l) : NameOf(l[k]) # n
  <2>1. O = {}
    BY <1>1 DEF Apart
  <2> QED BY <1>1, <2>1, FirstWithout
<1>2. ASSUME NEW k \in 1 .. Len(l), FirstIn(l, n) = l[k], NameOf(l[k]) = n,
             \A j \in 1 .. k - 1 : NameOf(l[j]) # n
      PROVE  FirstIn(Without(l, i), n) = FirstIn(l, n)
  <2>1. k \in O
    BY <1>2 DEF Apart
  <2>2. \A j \in 0 .. k - 1 : j \notin O
    <3>1. \A j \in 0 .. k - 1 : j \in DOMAIN l => j \in 1 .. k - 1
      OBVIOUS
    <3> QED BY <1>2, <3>1 DEF Apart
  <2>3. O \in SUBSET Nat
    BY DEF Apart
  <2>4. First(O) = k
    <3> HIDE DEF O
    <3> QED BY <2>1, <2>2, <2>3, FirstAt
  <2> QED BY <1>2, <2>1, <2>4, FirstWithout
<1> QED BY <1>1, <1>2, FirstInIs

LEMMA OtherNames ==
  ASSUME NEW l \in Seq(Recs), NEW i \in 1 .. Len(l)
  PROVE  \A n : n # NameOf(l[i]) => FirstIn(Without(l, i), n) = FirstIn(l, n)
<1> SUFFICES ASSUME NEW n, n # NameOf(l[i]) PROVE FirstIn(l, n) # l[i]
  BY OthersStay
<1>1. l[i] \in Recs
  OBVIOUS
<1> QED BY <1>1, FirstInIs, RecordFacts

\* The last of a name leaves the list and the index.
LEMMA RemoveAgrees ==
  ASSUME NEW t, NEW l \in Seq(Recs), Hashing, Agree(t, l), NEW i \in 1 .. Len(l),
         Apart(l, i, NameOf(l[i])) = {}
  PROVE  Agree(Remove(t, l[i]), Without(l, i))
<1> DEFINE r == l[i]
           n == NameOf(r)
           m == Without(l, i)
           u == Remove(t, r)
<1>1. CASE t.failed
  BY <1>1, FailedStays DEF Agree
<1>2. CASE ~t.failed
  <2>1. r \in Recs
    OBVIOUS
  <2>2. FirstIn(l, n) = r
    <3>1. \A j \in 1 .. i - 1 : NameOf(l[j]) # n
      BY DEF Apart
    <3> QED BY <3>1, FirstInAt
  <2>3. FirstIn(m, n) = Null
    BY FirstWithout
  <2>4. \A x : x # n => FirstIn(m, x) = FirstIn(l, x)
    BY OtherNames
  <2>5. m \in Seq(Recs)
    BY WithoutIs
  <2> HIDE DEF m, n, r
  <2>6. \A x : x \in Due(m) <=> x \in Recs /\ FirstIn(m, NameOf(x)) = x
    BY <2>5, DueIs
  <2>7. \A x : x \in Due(l) <=> x \in Recs /\ FirstIn(l, NameOf(x)) = x
    BY DueIs
  <2>8. Due(m) = Due(l) \ {r} /\ r \in Due(l)
    BY <2>1, <2>2, <2>3, <2>4, <2>6, <2>7, RecordFacts DEF n
  <2>9. IsTable(t) /\ TableSound(t) /\ Held(t.slots) = Due(l) /\ t.failed \in BOOLEAN
    BY <1>2 DEF Agree
  <2>10. IsTable(u) /\ TableSound(u) /\ Held(u.slots) = Due(l) \ {r} /\ u.failed = t.failed
    BY <2>8, <2>9, RemoveFacts
  <2> HIDE DEF u
  <2>11. Agree(u, m)
    BY <2>8, <2>9, <2>10 DEF Agree
  <2> QED BY <2>11 DEF u, m, r
<1> QED BY <1>1, <1>2

\* A record leaves the list, and its name goes to the next.
LEMMA UnlinkAgrees ==
  ASSUME NEW t, list \in Seq(Recs), Hashing, Agree(t, list), NEW i \in 1 .. Len(list),
         \A j \in 1 .. Len(list) : list[i] = list[j] => i = j
  PROVE  Agree(Unlinked(t, list[i]), Without(list, i))
<1> DEFINE r == list[i]
           n == NameOf(r)
           m == Without(list, i)
           O == Apart(list, i, n)
           u == Unlinked(t, r)
<1>1. r \in Recs /\ n \in Names /\ r # Null
  BY RecordFacts
<1>2. Others(r) = O
  BY DEF Others, Apart
<1>3. m \in Seq(Recs)
  BY WithoutIs
<1>4. \A x : x # n => FirstIn(m, x) = FirstIn(list, x)
  BY OtherNames
<1>5. CASE t.failed
  <2>1. Find(t, n) = Null
    BY <1>5, FailedStays DEF Agree
  <2>2. u = t
    BY <1>1, <2>1 DEF Unlinked
  <2> QED BY <1>5, <2>2 DEF Agree
<1>6. CASE ~t.failed /\ FirstIn(list, n) # r
  <2>1. Find(t, n) # r
    BY <1>1, <1>6, Finding
  <2>2. u = t
    BY <2>1 DEF Unlinked
  <2>3. FirstIn(m, n) = FirstIn(list, n)
    BY <1>6, OthersStay
  <2>4. Due(m) = Due(list)
    <3> HIDE DEF m, n
    <3> QED BY <1>4, <2>3 DEF Due
  <2> QED BY <2>2, <2>4 DEF Agree
<1>7. CASE ~t.failed /\ FirstIn(list, n) = r /\ O = {}
  <2>1. Find(t, n) = r
    BY <1>1, <1>7, Finding
  <2>2. u = Remove(t, r)
    BY <1>2, <1>7, <2>1 DEF Unlinked
  <2> QED BY <1>7, <2>2, RemoveAgrees
<1>8. CASE ~t.failed /\ FirstIn(list, n) = r /\ O # {}
  <2> DEFINE q == list[First(O)]
             v == Remove(t, r)
  <2>1. First(O) \in O /\ FirstIn(m, n) = q
    BY <1>8, FirstWithout
  <2>2. q \in Recs /\ NameOf(q) = n /\ q # r
    <3> HIDE DEF O, q
    <3>1. First(O) \in 1 .. Len(list) /\ First(O) # i /\ NameOf(q) = n
      BY <2>1 DEF Apart, O, q
    <3> QED BY <3>1 DEF q
  <2>3. u = Insert(v, q, FALSE)
    <3>1. Find(t, n) = r
      BY <1>1, <1>8, Finding
    <3> QED BY <1>2, <1>8, <3>1 DEF Unlinked
  <2> HIDE DEF m, n, r, q, O, u
  <2>4. \A x : x \in Due(m) <=> x \in Recs /\ FirstIn(m, NameOf(x)) = x
    BY <1>3, DueIs
  <2>5. \A x : x \in Due(list) <=> x \in Recs /\ FirstIn(list, NameOf(x)) = x
    BY DueIs
  <2>6. Due(m) = (Due(list) \ {r}) \cup {q} /\ r \in Due(list)
    BY <1>1, <1>4, <1>8, <2>1, <2>2, <2>4, <2>5 DEF n
  <2>7. IsTable(t) /\ TableSound(t) /\ Held(t.slots) = Due(list) /\ t.failed \in BOOLEAN
    BY <1>8 DEF Agree
  <2>8. IsTable(v) /\ TableSound(v) /\ Held(v.slots) = Due(list) \ {r} /\ v.failed = t.failed
    <3>1. r \in Held(t.slots)
      BY <2>6, <2>7
    <3>2. /\ IsTable(v) /\ TableSound(v)
          /\ Held(v.slots) = Held(t.slots) \ {r} /\ v.failed = t.failed
      BY <2>7, <3>1, RemoveFacts
    <3> HIDE DEF v
    <3> QED BY <2>7, <3>2
  <2>9. \A x \in Held(v.slots) : NameOf(x) # NameOf(q)
    <3> SUFFICES ASSUME NEW x \in Held(v.slots), NameOf(x) = n PROVE FALSE
      BY <2>2
    <3>1. x \in Due(list) /\ x # r
      BY <2>8
    <3>2. FirstIn(list, n) = x
      BY <2>5, <3>1
    <3> QED BY <1>8, <3>1, <3>2
  <2> HIDE DEF v
  <2> DEFINE w == Insert(v, q, FALSE)
  <2>10. /\ IsTable(w) /\ TableSound(w) /\ w.failed \in BOOLEAN
         /\ ~w.failed => Held(w.slots) = Held(v.slots) \cup {q}
    BY <2>2, <2>7, <2>8, <2>9, InsertFacts
  <2> HIDE DEF w
  <2>11. Agree(w, m)
    BY <2>6, <2>8, <2>10 DEF Agree
  <2> QED BY <2>3, <2>11 DEF m, r, u, w
<1> QED BY <1>5, <1>6, <1>7, <1>8

-----------------------------------------------------------------------------
(* The invariant                                                           *)

\* IInv in terms of a table and a list.
Sound(k, t, l) ==
  /\ k \in {"newest", "unique"} /\ Hashing /\ Agree(t, l)
  /\ l \in Seq(Recs) /\ \A i, j \in 1 .. Len(l) : l[i] = l[j] => i = j
  /\ k = "unique" => \A i, j \in 1 .. Len(l) : NameOf(l[i]) = NameOf(l[j]) => i = j

LEMMA FirstListedIs == \A n : FirstListed(n) = FirstIn(list, n)
BY DEF FirstListed, OfName, FirstIn, NamedIn

LEMMA CapType ==
  ASSUME NEW t, TableSound(t)
  PROVE  t.cap \in Nat /\ t.count \in Nat
<1>1. CASE t.cap = 0
  BY <1>1 DEF TableSound
<1>2. CASE t.cap # 0
  BY <1>2, InUse DEF TableSound
<1> QED BY <1>1, <1>2

LEMMA IInvSound == IInv => Sound(kind, tab, list)
<1> SUFFICES ASSUME IInv PROVE Sound(kind, tab, list)
  OBVIOUS
<1>1. IsTable(tab) /\ tab.failed \in BOOLEAN
  <2>1. tab \in [slots : {tab.slots}, cap : Nat, count : Nat, failed : BOOLEAN]
    BY DEF IInv
  <2> QED BY <2>1 DEF IsTable, Table
<1>2. {FirstListed(n) : n \in Names} \ {Null} = Due(list)
  BY FirstListedIs DEF Due
<1>3. Agree(tab, list)
  BY <1>1, <1>2 DEF IInv, Agree
<1>4. list \in Seq(Recs) /\ DOMAIN list = 1 .. Len(list)
  BY DEF IInv, ListSound
<1> QED BY <1>3, <1>4 DEF Sound, IInv, ListSound, Hashing

LEMMA SoundIInv ==
  ASSUME kind' = kind, hash' = hash, Sound(kind, tab', list')
  PROVE  IInv'
<1>1. IsTable(tab') /\ tab'.failed \in BOOLEAN /\ tab'.cap \in Nat /\ tab'.count \in Nat
  BY CapType DEF Sound, Agree
<1>2. tab' \in [slots : {tab'.slots}, cap : Nat, count : Nat, failed : BOOLEAN]
  <2> DEFINE u == tab'
  <2>1. u = Table(u.slots, u.cap, u.count, u.failed)
    BY <1>1 DEF IsTable
  <2>2. Table(u.slots, u.cap, u.count, u.failed)
          \in [slots : {u.slots}, cap : Nat, count : Nat, failed : BOOLEAN]
    BY <1>1 DEF Table
  <2> HIDE DEF u
  <2>3. u \in [slots : {u.slots}, cap : Nat, count : Nat, failed : BOOLEAN]
    BY <2>1, <2>2
  <2> QED BY <2>3 DEF u
<1>3. SoundBut(tab.slots, tab.cap, {})' <=> SoundBut(tab'.slots, tab'.cap, {})
  BY DEF SoundBut, Reached, Probe
<1>4. TableSound(tab)'
  <2>1. TableSound(tab')
    BY DEF Sound, Agree
  <2> QED BY <1>3, <2>1 DEF TableSound, Used
<1>5. list' \in Seq(Recs) /\ DOMAIN list' = 1 .. Len(list')
  BY DEF Sound
<1>6. ListSound'
  BY <1>5 DEF Sound, ListSound
<1>7. {FirstListed(n)' : n \in Names} \ {Null} = Due(list')
  BY DEF Due, FirstListed, OfName, FirstIn, NamedIn
<1>8. (~tab.failed => Held(tab.slots) = {FirstListed(n) : n \in Names} \ {Null})'
  BY <1>7 DEF Sound, Agree, Held, Used
<1>9. kind' \in {"newest", "unique"} /\ hash' \in [Names -> Hashes]
  BY DEF Sound, Hashing
<1> QED BY <1>2, <1>4, <1>6, <1>8, <1>9 DEF IInv

\* Nothing is listed and there is no table.
LEMMA NothingAgrees == Agree(NoTable, <<>>)
<1>1. NoTable = Table(<<>>, 0, 0, FALSE)
  BY DEF NoTable, Table
<1> DEFINE u == Table(<<>>, 0, 0, FALSE)
<1>2. IsTable(u) /\ TableSound(u)
  BY Fields, NoTableSound
<1>3. u.failed = FALSE /\ u.slots = <<>>
  BY DEF Table
<1>4. Due(<<>>) = {}
  <2>1. <<>> \in Seq(Recs) /\ \A n : \A i \in 1 .. Len(<<>>) : NameOf(<<>>[i]) # n
    OBVIOUS
  <2>2. \A n : FirstIn(<<>>, n) = Null
    BY <2>1, FirstInNone
  <2> QED BY <2>2 DEF Due
<1> HIDE DEF u
<1>5. Agree(u, <<>>)
  BY <1>2, <1>3, <1>4, NoneUsed DEF Agree
<1> QED BY <1>1, <1>5 DEF u

LEMMA AddedSound ==
  ASSUME NEW k, NEW t, NEW u, NEW l, Sound(k, t, l), NEW r \in Recs,
         \A i \in 1 .. Len(l) : l[i] # r,
         k = "unique" => FirstIn(l, NameOf(r)) = Null,
         Agree(u, <<r>> \o l)
  PROVE  Sound(k, u, <<r>> \o l)
<1> DEFINE m == <<r>> \o l
<1>1. l \in Seq(Recs)
  BY DEF Sound
<1>2. m \in Seq(Recs) /\ Len(m) = Len(l) + 1 /\ m[1] = r /\ Len(l) \in Nat
        /\ \A j \in 2 .. Len(l) + 1 : m[j] = l[j - 1] /\ j - 1 \in 1 .. Len(l)
  BY <1>1
<1> HIDE DEF m
<1>3. \A i \in 1 .. Len(m) : i = 1 \/ i \in 2 .. Len(l) + 1
  BY <1>2
<1>4. ASSUME NEW i \in 1 .. Len(m), NEW j \in 1 .. Len(m), m[i] = m[j]
      PROVE  i = j
  <2>1. CASE i = 1 /\ j = 1
    BY <2>1
  <2>2. CASE i = 1 /\ j # 1
    BY <1>2, <1>3, <1>4, <2>2
  <2>3. CASE i # 1 /\ j = 1
    BY <1>2, <1>3, <1>4, <2>3
  <2>4. CASE i # 1 /\ j # 1
    <3>1. i - 1 = j - 1
      BY <1>2, <1>3, <1>4, <2>4 DEF Sound
    <3> QED BY <1>2, <3>1
  <2> QED BY <2>1, <2>2, <2>3, <2>4
<1>5. ASSUME k = "unique", NEW i \in 1 .. Len(m), NEW j \in 1 .. Len(m), NameOf(m[i]) = NameOf(m[j])
      PROVE  i = j
  <2>0. \A x \in 1 .. Len(l) : NameOf(l[x]) # NameOf(r)
    <3>1. \A x \in 1 .. Len(l) : l[x] \in Recs
      BY <1>1
    <3> QED BY <1>1, <1>5, <3>1, FirstInIs, RecordFacts
  <2>1. CASE i = 1 /\ j = 1
    BY <2>1
  <2>2. CASE i = 1 /\ j # 1
    BY <1>2, <1>3, <1>5, <2>0, <2>2
  <2>3. CASE i # 1 /\ j = 1
    BY <1>2, <1>3, <1>5, <2>0, <2>3
  <2>4. CASE i # 1 /\ j # 1
    <3>1. \A x, y \in 1 .. Len(l) : NameOf(l[x]) = NameOf(l[y]) => x = y
      BY <1>5 DEF Sound
    <3>2. i \in 2 .. Len(l) + 1 /\ j \in 2 .. Len(l) + 1
      BY <1>3, <2>4
    <3>3. /\ i - 1 \in 1 .. Len(l) /\ m[i] = l[i - 1]
          /\ j - 1 \in 1 .. Len(l) /\ m[j] = l[j - 1]
      BY <1>2, <3>2
    <3>4. i - 1 = j - 1
      BY <1>5, <3>1, <3>3
    <3> QED BY <1>2, <3>4
  <2> QED BY <2>1, <2>2, <2>3, <2>4
<1>6. Agree(u, m) /\ k \in {"newest", "unique"} /\ Hashing
  BY DEF Sound, m
<1>7. Sound(k, u, m)
  BY <1>2, <1>4, <1>5, <1>6 DEF Sound
<1> QED BY <1>7 DEF m

LEMMA TakenSound ==
  ASSUME NEW k, NEW t, NEW u, NEW l, Sound(k, t, l), NEW i \in 1 .. Len(l),
         Agree(u, Without(l, i))
  PROVE  Sound(k, u, Without(l, i))
<1> DEFINE m == Without(l, i)
           up(j) == IF j < i THEN j ELSE j + 1
<1>1. l \in Seq(Recs)
  BY DEF Sound
<1>2. /\ m \in Seq(Recs) /\ Len(m) = Len(l) - 1 /\ Len(l) \in Nat
      /\ \A j \in 1 .. Len(l) - 1 : m[j] = IF j < i THEN l[j] ELSE l[j + 1]
  BY <1>1, WithoutIs
<1> HIDE DEF m
<1>3. \A j \in 1 .. Len(m) : up(j) \in 1 .. Len(l) /\ m[j] = l[up(j)]
  BY <1>2
<1>4. \A j, x \in 1 .. Len(m) : up(j) = up(x) => j = x
  BY <1>2
<1> HIDE DEF up
<1>5. \A j, x \in 1 .. Len(m) : m[j] = m[x] => j = x
  BY <1>3, <1>4 DEF Sound
<1>6. k = "unique" => \A j, x \in 1 .. Len(m) : NameOf(m[j]) = NameOf(m[x]) => j = x
  BY <1>3, <1>4 DEF Sound
<1>7. Agree(u, m) /\ k \in {"newest", "unique"} /\ Hashing
  BY DEF Sound, m
<1>8. Sound(k, u, m)
  BY <1>2, <1>5, <1>6, <1>7 DEF Sound
<1> QED BY <1>8 DEF m

LEMMA InitSound == Init => IInv
<1> SUFFICES ASSUME Init PROVE IInv
  OBVIOUS
<1>1. Agree(tab, list)
  BY NothingAgrees DEF Init
<1>2. \A n : FirstListed(n) = FirstIn(list, n)
  BY FirstListedIs
<1>3. {FirstListed(n) : n \in Names} \ {Null} = Due(list)
  BY <1>2 DEF Due
<1>4. TableSound(tab) /\ (~tab.failed => Held(tab.slots) = {FirstListed(n) : n \in Names} \ {Null})
  BY <1>1, <1>3 DEF Agree
<1>5. tab \in [slots : {tab.slots}, cap : Nat, count : Nat, failed : BOOLEAN]
  BY DEF Init, NoTable
<1>6. ListSound
  BY DEF Init, ListSound
<1>7. kind \in {"newest", "unique"} /\ hash \in [Names -> Hashes]
  BY DEF Init
<1> QED BY <1>4, <1>5, <1>6, <1>7 DEF IInv

\* Every operation keeps the index in step with the list.
LEMMA NextSound == IInv /\ [Next]_vars => IInv'
<1> SUFFICES ASSUME IInv, [Next]_vars PROVE IInv'
  OBVIOUS
<1> USE DEF Listed, Unlisted
<1>1. Sound(kind, tab, list)
  BY IInvSound
<1>2. list \in Seq(Recs) /\ Hashing /\ Agree(tab, list) /\ DOMAIN list = 1 .. Len(list)
  BY <1>1 DEF Sound
<1>3. ASSUME NEW r \in Recs, NEW oom \in BOOLEAN, Register(r, oom)
      PROVE  IInv'
  <2>1. list' = <<r>> \o list /\ tab' = Linked(tab, r, oom) /\ kind' = kind /\ hash' = hash
    BY <1>3 DEF Register, Added
  <2>2. (\A i \in 1 .. Len(list) : list[i] # r) /\ kind # "unique"
    BY <1>3 DEF Register
  <2>3. Agree(tab', list')
    BY <1>2, <2>1, LinkAgrees
  <2>4. Sound(kind, tab', list')
    BY <1>1, <2>1, <2>2, <2>3, AddedSound
  <2> QED BY <2>1, <2>4, SoundIInv
<1>4. ASSUME NEW r \in Recs, NEW oom \in BOOLEAN, RegisterOnce(r, oom)
      PROVE  IInv'
  <2>1. list' = <<r>> \o list /\ tab' = Insert(tab, r, oom) /\ kind' = kind /\ hash' = hash
    BY <1>4 DEF RegisterOnce, Added
  <2>2. \A i \in 1 .. Len(list) : list[i] # r
    BY <1>4 DEF RegisterOnce
  <2>3. FirstIn(list, NameOf(r)) = Null
    <3>1. Lookup(NameOf(r)) = Null /\ NameOf(r) \in Names
      BY <1>4, RecordFacts DEF RegisterOnce
    <3>2. CASE tab.failed
      BY <3>1, <3>2, FirstListedIs DEF Lookup
    <3>3. CASE ~tab.failed
      BY <1>2, <3>1, <3>3, Finding DEF Lookup
    <3> QED BY <3>2, <3>3
  <2>4. Agree(tab', list')
    BY <1>2, <2>1, <2>3, InsertAgrees
  <2>5. Sound(kind, tab', list')
    BY <1>1, <2>1, <2>2, <2>3, <2>4, AddedSound
  <2> QED BY <2>1, <2>5, SoundIInv
<1>5. ASSUME NEW r \in Recs, Unregister(r)
      PROVE  IInv'
  <2>1. tab' = Unlinked(tab, r) /\ kind' = kind /\ hash' = hash
    BY <1>5 DEF Unregister
  <2>2. PICK i \in 1 .. Len(list) : list[i] = r /\ list' = Without(list, i)
    BY <1>2, <1>5 DEF Unregister, Taken, Without
  <2>3. \A j \in 1 .. Len(list) : list[i] = list[j] => i = j
    BY <1>1 DEF Sound
  <2>4. Agree(tab', list')
    BY <1>2, <2>1, <2>2, <2>3, UnlinkAgrees
  <2>5. Sound(kind, tab', list')
    BY <1>1, <2>2, <2>4, TakenSound
  <2> QED BY <2>1, <2>5, SoundIInv
<1>6. ASSUME NEW r \in Recs, UnregisterOnce(r)
      PROVE  IInv'
  <2>1. tab' = Remove(tab, r) /\ kind' = kind /\ hash' = hash /\ kind = "unique"
    BY <1>6 DEF UnregisterOnce
  <2>2. PICK i \in 1 .. Len(list) : list[i] = r /\ list' = Without(list, i)
    BY <1>2, <1>6 DEF UnregisterOnce, Taken, Without
  <2>3. Apart(list, i, NameOf(list[i])) = {}
    BY <1>1, <1>2, <2>1 DEF Apart, Sound
  <2>4. Agree(tab', list')
    BY <1>2, <2>1, <2>2, <2>3, RemoveAgrees
  <2>5. Sound(kind, tab', list')
    BY <1>1, <2>2, <2>4, TakenSound
  <2> QED BY <2>1, <2>5, SoundIInv
<1>7. CASE Clear
  <2>1. list' = <<>> /\ tab' = NoTable /\ kind' = kind /\ hash' = hash
    BY <1>7 DEF Clear
  <2>2. Agree(tab', list')
    BY <2>1, NothingAgrees
  <2>3. Sound(kind, tab', list')
    BY <1>1, <2>1, <2>2 DEF Sound
  <2> QED BY <2>1, <2>3, SoundIInv
<1>8. CASE UNCHANGED vars
  <2>1. list' = list /\ tab' = tab /\ kind' = kind /\ hash' = hash
    BY <1>8 DEF vars
  <2> QED BY <1>1, <2>1, SoundIInv
<1> QED BY <1>3, <1>4, <1>5, <1>6, <1>7, <1>8 DEF Next

\* The index answers every lookup as the walk of its list would, after any sequence of
\* registrations, removals and clearings: for every set of names and hashes, every number
\* of records and every first size of the table of at least two slots.
THEOREM LookupAlwaysRight == Spec => []FindsFirstListed
<1>1. IInv => FindsFirstListed
  <2> SUFFICES ASSUME IInv PROVE FindsFirstListed
    OBVIOUS
  <2>1. Sound(kind, tab, list)
    BY IInvSound
  <2>2. list \in Seq(Recs) /\ Hashing /\ Agree(tab, list)
    BY <2>1 DEF Sound
  <2>3. \A n \in Names : ~tab.failed => Find(tab, n) = FirstListed(n)
    BY <2>2, Finding, FirstListedIs
  <2>4. ProbesEnd
    BY DEF IInv, TableSound, Used, ProbesEnd
  <2> QED BY <2>3, <2>4 DEF FindsFirstListed
<1> QED BY <1>1, InitSound, NextSound, PTL DEF Spec

-----------------------------------------------------------------------------
(* Packs: a scan, file by file.                                            *)

Packs == UNION {{PackOf(Dirs[d][k]) : k \in {x \in Places(d) :
                   Dirs[d][x].whole /\ Dirs[d][x].root = "translations"}} : d \in DOMAIN Dirs}

LibSound(l) ==
  /\ l = [comps |-> l.comps, subjects |-> l.subjects, packs |-> l.packs, prefix |-> l.prefix]
  /\ l.packs \in Seq(Packs) /\ l.prefix \notin Missing

LEMMA ScanRun ==
  ASSUME NEW l, NEW d, NEW n \in Nat, NEW unread
  PROVE  \E f : /\ f[0] = [l EXCEPT !.prefix = d]
                /\ \A i \in 1 .. n : f[i] = IF i \in unread THEN f[i - 1]
                                            ELSE load_from_path(f[i - 1], Dirs[d][i])
                /\ Scanned(l, d, n, unread) = f[n]
<1> DEFINE first == [l EXCEPT !.prefix = d]
           Turn(i, x) == IF i \in unread THEN x ELSE load_from_path(x, Dirs[d][i])
           Up(k, f) == f = [i \in 0 .. k |-> IF i = 0 THEN first ELSE Turn(i, f[i - 1])]
           S == {k \in 0 .. n : \E f : Up(k, f)}
<1>1. 0 \in S
  <2> HIDE DEF first
  <2>1. Up(0, [i \in 0 .. 0 |-> first])
    OBVIOUS
  <2> HIDE DEF Up
  <2> QED BY <2>1
<1>2. ASSUME NEW k \in 1 .. n, k - 1 \in S
      PROVE  k \in S
  <2> HIDE DEF first, Turn
  <2>1. PICK f : Up(k - 1, f)
    BY <1>2
  <2> DEFINE g == [i \in 0 .. k |-> IF i = k THEN Turn(k, f[k - 1]) ELSE f[i]]
  <2>2. Up(k, g)
    BY <2>1
  <2> HIDE DEF g, Up
  <2> QED BY <2>2
<1>3. \A k \in 0 .. n : k \in S
  <2> HIDE DEF S
  <2> QED BY <1>1, <1>2, Walked
<1> DEFINE After(f) == f = [i \in 0 .. n |-> IF i = 0 THEN [l EXCEPT !.prefix = d]
                                            ELSE IF i \in unread THEN f[i - 1]
                                            ELSE load_from_path(f[i - 1], Dirs[d][i])]
           upto == CHOOSE f : After(f)
<1>4. \E f : After(f)
  BY <1>3
<1>5. After(upto)
  <2> HIDE DEF After
  <2> QED BY <1>4
<1>6. Scanned(l, d, n, unread) = upto[n]
  BY DEF Scanned
<1> HIDE DEF upto
<1>7. upto = [i \in 0 .. n |-> IF i = 0 THEN first ELSE IF i \in unread THEN upto[i - 1]
                              ELSE load_from_path(upto[i - 1], Dirs[d][i])]
  BY <1>5
<1> HIDE DEF After, first
<1>8. /\ upto[0] = first
      /\ \A i \in 1 .. n : upto[i] = IF i \in unread THEN upto[i - 1]
                                     ELSE load_from_path(upto[i - 1], Dirs[d][i])
  BY <1>7
<1> QED BY <1>6, <1>8 DEF first

LEMMA PackFacts ==
  /\ \A p \in Packs : \E d \in DOMAIN Dirs : \E k \in Places(d) :
       Dirs[d][k].whole /\ Dirs[d][k].root = "translations" /\ p = PackOf(Dirs[d][k])
  /\ \A d \in DOMAIN Dirs : \A k \in Places(d) :
       Dirs[d][k].whole /\ Dirs[d][k].root = "translations" => PackOf(Dirs[d][k]) \in Packs
  BY DEF Packs

\* A file adds to what is registered, and leaves the prefix.
LEMMA FileSound ==
  ASSUME NEW l, LibSound(l), NEW d \in DOMAIN Dirs, NEW k \in Places(d)
  PROVE  LibSound(load_from_path(l, Dirs[d][k]))
<1> DEFINE f == Dirs[d][k]
<1>1. LibSound(register_component(l, f))
  BY DEF LibSound, register_component
<1>2. CASE f.root = "translations" /\ f.whole
  <2>1. PackOf(f) \in Packs
    BY <1>2, PackFacts
  <2>2. Append(l.packs, PackOf(f)) \in Seq(Packs)
    BY <2>1, AppendProperties DEF LibSound
  <2> HIDE DEF f
  <2>3. LibSound(register_translation(l, f))
    BY <1>2, <2>2 DEF LibSound, register_translation
  <2> QED BY <1>1, <2>3 DEF load_from_path, f
<1>3. CASE ~(f.root = "translations" /\ f.whole)
  <2> HIDE DEF f
  <2> QED BY <1>1, <1>3 DEF load_from_path, register_translation, f
<1> QED BY <1>2, <1>3

LEMMA ScanSound ==
  ASSUME NEW l, LibSound(l), NEW d \in DOMAIN Dirs, NEW n \in 0 .. Len(Dirs[d]), NEW unread
  PROVE  LibSound(Scanned(l, d, n, unread))
<1>0. n \in Nat /\ Len(Dirs[d]) \in Nat
  BY LoaderAssumption
<1>1. PICK f : /\ f[0] = [l EXCEPT !.prefix = d]
               /\ \A i \in 1 .. n : f[i] = IF i \in unread THEN f[i - 1]
                                           ELSE load_from_path(f[i - 1], Dirs[d][i])
               /\ Scanned(l, d, n, unread) = f[n]
  BY <1>0, ScanRun
<1> DEFINE S == {i \in 0 .. n : LibSound(f[i])}
<1>2. 0 \in S
  <2>1. d \notin Missing
    BY LoaderAssumption
  <2> QED BY <1>0, <1>1, <2>1 DEF LibSound
<1>3. ASSUME NEW i \in 1 .. n, i - 1 \in S
      PROVE  i \in S
  <2>1. i \in Places(d)
    BY <1>0 DEF Places
  <2>2. LibSound(load_from_path(f[i - 1], Dirs[d][i]))
    BY <1>3, <2>1, FileSound
  <2>3. LibSound(f[i])
    BY <1>1, <1>3, <2>2
  <2> QED BY <2>3
<1>4. \A i \in 0 .. n : i \in S
  <2> HIDE DEF S
  <2> QED BY <1>0, <1>2, <1>3, Walked
<1> QED BY <1>0, <1>1, <1>4

LoaderSound ==
  /\ LibSound(lib) /\ blobs = loads /\ buffers \subseteq loads

LEMMA LoaderStarts ==
  ASSUME LoaderInit PROVE LoaderSound
<1>1. <<>> \in Seq(Packs)
  OBVIOUS
<1> QED BY <1>1, LoaderAssumption DEF LoaderInit, LoaderSound, LibSound

LEMMA LoaderSteps ==
  ASSUME LoaderSound, LoaderNext PROVE LoaderSound'
<1>1. ASSUME NEW d \in DOMAIN Dirs, NEW n \in 0 .. Len(Dirs[d]), NEW unread, LoadPath(d, n, unread)
      PROVE  LoaderSound'
  BY <1>1, ScanSound DEF LoadPath, LoaderSound
<1>2. ASSUME NEW d, LoadMissing(d)
      PROVE  LoaderSound'
  BY <1>2 DEF LoadMissing, loaderVars, LoaderSound
<1>3. ASSUME NEW a, NEW d \in DOMAIN Dirs, NEW own, NEW unread, LoadArchive(a, d, own, unread)
      PROVE  LoaderSound'
  <2>1. Len(Dirs[d]) \in 0 .. Len(Dirs[d])
    BY LoaderAssumption
  <2>2. LibSound(lib')
    BY <1>3, <2>1, ScanSound DEF LoadArchive, LoaderSound
  <2> QED BY <1>3, <2>2 DEF LoadArchive, LoaderSound
<1>4. ASSUME NEW a, NEW d \in DOMAIN Dirs, NEW n \in 0 .. Len(Dirs[d]), ArchiveBreaks(a, d, n)
      PROVE  LoaderSound'
  BY <1>4, ScanSound DEF ArchiveBreaks, LoaderSound
<1>5. ASSUME NEW T, Unload(T)
      PROVE  LoaderSound'
  BY <1>5 DEF Unload, LoaderSound
<1> QED BY <1>1, <1>2, <1>3, <1>4, <1>5 DEF LoaderNext

LEMMA LoaderWhole ==
  ASSUME LoaderSound PROVE NothingHalfLoaded
<1>1. \A i \in 1 .. Len(lib.packs) : lib.packs[i] \in Packs
  BY DEF LoaderSound, LibSound
<1> QED BY <1>1, PackFacts DEF LoaderSound, LibSound, NothingHalfLoaded
-----------------------------------------------------------------------------
(* Screens: each change of the world leaves them in order.                 *)

IsScreen(x) ==
  /\ x = [live |-> x.live, made |-> x.made, name |-> x.name, shows |-> x.shows,
           widgets |-> x.widgets]
  /\ x.live \in BOOLEAN /\ x.made \in BOOLEAN

IsWorld(w) ==
  /\ w = [val |-> w.val, lang |-> w.lang, screens |-> w.screens, active |-> w.active,
           twice |-> w.twice]
  /\ w.screens = [s \in Screens |-> w.screens[s]] /\ \A s \in Screens : IsScreen(w.screens[s])

\* A world, where the screens of S may have been made by an event and be alive.
World(w, S) ==
  /\ IsWorld(w) /\ w.active \in Screens /\ w.screens[w.active].live /\ w.twice = FALSE
  /\ \A s \in Screens : w.screens[s].live /\ w.screens[s].made => s \in S
WorldSound(w) == World(w, {w.active})

LEMMA GoneIs ==
  ASSUME NEW x, IsScreen(x)
  PROVE  IsScreen([x EXCEPT !.live = FALSE]) /\ ~[x EXCEPT !.live = FALSE].live
<1>1. \A v : [x EXCEPT !.live = v] = [live |-> v, made |-> x.made, name |-> x.name,
                                        shows |-> x.shows, widgets |-> x.widgets]
  <2>1. x = [live |-> x.live, made |-> x.made, name |-> x.name, shows |-> x.shows,
             widgets |-> x.widgets]
    BY DEF IsScreen
  <2> QED BY <2>1
<1>2. x.made \in BOOLEAN
  BY DEF IsScreen
<1> QED BY <1>1, <1>2 DEF IsScreen

LEMMA ShownIs ==
  ASSUME NEW x, IsScreen(x), NEW shows, NEW widgets
  PROVE  [x EXCEPT !.shows = shows, !.widgets = widgets] =
           [live |-> x.live, made |-> x.made, name |-> x.name, shows |-> shows,
            widgets |-> widgets]
<1> DEFINE y == [x EXCEPT !.shows = shows]
<1>1. y = [live |-> x.live, made |-> x.made, name |-> x.name, shows |-> shows,
           widgets |-> x.widgets]
  BY DEF IsScreen
<1> HIDE DEF y
<1>2. [y EXCEPT !.widgets = widgets] =
        [live |-> x.live, made |-> x.made, name |-> x.name, shows |-> shows,
         widgets |-> widgets]
  BY <1>1
<1> QED BY <1>2 DEF y

LEMMA PutIs ==
  ASSUME NEW w, IsWorld(w), NEW s \in Screens, NEW x, IsScreen(x)
  PROVE  LET p == [w EXCEPT !.screens[s] = x] IN
         /\ IsWorld(p) /\ p.active = w.active /\ p.twice = w.twice /\ p.screens[s] = x
         /\ \A y \in Screens : y # s => p.screens[y] = w.screens[y]
<1> DEFINE q == [w.screens EXCEPT ![s] = x]
           p == [w EXCEPT !.screens = q]
<1>1. q = [y \in Screens |-> IF y = s THEN x ELSE w.screens[y]]
  BY DEF IsWorld
<1>2. q = [y \in Screens |-> q[y]] /\ q[s] = x /\ \A y \in Screens : y # s => q[y] = w.screens[y]
  BY <1>1
<1>3. \A y \in Screens : IsScreen(q[y])
  BY <1>2 DEF IsWorld
<1> HIDE DEF q
<1>4. p = [val |-> w.val, lang |-> w.lang, screens |-> q, active |-> w.active, twice |-> w.twice]
  BY DEF IsWorld
<1>5. IsWorld(p) /\ p.active = w.active /\ p.twice = w.twice /\ p.screens = q
  BY <1>2, <1>3, <1>4 DEF IsWorld
<1>6. p = [w EXCEPT !.screens[s] = x]
  BY DEF q
<1> HIDE DEF p
<1> QED BY <1>2, <1>5, <1>6

LEMMA LoadedSound ==
  ASSUME NEW w, NEW s \in Screens, World(w, {w.active, s}), w.screens[s].live
  PROVE  WorldSound(Loaded(w, s))
<1> DEFINE now == [w EXCEPT !.active = s]
           old == w.active
<1>1. /\ now.active = s /\ now.screens = w.screens /\ now.twice = FALSE
      /\ World(now, {old, s}) /\ old \in Screens
  BY DEF World, IsWorld
<1>2. CASE s = old
  <2>1. Loaded(w, s) = now /\ {old, s} = {s}
    BY <1>2 DEF Loaded
  <2> HIDE DEF now
  <2> QED BY <1>1, <2>1 DEF WorldSound
<1>3. CASE s # old /\ ~w.screens[old].made
  <2>1. Loaded(w, s) = now
    BY <1>3 DEF Loaded
  <2> HIDE DEF now
  <2> QED BY <1>1, <1>3, <2>1 DEF WorldSound, World
<1>4. CASE s # old /\ w.screens[old].made
  <2>1. Loaded(w, s) = [now EXCEPT !.screens[old].live = FALSE]
    BY <1>1, <1>4 DEF Loaded, Deleted, World, IsWorld
  <2> DEFINE gone == [now.screens[old] EXCEPT !.live = FALSE]
             last == [now EXCEPT !.screens[old] = gone]
  <2>2. Loaded(w, s) = last
    BY <2>1
  <2> HIDE DEF now, old
  <2>3. IsScreen(gone) /\ ~gone.live
    <3>1. IsScreen(now.screens[old])
      BY <1>1 DEF World, IsWorld
    <3> QED BY <3>1, GoneIs
  <2> HIDE DEF gone
  <2>4. /\ IsWorld(last) /\ last.active = s /\ last.twice = FALSE /\ last.screens[old] = gone
        /\ \A y \in Screens : y # old => last.screens[y] = now.screens[y]
    BY <1>1, <2>3, PutIs DEF World
  <2> HIDE DEF last
  <2>5. last.screens[s].live
    BY <1>1, <1>4, <2>4
  <2>6. \A x \in Screens : last.screens[x].live /\ last.screens[x].made => x = s
    BY <1>1, <2>3, <2>4 DEF World
  <2> QED BY <2>2, <2>4, <2>5, <2>6 DEF WorldSound, World
<1> QED BY <1>2, <1>3, <1>4

LEMMA SetToSound ==
  ASSUME NEW w, WorldSound(w), NEW s, NEW v
  PROVE  WorldSound(SetTo(w, s, v))
<1> DEFINE x == (s :> v) @@ w.val
<1> HIDE DEF x
<1>1. SetTo(w, s, v) = [w EXCEPT !.val = x]
  BY DEF SetTo, x, WorldSound, World, IsWorld
<1> QED BY <1>1 DEF WorldSound, World, IsWorld

\* A screen is put at a fresh address.
LEMMA PutSound ==
  ASSUME NEW w, WorldSound(w), NEW s \in Screens, w.screens[s] = Unused, NEW x, IsScreen(x)
  PROVE  LET p == [w EXCEPT !.screens[s] = x]
         IN  World(p, {w.active, s}) /\ p.active = w.active /\ p.screens[s] = x
<1> DEFINE p == [w EXCEPT !.screens[s] = x]
<1>1. /\ IsWorld(p) /\ p.active = w.active /\ p.twice = FALSE /\ p.screens[s] = x
      /\ \A y \in Screens : y # s => p.screens[y] = w.screens[y]
  BY PutIs DEF WorldSound, World
<1>2. s # w.active
  BY DEF WorldSound, World, Unused
<1> HIDE DEF p
<1>3. w.active \in Screens /\ p.screens[w.active].live
  BY <1>1, <1>2 DEF WorldSound, World
<1>4. \A y \in Screens : p.screens[y].live /\ p.screens[y].made => y \in {w.active, s}
  BY <1>1 DEF WorldSound, World
<1>5. World(p, {w.active, s})
  BY <1>1, <1>3, <1>4 DEF World
<1> QED BY <1>1, <1>5 DEF p

LEMMA ScreenIs ==
  ASSUME NEW l, NEW n, NEW made \in BOOLEAN
  PROVE  IsScreen(Screen(l, n, made)) /\ Screen(l, n, made).live /\ Screen(l, n, made).made = made
  BY DEF Screen, IsScreen

LEMMA CreateSound ==
  ASSUME NEW l, NEW w, WorldSound(w), NEW n
  PROVE  WorldSound(screen_create(l, w, n))
<1>1. CASE n \notin DOMAIN l.comps \/ Fresh(w) = {}
  BY <1>1 DEF screen_create
<1>2. CASE ~(n \notin DOMAIN l.comps \/ Fresh(w) = {})
  <2> DEFINE s == CHOOSE s \in Fresh(w) : TRUE
             x == Screen(l, n, TRUE)
  <2>1. s \in Screens /\ w.screens[s] = Unused
    BY <1>2 DEF Fresh
  <2> DEFINE p == [w EXCEPT !.screens[s] = x]
  <2>2. screen_create(l, w, n) = Loaded(p, s)
    BY <1>2 DEF screen_create
  <2>3. IsScreen(x) /\ x.live
    BY ScreenIs
  <2> HIDE DEF s, x
  <2>4. World(p, {w.active, s}) /\ p.active = w.active /\ p.screens[s] = x
    BY <2>1, <2>3, PutSound
  <2> HIDE DEF p
  <2> QED BY <2>1, <2>2, <2>3, <2>4, LoadedSound
<1> QED BY <1>1, <1>2

LEMMA LoadSound ==
  ASSUME NEW w, WorldSound(w), NEW n
  PROVE  WorldSound(screen_load(w, n))
<1> DEFINE named == {s \in Screens : w.screens[s].live /\ w.screens[s].name = n}
           s == CHOOSE s \in named : TRUE
<1>1. CASE named = {}
  BY <1>1 DEF screen_load
<1>2. CASE named # {}
  <2>1. screen_load(w, n) = Loaded(w, s)
    BY <1>2 DEF screen_load
  <2>2. s \in Screens /\ w.screens[s].live
    BY <1>2
  <2> HIDE DEF named, s
  <2>3. World(w, {w.active, s})
    BY DEF WorldSound, World
  <2> QED BY <2>1, <2>2, <2>3, LoadedSound
<1> QED BY <1>1, <1>2

LEMMA ClickedSound ==
  ASSUME NEW l, NEW w, WorldSound(w), NEW h
  PROVE  WorldSound(Clicked(l, w, h))
<1>1. \A s, v : WorldSound(SetTo(w, s, v))
  BY SetToSound
<1>2. WorldSound(subject_toggle(w, h.on))
  BY <1>1 DEF subject_toggle
<1>3. WorldSound(subject_increment(w, h.on, 1, h.v, h.rollover))
  BY <1>1 DEF subject_increment
<1>4. WorldSound(screen_create(l, w, h.on)) /\ WorldSound(screen_load(w, h.on))
  BY CreateSound, LoadSound
<1> QED BY <1>1, <1>2, <1>3, <1>4 DEF Clicked

LEMMA StepSound ==
  ASSUME NEW l, NEW w, WorldSound(w), NEW e
  PROVE  WorldSound(execute_step(l, w, e).w)
<1> DEFINE there == w.screens[w.active].widgets
           reached == e.on \in DOMAIN there /\ Visible(w, there[e.on])
           clicked == Clicked(l, w, there[e.on])
           tongue == [w EXCEPT !.lang = e.on]
<1>1. WorldSound(clicked) /\ WorldSound(SetTo(w, e.on, e.v))
  BY ClickedSound, SetToSound
<1>2. WorldSound(tongue)
  BY DEF WorldSound, World, IsWorld
<1>3. execute_step(l, w, e).w \in {w, clicked, SetTo(w, e.on, e.v), tongue}
  <2> HIDE DEF reached
  <2>1. e.tag = "click_on" => execute_step(l, w, e).w \in {w, clicked}
    BY DEF execute_step, reached
  <2>2. e.tag = "click_at" => execute_step(l, w, e).w \in {w, clicked}
    BY DEF execute_step, reached
  <2>3. e.tag = "subject_set" => execute_step(l, w, e).w = SetTo(w, e.on, e.v)
    BY DEF execute_step
  <2>4. e.tag = "set_language" => execute_step(l, w, e).w = tongue
    BY DEF execute_step
  <2>5. e.tag \notin {"click_on", "click_at", "subject_set", "set_language"} =>
          execute_step(l, w, e).w = w
    BY DEF execute_step
  <2> HIDE DEF clicked, tongue
  <2> QED BY <2>1, <2>2, <2>3, <2>4, <2>5
<1> HIDE DEF clicked, tongue
<1> QED BY <1>1, <1>2, <1>3

-----------------------------------------------------------------------------
(* A run, step by step.                                                    *)

IsBed(b) ==
  b = [steps |-> b.steps, act |-> b.act, display |-> b.display, cursor |-> b.cursor,
       saved |-> b.saved, tick |-> b.tick]

\* What a step leaves of the runner.
SameBut(b, c) ==
  /\ IsBed(c) /\ c.display = b.display /\ c.cursor = b.cursor /\ c.saved = b.saved
  /\ c.tick = b.tick

\* What one call of lv_xml_test_run_next() comes to, of which did is what the step did.
Stepped(y, r, did) ==
  /\ SameBut(r.b, y.b) /\ y.b.act = r.b.act + 1
  /\ y.b.steps = [r.b.steps EXCEPT ![r.b.act + 1].passed = did.ok]
  /\ y.w = did.w /\ y.ok = did.ok

LEMMA NextIs ==
  ASSUME NEW l, NEW r, IsBed(r.b)
  PROVE  Stepped(run_next(l, r), r, execute_step(l, r.w, r.b.steps[r.b.act + 1].does))
<1> DEFINE x == execute_step(l, r.w, r.b.steps[r.b.act + 1].does)
           b == [r.b EXCEPT !.steps[r.b.act + 1].passed = x.ok, !.act = r.b.act + 1]
           steps == [r.b.steps EXCEPT ![r.b.act + 1].passed = x.ok]
<1>1. run_next(l, r) = [b |-> b, w |-> x.w, ok |-> x.ok]
  BY DEF run_next
<1> HIDE DEF x
<1>2. b = [[r.b EXCEPT !.steps = steps] EXCEPT !.act = r.b.act + 1]
  OBVIOUS
<1>3. b = [steps |-> steps, act |-> r.b.act + 1, display |-> r.b.display, cursor |-> r.b.cursor,
           saved |-> r.b.saved, tick |-> r.b.tick]
  <2> HIDE DEF steps, b
  <2> QED BY <1>2 DEF IsBed
<1>4. SameBut(r.b, b) /\ b.act = r.b.act + 1 /\ b.steps = steps
  <2> HIDE DEF b, steps
  <2> QED BY <1>3 DEF SameBut, IsBed
<1> HIDE DEF b
<1> QED BY <1>1, <1>4 DEF x, Stepped

\* The screen a test is shown on, which is a new one or the one there is.
LEMMA StagedSound ==
  ASSUME NEW l, NEW w, WorldSound(w), ~w.screens[w.active].made, Fresh(w) # {}
  PROVE  WorldSound(Staged(l, w))
<1> DEFINE base == l.comps[TestName].extends
           a == w.active
<1>0. a \in Screens /\ IsScreen(w.screens[a]) /\ w.screens[a].live
  BY DEF WorldSound, World, IsWorld
<1>1. ASSUME NEW shows, NEW widgets
      PROVE  WorldSound([w EXCEPT !.screens[a].shows = shows, !.screens[a].widgets = widgets])
  <2> DEFINE x == [live |-> w.screens[a].live, made |-> w.screens[a].made,
                   name |-> w.screens[a].name, shows |-> shows, widgets |-> widgets]
             p == [w EXCEPT !.screens[a] = x]
  <2>1. IsScreen(x) /\ x.live /\ ~x.made
    BY <1>0 DEF IsScreen
  <2>2. [w.screens[a] EXCEPT !.shows = shows, !.widgets = widgets] = x
    BY <1>0, ShownIs
  <2>3. [w EXCEPT !.screens[a].shows = shows, !.screens[a].widgets = widgets] =
          [w EXCEPT !.screens[a] = [w.screens[a] EXCEPT !.shows = shows, !.widgets = widgets]]
    <3>1. w = [val |-> w.val, lang |-> w.lang, screens |-> w.screens, active |-> w.active,
               twice |-> w.twice] /\ w.screens = [s \in Screens |-> w.screens[s]]
      BY DEF WorldSound, World, IsWorld
    <3> QED BY <1>0, <3>1
  <2>4. [w EXCEPT !.screens[a].shows = shows, !.screens[a].widgets = widgets] = p
    BY <2>2, <2>3
  <2> HIDE DEF x
  <2>5. /\ IsWorld(p) /\ p.active = a /\ p.twice = FALSE /\ p.screens[a] = x
        /\ \A y \in Screens : y # a => p.screens[y] = w.screens[y]
    BY <1>0, <2>1, PutIs DEF WorldSound, World
  <2> HIDE DEF p
  <2>6. WorldSound(p)
    BY <1>0, <2>1, <2>5 DEF WorldSound, World
  <2> QED BY <2>4, <2>6
<1>2. CASE base \notin DOMAIN l.comps
  BY <1>1, <1>2 DEF Staged
<1>3. CASE base \in DOMAIN l.comps /\ ~l.comps[base].screen
  BY <1>1, <1>3 DEF Staged
<1>4. CASE base \in DOMAIN l.comps /\ l.comps[base].screen
  <2> DEFINE s == CHOOSE s \in Fresh(w) : TRUE
             x == Screen(l, base, FALSE)
             p == [w EXCEPT !.screens[s] = x]
             now == [p EXCEPT !.active = s]
  <2>1. s \in Screens /\ w.screens[s] = Unused
    BY DEF Fresh
  <2>2. Staged(l, w) = Deleted(Loaded(p, s), a)
    BY <1>4 DEF Staged
  <2>3. IsScreen(x) /\ x.live /\ x.made = FALSE
    BY ScreenIs
  <2> HIDE DEF s, x
  <2>4. s # a
    <3>1. ~w.screens[s].live
      BY <2>1 DEF Unused
    <3> QED BY <1>0, <3>1
  <2>5. /\ IsWorld(p) /\ p.active = a /\ p.twice = FALSE /\ p.screens[s] = x
        /\ \A y \in Screens : y # s => p.screens[y] = w.screens[y]
    BY <2>1, <2>3, PutIs DEF WorldSound, World
  <2> HIDE DEF p
  <2>6. /\ IsWorld(now) /\ now.active = s /\ now.twice = FALSE /\ now.screens = p.screens
    BY <2>1, <2>5 DEF IsWorld
  <2>7. Loaded(p, s) = now
    BY <1>0, <2>4, <2>5 DEF Loaded
  <2> HIDE DEF now
  <2> DEFINE gone == [now.screens[a] EXCEPT !.live = FALSE]
             last == [now EXCEPT !.screens[a] = gone]
  <2>8. now.screens[a] = w.screens[a]
    BY <1>0, <2>4, <2>5, <2>6
  <2>9. Deleted(now, a) = last
    BY <1>0, <2>8 DEF Deleted
  <2>10. IsScreen(gone) /\ ~gone.live
    BY <1>0, <2>8, GoneIs
  <2> HIDE DEF gone
  <2>11. /\ IsWorld(last) /\ last.active = s /\ last.twice = FALSE /\ last.screens[a] = gone
         /\ \A y \in Screens : y # a => last.screens[y] = now.screens[y]
    BY <1>0, <2>6, <2>10, PutIs
  <2> HIDE DEF last
  <2>12. last.screens[s] = x
    BY <2>1, <2>4, <2>5, <2>6, <2>11
  <2>13. \A y \in Screens : last.screens[y].live /\ last.screens[y].made => y = s
    BY <2>5, <2>6, <2>10, <2>11 DEF WorldSound, World
  <2>14. WorldSound(last)
    BY <2>1, <2>3, <2>11, <2>12, <2>13 DEF WorldSound, World
  <2> QED BY <2>2, <2>7, <2>9, <2>14
<1> QED BY <1>2, <1>3, <1>4

\* The runner has taken LVGL's tick callback from the application, or has not.
BedSound(b) ==
  /\ IsBed(b) /\ b.display \in BOOLEAN /\ b.cursor = b.display
  /\ b.tick = IF b.display THEN "none" ELSE "app"
  /\ b.display => b.saved = "app"

LEMMA InitIs ==
  ASSUME NEW b, BedSound(b), ~b.display
  PROVE  /\ BedSound(run_init(b)) /\ run_init(b).display = TRUE
         /\ run_init(b).act = 0 /\ run_init(b).steps = b.steps
<1>1. PICK v : v = TRUE
  OBVIOUS
<1>2. b = [steps |-> b.steps, act |-> b.act, display |-> b.display, cursor |-> b.cursor,
           saved |-> b.saved, tick |-> b.tick] /\ b.tick = "app"
  BY DEF BedSound, IsBed
<1>3. PICK b1 : b1 = [b EXCEPT !.display = v]
  OBVIOUS
<1>4. PICK b2 : b2 = [b1 EXCEPT !.cursor = v]
  OBVIOUS
<1>5. PICK b3 : b3 = [b2 EXCEPT !.saved = b.tick]
  OBVIOUS
<1>6. PICK b4 : b4 = [b3 EXCEPT !.tick = "none"]
  OBVIOUS
<1>7. b1 = [steps |-> b.steps, act |-> b.act, display |-> v, cursor |-> b.cursor,
            saved |-> b.saved, tick |-> b.tick]
  BY <1>2, <1>3
<1>8. b2 = [steps |-> b.steps, act |-> b.act, display |-> v, cursor |-> v,
            saved |-> b.saved, tick |-> b.tick]
  BY <1>4, <1>7
<1>9. b3 = [steps |-> b.steps, act |-> b.act, display |-> v, cursor |-> v,
            saved |-> b.tick, tick |-> b.tick]
  BY <1>5, <1>8
<1>10. b4 = [steps |-> b.steps, act |-> b.act, display |-> v, cursor |-> v,
             saved |-> b.tick, tick |-> "none"]
  BY <1>6, <1>9
<1>11. [b4 EXCEPT !.act = 0] = [steps |-> b.steps, act |-> 0, display |-> v, cursor |-> v,
                                saved |-> b.tick, tick |-> "none"]
  BY <1>10
<1>12. run_init(b) = [b4 EXCEPT !.act = 0]
  BY <1>1, <1>3, <1>4, <1>5, <1>6 DEF run_init
<1> QED BY <1>1, <1>2, <1>11, <1>12 DEF BedSound, IsBed

LEMMA StopIs ==
  ASSUME NEW b, BedSound(b)
  PROVE  /\ BedSound(run_stop(b)) /\ run_stop(b).display = FALSE
         /\ run_stop(b).act = b.act /\ run_stop(b).steps = b.steps
<1>1. PICK v : v = FALSE
  OBVIOUS
<1>2. b = [steps |-> b.steps, act |-> b.act, display |-> b.display, cursor |-> b.cursor,
           saved |-> b.saved, tick |-> b.tick]
  BY DEF BedSound, IsBed
<1>3. PICK t : t = IF b.display THEN b.saved ELSE b.tick
  OBVIOUS
<1>4. PICK b1 : b1 = [b EXCEPT !.display = v]
  OBVIOUS
<1>5. PICK b2 : b2 = [b1 EXCEPT !.cursor = v]
  OBVIOUS
<1>6. b1 = [steps |-> b.steps, act |-> b.act, display |-> v, cursor |-> b.cursor,
            saved |-> b.saved, tick |-> b.tick]
  BY <1>2, <1>4
<1>7. b2 = [steps |-> b.steps, act |-> b.act, display |-> v, cursor |-> v,
            saved |-> b.saved, tick |-> b.tick]
  BY <1>5, <1>6
<1>8. [b2 EXCEPT !.tick = t] = [steps |-> b.steps, act |-> b.act, display |-> v,
                                cursor |-> v, saved |-> b.saved, tick |-> t]
  BY <1>7
<1>9. run_stop(b) = [b2 EXCEPT !.tick = t]
  BY <1>1, <1>3, <1>4, <1>5 DEF run_stop
<1>10. t = "app"
  BY <1>3 DEF BedSound
<1>11. PICK c : c = run_stop(b)
  OBVIOUS
<1>12. c = [steps |-> b.steps, act |-> b.act, display |-> v, cursor |-> v, saved |-> b.saved,
            tick |-> t]
  BY <1>8, <1>9, <1>11
<1>13. /\ IsBed(c) /\ c.steps = b.steps /\ c.act = b.act /\ c.display = v /\ c.cursor = v
       /\ c.tick = t
  BY <1>12 DEF IsBed
<1>14. BedSound(c)
  BY <1>1, <1>10, <1>13 DEF BedSound
<1> QED BY <1>1, <1>11, <1>13, <1>14

\* lv_xml_test_run_to(), turn by turn.
GoOn(l, x, last) == IF x.ok /\ x.b.act <= last THEN run_next(l, x) ELSE x

ToRuns(f, l, r, last, n) ==
  /\ f[0] = r /\ \A i \in 1 .. n : f[i] = GoOn(l, f[i - 1], last)
  /\ run_to(l, r, last) = f[n]

LEMMA ToRun ==
  ASSUME NEW l, NEW r, NEW last, NEW n \in Nat, n = Len(r.b.steps)
  PROVE  \E f : ToRuns(f, l, r, last, n)
<1> DEFINE first == r
           Turn(i, x) == GoOn(l, x, last)
           Up(k, f) == f = [i \in 0 .. k |-> IF i = 0 THEN first ELSE Turn(i, f[i - 1])]
           S == {k \in 0 .. n : \E f : Up(k, f)}
<1>1. 0 \in S
  <2> HIDE DEF first
  <2>1. Up(0, [i \in 0 .. 0 |-> first])
    OBVIOUS
  <2> HIDE DEF Up
  <2> QED BY <2>1
<1>2. ASSUME NEW k \in 1 .. n, k - 1 \in S
      PROVE  k \in S
  <2> HIDE DEF first, Turn
  <2>1. PICK f : Up(k - 1, f)
    BY <1>2
  <2> DEFINE g == [i \in 0 .. k |-> IF i = k THEN Turn(k, f[k - 1]) ELSE f[i]]
  <2>2. Up(k, g)
    BY <2>1
  <2> HIDE DEF g, Up
  <2> QED BY <2>2
<1>3. \A k \in 0 .. n : k \in S
  <2> HIDE DEF S
  <2> QED BY <1>1, <1>2, Walked
<1> DEFINE After(f) == f = [i \in 0 .. n |-> IF i = 0 THEN r
                                            ELSE IF f[i - 1].ok /\ f[i - 1].b.act <= last
                                            THEN run_next(l, f[i - 1]) ELSE f[i - 1]]
           go == CHOOSE f : After(f)
<1>4. \E f : After(f)
  BY <1>3 DEF GoOn
<1>5. After(go)
  <2> HIDE DEF After
  <2> QED BY <1>4
<1>6. run_to(l, r, last) = go[n]
  BY DEF run_to
<1> HIDE DEF go
<1>7. go = [i \in 0 .. n |-> IF i = 0 THEN first ELSE GoOn(l, go[i - 1], last)]
  BY <1>5 DEF GoOn
<1> HIDE DEF After, first
<1>8. go[0] = first /\ \A i \in 1 .. n : go[i] = GoOn(l, go[i - 1], last)
  <2>1. go[0] = first
    BY <1>7
  <2>2. ASSUME NEW i \in 1 .. n PROVE go[i] = GoOn(l, go[i - 1], last)
    BY <1>7
  <2> QED BY <2>1, <2>2
<1> QED BY <1>6, <1>8 DEF ToRuns, first

\* lv_xml_test_run_all(), turn by turn.
LEMMA AllRun ==
  ASSUME RunAll, NEW n \in Nat, n = Len(bed.steps)
  PROVE  \E f : /\ f[0] = [b |-> run_init(bed), w |-> Staged(lib, world), ok |-> TRUE]
                /\ \A i \in 1 .. n : f[i] = run_next(lib, f[i - 1])
                /\ bed' = run_stop(f[n].b) /\ world' = f[n].w
<1> DEFINE first == [b |-> run_init(bed), w |-> Staged(lib, world), ok |-> TRUE]
           Turn(i, x) == run_next(lib, x)
           Up(k, f) == f = [i \in 0 .. k |-> IF i = 0 THEN first ELSE Turn(i, f[i - 1])]
           S == {k \in 0 .. n : \E f : Up(k, f)}
<1>1. 0 \in S
  <2> HIDE DEF first
  <2>1. Up(0, [i \in 0 .. 0 |-> first])
    OBVIOUS
  <2> HIDE DEF Up
  <2> QED BY <2>1
<1>2. ASSUME NEW k \in 1 .. n, k - 1 \in S
      PROVE  k \in S
  <2> HIDE DEF first, Turn
  <2>1. PICK f : Up(k - 1, f)
    BY <1>2
  <2> DEFINE g == [i \in 0 .. k |-> IF i = k THEN Turn(k, f[k - 1]) ELSE f[i]]
  <2>2. Up(k, g)
    BY <2>1
  <2> HIDE DEF g, Up
  <2> QED BY <2>2
<1>3. \A k \in 0 .. n : k \in S
  <2> HIDE DEF S
  <2> QED BY <1>1, <1>2, Walked
<1> DEFINE After(f) == f = [i \in 0 .. n |->
                             IF i = 0
                             THEN [b |-> run_init(bed), w |-> Staged(lib, world), ok |-> TRUE]
                             ELSE run_next(lib, f[i - 1])]
           all == CHOOSE f : After(f)
<1>4. \E f : After(f)
  BY <1>3
<1>5. After(all)
  <2> HIDE DEF After
  <2> QED BY <1>4
<1>6. bed' = run_stop(all[n].b) /\ world' = all[n].w
  BY DEF RunAll
<1> HIDE DEF all
<1>7. all = [i \in 0 .. n |-> IF i = 0 THEN first ELSE run_next(lib, all[i - 1])]
  BY <1>5
<1> HIDE DEF After, first
<1>8. all[0] = first /\ \A i \in 1 .. n : all[i] = run_next(lib, all[i - 1])
  BY <1>7
<1> QED BY <1>6, <1>8 DEF first

-----------------------------------------------------------------------------
(* The steps of a test are those its document means.                       *)

\* A turn of the reader.
Read(subjects, acc, e) ==
  CASE e.tag \in {"steps", "/steps"} -> [acc EXCEPT !.inside = (e.tag = "steps")]
    [] e.tag \notin {"steps", "/steps"} /\ acc.inside /\ Kept(subjects, e) ->
         [acc EXCEPT !.steps = Append(@, [does |-> e, passed |-> Nil])]
    [] OTHER -> acc

Unread == [inside |-> FALSE, steps |-> <<>>]

ReadRuns(f, subjects, body) ==
  /\ f[0] = Unread
  /\ \A i \in 1 .. Len(body) : f[i] = Read(subjects, f[i - 1], body[i])
  /\ stepsOf(subjects, body) = f[Len(body)].steps

LEMMA ReadRun ==
  ASSUME NEW subjects, NEW body, Len(body) \in Nat
  PROVE  \E f : ReadRuns(f, subjects, body)
<1> DEFINE n == Len(body)
<1> DEFINE first == Unread
           Turn(i, x) == Read(subjects, x, body[i])
           Up(k, f) == f = [i \in 0 .. k |-> IF i = 0 THEN first ELSE Turn(i, f[i - 1])]
           S == {k \in 0 .. n : \E f : Up(k, f)}
<1>1. 0 \in S
  <2> HIDE DEF first
  <2>1. Up(0, [i \in 0 .. 0 |-> first])
    OBVIOUS
  <2> HIDE DEF Up
  <2> QED BY <2>1
<1>2. ASSUME NEW k \in 1 .. n, k - 1 \in S
      PROVE  k \in S
  <2> HIDE DEF first, Turn
  <2>1. PICK f : Up(k - 1, f)
    BY <1>2
  <2> DEFINE g == [i \in 0 .. k |-> IF i = k THEN Turn(k, f[k - 1]) ELSE f[i]]
  <2>2. Up(k, g)
    BY <2>1
  <2> HIDE DEF g, Up
  <2> QED BY <2>2
<1>3. \A k \in 0 .. n : k \in S
  <2> HIDE DEF S
  <2> QED BY <1>1, <1>2, Walked
<1> DEFINE After(f) == f = [i \in 0 .. n |->
             IF i = 0 THEN [inside |-> FALSE, steps |-> <<>>]
             ELSE LET acc == f[i - 1] e == body[i]
                  IN  CASE e.tag \in {"steps", "/steps"} -> [acc EXCEPT !.inside = (e.tag = "steps")]
                        [] e.tag \notin {"steps", "/steps"} /\ acc.inside /\ Kept(subjects, e) ->
                             [acc EXCEPT !.steps = Append(@, [does |-> e, passed |-> Nil])]
                        [] OTHER -> acc]
           upto == CHOOSE f : After(f)
<1>4. \A f : After(f) <=> f = [i \in 0 .. n |-> IF i = 0 THEN first
                                              ELSE Read(subjects, f[i - 1], body[i])]
  BY DEF Read, Unread
<1>5. \E f : After(f)
  <2> HIDE DEF After, first
  <2>1. PICK f : f = [i \in 0 .. n |-> IF i = 0 THEN first ELSE Read(subjects, f[i - 1], body[i])]
    BY <1>3
  <2> QED BY <1>4, <2>1
<1>6. stepsOf(subjects, body) = upto[n].steps
  BY DEF stepsOf
<1>7. After(upto)
  <2> HIDE DEF After
  <2> QED BY <1>5
<1> HIDE DEF upto, After, first
<1>8. upto[0] = first /\ \A i \in 1 .. n : upto[i] = Read(subjects, upto[i - 1], body[i])
  BY <1>4, <1>7
<1> QED BY <1>6, <1>8 DEF first, ReadRuns

\* What Meant says of a place of the document.
Within(body, i) ==
  \E b \in 1 .. i - 1 : body[b].tag = "steps" /\ \A k \in b + 1 .. i - 1 : body[k].tag # "/steps"

About(subjects, e) ==
  \/ e.tag \notin {"click_on", "set_language", "subject_set", "subject_compare",
                   "steps", "/steps", "other"}
  \/ e.tag \in {"click_on", "set_language"} /\ e.on # Nil
  \/ e.tag \in {"subject_set", "subject_compare"} /\ e.on \in subjects

Gathered(subjects, body, i, x) ==
  IF Within(body, i) /\ About(subjects, body[i]) THEN Append(x, body[i]) ELSE x

LEMMA MeantRun ==
  ASSUME NEW subjects, NEW body, NEW n \in Nat, n = Len(body)
  PROVE  \E f : /\ f[0] = <<>>
                /\ \A i \in 1 .. n : f[i] = Gathered(subjects, body, i, f[i - 1])
                /\ MeantOf(subjects, body) = f[n]
<1> DEFINE first == <<>>
           Turn(i, x) == Gathered(subjects, body, i, x)
           Up(k, f) == f = [i \in 0 .. k |-> IF i = 0 THEN first ELSE Turn(i, f[i - 1])]
           S == {k \in 0 .. n : \E f : Up(k, f)}
<1>1. 0 \in S
  <2> HIDE DEF first
  <2>1. Up(0, [i \in 0 .. 0 |-> first])
    OBVIOUS
  <2> HIDE DEF Up
  <2> QED BY <2>1
<1>2. ASSUME NEW k \in 1 .. n, k - 1 \in S
      PROVE  k \in S
  <2> HIDE DEF first, Turn
  <2>1. PICK f : Up(k - 1, f)
    BY <1>2
  <2> DEFINE g == [i \in 0 .. k |-> IF i = k THEN Turn(k, f[k - 1]) ELSE f[i]]
  <2>2. Up(k, g)
    BY <2>1
  <2> HIDE DEF g, Up
  <2> QED BY <2>2
<1>3. \A k \in 0 .. n : k \in S
  <2> HIDE DEF S
  <2> QED BY <1>1, <1>2, Walked
<1> DEFINE After(f) == f = [i \in 0 .. n |->
             IF i = 0 THEN <<>>
             ELSE IF Within(body, i) /\ About(subjects, body[i]) THEN Append(f[i - 1], body[i])
             ELSE f[i - 1]]
           upto == CHOOSE f : After(f)
<1>4. \A f : After(f) <=> f = [i \in 0 .. n |-> IF i = 0 THEN first
                                              ELSE Gathered(subjects, body, i, f[i - 1])]
  BY DEF Gathered
<1>5. \E f : After(f)
  <2> HIDE DEF After, first
  <2> QED BY <1>3, <1>4
<1>6. MeantOf(subjects, body) = upto[n]
  BY DEF MeantOf, Within, About
<1>7. After(upto)
  <2> HIDE DEF After
  <2> QED BY <1>5
<1> HIDE DEF upto, After, first
<1>8. upto[0] = first /\ \A i \in 1 .. n : upto[i] = Gathered(subjects, body, i, upto[i - 1])
  BY <1>4, <1>7
<1> QED BY <1>6, <1>8 DEF first

Els(body) == {body[k] : k \in 1 .. Len(body)}
StepsIn(body) == [does : Els(body), passed : {Nil} \cup BOOLEAN]

\* The steps of a runner, whatever became of them, are those of a list.
Told(steps, m, body) ==
  /\ steps \in Seq(StepsIn(body)) /\ m \in Seq(Els(body)) /\ Len(steps) = Len(m)
  /\ \A k \in 1 .. Len(m) : steps[k].does = m[k]

LEMMA WithinNext ==
  ASSUME NEW body, NEW n \in Nat, NEW i \in 1 .. n
  PROVE  Within(body, i + 1) <=> \/ body[i].tag = "steps"
                                 \/ body[i].tag # "/steps" /\ Within(body, i)
<1>1. 1 .. (i + 1) - 1 = 1 .. i
  OBVIOUS
<1>2. ASSUME body[i].tag = "steps"
      PROVE  Within(body, i + 1)
  <2>1. i \in 1 .. (i + 1) - 1 /\ \A k \in i + 1 .. (i + 1) - 1 : body[k].tag # "/steps"
    OBVIOUS
  <2> QED BY <1>2, <2>1 DEF Within
<1>3. ASSUME body[i].tag # "/steps", Within(body, i)
      PROVE  Within(body, i + 1)
  <2>1. PICK b \in 1 .. i - 1 : /\ body[b].tag = "steps"
                                /\ \A k \in b + 1 .. i - 1 : body[k].tag # "/steps"
    BY <1>3 DEF Within
  <2>2. b \in 1 .. (i + 1) - 1 /\ \A k \in b + 1 .. (i + 1) - 1 : body[k].tag # "/steps"
    BY <1>3, <2>1
  <2> QED BY <2>1, <2>2 DEF Within
<1>4. ASSUME Within(body, i + 1), body[i].tag # "steps"
      PROVE  body[i].tag # "/steps" /\ Within(body, i)
  <2>1. PICK b \in 1 .. (i + 1) - 1 :
          /\ body[b].tag = "steps" /\ \A k \in b + 1 .. (i + 1) - 1 : body[k].tag # "/steps"
    BY <1>4 DEF Within
  <2>2. b \in 1 .. i - 1 /\ i \in b + 1 .. (i + 1) - 1
    BY <1>4, <2>1
  <2>3. \A k \in b + 1 .. i - 1 : body[k].tag # "/steps"
    BY <2>1
  <2> QED BY <2>1, <2>2, <2>3 DEF Within
<1>5. "steps" # "/steps"
  OBVIOUS
<1> QED BY <1>2, <1>3, <1>4, <1>5

LEMMA KeptAbout ==
  ASSUME NEW subjects, NEW e, e.tag \notin {"steps", "/steps"}
  PROVE  Kept(subjects, e) <=> About(subjects, e)
<1>1. CASE e.tag \in {"click_on", "set_language"}
  BY <1>1 DEF Kept, About
<1>2. CASE e.tag \in {"subject_set", "subject_compare"}
  BY <1>2 DEF Kept, About
<1>3. CASE e.tag \notin {"click_on", "set_language", "subject_set", "subject_compare"}
  BY <1>3 DEF Kept, About
<1> QED BY <1>1, <1>2, <1>3

\* The reader, when it has come as far as i.
Reading(acc, m, body, i) ==
  /\ acc = [inside |-> acc.inside, steps |-> acc.steps] /\ acc.inside \in BOOLEAN
  /\ acc.inside <=> Within(body, i + 1)
  /\ Told(acc.steps, m, body)

LEMMA ToldMore ==
  ASSUME NEW body, NEW steps, NEW m, Told(steps, m, body), NEW e \in Els(body)
  PROVE  Told(Append(steps, [does |-> e, passed |-> Nil]), Append(m, e), body)
<1> DEFINE x == [does |-> e, passed |-> Nil]
<1>1. x \in StepsIn(body) /\ x.does = e
  BY DEF StepsIn
<1> HIDE DEF x
<1>2. /\ Append(steps, x) \in Seq(StepsIn(body)) /\ Len(Append(steps, x)) = Len(steps) + 1
      /\ Append(m, e) \in Seq(Els(body)) /\ Len(Append(m, e)) = Len(m) + 1
      /\ \A k \in 1 .. Len(steps) : Append(steps, x)[k] = steps[k]
      /\ Append(steps, x)[Len(steps) + 1] = x
      /\ \A k \in 1 .. Len(m) : Append(m, e)[k] = m[k]
      /\ Append(m, e)[Len(m) + 1] = e
  BY <1>1, AppendProperties DEF Told
<1>3. Len(m) \in Nat
  BY LenProperties DEF Told
<1>4. \A k \in 1 .. Len(m) + 1 : Append(steps, x)[k].does = Append(m, e)[k]
  BY <1>1, <1>2, <1>3 DEF Told
<1>5. Told(Append(steps, x), Append(m, e), body)
  BY <1>2, <1>4 DEF Told
<1> QED BY <1>5 DEF x

LEMMA ReadOn ==
  ASSUME NEW subjects, NEW body, Len(body) \in Nat, NEW i \in 1 .. Len(body), NEW acc, NEW m,
         Reading(acc, m, body, i - 1)
  PROVE  Reading(Read(subjects, acc, body[i]), Gathered(subjects, body, i, m), body, i)
<1> DEFINE e == body[i]
<1>1. e \in Els(body)
  BY DEF Els
<1>2. acc = [inside |-> acc.inside, steps |-> acc.steps] /\ acc.inside \in BOOLEAN
      /\ (acc.inside <=> Within(body, i)) /\ Told(acc.steps, m, body)
  BY DEF Reading
<1>3. Within(body, i + 1) <=> e.tag = "steps" \/ (e.tag # "/steps" /\ Within(body, i))
  BY WithinNext
<1> HIDE DEF e
<1>4. CASE e.tag \in {"steps", "/steps"}
  <2>1. PICK v : v = (e.tag = "steps")
    OBVIOUS
  <2>2. PICK c : c = [acc EXCEPT !.inside = v]
    OBVIOUS
  <2>3. c = [inside |-> v, steps |-> acc.steps]
    BY <1>2, <2>2
  <2>4. Read(subjects, acc, e) = c
    BY <1>4, <2>1, <2>2 DEF Read
  <2>5. Gathered(subjects, body, i, m) = m
    BY <1>4 DEF Gathered, About, e
  <2>6. v \in BOOLEAN /\ (v <=> Within(body, i + 1))
    BY <1>3, <1>4, <2>1
  <2>7. c.inside = v /\ c.steps = acc.steps /\ c = [inside |-> c.inside, steps |-> c.steps]
    BY <2>3
  <2>8. Reading(c, m, body, i)
    BY <1>2, <2>6, <2>7 DEF Reading
  <2> QED BY <2>4, <2>5, <2>8 DEF e
<1>5. CASE e.tag \notin {"steps", "/steps"} /\ acc.inside /\ Kept(subjects, e)
  <2> DEFINE steps == Append(acc.steps, [does |-> e, passed |-> Nil])
  <2>1. PICK c : c = [acc EXCEPT !.steps = steps]
    OBVIOUS
  <2>2. Read(subjects, acc, e) = c
    BY <1>5, <2>1 DEF Read
  <2>3. Gathered(subjects, body, i, m) = Append(m, e)
    BY <1>2, <1>5, KeptAbout DEF Gathered, e
  <2>4. Told(steps, Append(m, e), body)
    BY <1>1, <1>2, ToldMore
  <2> HIDE DEF steps
  <2>5. c = [inside |-> acc.inside, steps |-> steps]
    BY <1>2, <2>1
  <2>6. /\ c.inside = acc.inside /\ c.steps = steps
        /\ c = [inside |-> c.inside, steps |-> c.steps]
    BY <2>5
  <2>7. Reading(c, Append(m, e), body, i)
    BY <1>2, <1>3, <1>5, <2>4, <2>6 DEF Reading
  <2> QED BY <2>2, <2>3, <2>7 DEF e
<1>6. CASE e.tag \notin {"steps", "/steps"} /\ ~(acc.inside /\ Kept(subjects, e))
  <2>1. Read(subjects, acc, e) = acc
    BY <1>6 DEF Read
  <2>2. Gathered(subjects, body, i, m) = m
    BY <1>2, <1>6, KeptAbout DEF Gathered, e
  <2>3. Reading(acc, m, body, i)
    BY <1>2, <1>3, <1>6 DEF Reading
  <2> QED BY <2>1, <2>2, <2>3 DEF e
<1> QED BY <1>4, <1>5, <1>6

\* What a reader takes from a document is what the document means.
LEMMA ReadMeans ==
  ASSUME NEW subjects, NEW body, Len(body) \in Nat
  PROVE  Told(stepsOf(subjects, body), MeantOf(subjects, body), body)
<1> DEFINE n == Len(body)
<1>0. PICK f : ReadRuns(f, subjects, body)
  BY ReadRun
<1>1. /\ f[0] = Unread
      /\ \A i \in 1 .. n : f[i] = Read(subjects, f[i - 1], body[i])
      /\ stepsOf(subjects, body) = f[n].steps
  BY <1>0 DEF ReadRuns
<1>2. PICK g : /\ g[0] = <<>> /\ \A i \in 1 .. n : g[i] = Gathered(subjects, body, i, g[i - 1])
               /\ MeantOf(subjects, body) = g[n]
  BY MeantRun
<1> DEFINE S == {i \in 0 .. n : Reading(f[i], g[i], body, i)}
<1>3. 0 \in S
  <2>1. ~Within(body, 0 + 1)
    BY DEF Within
  <2>2. Told(<<>>, <<>>, body)
    BY EmptySeq DEF Told
  <2>3. PICK v : v = FALSE
    OBVIOUS
  <2>4. f[0] = [inside |-> v, steps |-> <<>>]
    BY <1>1, <2>3 DEF Unread
  <2>5. /\ f[0].inside = v /\ f[0].steps = <<>>
        /\ f[0] = [inside |-> f[0].inside, steps |-> f[0].steps]
    BY <2>4
  <2>6. Reading(f[0], g[0], body, 0)
    BY <1>2, <2>1, <2>2, <2>3, <2>5 DEF Reading
  <2> QED BY <2>6
<1>4. ASSUME NEW i \in 1 .. n, i - 1 \in S
      PROVE  i \in S
  BY <1>1, <1>2, <1>4, ReadOn
<1>5. \A i \in 0 .. n : i \in S
  <2> HIDE DEF S
  <2> QED BY <1>3, <1>4, Walked
<1>6. Reading(f[n], g[n], body, n)
  BY <1>5
<1> QED BY <1>1, <1>2, <1>6 DEF Reading

-----------------------------------------------------------------------------
(* What a turn of a run keeps, does, and says.                             *)

Shape(b, body) ==
  IsBed(b) /\ b.steps \in Seq(StepsIn(body)) /\ b.act \in Nat

\* The screens are in order, unless the application runs tests from created ones.
Fine(w) == "created" \notin Env => WorldSound(w)

Alike(steps, others) ==
  /\ Len(steps) = Len(others) /\ \A k \in 1 .. Len(others) : steps[k].does = others[k].does

Turned(x, r, body) ==
  /\ SameBut(r.b, x.b) /\ Shape(x.b, body) /\ Alike(x.b.steps, r.b.steps)
  /\ Fine(x.w)

LEMMA BedKept ==
  ASSUME NEW b, BedSound(b), NEW c, SameBut(b, c)
  PROVE  BedSound(c) /\ c.display = b.display
  BY DEF BedSound, SameBut

LEMMA OkIs ==
  ASSUME NEW l, NEW w, NEW e
  PROVE  execute_step(l, w, e).ok \in BOOLEAN
<1>1. CASE e.tag = "click_on"
  <2> DEFINE there == w.screens[w.active].widgets
             reached == e.on \in DOMAIN there /\ Visible(w, there[e.on])
             clicked == Clicked(l, w, there[e.on])
  <2>1. execute_step(l, w, e) = IF reached THEN [w |-> clicked, ok |-> TRUE]
                                ELSE [w |-> w, ok |-> FALSE]
    BY <1>1 DEF execute_step
  <2> HIDE DEF reached, clicked
  <2> QED BY <2>1
<1>2. CASE e.tag = "subject_compare"
  BY <1>2 DEF execute_step
<1>3. CASE e.tag = "screenshot_compare"
  BY <1>3 DEF execute_step
<1>4. CASE e.tag \notin {"click_on", "subject_compare", "screenshot_compare"}
  <2>1. \E x : execute_step(l, w, e) = [w |-> x, ok |-> TRUE]
    BY <1>4 DEF execute_step
  <2> QED BY <2>1
<1> QED BY <1>1, <1>2, <1>3, <1>4

\* A turn sets the status of the step it runs, and of no other.
Does(y, x, l, k, body) ==
  /\ SameBut(x.b, y.b) /\ Shape(y.b, body) /\ Alike(y.b.steps, x.b.steps)
  /\ k \in 1 .. Len(x.b.steps) /\ y.b.act = k
  /\ y.w = execute_step(l, x.w, x.b.steps[k].does).w
  /\ y.ok = execute_step(l, x.w, x.b.steps[k].does).ok /\ y.ok \in BOOLEAN
  /\ y.b.steps[k].passed = y.ok
  /\ \A i \in 1 .. Len(x.b.steps) : i # k => y.b.steps[i] = x.b.steps[i]

LEMMA TurnDoes ==
  ASSUME NEW body, NEW l, NEW x, Shape(x.b, body), x.b.act < Len(x.b.steps),
         NEW y, y = run_next(l, x)
  PROVE  Does(y, x, l, x.b.act + 1, body)
<1>0. PICK k : k = x.b.act + 1
  OBVIOUS
<1> DEFINE steps == x.b.steps
           did == execute_step(l, x.w, steps[k].does)
<1>1. /\ SameBut(x.b, y.b) /\ y.b.act = k /\ y.w = did.w /\ y.ok = did.ok
      /\ y.b.steps = [steps EXCEPT ![k].passed = did.ok]
  <2>1. Stepped(y, x, execute_step(l, x.w, x.b.steps[x.b.act + 1].does))
    BY NextIs DEF Shape
  <2>2. Stepped(y, x, did)
    BY <1>0, <2>1
  <2> HIDE DEF did
  <2> QED BY <1>0, <2>2 DEF Stepped
<1>2. did.ok \in BOOLEAN
  BY OkIs
<1>3. steps \in Seq(StepsIn(body)) /\ Len(steps) \in Nat /\ k \in 1 .. Len(steps)
  BY <1>0, LenProperties DEF Shape
<1> HIDE DEF did, steps
<1>4. PICK ok \in BOOLEAN : ok = did.ok
  BY <1>2
<1>5. steps[k] \in StepsIn(body)
  BY <1>3, ElementOfSeq
<1>6. PICK new : new = [steps[k] EXCEPT !.passed = ok]
  OBVIOUS
<1>7. new \in StepsIn(body) /\ new.passed = ok /\ new.does = steps[k].does
  BY <1>5, <1>6 DEF StepsIn
<1>8. y.b.steps = [steps EXCEPT ![k] = new]
  BY <1>1, <1>4, <1>6
<1>9. /\ y.b.steps \in Seq(StepsIn(body)) /\ Len(y.b.steps) = Len(steps)
      /\ \A i \in 1 .. Len(steps) : y.b.steps[i] = IF i = k THEN new ELSE steps[i]
  BY <1>3, <1>7, <1>8, ExceptSeq
<1>10. Alike(y.b.steps, steps)
  BY <1>7, <1>9 DEF Alike
<1>11. Shape(y.b, body)
  BY <1>1, <1>3, <1>9 DEF Shape, SameBut
<1> QED BY <1>0, <1>1, <1>2, <1>3, <1>4, <1>7, <1>9, <1>10, <1>11 DEF did, steps, Does

LEMMA TurnKept ==
  ASSUME NEW body, NEW l, NEW r, NEW x, Turned(x, r, body), x.b.act < Len(x.b.steps)
  PROVE  Turned(run_next(l, x), r, body)
<1>1. PICK y : y = run_next(l, x)
  OBVIOUS
<1>2. PICK k : k = x.b.act + 1
  OBVIOUS
<1>3. /\ SameBut(x.b, y.b) /\ Shape(y.b, body) /\ Alike(y.b.steps, x.b.steps)
      /\ y.w = execute_step(l, x.w, x.b.steps[k].does).w
  <2>1. Does(y, x, l, x.b.act + 1, body)
    BY <1>1, TurnDoes DEF Turned
  <2> QED BY <1>2, <2>1 DEF Does
<1>4. Fine(y.w)
  BY <1>3, StepSound DEF Turned, Fine
<1>5. Alike(y.b.steps, r.b.steps)
  BY <1>3 DEF Turned, Alike
<1>6. SameBut(r.b, y.b)
  BY <1>3 DEF Turned, SameBut
<1> QED BY <1>1, <1>3, <1>4, <1>5, <1>6 DEF Turned

\* What comes of each step when they are carried out in their order.
Follows(o, l, m) == \A i \in 1 .. Len(m) : o[i] = execute_step(l, o[i - 1].w, m[i])

Exact(b, m, o) ==
  /\ b.act <= Len(m)
  /\ \A i \in 1 .. Len(m) : i <= b.act => b.steps[i].passed = o[i].ok

\* Carried out as far as x.
Carried(x, m, o) == Exact(x.b, m, o) /\ x.w = o[x.b.act].w

LEMMA TurnExact ==
  ASSUME NEW body, NEW l, NEW x, Shape(x.b, body), x.b.act < Len(x.b.steps),
         NEW m, NEW o, Told(x.b.steps, m, body), Follows(o, l, m), Carried(x, m, o)
  PROVE  Carried(run_next(l, x), m, o)
<1>1. PICK y : y = run_next(l, x)
  OBVIOUS
<1>2. PICK k : k = x.b.act + 1
  OBVIOUS
<1>3. /\ k \in 1 .. Len(x.b.steps) /\ y.b.act = k
      /\ y.w = execute_step(l, x.w, x.b.steps[k].does).w
      /\ y.ok = execute_step(l, x.w, x.b.steps[k].does).ok
      /\ y.b.steps[k].passed = y.ok
      /\ \A i \in 1 .. Len(x.b.steps) : i # k => y.b.steps[i] = x.b.steps[i]
  <2>1. Does(y, x, l, x.b.act + 1, body)
    BY <1>1, TurnDoes
  <2> QED BY <1>2, <2>1 DEF Does
<1>4. Len(m) = Len(x.b.steps) /\ Len(m) \in Nat /\ x.b.act \in Nat
  BY LenProperties DEF Told, Shape
<1>5. execute_step(l, x.w, x.b.steps[k].does) = o[k]
  <2>1. x.b.steps[k].does = m[k] /\ k - 1 = x.b.act
    BY <1>2, <1>3, <1>4 DEF Told
  <2> QED BY <1>3, <1>4, <2>1 DEF Follows, Carried
<1>6. y.w = o[k].w /\ y.b.steps[k].passed = o[k].ok
  BY <1>3, <1>5
<1>7. \A i \in 1 .. Len(m) : i <= k => y.b.steps[i].passed = o[i].ok
  <2> TAKE i \in 1 .. Len(m)
  <2>1. CASE i = k
    BY <1>6, <2>1
  <2>2. CASE i # k
    <3>1. y.b.steps[i] = x.b.steps[i]
      BY <1>3, <1>4, <2>2
    <3>2. i <= k => i <= x.b.act
      BY <1>2, <1>4, <2>2
    <3> QED BY <3>1, <3>2 DEF Exact, Carried
  <2> QED BY <2>1, <2>2
<1> QED BY <1>1, <1>3, <1>4, <1>6, <1>7 DEF Exact, Carried

\* The answer of a run: no step of it failed, or its last one did.
Answered(b, ok, from) ==
  ok \in BOOLEAN /\ \A i \in from + 1 .. b.act : b.steps[i].passed = (ok \/ i < b.act)

LEMMA TurnAnswers ==
  ASSUME NEW body, NEW l, NEW x, Shape(x.b, body), x.b.act < Len(x.b.steps),
         NEW from \in Nat, x.ok = TRUE, Answered(x.b, x.ok, from)
  PROVE  Answered(run_next(l, x).b, run_next(l, x).ok, from)
<1>1. PICK y : y = run_next(l, x)
  OBVIOUS
<1>2. PICK k : k = x.b.act + 1
  OBVIOUS
<1>3. /\ k \in 1 .. Len(x.b.steps) /\ y.b.act = k /\ y.ok \in BOOLEAN
      /\ y.b.steps[k].passed = y.ok
      /\ \A i \in 1 .. Len(x.b.steps) : i # k => y.b.steps[i] = x.b.steps[i]
  <2>1. Does(y, x, l, x.b.act + 1, body)
    BY <1>1, TurnDoes
  <2> QED BY <1>2, <2>1 DEF Does
<1>4. Len(x.b.steps) \in Nat /\ x.b.act \in Nat
  BY LenProperties DEF Shape
<1>5. ASSUME NEW i \in from + 1 .. k
      PROVE  y.b.steps[i].passed = (y.ok \/ i < k)
  <2>1. CASE i = k
    <3>1. ~(i < k)
      BY <1>2, <1>4, <2>1
    <3>2. (y.ok \/ i < k) = y.ok
      BY <1>3, <3>1
    <3> QED BY <1>3, <2>1, <3>2
  <2>2. CASE i # k
    <3>1. i < k /\ i \in from + 1 .. x.b.act /\ i \in 1 .. Len(x.b.steps)
      BY <1>2, <1>3, <1>4, <2>2
    <3>2. y.b.steps[i] = x.b.steps[i]
      BY <1>3, <2>2, <3>1
    <3>3. x.b.steps[i].passed = TRUE
      BY <3>1 DEF Answered
    <3>4. (y.ok \/ i < k) = TRUE
      BY <3>1
    <3> QED BY <3>2, <3>3, <3>4
  <2> QED BY <2>1, <2>2
<1>6. Answered(y.b, y.ok, from)
  BY <1>3, <1>5 DEF Answered
<1> QED BY <1>1, <1>6

\* lv_xml_test_run_to(), of a test with steps: it goes on to the last one wanted.
Gone(x, r, body) ==
  Turned(x, r, body) /\ Answered(x.b, x.ok, r.b.act)

Right(x, r, body, m, o, l) ==
  Told(r.b.steps, m, body) /\ Follows(o, l, m) /\ Carried(r, m, o) => Carried(x, m, o)

LEMMA ToldStill ==
  ASSUME NEW body, NEW steps, NEW m, Told(steps, m, body), NEW others,
         others \in Seq(StepsIn(body)), Alike(others, steps)
  PROVE  Told(others, m, body)
  BY DEF Told, Alike

LEMMA RightOn ==
  ASSUME NEW body, NEW l, NEW r, NEW x, Turned(x, r, body), x.b.act < Len(x.b.steps),
         NEW m, NEW o, Right(x, r, body, m, o, l)
  PROVE  Right(run_next(l, x), r, body, m, o, l)
<1> SUFFICES ASSUME Told(r.b.steps, m, body), Follows(o, l, m), Carried(r, m, o)
             PROVE  Carried(run_next(l, x), m, o)
  BY DEF Right
<1>1. Shape(x.b, body) /\ Alike(x.b.steps, r.b.steps)
  BY DEF Turned
<1>2. Told(x.b.steps, m, body)
  BY <1>1, ToldStill DEF Shape
<1>3. Carried(x, m, o)
  BY DEF Right
<1> QED BY <1>1, <1>2, <1>3, TurnExact

LEMMA GoneOn ==
  ASSUME NEW body, NEW l, NEW r, Shape(r.b, body), NEW x, Gone(x, r, body),
         NEW last \in Int, last < Len(r.b.steps)
  PROVE  /\ Gone(GoOn(l, x, last), r, body)
         /\ \A m, o : Right(x, r, body, m, o, l) => Right(GoOn(l, x, last), r, body, m, o, l)
<1>1. CASE ~(x.ok /\ x.b.act <= last)
  BY <1>1 DEF GoOn
<1>2. CASE x.ok /\ x.b.act <= last
  <2>1. GoOn(l, x, last) = run_next(l, x)
    BY <1>2 DEF GoOn
  <2>2. /\ Shape(x.b, body) /\ Alike(x.b.steps, r.b.steps) /\ x.ok = TRUE
        /\ Answered(x.b, x.ok, r.b.act)
    BY <1>2 DEF Gone, Turned, Answered
  <2>3. x.b.act < Len(x.b.steps) /\ r.b.act \in Nat
    BY <1>2, <2>2, LenProperties DEF Alike, Shape
  <2>4. Turned(run_next(l, x), r, body)
    BY <2>3, TurnKept DEF Gone
  <2>5. Answered(run_next(l, x).b, run_next(l, x).ok, r.b.act)
    BY <2>2, <2>3, TurnAnswers
  <2>6. \A m, o : Right(x, r, body, m, o, l) => Right(run_next(l, x), r, body, m, o, l)
    BY <2>3, RightOn DEF Gone
  <2> QED BY <2>1, <2>4, <2>5, <2>6 DEF Gone
<1> QED BY <1>1, <1>2

LEMMA ToKept ==
  ASSUME NEW body, NEW l, NEW r, Shape(r.b, body), Fine(r.w), r.ok = TRUE,
         NEW last \in Int, last < Len(r.b.steps)
  PROVE  /\ Gone(run_to(l, r, last), r, body)
         /\ \A m, o : Right(run_to(l, r, last), r, body, m, o, l)
<1> DEFINE n == Len(r.b.steps)
<1>0. n \in Nat
  BY LenProperties DEF Shape
<1>1. PICK f : /\ f[0] = r /\ \A i \in 1 .. n : f[i] = GoOn(l, f[i - 1], last)
               /\ run_to(l, r, last) = f[n]
  <2>1. \E f : ToRuns(f, l, r, last, n)
    BY <1>0, ToRun
  <2> QED BY <2>1 DEF ToRuns
<1> HIDE DEF n
<1> DEFINE S == {i \in 0 .. n : /\ Gone(f[i], r, body)
                                /\ \A m, o : Right(f[i], r, body, m, o, l)}
<1>2. 0 \in S
  <2>1. Turned(r, r, body)
    BY DEF Turned, SameBut, Shape, Alike
  <2>2. r.b.act + 1 .. r.b.act = {}
    BY DEF Shape
  <2>3. Answered(r.b, r.ok, r.b.act)
    BY <2>2 DEF Answered
  <2>4. \A m, o : Right(r, r, body, m, o, l)
    BY DEF Right
  <2>5. 0 \in 0 .. n /\ f[0] = r
    BY <1>0, <1>1
  <2> QED BY <2>1, <2>3, <2>4, <2>5 DEF Gone
<1>3. ASSUME NEW i \in 1 .. n, i - 1 \in S
      PROVE  i \in S
  <2>1. Gone(f[i - 1], r, body) /\ \A m, o : Right(f[i - 1], r, body, m, o, l)
    BY <1>3
  <2>2. /\ Gone(GoOn(l, f[i - 1], last), r, body)
        /\ \A m, o : Right(GoOn(l, f[i - 1], last), r, body, m, o, l)
    BY <2>1, GoneOn
  <2>3. f[i] = GoOn(l, f[i - 1], last) /\ i \in 0 .. n
    BY <1>0, <1>1
  <2> QED BY <2>2, <2>3
<1>4. \A i \in 0 .. n : i \in S
  <2> HIDE DEF S
  <2> QED BY <1>0, <1>2, <1>3, Walked
<1>5. n \in S
  <2> HIDE DEF S
  <2> QED BY <1>0, <1>4
<1>6. Gone(f[n], r, body) /\ \A m, o : Right(f[n], r, body, m, o, l)
  BY <1>5
<1> QED BY <1>1, <1>6

Onward(f, l, n) == \A i \in 1 .. n : f[i] = run_next(l, f[i - 1])

Ready(f, n, body) ==
  Shape(f[0].b, body) /\ Fine(f[0].w) /\ f[0].b.act = 0 /\ n = Len(f[0].b.steps)

Through(f, n, body, l) ==
  /\ Turned(f[n], f[0], body) /\ \A m, o : Right(f[n], f[0], body, m, o, l)
  /\ f[n].b.act = n

\* lv_xml_test_run_all(): from the first step to the last, whatever becomes of them.
LEMMA AllKept ==
  ASSUME NEW body, NEW l, NEW f, NEW n \in Nat, Ready(f, n, body), Onward(f, l, n)
  PROVE  Through(f, n, body, l)
<1>5. PICK r : r = f[0]
  OBVIOUS
<1>6. Shape(r.b, body) /\ Fine(r.w) /\ r.b.act = 0 /\ n = Len(r.b.steps)
  BY <1>5 DEF Ready
<1>0. n \in Nat
  OBVIOUS
<1> DEFINE S == {i \in 0 .. n : /\ Turned(f[i], r, body) /\ f[i].b.act = i
                                /\ \A m, o : Right(f[i], r, body, m, o, l)}
<1>1. 0 \in S
  <2>1. Turned(r, r, body) /\ \A m, o : Right(r, r, body, m, o, l)
    BY <1>6 DEF Turned, SameBut, Shape, Alike, Right
  <2> QED BY <1>0, <1>5, <1>6, <2>1
<1>2. ASSUME NEW i \in 1 .. n, i - 1 \in S
      PROVE  i \in S
  <2>1. PICK x : x = f[i - 1]
    OBVIOUS
  <2>2. PICK y : y = f[i]
    OBVIOUS
  <2>3. /\ Turned(x, r, body) /\ x.b.act = i - 1 /\ y = run_next(l, x)
        /\ \A m, o : Right(x, r, body, m, o, l)
    BY <1>2, <2>1, <2>2 DEF Onward
  <2>4. Shape(x.b, body) /\ Alike(x.b.steps, r.b.steps) /\ x.b.act < Len(x.b.steps)
    BY <1>0, <1>6, <2>3 DEF Turned, Alike
  <2>5. Turned(y, r, body)
    BY <2>3, <2>4, TurnKept
  <2>6. y.b.act = i
    <3>1. Does(y, x, l, x.b.act + 1, body)
      BY <2>3, <2>4, TurnDoes
    <3> QED BY <1>0, <2>3, <3>1 DEF Does
  <2>7. \A m, o : Right(y, r, body, m, o, l)
    BY <2>3, <2>4, RightOn
  <2> QED BY <2>2, <2>5, <2>6, <2>7
<1>3. \A i \in 0 .. n : i \in S
  <2> HIDE DEF S
  <2> QED BY <1>0, <1>1, <1>2, Walked
<1>4. n \in S
  <2> HIDE DEF S
  <2> QED BY <1>0, <1>3
<1> QED BY <1>4, <1>5 DEF Through

-----------------------------------------------------------------------------
(* What a run leaves behind.                                               *)

InOrder == BedSound(bed) /\ Shape(bed, doc.test.body) /\ Fine(world)

LEMMA OrderStarts ==
  ASSUME TestInit PROVE InOrder
<1>1. BedSound(bed)
  BY DEF TestInit, NoBed, BedSound, IsBed
<1> DEFINE first == [live |-> TRUE, made |-> FALSE, name |-> Home, shows |-> Nil, widgets |-> <<>>]
<1>2. [Unused EXCEPT !.live = TRUE, !.name = Home] = first
  <2>1. PICK v : v = TRUE
    OBVIOUS
  <2>2. PICK x : x = Unused
    OBVIOUS
  <2>3. PICK y : y = [x EXCEPT !.live = v]
    OBVIOUS
  <2>4. PICK n : n = FALSE
    OBVIOUS
  <2>5. x = [live |-> n, made |-> n, name |-> Nil, shows |-> Nil, widgets |-> <<>>]
    BY <2>2, <2>4 DEF Unused
  <2>6. y = [live |-> v, made |-> n, name |-> Nil, shows |-> Nil, widgets |-> <<>>]
    BY <2>3, <2>5
  <2>7. [y EXCEPT !.name = Home] = [live |-> v, made |-> n, name |-> Home, shows |-> Nil,
                                    widgets |-> <<>>]
    BY <2>6
  <2>8. [Unused EXCEPT !.live = TRUE, !.name = Home] = [y EXCEPT !.name = Home]
    BY <2>1, <2>2, <2>3
  <2> QED BY <2>1, <2>4, <2>7, <2>8
<1>3. IsScreen(first) /\ first.live /\ ~first.made
  BY DEF IsScreen
<1>4. IsScreen(Unused) /\ ~Unused.live
  BY DEF IsScreen, Unused
<1> HIDE DEF first
<1> DEFINE all == [s \in Screens |-> IF s = Boot THEN first ELSE Unused]
<1>5. world = [val |-> <<>>, lang |-> Nil, active |-> Boot, twice |-> FALSE, screens |-> all]
  BY <1>2 DEF TestInit
<1>6. /\ Boot \in Screens /\ all[Boot] = first /\ all = [s \in Screens |-> all[s]]
      /\ \A s \in Screens : IsScreen(all[s]) /\ (s # Boot => ~all[s].live)
  BY <1>3, <1>4, RunnerAssumption
<1> HIDE DEF all
<1>7. WorldSound(world)
  BY <1>3, <1>5, <1>6 DEF WorldSound, World, IsWorld
<1>8. Shape(bed, doc.test.body)
  BY <1>1, EmptySeq DEF TestInit, NoBed, Shape, BedSound
<1> QED BY <1>1, <1>7, <1>8 DEF InOrder, Fine

LEMMA StepsPut ==
  ASSUME NEW b, BedSound(b), NEW steps
  PROVE  /\ BedSound([b EXCEPT !.steps = steps])
         /\ [b EXCEPT !.steps = steps].steps = steps
         /\ [b EXCEPT !.steps = steps].display = b.display
         /\ [b EXCEPT !.steps = steps].act = b.act
<1>1. PICK c : c = [b EXCEPT !.steps = steps]
  OBVIOUS
<1>2. c = [steps |-> steps, act |-> b.act, display |-> b.display, cursor |-> b.cursor,
           saved |-> b.saved, tick |-> b.tick]
  BY <1>1 DEF BedSound, IsBed
<1>3. /\ IsBed(c) /\ c.steps = steps /\ c.display = b.display /\ c.cursor = b.cursor
      /\ c.tick = b.tick /\ c.saved = b.saved /\ c.act = b.act
  BY <1>2 DEF IsBed
<1>4. BedSound(c)
  BY <1>3 DEF BedSound
<1> QED BY <1>1, <1>3, <1>4

\* The steps of the test that is registered now.
NewSteps(t) == IF t.whole THEN stepsOf(lib.subjects, t.body) ELSE <<>>

LEMMA RegisterSteps ==
  ASSUME InOrder, NEW t \in Tests, RegisterTest(t)
  PROVE  /\ bed'.steps = NewSteps(t) /\ bed'.act = bed.act /\ bed'.display = bed.display
         /\ BedSound(bed') /\ doc' = [test |-> t, subjects |-> lib.subjects]
         /\ Told(stepsOf(lib.subjects, t.body), MeantOf(lib.subjects, t.body), t.body)
         /\ NewSteps(t) \in Seq(StepsIn(t.body))
<1>1. bed' = [bed EXCEPT !.steps = NewSteps(t)]
  BY DEF RegisterTest, NewSteps
<1>2. /\ bed'.steps = NewSteps(t) /\ bed'.act = bed.act /\ bed'.display = bed.display
      /\ BedSound(bed')
  BY <1>1, StepsPut DEF InOrder
<1>3. Told(stepsOf(lib.subjects, t.body), MeantOf(lib.subjects, t.body), t.body)
  BY ReadMeans, RunnerAssumption
<1>4. NewSteps(t) \in Seq(StepsIn(t.body))
  BY <1>3, EmptySeq DEF NewSteps, Told
<1> QED BY <1>2, <1>3, <1>4 DEF RegisterTest

LEMMA RegisterOrder ==
  ASSUME InOrder, NEW t \in Tests, RegisterTest(t) PROVE InOrder'
<1>1. /\ bed'.steps = NewSteps(t) /\ bed'.act = bed.act /\ BedSound(bed')
      /\ doc'.test.body = t.body /\ NewSteps(t) \in Seq(StepsIn(t.body))
  BY RegisterSteps
<1>2. Shape(bed', doc'.test.body)
  BY <1>1 DEF Shape, BedSound, InOrder
<1> QED BY <1>1, <1>2 DEF InOrder, RegisterTest

LEMMA UnregisterOrder ==
  ASSUME InOrder, UnregisterTest
  PROVE  InOrder' /\ bed'.act = bed.act /\ bed'.display = bed.display
<1>1. bed' = [bed EXCEPT !.steps = <<>>] /\ world' = world
  BY DEF UnregisterTest
<1>2. /\ bed'.steps = <<>> /\ bed'.act = bed.act /\ bed'.display = bed.display
      /\ BedSound(bed')
  BY <1>1, StepsPut DEF InOrder
<1>3. Shape(bed', doc'.test.body)
  BY <1>2, EmptySeq DEF Shape, BedSound, InOrder
<1> QED BY <1>1, <1>2, <1>3 DEF InOrder

\* A run begins.
LEMMA RunBegins ==
  ASSUME InOrder, MayRun
  PROVE  /\ BedSound(run_init(bed)) /\ Shape(run_init(bed), doc.test.body)
         /\ run_init(bed).act = 0 /\ run_init(bed).steps = bed.steps
         /\ run_init(bed).display = TRUE /\ Fine(Staged(lib, world))
<1>1. /\ ~bed.display /\ Fresh(world) # {}
      /\ "created" \notin Env => ~world.screens[world.active].made
  BY DEF MayRun
<1>2. /\ BedSound(run_init(bed)) /\ run_init(bed).act = 0 /\ run_init(bed).steps = bed.steps
      /\ run_init(bed).display = TRUE
  BY <1>1, InitIs DEF InOrder
<1>3. Shape(run_init(bed), doc.test.body)
  BY <1>2 DEF Shape, InOrder, BedSound
<1>4. Fine(Staged(lib, world))
  BY <1>1, StagedSound DEF InOrder, Fine
<1> QED BY <1>2, <1>3, <1>4

LEMMA RunInitOrder ==
  ASSUME InOrder, RunInit PROVE InOrder'
  BY RunBegins DEF RunInit, InOrder

LEMMA NowIs ==
  ASSUME InOrder
  PROVE  /\ Now.b = bed /\ Now.w = world /\ Now.ok = TRUE /\ Shape(Now.b, doc.test.body)
         /\ Fine(Now.w) /\ BedSound(Now.b) /\ Turned(Now, Now, doc.test.body)
<1>1. Now.b = bed /\ Now.w = world /\ Now.ok = TRUE
  BY DEF Now
<1>2. Turned(Now, Now, doc.test.body)
  BY <1>1 DEF InOrder, Turned, SameBut, Shape, Alike
<1> QED BY <1>1, <1>2 DEF InOrder

LEMMA RunNextOrder ==
  ASSUME InOrder, RunNext
  PROVE  InOrder' /\ Turned(run_next(lib, Now), Now, doc.test.body)
<1>1. Turned(run_next(lib, Now), Now, doc.test.body)
  BY NowIs, TurnKept DEF RunNext
<1>2. bed' = run_next(lib, Now).b /\ world' = run_next(lib, Now).w /\ doc' = doc
  BY DEF RunNext, Undisturbed
<1>3. BedSound(bed')
  BY <1>1, <1>2, NowIs, BedKept DEF Turned
<1> QED BY <1>1, <1>2, <1>3 DEF InOrder, Turned

\* The last step that is wanted of a run, among those there are.
LastOf(step) == IF step >= Len(bed.steps) THEN Len(bed.steps) - 1 ELSE step

LEMMA ToGone ==
  ASSUME InOrder, NEW step \in Nat, bed.steps # <<>>
  PROVE  /\ Gone(run_to(lib, Now, LastOf(step)), Now, doc.test.body)
         /\ \A m, o : Right(run_to(lib, Now, LastOf(step)), Now, doc.test.body, m, o, lib)
<1>1. Len(bed.steps) \in Nat
  BY LenProperties DEF InOrder, Shape
<1>2. LastOf(step) \in Int /\ LastOf(step) < Len(bed.steps)
  BY <1>1 DEF LastOf
<1> QED BY <1>2, NowIs, ToKept

LEMMA RunToIs ==
  ASSUME InOrder, NEW step \in Nat, RunTo(step)
  PROVE  /\ bed.steps = <<>> => /\ bed' = bed /\ world' = world
                                /\ said' = [from |-> bed.act, ok |-> FALSE]
         /\ bed.steps # <<>> =>
              /\ bed' = run_to(lib, Now, LastOf(step)).b
              /\ world' = run_to(lib, Now, LastOf(step)).w
              /\ said' = [from |-> bed.act, ok |-> run_to(lib, Now, LastOf(step)).ok]
  BY DEF RunTo, LastOf, Now

LEMMA RunToOrder ==
  ASSUME InOrder, NEW step \in Nat, RunTo(step) PROVE InOrder'
<1>1. doc' = doc
  BY DEF RunTo, Undisturbed
<1>2. CASE bed.steps = <<>>
  BY <1>1, <1>2, RunToIs DEF InOrder
<1>3. CASE bed.steps # <<>>
  <2>1. PICK x : x = run_to(lib, Now, LastOf(step))
    OBVIOUS
  <2>2. Turned(x, Now, doc.test.body)
    BY <1>3, <2>1, ToGone DEF Gone
  <2>3. bed' = x.b /\ world' = x.w
    BY <1>3, <2>1, RunToIs
  <2>4. BedSound(bed')
    BY <2>2, <2>3, NowIs, BedKept DEF Turned
  <2> QED BY <1>1, <2>2, <2>3, <2>4 DEF InOrder, Turned
<1> QED BY <1>2, <1>3

LEMMA RunStopOrder ==
  ASSUME InOrder, RunStop
  PROVE  /\ InOrder' /\ bed'.display = FALSE /\ bed'.act = bed.act /\ bed'.steps = bed.steps
<1>1. bed' = run_stop(bed) /\ world' = world /\ doc' = doc
  BY DEF RunStop, Undisturbed
<1>2. /\ BedSound(bed') /\ bed'.display = FALSE /\ bed'.act = bed.act
      /\ bed'.steps = bed.steps
  BY <1>1, StopIs DEF InOrder
<1> QED BY <1>1, <1>2 DEF InOrder, Shape, BedSound

\* A run of all the steps, from beginning to end.
LEMMA AllGone ==
  ASSUME InOrder, RunAll
  PROVE  \E r, x : /\ r.b = run_init(bed) /\ r.w = Staged(lib, world)
                   /\ Turned(x, r, doc.test.body) /\ x.b.act = Len(bed.steps)
                   /\ \A m, o : Right(x, r, doc.test.body, m, o, lib)
                   /\ bed' = run_stop(x.b) /\ world' = x.w
<1> DEFINE n == Len(bed.steps)
<1>1. n \in Nat
  BY LenProperties DEF InOrder, Shape
<1>2. MayRun
  BY DEF RunAll
<1>3. PICK f : /\ f[0] = [b |-> run_init(bed), w |-> Staged(lib, world), ok |-> TRUE]
               /\ \A i \in 1 .. n : f[i] = run_next(lib, f[i - 1])
               /\ bed' = run_stop(f[n].b) /\ world' = f[n].w
  BY <1>1, AllRun
<1> HIDE DEF n
<1>4. PICK r : r = f[0]
  OBVIOUS
<1>5. r.b = run_init(bed) /\ r.w = Staged(lib, world)
  BY <1>3, <1>4
<1>10. Onward(f, lib, n)
  BY <1>3 DEF Onward
<1>6. Shape(r.b, doc.test.body) /\ Fine(r.w) /\ r.b.act = 0 /\ n = Len(r.b.steps)
  BY <1>2, <1>5, RunBegins DEF n
<1>7. PICK x : x = f[n]
  OBVIOUS
<1>8. /\ Turned(x, r, doc.test.body) /\ x.b.act = n
      /\ \A m, o : Right(x, r, doc.test.body, m, o, lib)
  <2>1. /\ Shape(f[0].b, doc.test.body) /\ Fine(f[0].w) /\ f[0].b.act = 0
        /\ n = Len(f[0].b.steps)
    BY <1>4, <1>6
  <2>2. /\ Turned(f[n], f[0], doc.test.body) /\ f[n].b.act = n
        /\ \A m, o : Right(f[n], f[0], doc.test.body, m, o, lib)
    <3>1. n \in Nat
      BY <1>1 DEF n
    <3>2. Ready(f, n, doc.test.body)
      BY <2>1 DEF Ready
    <3>3. Through(f, n, doc.test.body, lib)
      BY <1>10, <3>1, <3>2, AllKept
    <3> QED BY <3>3 DEF Through
  <2> QED BY <1>4, <1>7, <2>2
<1>9. bed' = run_stop(x.b) /\ world' = x.w
  BY <1>3, <1>7
<1> QED BY <1>5, <1>8, <1>9 DEF n

LEMMA RunAllOrder ==
  ASSUME InOrder, RunAll PROVE InOrder'
<1>1. PICK r, x : /\ r.b = run_init(bed) /\ Turned(x, r, doc.test.body)
                  /\ bed' = run_stop(x.b) /\ world' = x.w
  BY AllGone
<1>2. BedSound(r.b) /\ doc' = doc
  BY <1>1, RunBegins DEF RunAll
<1>3. BedSound(x.b)
  BY <1>1, <1>2, BedKept DEF Turned
<1>4. BedSound(bed') /\ bed'.steps = x.b.steps /\ bed'.act = x.b.act
  BY <1>1, <1>3, StopIs
<1>5. Shape(bed', doc'.test.body)
  BY <1>1, <1>2, <1>4 DEF Shape, BedSound, Turned
<1> QED BY <1>1, <1>4, <1>5 DEF InOrder, Turned

LEMMA UseOrder ==
  ASSUME InOrder, Use PROVE InOrder'
<1>1. bed' = bed /\ doc' = doc
  BY DEF Use
<1>2. Fine(world')
  <2>1. CASE \E k \in DOMAIN world.screens[world.active].widgets :
               world' = Clicked(lib, world, world.screens[world.active].widgets[k])
    BY <2>1, ClickedSound DEF InOrder, Fine
  <2>2. CASE \E s \in lib.subjects, v \in Values : world' = SetTo(world, s, v)
    BY <2>2, SetToSound DEF InOrder, Fine
  <2> QED BY <2>1, <2>2 DEF Use
<1> QED BY <1>1, <1>2 DEF InOrder

LEMMA OrderSteps ==
  ASSUME InOrder, [TestNext]_testVars PROVE InOrder'
<1>1. ASSUME NEW t \in Tests, RegisterTest(t) PROVE InOrder'
  BY <1>1, RegisterOrder
<1>2. CASE UnregisterTest
  BY <1>2, UnregisterOrder
<1>3. CASE RunInit
  BY <1>3, RunInitOrder
<1>4. CASE RunNext
  BY <1>4, RunNextOrder
<1>5. ASSUME NEW k \in 0 .. Len(bed.steps), RunTo(k) PROVE InOrder'
  BY <1>5, RunToOrder
<1>6. CASE RunStop
  BY <1>6, RunStopOrder
<1>7. CASE RunAll
  BY <1>7, RunAllOrder
<1>8. CASE Load
  BY <1>8 DEF Load, InOrder
<1>9. CASE Use
  BY <1>9, UseOrder
<1>10. CASE UNCHANGED testVars
  BY <1>10 DEF testVars, InOrder
<1> QED BY <1>1, <1>2, <1>3, <1>4, <1>5, <1>6, <1>7, <1>8, <1>9, <1>10 DEF TestNext

LEMMA OrderHolds ==
  ASSUME InOrder, "created" \notin Env PROVE LeftInOrder
  BY DEF InOrder, Fine, BedSound, WorldSound, World, LeftInOrder

\* Where tests are not run from a screen that an event created, a run leaves the
\* application in order, however it was begun, stopped, or broken off by a new test:
\* the tick callback is LVGL's again, screens are neither leaked nor deleted twice.
THEOREM RunnerAlwaysInOrder ==
  ASSUME "created" \notin Env
  PROVE  TestSpec => []LeftInOrder
<1>1. TestInit => InOrder
  BY OrderStarts
<1>2. InOrder /\ [TestNext]_testVars => InOrder'
  BY OrderSteps
<1>3. InOrder => LeftInOrder
  BY OrderHolds
<1> QED BY <1>1, <1>2, <1>3, PTL DEF TestSpec

-----------------------------------------------------------------------------
(* What a run says of the steps.                                           *)

\* The steps of a list carried out in their order.
Outcome(l, w, m) ==
  LET done[i \in 0 .. Len(m)] ==
        IF i = 0 THEN [w |-> w, ok |-> TRUE] ELSE execute_step(l, done[i - 1].w, m[i])
  IN  done

LEMMA OutcomeIs ==
  ASSUME NEW l, NEW w, NEW m, Len(m) \in Nat
  PROVE  Outcome(l, w, m)[0].w = w /\ Follows(Outcome(l, w, m), l, m)
<1> DEFINE n == Len(m)
           first == [w |-> w, ok |-> TRUE]
           Turn(i, x) == execute_step(l, x.w, m[i])
           Up(k, f) == f = [i \in 0 .. k |-> IF i = 0 THEN first ELSE Turn(i, f[i - 1])]
           S == {k \in 0 .. n : \E f : Up(k, f)}
<1>1. 0 \in S
  <2> HIDE DEF first
  <2>1. Up(0, [i \in 0 .. 0 |-> first])
    OBVIOUS
  <2> HIDE DEF Up
  <2> QED BY <2>1
<1>2. ASSUME NEW k \in 1 .. n, k - 1 \in S
      PROVE  k \in S
  <2> HIDE DEF first, Turn
  <2>1. PICK f : Up(k - 1, f)
    BY <1>2
  <2> DEFINE g == [i \in 0 .. k |-> IF i = k THEN Turn(k, f[k - 1]) ELSE f[i]]
  <2>2. Up(k, g)
    BY <2>1
  <2> HIDE DEF g, Up
  <2> QED BY <2>2
<1>3. \A k \in 0 .. n : k \in S
  <2> HIDE DEF S
  <2> QED BY <1>1, <1>2, Walked
<1> DEFINE After(f) == f = [i \in 0 .. n |-> IF i = 0 THEN [w |-> w, ok |-> TRUE]
                                            ELSE execute_step(l, f[i - 1].w, m[i])]
           done == CHOOSE f : After(f)
<1>4. \A f : After(f) <=> f = [i \in 0 .. n |-> IF i = 0 THEN first
                                              ELSE execute_step(l, f[i - 1].w, m[i])]
  OBVIOUS
<1>5. \E f : After(f)
  <2> HIDE DEF After, first
  <2>1. PICK f : f = [i \in 0 .. n |-> IF i = 0 THEN first ELSE execute_step(l, f[i - 1].w, m[i])]
    BY <1>3
  <2> QED BY <1>4, <2>1
<1>6. Outcome(l, w, m) = done
  BY DEF Outcome
<1>7. After(done)
  <2> HIDE DEF After
  <2> QED BY <1>5
<1> HIDE DEF done, After, first
<1>8. done[0] = first /\ \A i \in 1 .. n : done[i] = execute_step(l, done[i - 1].w, m[i])
  BY <1>4, <1>7
<1>9. first.w = w
  BY DEF first
<1> QED BY <1>6, <1>8, <1>9 DEF Follows

\* No file of the application has the name that tests are registered under.
Reserved == \A d \in DOMAIN Dirs : \A k \in Places(d) : Dirs[d][k].name # TestName

LEMMA FileUntested ==
  ASSUME Reserved, NEW l, LibSound(l), TestName \notin DOMAIN l.comps,
         NEW d \in DOMAIN Dirs, NEW k \in Places(d)
  PROVE  TestName \notin DOMAIN load_from_path(l, Dirs[d][k]).comps
<1> DEFINE f == Dirs[d][k]
<1>0. f.name # TestName
  BY DEF Reserved
<1> HIDE DEF f
<1>1. TestName \notin DOMAIN Registered(l.comps, f.name, f.def)
  BY <1>0 DEF Registered
<1>2. TestName \notin DOMAIN register_component(l, f).comps
  BY <1>1 DEF register_component, LibSound
<1>3. TestName \notin DOMAIN register_translation(l, f).comps
  BY DEF register_translation, LibSound
<1>4. TestName \notin DOMAIN load_from_path(l, f).comps
  BY <1>2, <1>3 DEF load_from_path
<1> QED BY <1>4 DEF f

LEMMA ScanUntested ==
  ASSUME Reserved, NEW l, LibSound(l), TestName \notin DOMAIN l.comps,
         NEW d \in DOMAIN Dirs, NEW n \in 0 .. Len(Dirs[d]), NEW unread
  PROVE  TestName \notin DOMAIN Scanned(l, d, n, unread).comps
<1>0. n \in Nat /\ Len(Dirs[d]) \in Nat
  BY LoaderAssumption
<1>1. PICK f : /\ f[0] = [l EXCEPT !.prefix = d]
               /\ \A i \in 1 .. n : f[i] = IF i \in unread THEN f[i - 1]
                                           ELSE load_from_path(f[i - 1], Dirs[d][i])
               /\ Scanned(l, d, n, unread) = f[n]
  BY <1>0, ScanRun
<1> DEFINE S == {i \in 0 .. n : LibSound(f[i]) /\ TestName \notin DOMAIN f[i].comps}
<1>2. 0 \in S
  <2>1. d \notin Missing
    BY LoaderAssumption
  <2> QED BY <1>0, <1>1, <2>1 DEF LibSound
<1>3. ASSUME NEW i \in 1 .. n, i - 1 \in S
      PROVE  i \in S
  <2>1. i \in Places(d) /\ i \in 0 .. n
    BY <1>0 DEF Places
  <2>2. /\ LibSound(load_from_path(f[i - 1], Dirs[d][i]))
        /\ TestName \notin DOMAIN load_from_path(f[i - 1], Dirs[d][i]).comps
    BY <1>3, <2>1, FileSound, FileUntested
  <2>3. f[i] \in {f[i - 1], load_from_path(f[i - 1], Dirs[d][i])}
    BY <1>1
  <2> QED BY <1>3, <2>1, <2>2, <2>3
<1>4. \A i \in 0 .. n : i \in S
  <2> HIDE DEF S
  <2> QED BY <1>0, <1>2, <1>3, Walked
<1> QED BY <1>0, <1>1, <1>4

\* Loading registers no test.
LEMMA LoaderUntested ==
  ASSUME Reserved, LoaderSound, LoaderNext, TestName \notin DOMAIN lib.comps
  PROVE  TestName \notin DOMAIN lib'.comps
<1>1. ASSUME NEW d \in DOMAIN Dirs, NEW n \in 0 .. Len(Dirs[d]), NEW unread,
             lib' = Scanned(lib, d, n, unread)
      PROVE  TestName \notin DOMAIN lib'.comps
  BY <1>1, ScanUntested DEF LoaderSound
<1>2. CASE \E d \in DOMAIN Dirs : \E n \in 0 .. Len(Dirs[d]) :
             \E unread \in SUBSET (1 .. n) : LoadPath(d, n, unread)
  BY <1>1, <1>2 DEF LoadPath
<1>3. CASE \E d \in Missing : LoadMissing(d)
  BY <1>3 DEF LoadMissing, loaderVars
<1>4. ASSUME NEW a, NEW d \in DOMAIN Dirs, NEW own, NEW unread, LoadArchive(a, d, own, unread)
      PROVE  TestName \notin DOMAIN lib'.comps
  <2>1. Len(Dirs[d]) \in 0 .. Len(Dirs[d])
    BY LoaderAssumption
  <2> QED BY <1>1, <1>4, <2>1 DEF LoadArchive
<1>5. ASSUME NEW a, NEW d \in DOMAIN Dirs, NEW n \in 0 .. Len(Dirs[d]), ArchiveBreaks(a, d, n)
      PROVE  TestName \notin DOMAIN lib'.comps
  BY <1>1, <1>5 DEF ArchiveBreaks
<1>6. ASSUME NEW T, Unload(T) PROVE TestName \notin DOMAIN lib'.comps
  BY <1>6 DEF Unload
<1> QED BY <1>2, <1>3, <1>4, <1>5, <1>6 DEF LoaderNext

LEMMA TestedWhole ==
  ASSUME LoaderSound, [TestNext]_testVars PROVE LoaderSound'
<1>1. ASSUME NEW comps, lib' = [lib EXCEPT !.comps = comps],
             UNCHANGED <<loads, blobs, buffers>>
      PROVE  LoaderSound'
  BY <1>1 DEF LoaderSound, LibSound
<1>2. ASSUME NEW t, RegisterTest(t) PROVE LoaderSound'
  <2> DEFINE comps == IF t.whole THEN Registered(lib.comps, TestName, [screen |-> FALSE,
                                          widgets |-> <<>>, extends |-> t.extends])
                      ELSE WithoutTest(lib.comps)
  <2>1. lib' = [lib EXCEPT !.comps = comps]
    BY <1>2 DEF RegisterTest
  <2> HIDE DEF comps
  <2> QED BY <1>1, <1>2, <2>1 DEF RegisterTest
<1>3. CASE UnregisterTest
  <2> DEFINE comps == WithoutTest(lib.comps)
  <2>1. lib' = [lib EXCEPT !.comps = comps]
    BY <1>3 DEF UnregisterTest
  <2> HIDE DEF comps
  <2> QED BY <1>1, <1>3, <2>1 DEF UnregisterTest
<1>4. CASE UNCHANGED <<lib, loads, blobs, buffers>>
  BY <1>4 DEF LoaderSound
<1>5. CASE Load
  BY <1>5, LoaderSteps DEF Load
<1> QED BY <1>2, <1>3, <1>4, <1>5 DEF TestNext, RunInit, RunNext, RunTo, RunStop, RunAll, Use,
                                       Undisturbed, testVars

\* Loads, however they end, leave nothing half loaded: by themselves ...
THEOREM LoadsAlwaysWhole == LoaderSpec => []NothingHalfLoaded
<1>1. LoaderInit => LoaderSound
  BY LoaderStarts
<1>2. LoaderSound /\ [LoaderNext]_loaderVars => LoaderSound'
  BY LoaderSteps DEF loaderVars, LoaderSound
<1>3. LoaderSound => NothingHalfLoaded
  BY LoaderWhole
<1> QED BY <1>1, <1>2, <1>3, PTL DEF LoaderSpec

\* ... and between the runs of tests, which are registered with what was loaded.
THEOREM TestsAlwaysWhole == TestSpec => []NothingHalfLoaded
<1>1. TestInit => LoaderSound
  BY LoaderStarts DEF TestInit
<1>2. LoaderSound /\ [TestNext]_testVars => LoaderSound'
  BY TestedWhole
<1>3. LoaderSound => NothingHalfLoaded
  BY LoaderWhole
<1> QED BY <1>1, <1>2, <1>3, PTL DEF TestSpec

\* What is known of a run that began with bg, when m are the steps of its test.
Judged(b, w, l, bg, m, s) ==
  /\ Exact(b, m, Outcome(bg.lib, bg.world, m))
  /\ b.display => l = bg.lib /\ w = Outcome(bg.lib, bg.world, m)[b.act].w
  /\ Answered(b, s.ok, s.from)

Verdict ==
  /\ TestName \in DOMAIN lib.comps \/ began # Nil => Told(bed.steps, Meant, doc.test.body)
  /\ began # Nil => Judged(bed, world, lib, began, Meant, said)

LEMMA VerdictHolds ==
  ASSUME InOrder, Verdict PROVE VerdictsExact
<1> SUFFICES ASSUME began # Nil PROVE VerdictsExact
  BY DEF VerdictsExact
<1> DEFINE o == Outcome(began.lib, began.world, Meant)
<1>1. /\ Told(bed.steps, Meant, doc.test.body) /\ Exact(bed, Meant, o)
      /\ bed.display => world = o[bed.act].w
      /\ \A i \in said.from + 1 .. bed.act : bed.steps[i].passed = (said.ok \/ i < bed.act)
  BY DEF Verdict, Judged, Answered
<1>2. VerdictsExact <=>
        /\ Len(bed.steps) = Len(Meant) /\ bed.act <= Len(Meant)
        /\ \A i \in 1 .. Len(Meant) : i <= bed.act => bed.steps[i].passed = o[i].ok
        /\ bed.display => world = o[bed.act].w
        /\ \A i \in said.from + 1 .. bed.act : bed.steps[i].passed = (said.ok \/ i < bed.act)
  BY DEF VerdictsExact, Outcome
<1> HIDE DEF o
<1> QED BY <1>1, <1>2 DEF Told, Exact

LEMMA MeantStays ==
  ASSUME doc' = doc PROVE Meant' = Meant
  BY DEF Meant, MeantOf

LEMMA NothingSaid ==
  ASSUME NEW b, NEW n, b.act <= n, n \in Nat, b.act \in Nat
  PROVE  Answered(b, TRUE, n)
<1>1. n + 1 .. b.act = {}
  OBVIOUS
<1> QED BY <1>1 DEF Answered

LEMMA RegisterVerdict ==
  ASSUME LoaderSound, InOrder, Verdict, NEW t \in Tests, RegisterTest(t) PROVE Verdict'
<1>1. /\ bed'.steps = NewSteps(t) /\ doc' = [test |-> t, subjects |-> lib.subjects]
      /\ Told(stepsOf(lib.subjects, t.body), MeantOf(lib.subjects, t.body), t.body)
  BY RegisterSteps
<1>2. began' = Nil
  BY DEF RegisterTest
<1>3. Meant' = MeantOf(lib.subjects, t.body) /\ doc'.test.body = t.body
  BY <1>1 DEF Meant
<1>4. CASE t.whole
  BY <1>1, <1>2, <1>3, <1>4 DEF Verdict, NewSteps
<1>5. CASE ~t.whole
  <2>1. lib' = [lib EXCEPT !.comps = WithoutTest(lib.comps)]
    BY <1>5 DEF RegisterTest
  <2>2. TestName \notin DOMAIN lib'.comps
    BY <2>1 DEF WithoutTest, LoaderSound, LibSound
  <2> QED BY <1>2, <2>2 DEF Verdict
<1> QED BY <1>4, <1>5

LEMMA UnregisterVerdict ==
  ASSUME LoaderSound, UnregisterTest PROVE Verdict'
<1>1. began' = Nil /\ lib' = [lib EXCEPT !.comps = WithoutTest(lib.comps)]
  BY DEF UnregisterTest
<1>2. TestName \notin DOMAIN lib'.comps
  BY <1>1 DEF WithoutTest, LoaderSound, LibSound
<1> QED BY <1>1, <1>2 DEF Verdict

LEMMA RunInitVerdict ==
  ASSUME InOrder, Verdict, RunInit PROVE Verdict'
<1>1. /\ MayRun /\ bed' = run_init(bed) /\ world' = Staged(lib, world) /\ lib' = lib
      /\ began'.world = world' /\ began'.lib = lib /\ doc' = doc
      /\ said'.from = 0 /\ said'.ok = TRUE
  BY DEF RunInit
<1>2. bed'.steps = bed.steps /\ bed'.act = 0
  BY <1>1, RunBegins
<1>3. Told(bed.steps, Meant, doc.test.body) /\ Meant' = Meant
  BY <1>1, MeantStays DEF Verdict, MayRun
<1>4. Len(Meant) \in Nat
  BY <1>3, LenProperties DEF Told
<1> DEFINE o == Outcome(lib, world', Meant)
<1>5. o[0].w = world'
  BY <1>4, OutcomeIs
<1> HIDE DEF o
<1>6. Exact(bed', Meant, o)
  BY <1>2, <1>4 DEF Exact
<1>7. Answered(bed', said'.ok, said'.from)
  <2>1. said'.from + 1 .. bed'.act = {}
    BY <1>1, <1>2
  <2> QED BY <1>1, <2>1 DEF Answered
<1>8. Judged(bed', world', lib', began', Meant, said')
  BY <1>1, <1>2, <1>5, <1>6, <1>7 DEF Judged, o
<1> QED BY <1>1, <1>2, <1>3, <1>8 DEF Verdict

\* What is kept by a step of a run that goes on.
LEMMA JudgedOn ==
  ASSUME InOrder, Verdict, began # Nil, bed.display
  PROVE  /\ Told(bed.steps, Meant, doc.test.body) /\ Len(Meant) \in Nat
         /\ lib = began.lib /\ Exact(bed, Meant, Outcome(began.lib, began.world, Meant))
         /\ world = Outcome(began.lib, began.world, Meant)[bed.act].w
         /\ Follows(Outcome(began.lib, began.world, Meant), lib, Meant)
<1>1. Told(bed.steps, Meant, doc.test.body) /\ Judged(bed, world, lib, began, Meant, said)
  BY DEF Verdict
<1>2. Len(Meant) \in Nat
  BY <1>1, LenProperties DEF Told
<1>3. Follows(Outcome(began.lib, began.world, Meant), began.lib, Meant)
  BY <1>2, OutcomeIs
<1> QED BY <1>1, <1>2, <1>3 DEF Judged

LEMMA RunNextVerdict ==
  ASSUME InOrder, Verdict, RunNext PROVE Verdict'
<1>1. /\ bed.display /\ bed.act < Len(bed.steps) /\ doc' = doc /\ lib' = lib /\ began' = began
      /\ bed' = run_next(lib, Now).b /\ world' = run_next(lib, Now).w
      /\ said'.from = Len(bed.steps) /\ said'.ok = TRUE
  BY DEF RunNext, Undisturbed
<1>2. Turned(run_next(lib, Now), Now, doc.test.body) /\ Now.b = bed /\ Now.w = world
  BY RunNextOrder, NowIs
<1>3. bed'.steps \in Seq(StepsIn(doc.test.body)) /\ Alike(bed'.steps, bed.steps)
  BY <1>1, <1>2 DEF Turned, Shape
<1>4. TestName \in DOMAIN lib'.comps \/ began' # Nil => Told(bed'.steps, Meant', doc'.test.body)
  BY <1>1, <1>3, MeantStays, ToldStill DEF Verdict
<1>5. ASSUME began # Nil PROVE Judged(bed', world', lib', began', Meant', said')
  <2> DEFINE o == Outcome(began.lib, began.world, Meant)
  <2>1. /\ Told(bed.steps, Meant, doc.test.body) /\ Exact(bed, Meant, o) /\ world = o[bed.act].w
        /\ Follows(o, lib, Meant) /\ lib = began.lib /\ Len(Meant) \in Nat
    BY <1>1, <1>5, JudgedOn
  <2> HIDE DEF o
  <2>2. Carried(run_next(lib, Now), Meant, o)
    <3>1. Shape(Now.b, doc.test.body) /\ Now.b.act < Len(Now.b.steps)
      BY <1>1, <1>2, NowIs
    <3>2. Told(Now.b.steps, Meant, doc.test.body) /\ Carried(Now, Meant, o)
      BY <1>2, <2>1 DEF Carried
    <3> QED BY <2>1, <3>1, <3>2, TurnExact
  <2>3. Exact(bed', Meant, o) /\ world' = o[bed'.act].w
    BY <1>1, <2>2 DEF Carried
  <2>4. Len(bed.steps) = Len(Meant) /\ bed'.act \in Nat
    BY <1>1, <1>2, <2>1 DEF Told, Turned, Shape
  <2>5. Answered(bed', said'.ok, said'.from)
    BY <1>1, <2>1, <2>3, <2>4, NothingSaid DEF Exact
  <2> QED BY <1>1, <2>1, <2>3, <2>5, MeantStays DEF Judged, o
<1> QED BY <1>1, <1>4, <1>5 DEF Verdict

LEMMA RunToVerdict ==
  ASSUME InOrder, Verdict, NEW step \in Nat, RunTo(step) PROVE Verdict'
<1>1. bed.display /\ doc' = doc /\ lib' = lib /\ began' = began /\ Meant' = Meant
  BY MeantStays DEF RunTo, Undisturbed
<1>2. CASE bed.steps = <<>>
  <2>1. bed' = bed /\ world' = world /\ said'.from = bed.act /\ said'.ok = FALSE
    BY <1>2, RunToIs
  <2>2. bed.act + 1 .. bed.act = {}
    BY DEF InOrder, Shape
  <2>3. Answered(bed', said'.ok, said'.from)
    BY <2>1, <2>2 DEF Answered
  <2>4. began # Nil => Judged(bed', world', lib', began', Meant', said')
    BY <1>1, <2>1, <2>3 DEF Verdict, Judged
  <2> QED BY <1>1, <2>1, <2>4 DEF Verdict
<1>3. CASE bed.steps # <<>>
  <2>1. PICK x : x = run_to(lib, Now, LastOf(step))
    OBVIOUS
  <2>2. /\ Gone(x, Now, doc.test.body) /\ Now.b = bed /\ Now.w = world
        /\ \A m, o : Right(x, Now, doc.test.body, m, o, lib)
    BY <1>3, <2>1, ToGone, NowIs
  <2>3. bed' = x.b /\ world' = x.w /\ said'.from = bed.act /\ said'.ok = x.ok
    BY <1>3, <2>1, RunToIs
  <2>4. bed'.steps \in Seq(StepsIn(doc.test.body)) /\ Alike(bed'.steps, bed.steps)
    BY <2>2, <2>3 DEF Gone, Turned, Shape
  <2>5. TestName \in DOMAIN lib'.comps \/ began' # Nil => Told(bed'.steps, Meant', doc'.test.body)
    BY <1>1, <2>4, ToldStill DEF Verdict
  <2>6. Answered(bed', said'.ok, said'.from)
    BY <2>2, <2>3 DEF Gone
  <2>7. ASSUME began # Nil PROVE Judged(bed', world', lib', began', Meant', said')
    <3> DEFINE o == Outcome(began.lib, began.world, Meant)
    <3>1. /\ Told(bed.steps, Meant, doc.test.body) /\ Exact(bed, Meant, o)
          /\ world = o[bed.act].w /\ Follows(o, lib, Meant) /\ lib = began.lib
      BY <1>1, <2>7, JudgedOn
    <3> HIDE DEF o
    <3>2. Right(x, Now, doc.test.body, Meant, o, lib)
      BY <2>2
    <3>3. Exact(bed', Meant, o) /\ world' = o[bed'.act].w
      BY <2>2, <2>3, <3>1, <3>2 DEF Right, Carried
    <3> QED BY <1>1, <2>6, <3>1, <3>3 DEF Judged, o
  <2> QED BY <1>1, <2>5, <2>7 DEF Verdict
<1> QED BY <1>2, <1>3

LEMMA RunStopVerdict ==
  ASSUME InOrder, Verdict, RunStop PROVE Verdict'
<1>1. /\ doc' = doc /\ lib' = lib /\ began' = began /\ Meant' = Meant /\ world' = world
      /\ said'.from = Len(bed.steps) /\ said'.ok = TRUE
  BY MeantStays DEF RunStop, Undisturbed
<1>2. bed'.display = FALSE /\ bed'.act = bed.act /\ bed'.steps = bed.steps
  BY RunStopOrder
<1>3. ASSUME began # Nil PROVE Judged(bed', world', lib', began', Meant', said')
  <2> DEFINE o == Outcome(began.lib, began.world, Meant)
  <2>1. Told(bed.steps, Meant, doc.test.body) /\ Exact(bed, Meant, o)
    BY <1>3 DEF Verdict, Judged
  <2> HIDE DEF o
  <2>2. Len(bed.steps) = Len(Meant) /\ Len(Meant) \in Nat
    BY <2>1, LenProperties DEF Told
  <2>3. Exact(bed', Meant, o)
    BY <1>2, <2>1 DEF Exact
  <2>4. Answered(bed', said'.ok, said'.from)
    BY <1>1, <1>2, <2>2, <2>3, NothingSaid DEF Exact, InOrder, Shape
  <2> QED BY <1>1, <1>2, <2>3, <2>4 DEF Judged, o
<1> QED BY <1>1, <1>2, <1>3 DEF Verdict

LEMMA RunAllVerdict ==
  ASSUME InOrder, Verdict, RunAll PROVE Verdict'
<1>1. /\ MayRun /\ doc' = doc /\ lib' = lib /\ Meant' = Meant
      /\ began'.world = Staged(lib, world) /\ began'.lib = lib
      /\ said'.from = Len(bed.steps) /\ said'.ok = TRUE
  BY MeantStays DEF RunAll
<1>2. PICK r, x : /\ r.b = run_init(bed) /\ r.w = Staged(lib, world)
                  /\ Turned(x, r, doc.test.body)
                  /\ \A m, o : Right(x, r, doc.test.body, m, o, lib)
                  /\ bed' = run_stop(x.b) /\ world' = x.w
  BY AllGone
<1>3. r.b.act = 0 /\ r.b.steps = bed.steps /\ BedSound(r.b)
  BY <1>1, <1>2, RunBegins
<1>4. BedSound(x.b)
  BY <1>2, <1>3, BedKept DEF Turned
<1>5. bed'.display = FALSE /\ bed'.act = x.b.act /\ bed'.steps = x.b.steps
  BY <1>2, <1>4, StopIs
<1>6. Told(bed.steps, Meant, doc.test.body)
  BY <1>1 DEF Verdict, MayRun
<1>7. Told(bed'.steps, Meant, doc.test.body)
  BY <1>2, <1>3, <1>5, <1>6, ToldStill DEF Turned, Shape
<1>8. Len(Meant) \in Nat /\ Len(bed.steps) = Len(Meant) /\ bed'.act \in Nat
  BY <1>2, <1>5, <1>6, LenProperties DEF Told, Turned, Shape
<1> DEFINE o == Outcome(lib, Staged(lib, world), Meant)
<1>9. o[0].w = r.w /\ Follows(o, lib, Meant)
  BY <1>2, <1>8, OutcomeIs
<1> HIDE DEF o
<1>10. Exact(r.b, Meant, o) /\ r.w = o[r.b.act].w
  BY <1>3, <1>8, <1>9 DEF Exact
<1>11. Exact(x.b, Meant, o)
  <2>1. Right(x, r, doc.test.body, Meant, o, lib)
    BY <1>2
  <2>2. Told(r.b.steps, Meant, doc.test.body)
    BY <1>3, <1>6
  <2> QED BY <1>9, <1>10, <2>1, <2>2 DEF Right, Carried
<1>12. Exact(bed', Meant, o)
  BY <1>5, <1>11 DEF Exact
<1>13. Answered(bed', said'.ok, said'.from)
  BY <1>1, <1>8, <1>12, NothingSaid DEF Exact
<1>14. Judged(bed', world', lib', began', Meant, said')
  BY <1>1, <1>5, <1>12, <1>13 DEF Judged, o
<1> QED BY <1>1, <1>7, <1>14 DEF Verdict

LEMMA LoadVerdict ==
  ASSUME Reserved, LoaderSound, Verdict, Load PROVE Verdict'
<1>1. /\ ~bed.display /\ bed' = bed /\ world' = world /\ doc' = doc /\ began' = began
      /\ said' = said /\ Meant' = Meant /\ LoaderNext
  BY MeantStays DEF Load
<1>2. TestName \in DOMAIN lib'.comps => TestName \in DOMAIN lib.comps
  BY <1>1, LoaderUntested
<1> QED BY <1>1, <1>2 DEF Verdict, Judged

LEMMA UseVerdict ==
  ASSUME Verdict, Use PROVE Verdict'
<1>1. /\ ~bed.display /\ bed' = bed /\ doc' = doc /\ began' = began /\ lib' = lib
      /\ said' = said /\ Meant' = Meant
  BY MeantStays DEF Use
<1> QED BY <1>1 DEF Verdict, Judged

LEMMA VerdictSteps ==
  ASSUME Reserved, LoaderSound, InOrder, Verdict, [TestNext]_testVars PROVE Verdict'
<1>1. ASSUME NEW t \in Tests, RegisterTest(t) PROVE Verdict'
  BY <1>1, RegisterVerdict
<1>2. CASE UnregisterTest
  BY <1>2, UnregisterVerdict
<1>3. CASE RunInit
  BY <1>3, RunInitVerdict
<1>4. CASE RunNext
  BY <1>4, RunNextVerdict
<1>5. ASSUME NEW k \in 0 .. Len(bed.steps), RunTo(k) PROVE Verdict'
  BY <1>5, RunToVerdict
<1>6. CASE RunStop
  BY <1>6, RunStopVerdict
<1>7. CASE RunAll
  BY <1>7, RunAllVerdict
<1>8. CASE Load
  BY <1>8, LoadVerdict
<1>9. CASE Use
  BY <1>9, UseVerdict
<1>10. CASE UNCHANGED testVars
  BY <1>10, MeantStays DEF testVars, Verdict
<1> QED BY <1>1, <1>2, <1>3, <1>4, <1>5, <1>6, <1>7, <1>8, <1>9, <1>10 DEF TestNext

\* Where no file has the name under which tests are registered, the statuses of the
\* steps and the answers of the runner are exact: the steps are those the document
\* means, each came out as it does when they are carried out in order from where the
\* run began, and the runs to a breakpoint say whether a step of theirs failed.
THEOREM VerdictsAlwaysExact ==
  ASSUME Reserved
  PROVE  TestSpec => []VerdictsExact
<1> DEFINE All == LoaderSound /\ InOrder /\ Verdict
<1>1. TestInit => All
  <2> SUFFICES ASSUME TestInit PROVE All
    OBVIOUS
  <2>1. LoaderSound /\ InOrder
    BY LoaderStarts, OrderStarts DEF TestInit
  <2>2. Verdict
    BY DEF TestInit, LoaderInit, Verdict
  <2> QED BY <2>1, <2>2
<1>2. All /\ [TestNext]_testVars => All'
  BY TestedWhole, OrderSteps, VerdictSteps
<1>3. All => VerdictsExact
  BY VerdictHolds
<1> HIDE DEF All
<1> QED BY <1>1, <1>2, <1>3, PTL DEF TestSpec
=============================================================================
