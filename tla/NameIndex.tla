------------------------------- MODULE NameIndex -------------------------------
(***************************************************************************)
(* The name index (lv_xml_component.c, lv_xml_name_index_) and the lists    *)
(* it shortens: the component scopes, the widget processors, and the       *)
(* constants and subjects of the globals.  Records are listed newest       *)
(* first, and a lookup is to return the first one of its name.  The index  *)
(* is a hash table with linear probing that answers without the walk.      *)
(*                                                                         *)
(* One list and its index are modelled.  `kind` tells the two ways records *)
(* are added: a "newest" list takes a record of a name it already holds    *)
(* and lets it shadow the old one (components, widgets), a "unique" list   *)
(* keeps the record it has (constants, subjects).                          *)
(***************************************************************************)
EXTENDS Integers, Sequences, FiniteSets

CONSTANTS
  Names,      (* the names of records                                      *)
  Copies,     (* bound: records of one name at a time                      *)
  Hashes,     (* the values the hash of a name can have                    *)
  FirstCap,   (* the slots of the first allocation: 64 in the code         *)
  Null        (* an empty slot, or no record                               *)

\* A record is an allocation; its name is the first thing in it.
Recs == Names \X (1 .. Copies)
NameOf(r) == r[1]

ASSUME IndexAssumption ==
  /\ Copies \in Nat \ {0}
  /\ Hashes \subseteq Nat /\ Hashes # {}
  /\ FirstCap \in Nat /\ FirstCap >= 2
  /\ Null \notin Recs

VARIABLES
  kind,       (* "newest" or "unique"                                      *)
  hash,       (* name_index_hash                                           *)
  list,       (* the list, newest first                                    *)
  tab         (* lv_xml_name_index_t: [slots, cap, count, failed]               *)

vars == <<kind, hash, list, tab>>

NoTable == [slots |-> <<>>, cap |-> 0, count |-> 0, failed |-> FALSE]

Init ==
  /\ kind \in {"newest", "unique"}
  /\ hash \in [Names -> Hashes]
  /\ list = <<>>
  /\ tab = NoTable

Listed == {list[i] : i \in 1 .. Len(list)}

\* The slot that the k-th probe for the name n reads.
Probe(n, k, cap) == (hash[n] + k) % cap

\* The probes at which a search for n comes to its end: at an empty slot or a hit.
Stops(t, n) ==
  {k \in 0 .. t.cap - 1 :
     LET r == t.slots[Probe(n, k, t.cap)] IN r = Null \/ NameOf(r) = n}

First(S) == CHOOSE k \in S : \A j \in S : k <= j

\* lv_xml_name_index_find().
Find(t, n) ==
  IF t.cap = 0 THEN Null ELSE t.slots[Probe(n, First(Stops(t, n)), t.cap)]

\* name_index_place(): the first empty slot of the probe run.
Empty(slots, cap, n) == {k \in 0 .. cap - 1 : slots[Probe(n, k, cap)] = Null}
Place(slots, cap, r) ==
  [slots EXCEPT ![Probe(NameOf(r), First(Empty(slots, cap, NameOf(r))), cap)] = r]

\* The old slots, placed one by one into a table of twice the size.
GrownCap(t) == IF t.cap = 0 THEN FirstCap ELSE 2 * t.cap
Rehashed(slots, cap, old) == IF old = Null THEN slots ELSE Place(slots, cap, old)
Grown(t) ==
  LET into[i \in 0 .. t.cap] ==
        IF i = 0 THEN [s \in 0 .. GrownCap(t) - 1 |-> Null]
        ELSE Rehashed(into[i - 1], GrownCap(t), t.slots[i - 1])
  IN  into[t.cap]

MustGrow(t) == (t.count + 1) * 2 > t.cap
WithRoom(t) == IF MustGrow(t) THEN [t EXCEPT !.slots = Grown(t), !.cap = GrownCap(t)] ELSE t

\* lv_xml_name_index_insert(); `oom`: the larger table cannot be allocated.
Insert(t, r, oom) ==
  IF t.failed THEN t
  ELSE IF MustGrow(t) /\ oom THEN [NoTable EXCEPT !.failed = TRUE]
  ELSE [WithRoom(t) EXCEPT !.slots = Place(@, WithRoom(t).cap, r), !.count = @ + 1]

\* A record leaves its slot and is placed again.
Moved(slots, cap, s) == Place([slots EXCEPT ![s] = Null], cap, slots[s])

\* (mutant) the shift stops where the table does
ClosedNoWrap(slots, cap, hole) ==
  LET end == First({k \in 1 .. cap : hole + k >= cap \/ slots[hole + k] = Null})
      shift[k \in 0 .. end - 1] ==
        IF k = 0 THEN [slots EXCEPT ![hole] = Null] ELSE Moved(shift[k - 1], cap, hole + k)
  IN  shift[end - 1]

\* The records after the hole, up to the next empty slot, are moved in their order.
\* None of them lands behind the one that is being moved, so the run ends where it
\* ended before.
RunEnd(slots, cap, hole) == First({k \in 1 .. cap : slots[(hole + k) % cap] = Null \/ k = cap})
Closed(slots, cap, hole) ==
  LET shift[k \in 0 .. RunEnd(slots, cap, hole) - 1] ==
        IF k = 0 THEN [slots EXCEPT ![hole] = Null]
        ELSE Moved(shift[k - 1], cap, (hole + k) % cap)
  IN  shift[RunEnd(slots, cap, hole) - 1]

\* lv_xml_name_index_remove(): the walk to the record ends at an empty slot.
Passes(t, r) ==
  {k \in 0 .. t.cap - 1 : t.slots[Probe(NameOf(r), k, t.cap)] \in {r, Null}}
Remove(t, r) ==
  IF t.failed \/ t.cap = 0 THEN t
  ELSE LET at == Probe(NameOf(r), First(Passes(t, r)), t.cap)
       IN  IF t.slots[at] = Null THEN t
           ELSE [t EXCEPT !.slots = Closed(@, t.cap, at), !.count = @ - 1]

--------------------------------------------------------------------------------
(* The list behind the index.                                               *)

OfName(n) == {i \in DOMAIN list : NameOf(list[i]) = n}
FirstListed(n) == IF OfName(n) = {} THEN Null ELSE list[First(OfName(n))]

\* A failed index is not used: the callers walk the list.
Lookup(n) == IF tab.failed THEN FirstListed(n) ELSE Find(tab, n)

\* component_scope_index_link(): the index answers with the new record.
Linked(t, r, oom) ==
  LET shadowed == Find(t, NameOf(r))
  IN  Insert(IF shadowed = Null THEN t ELSE Remove(t, shadowed), r, oom)

\* component_scope_index_unlink(): the name goes to the next record listed.
\* It takes the place of the one removed, so the table does not grow.
Others(r) == {i \in DOMAIN list : list[i] # r /\ NameOf(list[i]) = NameOf(r)}
Unlinked(t, r) ==
  IF Find(t, NameOf(r)) # r THEN t
  ELSE IF Others(r) = {} THEN Remove(t, r)
  ELSE Insert(Remove(t, r), list[First(Others(r))], FALSE)

--------------------------------------------------------------------------------
Unlisted == Recs \ Listed

Added(r) == list' = <<r>> \o list
Taken(r) ==
  \E i \in DOMAIN list :
    list[i] = r /\ list' = SubSeq(list, 1, i - 1) \o SubSeq(list, i + 1, Len(list))

\* lv_xml_register_component_from_data(), lv_xml_register_widget().
Register(r, oom) ==
  /\ kind = "newest" /\ r \in Unlisted
  /\ Added(r)
  /\ tab' = Linked(tab, r, oom)
  /\ UNCHANGED <<kind, hash>>

\* lv_xml_register_const(), lv_xml_register_subject(): a name that is found is
\* left as it is.
RegisterOnce(r, oom) ==
  /\ kind = "unique" /\ r \in Unlisted
  /\ Lookup(NameOf(r)) = Null
  /\ Added(r)
  /\ tab' = Insert(tab, r, oom)
  /\ UNCHANGED <<kind, hash>>

\* component_scope_retire().
Unregister(r) ==
  /\ kind = "newest" /\ r \in Listed
  /\ tab' = Unlinked(tab, r)
  /\ Taken(r)
  /\ UNCHANGED <<kind, hash>>

\* lv_xml_unregister_subject(): out of the index first, which reads the name.
UnregisterOnce(r) ==
  /\ kind = "unique" /\ r \in Listed
  /\ tab' = Remove(tab, r)
  /\ Taken(r)
  /\ UNCHANGED <<kind, hash>>

\* lv_xml_component_deinit(), lv_xml_widget_deinit(), component_scope_free():
\* lv_xml_name_index_clear(), and a failed index may be used again.
Clear ==
  /\ list # <<>>
  /\ list' = <<>>
  /\ tab' = NoTable
  /\ UNCHANGED <<kind, hash>>

Next ==
  \/ \E r \in Recs, oom \in BOOLEAN : Register(r, oom) \/ RegisterOnce(r, oom)
  \/ \E r \in Recs : Unregister(r) \/ UnregisterOnce(r)
  \/ Clear

Spec == Init /\ [][Next]_vars

--------------------------------------------------------------------------------
(* The properties.                                                          *)

\* The variables have their types; the table's size is the first one doubled
\* some times, so that masking a hash is taking its remainder.
TypeOK ==
  /\ kind \in {"newest", "unique"}
  /\ hash \in [Names -> Hashes]
  /\ list \in Seq(Recs) /\ Cardinality(Listed) = Len(list)
  /\ tab.count \in Nat /\ tab.failed \in BOOLEAN
  /\ tab.slots \in [DOMAIN tab.slots -> Recs \cup {Null}]
  /\ tab.cap \in Nat /\ DOMAIN tab.slots = 0 .. tab.cap - 1
  /\ tab.cap = 0 \/ \E k \in 0 .. tab.cap : tab.cap = FirstCap * 2 ^ k

\* A search through the table always ends, and quickly: every slot in use is
\* counted and at least half of the slots are empty, whatever is registered,
\* shadowed, handed on and removed ("Keep the load at or
\* under one half so probe runs stay short.", lv_xml_component.c:301).
ProbesEnd ==
  /\ tab.count = Cardinality({s \in DOMAIN tab.slots : tab.slots[s] # Null})
  /\ 2 * tab.count <= tab.cap

\* The index gives the answer that the walk of the list would give, for every
\* name, known or not, however names collide, runs wrap around the end of the
\* table, records shadow each other and the table grows or fails to: no record
\* is lost behind a hole, none that has left the list is returned, and every search ends.
FindsFirstListed ==
  /\ ProbesEnd
  /\ \A n \in Names : ~tab.failed => Find(tab, n) = FirstListed(n)

--------------------------------------------------------------------------------
(* The inductive invariant.                                                 *)

\* The record in slot s is on the probe run of its name: no empty slot before it.
Reached(slots, cap, s) ==
  \E k \in 0 .. cap - 1 :
    /\ Probe(NameOf(slots[s]), k, cap) = s
    /\ \A j \in 0 .. k - 1 : slots[Probe(NameOf(slots[s]), j, cap)] # Null

\* All records but those in the slots P are found, and each name has one.
SoundBut(slots, cap, P) ==
  /\ cap \in Nat \ {0} /\ slots \in [0 .. cap - 1 -> Recs \cup {Null}]
  /\ \A s \in (0 .. cap - 1) \ P : slots[s] # Null => Reached(slots, cap, s)
  /\ \A s, u \in 0 .. cap - 1 :
       slots[s] # Null /\ slots[u] # Null /\ NameOf(slots[s]) = NameOf(slots[u]) => s = u

Used(slots) == {s \in DOMAIN slots : slots[s] # Null}
Held(slots) == {slots[s] : s \in Used(slots)}

TableSound(t) ==
  /\ t.count \in Nat /\ 2 * t.count <= t.cap
  /\ \/ t = [NoTable EXCEPT !.failed = t.failed]
     \/ ~t.failed /\ SoundBut(t.slots, t.cap, {}) /\ t.cap >= 2
  /\ t.count = Cardinality(Used(t.slots))

ListSound ==
  /\ list \in Seq(Recs) /\ \A i, j \in DOMAIN list : list[i] = list[j] => i = j
  /\ kind = "unique" => \A i, j \in DOMAIN list : NameOf(list[i]) = NameOf(list[j]) => i = j

\* The index holds the first listed record of each name that is listed.
IInv ==
  /\ kind \in {"newest", "unique"} /\ hash \in [Names -> Hashes]
  /\ tab \in [slots : {tab.slots}, cap : Nat, count : Nat, failed : BOOLEAN]
  /\ TableSound(tab) /\ ListSound
  /\ ~tab.failed => Held(tab.slots) = {FirstListed(n) : n \in Names} \ {Null}
================================================================================
