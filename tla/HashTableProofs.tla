--------------------------- MODULE HashTableProofs ---------------------------
EXTENDS HashTable, Recursion, FiniteSetTheorems

(***************************************************************************)
(* The inductive invariant.  An array is a Table when no key is in it      *)
(* twice, no probe for a stored key meets an empty slot first, its values  *)
(* are in the slots with a key, and one slot at least is free.             *)
(***************************************************************************)
Unique(e, cap) ==
  \A s, t \in 0 .. cap - 1 : e[s].key # NULL /\ e[s].key = e[t].key => s = t

Reachable(e, cap) ==
  \A k \in Keys, d \in 0 .. cap - 1 :
    e[Probe(k, cap, d)].key = k =>
      \A c \in 0 .. d - 1 : e[Probe(k, cap, c)].key # NULL

Filled(e, cap) ==
  \A s \in 0 .. cap - 1 : IF e[s].key = NULL THEN e[s].value = NULL
                                             ELSE e[s].value \in Values

HasRoom(e, cap) == Cardinality(Occupied(e, cap)) < cap

Table(e, cap) == /\ cap \in Nat \ {0}
                 /\ e \in Slots(cap)
                 /\ Unique(e, cap)
                 /\ Reachable(e, cap)
                 /\ Filled(e, cap)
                 /\ HasRoom(e, cap)

\* During a rehash the new array has exactly what the first i slots have.
Copied ==
  /\ Table(new_entries, NewCapacity)
  /\ \A k \in Keys, v \in Values :
       Holds(new_entries, NewCapacity, k, v) <=>
         \E s \in 0 .. i - 1 : entries[s] = [key |-> k, value |-> v]
  /\ Cardinality(Occupied(new_entries, NewCapacity)) = Cardinality(Occupied(entries, i))

IInv == /\ TypeOK
        /\ Table(entries, capacity)
        /\ LengthCounts
        /\ pc = "rehash" => Copied
        /\ pc = "insert" => length < capacity \div 2

-----------------------------------------------------------------------------
(* Arithmetic.                                                             *)

LEMMA ModRange ==
  ASSUME NEW a \in Nat, NEW b \in Nat \ {0}
  PROVE  a % b \in 0 .. b - 1
OBVIOUS

\* The capacity either doubles or is seen to have wrapped.
LEMMA CapacityDoubles ==
  ASSUME NEW c \in Nat \ {0}, c < SizeLimit, (c * 2) % SizeLimit >= c
  PROVE  (c * 2) % SizeLimit = 2 * c /\ 2 * c < SizeLimit
BY SizeAssumption

\* At most every slot of an array is taken.
LEMMA OccupiedBound ==
  ASSUME NEW cap \in Nat, NEW e
  PROVE  /\ IsFiniteSet(Occupied(e, cap))
         /\ Cardinality(Occupied(e, cap)) \in 0 .. cap
<1>1. IsFiniteSet(0 .. cap - 1) /\ Cardinality(0 .. cap - 1) = cap
  BY FS_Interval
<1>2. Occupied(e, cap) \subseteq 0 .. cap - 1
  BY DEF Occupied
<1>3. /\ IsFiniteSet(Occupied(e, cap))
      /\ Cardinality(Occupied(e, cap)) <= Cardinality(0 .. cap - 1)
  BY <1>1, <1>2, FS_Subset
<1>4. Cardinality(Occupied(e, cap)) \in Nat
  BY <1>3, FS_CardinalityType
<1>5. QED
  BY <1>1, <1>3, <1>4

-----------------------------------------------------------------------------
(* Probing.                                                                *)

\* The probe sequence of a key visits every slot exactly once.
LEMMA ProbeFacts ==
  ASSUME NEW cap \in Nat \ {0}, hash \in [Keys -> HashValues], NEW k \in Keys
  PROVE  /\ \A d \in 0 .. cap - 1 : Probe(k, cap, d) \in 0 .. cap - 1
         /\ \A c, d \in 0 .. cap - 1 : Probe(k, cap, c) = Probe(k, cap, d) => c = d
         /\ \A s \in 0 .. cap - 1 : \E d \in 0 .. cap - 1 : Probe(k, cap, d) = s
<1>1. hash[k] \in Nat
  BY SizeAssumption
<1>2. Home(k, cap) \in 0 .. cap - 1
  BY <1>1, ModRange DEF Home
<1>3. \A s \in 0 .. cap - 1 : \E d \in 0 .. cap - 1 : Probe(k, cap, d) = s
  <2> SUFFICES ASSUME NEW s \in 0 .. cap - 1
               PROVE  \E d \in 0 .. cap - 1 : Probe(k, cap, d) = s
    OBVIOUS
  <2>1. CASE s >= Home(k, cap)
    <3>1. /\ s - Home(k, cap) \in 0 .. cap - 1
          /\ Probe(k, cap, s - Home(k, cap)) = s
      BY <1>2, <2>1 DEF Probe
    <3>2. QED
      BY <3>1
  <2>2. CASE ~(s >= Home(k, cap))
    <3>1. /\ s - Home(k, cap) + cap \in 0 .. cap - 1
          /\ Probe(k, cap, s - Home(k, cap) + cap) = s
      BY <1>2, <2>2 DEF Probe
    <3>2. QED
      BY <3>1
  <2>3. QED
    BY <2>1, <2>2
<1>4. \A d \in 0 .. cap - 1 : Probe(k, cap, d) \in 0 .. cap - 1
  BY <1>2 DEF Probe
<1>5. \A c, d \in 0 .. cap - 1 : Probe(k, cap, c) = Probe(k, cap, d) => c = d
  BY <1>2 DEF Probe
<1>6. QED
  BY <1>3, <1>4, <1>5

\* Where a slot is free, every probe stops.
LEMMA RoomStops ==
  ASSUME NEW cap \in Nat \ {0}, hash \in [Keys -> HashValues],
         NEW e, HasRoom(e, cap)
  PROVE  ProbesStop(e, cap)
<1>1. PICK s \in 0 .. cap - 1 : e[s].key = NULL
  <2>1. IsFiniteSet(0 .. cap - 1) /\ Cardinality(0 .. cap - 1) = cap
    BY FS_Interval
  <2>2. Occupied(e, cap) # 0 .. cap - 1
    BY <2>1 DEF HasRoom
  <2>3. QED
    BY <2>2 DEF Occupied
<1>2. QED
  BY <1>1, ProbeFacts DEF ProbesStop, Stops

\* The loop ends, and where it ends is the first stop.
LEMMA FindIsFirstStop ==
  ASSUME NEW cap \in Nat \ {0}, hash \in [Keys -> HashValues],
         NEW e, HasRoom(e, cap), NEW k \in Keys
  PROVE  \E d \in 0 .. cap - 1 : /\ FirstStop(e, cap, k, d)
                                 /\ Find(e, cap, k) = Probe(k, cap, d)
<1> DEFINE S == {d \in 0 .. cap - 1 : Stops(e, cap, k, d)}
<1>1. S # {} /\ S \in SUBSET Nat
  BY RoomStops DEF ProbesStop
<1>2. PICK d \in S : \A c \in S : ~(c < d)
  BY <1>1, Least
<1>3. FirstStop(e, cap, k, d)
  BY <1>2 DEF FirstStop
<1>4. QED
  BY <1>3 DEF Find, FirstStop

\* In a table the loop ends at the key if it is stored, else at a free slot.
LEMMA FindFacts ==
  ASSUME hash \in [Keys -> HashValues], NEW cap, NEW e, Table(e, cap), NEW k \in Keys
  PROVE  /\ Find(e, cap, k) \in 0 .. cap - 1
         /\ e[Find(e, cap, k)].key \in {NULL, k}
         /\ \A s \in 0 .. cap - 1 : e[s].key = k => s = Find(e, cap, k)
<1>1. cap \in Nat \ {0} /\ HasRoom(e, cap)
  BY DEF Table
<1>2. PICK d \in 0 .. cap - 1 : /\ FirstStop(e, cap, k, d)
                                /\ Find(e, cap, k) = Probe(k, cap, d)
  BY <1>1, FindIsFirstStop
<1>3. /\ Find(e, cap, k) \in 0 .. cap - 1
      /\ e[Find(e, cap, k)].key \in {NULL, k}
  BY <1>1, <1>2, ProbeFacts DEF FirstStop, Stops
<1>4. ASSUME NEW s \in 0 .. cap - 1, e[s].key = k
      PROVE  s = Find(e, cap, k)
  <2>1. PICK c \in 0 .. cap - 1 : Probe(k, cap, c) = s
    BY <1>1, ProbeFacts
  <2>2. ~(c < d)
    BY <1>2, <1>4, <2>1 DEF FirstStop, Stops
  <2>3. ~(d < c)
    <3>1. d < c => e[Probe(k, cap, d)].key # NULL
      BY <1>4, <2>1 DEF Table, Reachable
    <3>2. d < c => e[Probe(k, cap, d)].key = k
      BY <1>2, <1>3, <3>1
    <3>3. d < c => Probe(k, cap, d) = s
      BY <1>1, <1>2, <1>3, <1>4, <3>2, SentinelAssumption DEF Table, Unique
    <3>4. QED
      BY <1>1, <2>1, <3>3, ProbeFacts
  <2>4. QED
    BY <1>2, <2>1, <2>2, <2>3
<1>5. QED
  BY <1>3, <1>4

\* Storing a key keeps a table a table, as long as a slot stays free: no other
\* key moves, and the array then holds the new value and all the other keys.
LEMMA StoreFacts ==
  ASSUME hash \in [Keys -> HashValues], NEW cap, NEW e, Table(e, cap),
         NEW k \in Keys, NEW v \in Values,
         NEW e2, e2 = ht_set_entry(e, cap, k, v),
         HasRoom(e2, cap)
  PROVE  /\ Table(e2, cap)
         /\ \A k2 \in Keys, v2 \in Values :
              Holds(e2, cap, k2, v2) <=> IF k2 = k THEN v2 = v ELSE Holds(e, cap, k2, v2)
<1> DEFINE f == Find(e, cap, k)
<1>1. /\ f \in 0 .. cap - 1
      /\ e[f].key \in {NULL, k}
      /\ \A s \in 0 .. cap - 1 : e[s].key = k => s = f
  BY FindFacts
<1>2. /\ cap \in Nat \ {0} /\ e \in Slots(cap)
      /\ Unique(e, cap) /\ Reachable(e, cap) /\ Filled(e, cap) /\ HasRoom(e, cap)
  BY DEF Table
<1>3. PICK d \in 0 .. cap - 1 : /\ FirstStop(e, cap, k, d)
                                /\ f = Probe(k, cap, d)
  BY <1>2, FindIsFirstStop
<1>4. e2 = [e EXCEPT ![f] = [key |-> k, value |-> v]]
  BY DEF ht_set_entry
<1> HIDE DEF f
<1>5. e2 \in Slots(cap)
  BY <1>1, <1>2, <1>4 DEF Slots
<1>6. /\ e2[f] = [key |-> k, value |-> v]
      /\ \A s \in 0 .. cap - 1 : s # f => e2[s] = e[s]
      /\ k # NULL
  BY <1>1, <1>2, <1>4, SentinelAssumption DEF Slots
<1>7. Unique(e2, cap)
  BY <1>1, <1>2, <1>6 DEF Unique
<1>8. Reachable(e2, cap)
  <2> SUFFICES ASSUME NEW k2 \in Keys, NEW d2 \in 0 .. cap - 1,
                      e2[Probe(k2, cap, d2)].key = k2,
                      NEW c \in 0 .. d2 - 1
               PROVE  e2[Probe(k2, cap, c)].key # NULL
    BY DEF Reachable
  <2> cap \in Nat \ {0} /\ c \in 0 .. cap - 1
    BY <1>2
  <2>1. /\ Probe(k2, cap, c) \in 0 .. cap - 1
        /\ Probe(k2, cap, d2) \in 0 .. cap - 1
    BY ProbeFacts
  <2>2. CASE k2 # k
    <3>1. e[Probe(k2, cap, d2)].key = k2
      BY <1>6, <2>1, <2>2
    <3>2. e[Probe(k2, cap, c)].key # NULL
      BY <1>2, <3>1 DEF Reachable
    <3>3. QED
      BY <1>6, <2>1, <3>2
  <2>3. CASE k2 = k
    <3>1. Probe(k, cap, d2) = f
      BY <1>1, <1>6, <2>1, <2>3
    <3>2. d2 = d
      BY <1>2, <1>3, <3>1, ProbeFacts
    <3>3. e[Probe(k, cap, c)].key # NULL
      BY <1>3, <3>2 DEF FirstStop, Stops
    <3>4. QED
      BY <1>6, <2>1, <2>3, <3>3
  <2>4. QED
    BY <2>2, <2>3
<1>9. Filled(e2, cap)
  BY <1>1, <1>2, <1>6 DEF Filled
<1>10. ASSUME NEW k2 \in Keys, NEW v2 \in Values
       PROVE  Holds(e2, cap, k2, v2) <=> IF k2 = k THEN v2 = v ELSE Holds(e, cap, k2, v2)
  <2>1. CASE k2 = k
    <3>1. \A s \in 0 .. cap - 1 : e2[s].key = k => s = f
      BY <1>1, <1>6
    <3>2. QED
      BY <1>1, <1>6, <2>1, <3>1 DEF Holds
  <2>2. CASE k2 # k
    <3>1. e[f].key # k2
      BY <1>1, <2>2, SentinelAssumption
    <3>2. \A s \in 0 .. cap - 1 : e2[s] = [key |-> k2, value |-> v2]
                               <=> e[s] = [key |-> k2, value |-> v2]
      BY <1>6, <2>2, <3>1
    <3>3. QED
      BY <2>2, <3>2 DEF Holds
  <2>3. QED
    BY <2>1, <2>2
<1>11. QED
  BY <1>2, <1>5, <1>7, <1>8, <1>9, <1>10 DEF Table

\* Storing a new key takes one more slot, storing a known one takes none.
LEMMA StoreCounts ==
  ASSUME hash \in [Keys -> HashValues], NEW cap, NEW e, Table(e, cap),
         NEW k \in Keys, NEW v \in Values
  PROVE  Cardinality(Occupied(ht_set_entry(e, cap, k, v), cap)) =
           IF e[Find(e, cap, k)].key = k THEN Cardinality(Occupied(e, cap))
                                         ELSE Cardinality(Occupied(e, cap)) + 1
<1> DEFINE f == Find(e, cap, k)
           e2 == ht_set_entry(e, cap, k, v)
<1>1. f \in 0 .. cap - 1 /\ e[f].key \in {NULL, k} /\ k # NULL
  BY FindFacts, SentinelAssumption
<1>2. cap \in Nat \ {0} /\ e \in Slots(cap)
  BY DEF Table
<1>3. /\ e2[f].key = k
      /\ \A s \in 0 .. cap - 1 : s # f => e2[s] = e[s]
  BY <1>1, <1>2 DEF ht_set_entry, Slots
<1> HIDE DEF f, e2
<1>4. Occupied(e2, cap) = Occupied(e, cap) \cup {f}
  BY <1>1, <1>3 DEF Occupied
<1>5. f \in Occupied(e, cap) <=> e[f].key = k
  BY <1>1 DEF Occupied
<1>6. IsFiniteSet(Occupied(e, cap))
  BY <1>2, OccupiedBound
<1>7. Cardinality(Occupied(e2, cap)) = IF e[f].key = k THEN Cardinality(Occupied(e, cap))
                                       ELSE Cardinality(Occupied(e, cap)) + 1
  BY <1>4, <1>5, <1>6, FS_AddElement
<1>8. QED
  BY <1>7 DEF e2, f

-----------------------------------------------------------------------------
(* The invariant is inductive.                                             *)

\* `hash` never changes, so being a table does not depend on the state it is
\* asked in.
LEMMA TableStable ==
  ASSUME hash' = hash
  PROVE  /\ Table(entries, capacity)' <=> Table(entries', capacity')
         /\ Table(new_entries, NewCapacity)' <=> Table(new_entries', NewCapacity')
BY DEF Table, Slots, Unique, Reachable, Filled, HasRoom, Occupied, Probe, Home, NewCapacity

\* A new array is a table with nothing in it.
LEMMA EmptyTable ==
  ASSUME hash \in [Keys -> HashValues], NEW cap \in Nat \ {0}
  PROVE  Table(Calloc(cap), cap) /\ Occupied(Calloc(cap), cap) = {}
<1>1. /\ Calloc(cap) \in Slots(cap)
      /\ \A s \in 0 .. cap - 1 : Calloc(cap)[s] = Empty
  BY DEF Calloc, Empty, Slots
<1>2. Unique(Calloc(cap), cap) /\ Filled(Calloc(cap), cap)
  BY <1>1 DEF Unique, Filled, Empty
<1>3. Occupied(Calloc(cap), cap) = {}
  BY <1>1 DEF Occupied, Empty
<1>4. HasRoom(Calloc(cap), cap)
  BY <1>3, FS_EmptySet DEF HasRoom
<1>5. Reachable(Calloc(cap), cap)
  BY <1>1, ProbeFacts, SentinelAssumption DEF Reachable, Empty
<1>6. QED
  BY <1>1, <1>2, <1>3, <1>4, <1>5 DEF Table

\* One more slot copied: what was NULL adds nothing, what was not is a key the
\* new array does not have yet.
LEMMA SlotCounts ==
  ASSUME NEW e, NEW n \in Nat
  PROVE  Cardinality(Occupied(e, n + 1)) = Cardinality(Occupied(e, n))
                                           + (IF e[n].key = NULL THEN 0 ELSE 1)
<1>1. /\ IsFiniteSet(Occupied(e, n))
      /\ Cardinality(Occupied(e, n)) \in 0 .. n
  BY OccupiedBound
<1>2. n \notin Occupied(e, n)
  BY DEF Occupied
<1>3. CASE e[n].key = NULL
  <2>1. Occupied(e, n + 1) = Occupied(e, n)
    BY <1>3 DEF Occupied
  <2>2. QED
    BY <1>1, <1>3, <2>1
<1>4. CASE e[n].key # NULL
  <2>1. Occupied(e, n + 1) = Occupied(e, n) \cup {n}
    BY <1>4 DEF Occupied
  <2>2. QED
    BY <1>1, <1>2, <1>4, <2>1, FS_AddElement
<1>5. QED
  BY <1>3, <1>4

LEMMA MoveCopies ==
  ASSUME IInv, MoveEntry
  PROVE  Copied'
<1> DEFINE k == entries[i].key
           v == entries[i].value
           cap == NewCapacity
<1>1. /\ capacity \in Nat \ {0} /\ i \in 0 .. capacity - 1 /\ i \in Nat
      /\ hash \in [Keys -> HashValues]
      /\ cap = 2 * capacity
  BY SizeAssumption DEF IInv, TypeOK, MoveEntry
<1>2. /\ Table(entries, capacity)
      /\ Table(new_entries, cap)
      /\ Copied
  BY DEF IInv, Copied, MoveEntry
<1>3. /\ i' = i + 1 /\ entries' = entries /\ hash' = hash
      /\ NewCapacity' = cap
  BY DEF MoveEntry, table, NewCapacity
<1>4. /\ k # NULL => k \in Keys /\ v \in Values
      /\ entries[i] = [key |-> k, value |-> v]
  BY <1>1, <1>2 DEF Table, Filled, Slots
<1>5. Cardinality(Occupied(entries, i + 1)) \in 0 .. i + 1
  BY <1>1, OccupiedBound
<1>6. Cardinality(Occupied(entries, i + 1)) = Cardinality(Occupied(entries, i))
                                              + (IF k = NULL THEN 0 ELSE 1)
  BY <1>1, SlotCounts
<1>7. Cardinality(Occupied(new_entries', cap)) = Cardinality(Occupied(entries, i + 1))
  <2>1. CASE k = NULL
    <3>1. new_entries' = new_entries
      BY <2>1 DEF MoveEntry
    <3>2. QED
      BY <1>1, <1>2, <1>6, <2>1, <3>1, OccupiedBound DEF Copied
  <2>2. CASE k # NULL
    <3>1. new_entries' = ht_set_entry(new_entries, cap, k, v)
      BY <2>2 DEF MoveEntry
    <3>2. \A s \in 0 .. i - 1 : entries[s].key # k
      BY <1>1, <1>2, <2>2 DEF Table, Unique
    <3>3. new_entries[Find(new_entries, cap, k)].key # k
      <4> DEFINE f == Find(new_entries, cap, k)
      <4>1. f \in 0 .. cap - 1
        BY <1>1, <1>2, <1>4, <2>2, FindFacts
      <4>2. ASSUME new_entries[f].key = k
            PROVE  \E w \in Values : Holds(new_entries, cap, k, w)
        <5>1. /\ new_entries[f].value \in Values
              /\ new_entries[f] = [key |-> k, value |-> new_entries[f].value]
          BY <1>2, <2>2, <4>1, <4>2 DEF Table, Filled, Slots
        <5>2. QED
          BY <4>1, <5>1 DEF Holds
      <4>3. ASSUME NEW w \in Values, Holds(new_entries, cap, k, w)
            PROVE  FALSE
        <5>1. \E s \in 0 .. i - 1 : entries[s] = [key |-> k, value |-> w]
          BY <1>2, <1>4, <2>2, <4>3 DEF Copied
        <5>2. QED
          BY <3>2, <5>1
      <4>4. QED
        BY <4>2, <4>3
    <3>4. QED
      BY <1>1, <1>2, <1>4, <1>6, <2>2, <3>1, <3>3, StoreCounts DEF Copied
  <2>3. QED
    BY <2>1, <2>2
<1>8. Table(new_entries', cap) /\
      \A k2 \in Keys, v2 \in Values :
        Holds(new_entries', cap, k2, v2) <=>
          \E s \in 0 .. i : entries[s] = [key |-> k2, value |-> v2]
  <2>1. CASE k = NULL
    <3>1. new_entries' = new_entries
      BY <2>1 DEF MoveEntry
    <3>2. \A k2 \in Keys, v2 \in Values : entries[i] # [key |-> k2, value |-> v2]
      BY <2>1, SentinelAssumption
    <3>3. \A s \in 0 .. i : s \in 0 .. i - 1 \/ s = i
      BY <1>1
    <3>4. \A s \in 0 .. i - 1 : s \in 0 .. i
      BY <1>1
    <3>5. QED
      BY <1>2, <3>1, <3>2, <3>3, <3>4 DEF Copied
  <2>2. CASE k # NULL
    <3>1. new_entries' = ht_set_entry(new_entries, cap, k, v)
      BY <2>2 DEF MoveEntry
    <3>2. \A s \in 0 .. i - 1 : entries[s].key # k
      BY <1>1, <1>2, <2>2 DEF Table, Unique
    <3>3. HasRoom(new_entries', cap)
      BY <1>1, <1>5, <1>7 DEF HasRoom
    <3>4. /\ Table(new_entries', cap)
          /\ \A k2 \in Keys, v2 \in Values :
               Holds(new_entries', cap, k2, v2) <=>
                 IF k2 = k THEN v2 = v ELSE Holds(new_entries, cap, k2, v2)
      BY <1>1, <1>2, <1>4, <2>2, <3>1, <3>3, StoreFacts
    <3>5. ASSUME NEW k2 \in Keys, NEW v2 \in Values
          PROVE  Holds(new_entries', cap, k2, v2) <=>
                   \E s \in 0 .. i : entries[s] = [key |-> k2, value |-> v2]
      <4>1. Holds(new_entries, cap, k2, v2) <=>
              \E s \in 0 .. i - 1 : entries[s] = [key |-> k2, value |-> v2]
        BY <1>2 DEF Copied
      <4>2. (\E s \in 0 .. i : entries[s] = [key |-> k2, value |-> v2])
              <=> \/ \E s \in 0 .. i - 1 : entries[s] = [key |-> k2, value |-> v2]
                  \/ k2 = k /\ v2 = v
        <5>1. \A s \in 0 .. i : s \in 0 .. i - 1 \/ s = i
          BY <1>1
        <5>2. i \in 0 .. i /\ \A s \in 0 .. i - 1 : s \in 0 .. i
          BY <1>1
        <5>3. entries[i] = [key |-> k2, value |-> v2] <=> k2 = k /\ v2 = v
          BY <1>4
        <5>4. QED
          BY <5>1, <5>2, <5>3
      <4>3. k2 = k => ~ \E s \in 0 .. i - 1 : entries[s] = [key |-> k2, value |-> v2]
        BY <3>2
      <4>4. QED
        BY <3>4, <4>1, <4>2, <4>3
    <3>6. QED
      BY <3>4, <3>5
  <2>3. QED
    BY <2>1, <2>2
<1>9. QED
  BY <1>1, <1>3, <1>7, <1>8, TableStable DEF Copied, Holds, Occupied

\* A call that returns without touching the table.
LEMMA NothingStored ==
  ASSUME IInv, UNCHANGED <<hash, entries, capacity, length>>
  PROVE  Table(entries, capacity)' /\ LengthCounts'
<1>1. Table(entries, capacity)'
  BY TableStable DEF IInv
<1>2. LengthCounts'
  BY DEF IInv, LengthCounts, Occupied
<1>3. QED
  BY <1>1, <1>2

LEMMA SwapKeeps ==
  ASSUME IInv, SwapEntries
  PROVE  /\ Table(entries, capacity)' /\ LengthCounts'
         /\ length < capacity' \div 2 /\ capacity' = 2 * capacity
<1>1. /\ capacity \in Nat \ {0} /\ length \in Nat
      /\ i = capacity /\ NewCapacity = 2 * capacity /\ Copied
  BY SizeAssumption DEF IInv, TypeOK, SwapEntries
<1>2. entries' = new_entries /\ capacity' = NewCapacity /\ hash' = hash /\ length' = length
  BY DEF SwapEntries
<1>3. Table(entries, capacity)'
  BY <1>1, <1>2, TableStable DEF Copied
<1>4. length = Cardinality(Occupied(entries', capacity')) /\ length <= capacity \div 2
  BY <1>1, <1>2 DEF Copied, IInv, LengthCounts
<1>5. length < capacity' \div 2
  BY <1>1, <1>2, <1>4
<1>6. QED
  BY <1>1, <1>2, <1>3, <1>4, <1>5 DEF LengthCounts, Occupied

LEMMA SetKeeps ==
  ASSUME IInv, SetEntry
  PROVE  Table(entries, capacity)' /\ LengthCounts'
<1>1. /\ capacity \in Nat \ {0} /\ length \in Nat /\ hash \in [Keys -> HashValues]
      /\ key \in Keys /\ value \in Values
      /\ Table(entries, capacity) /\ LengthCounts /\ length < capacity \div 2
  BY SizeAssumption DEF IInv, TypeOK, SetEntry
<1>2. /\ entries' = ht_set_entry(entries, capacity, key, value)
      /\ capacity' = capacity /\ hash' = hash
      /\ length' = IF Present(key) THEN length ELSE length + 1
  BY DEF SetEntry
<1>3. /\ Cardinality(Occupied(entries', capacity)) = length'
      /\ length' \in Nat /\ length' <= capacity \div 2
  BY <1>1, <1>2, StoreCounts DEF LengthCounts, Present
<1>4. HasRoom(entries', capacity)
  BY <1>1, <1>3 DEF HasRoom
<1>5. Table(entries', capacity)
  BY <1>1, <1>2, <1>4, StoreFacts
<1>6. QED
  BY <1>2, <1>3, <1>5, TableStable DEF LengthCounts, Occupied

LEMMA InitIInv == Init => IInv
<1> SUFFICES ASSUME Init PROVE IInv
  OBVIOUS
<1>1. INITIAL_CAPACITY \in Nat \ {0} /\ INITIAL_CAPACITY < SizeLimit /\ SizeLimit \in Nat
  BY SizeAssumption
<1>2. hash \in [Keys -> HashValues] /\ entries = Calloc(capacity) /\ capacity = INITIAL_CAPACITY
  BY DEF Init
<1>3. Table(entries, capacity) /\ Occupied(entries, capacity) = {}
  BY <1>1, <1>2, EmptyTable
<1>4. LengthCounts
  BY <1>1, <1>3, FS_EmptySet DEF LengthCounts, Init
<1>5. TypeOK
  BY <1>1, <1>3, SentinelAssumption DEF TypeOK, Init, Table
<1>6. QED
  BY <1>3, <1>4, <1>5 DEF IInv, Init

LEMMA StepIInv == IInv /\ [Next]_vars => IInv'
<1> SUFFICES ASSUME IInv, [Next]_vars PROVE IInv'
  OBVIOUS
<1> USE DEF table, locals
<1>a. /\ SizeLimit \in Nat /\ capacity \in Nat \ {0} /\ capacity < SizeLimit
      /\ NULL \notin Keys \cup Values
  BY SizeAssumption, SentinelAssumption DEF IInv, TypeOK
<1>b. ASSUME SetReturns(key, NULL) \/ (\E k \in Keys : SetReturns(k, NULL)), UNCHANGED table
      PROVE  IInv'
  <2>1. TypeOK'
    BY <1>a, <1>b DEF IInv, TypeOK, SetReturns, Slots
  <2>2. QED
    BY <1>b, <2>1, NothingStored DEF IInv, SetReturns
<1>1. ASSUME NEW k \in Keys, ht_get(k) PROVE IInv'
  <2>1. TypeOK'
    BY <1>1 DEF ht_get, IInv, TypeOK, Slots, NewCapacity
  <2>2. pc' = "idle"
    BY <1>1 DEF ht_get
  <2>3. Table(entries, capacity)' /\ LengthCounts'
    BY <1>1, NothingStored DEF ht_get
  <2>4. QED
    BY <2>1, <2>2, <2>3 DEF IInv
<1>2. ASSUME NEW k \in Keys, SetNullValue(k) PROVE IInv'
  BY <1>2, <1>b DEF SetNullValue
<1>3. ASSUME NEW k \in Keys, NEW v \in Values, ht_set(k, v) PROVE IInv'
  <2>1. TypeOK'
    BY <1>a, <1>3 DEF ht_set, IInv, TypeOK, Slots, NewCapacity
  <2>2. pc' # "rehash" /\ (pc' = "insert" => length' < capacity' \div 2)
    BY <1>a, <1>3 DEF ht_set, IInv, TypeOK
  <2>3. Table(entries, capacity)' /\ LengthCounts'
    BY <1>3, NothingStored DEF ht_set
  <2>4. QED
    BY <2>1, <2>2, <2>3 DEF IInv
<1>4. CASE ExpandFails
  BY <1>4, <1>b DEF ExpandFails
<1>5. CASE ht_expand
  <2>1. NewCapacity = 2 * capacity /\ NewCapacity < SizeLimit /\ NewCapacity' = NewCapacity
    BY <1>a, <1>5, CapacityDoubles DEF ht_expand, NewCapacity
  <2>2. /\ Table(new_entries', NewCapacity)
        /\ Occupied(new_entries', NewCapacity) = {}
    BY <1>a, <1>5, <2>1, EmptyTable DEF ht_expand, IInv, TypeOK
  <2>3. TypeOK'
    BY <1>a, <1>5, <2>1, <2>2 DEF ht_expand, IInv, TypeOK, Slots, Table
  <2>4. Copied'
    <3>1. Table(new_entries, NewCapacity)'
      BY <1>5, <2>1, <2>2, TableStable DEF ht_expand
    <3>2. Occupied(new_entries, NewCapacity)' = {} /\ Occupied(entries, i)' = {}
      BY <1>5, <2>1, <2>2 DEF ht_expand, Occupied
    <3>3. ASSUME NEW k \in Keys, NEW v \in Values
          PROVE  ~Holds(new_entries, NewCapacity, k, v)'
      BY <1>a, <3>2 DEF Occupied, Holds
    <3>4. \A s \in 0 .. i' - 1 : FALSE
      BY <1>5 DEF ht_expand
    <3>5. QED
      BY <3>1, <3>2, <3>3, <3>4 DEF Copied
  <2>5. Table(entries, capacity)' /\ LengthCounts' /\ pc' = "rehash"
    BY <1>5, NothingStored DEF ht_expand
  <2>6. QED
    BY <2>3, <2>4, <2>5 DEF IInv
<1>6. CASE MoveEntry
  <2>1. Copied'
    BY <1>6, MoveCopies
  <2>2. NewCapacity' = NewCapacity /\ new_entries' \in Slots(NewCapacity)
    BY <1>6, <2>1 DEF MoveEntry, NewCapacity, Copied, Table, Slots
  <2>3. TypeOK'
    BY <1>a, <1>6, <2>2 DEF MoveEntry, IInv, TypeOK, Slots
  <2>4. Table(entries, capacity)' /\ LengthCounts' /\ pc' = "rehash"
    BY <1>6, NothingStored DEF MoveEntry
  <2>5. QED
    BY <2>1, <2>3, <2>4 DEF IInv
<1>7. CASE SwapEntries
  <2>1. /\ Table(entries, capacity)' /\ LengthCounts'
        /\ length < capacity' \div 2 /\ capacity' = 2 * capacity
    BY <1>7, SwapKeeps
  <2>2. TypeOK'
    <3>1. capacity' < SizeLimit
      BY <1>a, <1>7 DEF SwapEntries, NewCapacity
    <3>2. entries' \in Slots(capacity')
      BY <1>7 DEF SwapEntries, IInv, TypeOK
    <3>3. QED
      BY <1>a, <1>7, <2>1, <3>1, <3>2, SizeAssumption DEF SwapEntries, IInv, TypeOK
  <2>3. QED
    BY <1>7, <2>1, <2>2 DEF IInv, SwapEntries
<1>8. CASE SetEntry
  <2>1. Table(entries, capacity)' /\ LengthCounts'
    BY <1>8, SetKeeps
  <2>2. length' \in Nat
    BY <1>8 DEF SetEntry, IInv, TypeOK
  <2>3. entries' \in Slots(capacity')
    BY <2>1 DEF Table, Slots
  <2>4. TypeOK'
    BY <1>a, <1>8, <2>2, <2>3 DEF SetEntry, SetReturns, IInv, TypeOK, Slots
  <2>5. QED
    BY <1>8, <2>1, <2>4 DEF IInv, SetEntry, SetReturns
<1>9. CASE StrdupFails
  BY <1>9, <1>b DEF StrdupFails
<1>10. CASE UNCHANGED vars
  <2>1. Table(entries, capacity)' /\ LengthCounts'
    BY <1>10, NothingStored DEF vars
  <2>2. TypeOK'
    BY <1>10 DEF vars, IInv, TypeOK, Slots, NewCapacity
  <2>3. pc = "rehash" => Copied'
    BY <1>10, TableStable DEF vars, IInv, Copied, Holds, Occupied, NewCapacity
  <2>4. QED
    BY <1>10, <2>1, <2>2, <2>3 DEF vars, IInv
<1>11. QED
  BY <1>1, <1>2, <1>3, <1>4, <1>5, <1>6, <1>7, <1>8, <1>9, <1>10 DEF Next, Continue

-----------------------------------------------------------------------------
(* The theorems.                                                           *)

\* In every state of every run of hash.c's operations IInv holds.
THEOREM Invariance == Spec => []IInv
BY InitIInv, StepIInv, PTL DEF Spec

\* Capacity stays in [INITIAL_CAPACITY, 2^64) and the arrays have its size: no
\* slot outside an allocation is ever read or written.
THEOREM TypeCorrect == Spec => []TypeOK
BY Invariance, PTL DEF IInv

\* `length` is the number of keys, at most half of the slots.
THEOREM LengthCorrect == Spec => []LengthCounts
BY Invariance, PTL DEF IInv

\* Whatever the keys and however they collide, no probing loop of ht_get or
\* ht_set_entry runs for ever.
THEOREM ProbingEnds == Spec => []ProbingTerminates
<1>1. IInv => ProbingTerminates
  <2> SUFFICES ASSUME IInv PROVE ProbingTerminates
    OBVIOUS
  <2>1. hash \in [Keys -> HashValues] /\ Table(entries, capacity)
    BY DEF IInv, TypeOK
  <2>2. ProbesStop(entries, capacity)
    BY <2>1, RoomStops DEF Table
  <2>3. pc = "rehash" => ProbesStop(new_entries, NewCapacity)
    BY <2>1, RoomStops DEF Table, IInv, Copied
  <2>4. QED
    BY <2>2, <2>3 DEF ProbingTerminates
<1>2. QED
  BY <1>1, Invariance, PTL

-----------------------------------------------------------------------------
(* The table implements the map of StringMap.                              *)

\* What a key is stored with is unique, and is what Contents says.
LEMMA ContentsFacts ==
  ASSUME IInv, NEW k \in Keys
  PROVE  Contents[k] = entries[Find(entries, capacity, k)].value
<1> DEFINE f == Find(entries, capacity, k)
<1>1. Table(entries, capacity)
  BY DEF IInv
<1>2. /\ f \in 0 .. capacity - 1
      /\ entries[f].key \in {NULL, k}
      /\ \A s \in 0 .. capacity - 1 : entries[s].key = k => s = f
  BY <1>1, FindFacts DEF IInv, TypeOK
<1>3. entries[f] = [key |-> entries[f].key, value |-> entries[f].value]
  BY <1>1, <1>2 DEF Table, Slots
<1> HIDE DEF f
<1>4. CASE entries[f].key = k
  <2>1. entries[f].value \in Values
    BY <1>1, <1>2, <1>4, SentinelAssumption DEF Table, Filled
  <2>2. \A v \in Values : Holds(entries, capacity, k, v) <=> v = entries[f].value
    BY <1>2, <1>3, <1>4 DEF Holds
  <2>3. Contents[k] = entries[f].value
    BY <2>1, <2>2 DEF Contents
  <2>4. QED
    BY <2>3 DEF f
<1>5. CASE entries[f].key # k
  <2>1. entries[f].value = NULL
    BY <1>1, <1>2, <1>5 DEF Table, Filled
  <2>2. \A v \in Values : ~Holds(entries, capacity, k, v)
    BY <1>2, <1>5 DEF Holds
  <2>3. Contents[k] = NULL
    BY <2>2 DEF Contents
  <2>4. QED
    BY <2>1, <2>3 DEF f
<1>6. QED
  BY <1>4, <1>5

LEMMA ContentsKept ==
  ASSUME UNCHANGED <<entries, capacity>>
  PROVE  UNCHANGED Contents
BY DEF Contents, Holds

\* Rehashing changes where the entries are, not which they are.
LEMMA SwapRefines ==
  ASSUME IInv, SwapEntries
  PROVE  UNCHANGED Contents
<1>1. /\ i = capacity /\ Copied
      /\ entries' = new_entries /\ capacity' = NewCapacity
  BY DEF IInv, TypeOK, SwapEntries
<1>2. \A k \in Keys, v \in Values :
        Holds(entries', capacity', k, v) <=> Holds(entries, capacity, k, v)
  BY <1>1 DEF Copied, Holds
<1>3. \A k \in Keys, v \in Values :
        Holds(entries, capacity, k, v)' <=> Holds(entries, capacity, k, v)
  BY <1>2 DEF Holds
<1>4. QED
  BY <1>3 DEF Contents

LEMMA SetRefines ==
  ASSUME IInv, SetEntry
  PROVE  key \in Keys /\ value \in Values /\ Contents' = [Contents EXCEPT ![key] = value]
<1>1. /\ key \in Keys /\ value \in Values /\ hash \in [Keys -> HashValues]
      /\ Table(entries, capacity)
      /\ entries' = ht_set_entry(entries, capacity, key, value)
      /\ capacity' = capacity /\ hash' = hash
  BY DEF IInv, TypeOK, SetEntry
<1>2. HasRoom(entries', capacity)
  BY <1>1, SetKeeps, TableStable DEF Table
<1>3. \A k \in Keys, v \in Values :
        Holds(entries', capacity, k, v) <=>
          IF k = key THEN v = value ELSE Holds(entries, capacity, k, v)
  BY <1>1, <1>2, StoreFacts
<1>4. \A k \in Keys, v \in Values :
        Holds(entries, capacity, k, v)' <=>
          IF k = key THEN v = value ELSE Holds(entries, capacity, k, v)
  BY <1>1, <1>3 DEF Holds
<1>5. \A k \in Keys : Contents'[k] = IF k = key THEN value ELSE Contents[k]
  BY <1>1, <1>4 DEF Contents
<1>6. /\ Contents = [k \in Keys |-> Contents[k]]
      /\ Contents' = [k \in Keys |-> Contents'[k]]
  BY DEF Contents
<1>7. QED
  BY <1>1, <1>5, <1>6

\* hash.c implements the map of hash.h: through collisions, doubling and failed
\* allocations a name always has the value last stored for it.
THEOREM Refinement == Spec => MapSpec
<1>1. Init => Map!Init
  <2> SUFFICES ASSUME Init PROVE Map!Init
    OBVIOUS
  <2>1. \A k \in Keys, v \in Values : ~Holds(entries, capacity, k, v)
    BY SentinelAssumption DEF Init, Holds, Calloc, Empty
  <2>2. QED
    BY <2>1 DEF Map!Init, Contents, Init
<1>2. IInv /\ [Next]_vars => [Map!Next]_Map!vars
  <2> SUFFICES ASSUME IInv, [Next]_vars PROVE [Map!Next]_Map!vars
    OBVIOUS
  <2> USE DEF table, locals, Map!vars
  <2>0. pc # "idle" => key \in Keys
    BY DEF IInv, TypeOK
  <2>1. ASSUME NEW k \in Keys, ht_get(k) PROVE Map!Next
    <3>1. Map!Get(k)
      BY <2>1, ContentsFacts, ContentsKept DEF ht_get, Map!Get, Map!Returns
    <3>2. QED
      BY <3>1 DEF Map!Next
  <2>2. ASSUME NEW k \in Keys, SetReturns(k, NULL), UNCHANGED table PROVE Map!Next
    <3>1. Map!SetFails(k)
      BY <2>2, ContentsKept DEF SetReturns, Map!SetFails, Map!Returns
    <3>2. QED
      BY <3>1 DEF Map!Next
  <2>3. ASSUME NEW k \in Keys, SetNullValue(k) PROVE Map!Next
    BY <2>2, <2>3 DEF SetNullValue
  <2>4. ASSUME NEW k \in Keys, NEW v \in Values, ht_set(k, v) PROVE UNCHANGED Map!vars
    BY <2>4, ContentsKept DEF ht_set
  <2>5. CASE ExpandFails
    BY <2>0, <2>2, <2>5 DEF ExpandFails
  <2>6. CASE ht_expand
    BY <2>6, ContentsKept DEF ht_expand
  <2>7. CASE MoveEntry
    BY <2>7, ContentsKept DEF MoveEntry
  <2>8. CASE SwapEntries
    BY <2>8, SwapRefines DEF SwapEntries
  <2>9. CASE SetEntry
    <3>1. Map!Set(key, value)
      BY <2>9, SetRefines DEF SetEntry, SetReturns, Map!Set, Map!Returns
    <3>2. QED
      BY <2>9, <3>1, SetRefines DEF Map!Next
  <2>10. CASE StrdupFails
    BY <2>0, <2>2, <2>10 DEF StrdupFails
  <2>11. CASE UNCHANGED vars
    BY <2>11, ContentsKept DEF vars
  <2>12. QED
    BY <2>1, <2>3, <2>4, <2>5, <2>6, <2>7, <2>8, <2>9, <2>10, <2>11 DEF Next, Continue
<1>3. QED
  BY <1>1, <1>2, Invariance, PTL DEF Spec, MapSpec, Map!Spec
=============================================================================
