------------------------------ MODULE HashTable ------------------------------
(***************************************************************************)
(* src/src/hash.c: the open-addressing hash table that holds one scope's   *)
(* symbols.  Linear probing, no removal, doubling when half full.  ht_set  *)
(* is several steps here: the copy of the entries into the larger array    *)
(* goes slot by slot, and each allocation may fail.                        *)
(*                                                                         *)
(* Abstractions: a key is a model value, FNV-1a an arbitrary fixed         *)
(* function `hash`; `hash & (capacity - 1)` is written hash % capacity     *)
(* (MCHashTable checks that they agree on every capacity reached).         *)
(***************************************************************************)
EXTENDS Integers, FiniteSets

CONSTANTS Keys, Values, NULL,
          HashValues,        \* what hash_key may return
          INITIAL_CAPACITY,  \* 16 in the code
          SizeLimit          \* 2^64 in the code: size_t arithmetic wraps here

ASSUME SentinelAssumption == NULL \notin Keys \cup Values

ASSUME SizeAssumption ==
  /\ INITIAL_CAPACITY \in Nat \ {0}
  /\ SizeLimit \in Nat
  /\ INITIAL_CAPACITY < SizeLimit
  /\ HashValues \subseteq Nat

VARIABLES
  hash,                       \* hash_key, fixed for the run
  entries, capacity, length,  \* struct ht
  pc,                         \* where ht_set is
  key, value,                 \* its arguments
  new_entries, i,             \* ht_expand's locals
  ret                         \* the last call that returned

table == <<hash, entries, capacity, length>>
locals == <<key, value, new_entries, i>>
vars == <<table, pc, locals, ret>>

Empty == [key |-> NULL, value |-> NULL]
Calloc(n) == [s \in 0 .. n - 1 |-> Empty]

-----------------------------------------------------------------------------
(* Probing.                                                                *)

Home(k, cap) == hash[k] % cap

\* The d-th slot the loop looks at: i++, back to 0 at the end of the array.
Probe(k, cap, d) ==
  LET s == Home(k, cap) + d IN IF s >= cap THEN s - cap ELSE s

\* The loop stops at the key or at an empty slot ...
Stops(e, cap, k, d) == e[Probe(k, cap, d)].key \in {NULL, k}

\* ... and at the first one, after d steps.
FirstStop(e, cap, k, d) ==
  /\ d \in 0 .. cap - 1
  /\ Stops(e, cap, k, d)
  /\ \A c \in 0 .. d - 1 : ~Stops(e, cap, k, c)

Find(e, cap, k) == Probe(k, cap, CHOOSE d \in 0 .. cap - 1 : FirstStop(e, cap, k, d))

ht_set_entry(e, cap, k, v) ==
  [e EXCEPT ![Find(e, cap, k)] = [key |-> k, value |-> v]]

-----------------------------------------------------------------------------
Init ==
  /\ hash \in [Keys -> HashValues]
  /\ entries = Calloc(INITIAL_CAPACITY)
  /\ capacity = INITIAL_CAPACITY
  /\ length = 0
  /\ pc = "idle"
  /\ key = NULL /\ value = NULL
  /\ new_entries = Calloc(0) /\ i = 0
  /\ ret = [op |-> "create", key |-> NULL, out |-> NULL]

ht_get(k) ==
  /\ pc = "idle"
  /\ ret' = [op |-> "get", key |-> k, out |-> entries[Find(entries, capacity, k)].value]
  /\ UNCHANGED <<table, pc, locals>>

SetReturns(k, out) ==
  /\ pc' = "idle"
  /\ key' = NULL /\ value' = NULL
  /\ new_entries' = Calloc(0) /\ i' = 0
  /\ ret' = [op |-> "set", key |-> k, out |-> out]

\* ht_set of a null value: refused at once.
SetNullValue(k) ==
  /\ pc = "idle"
  /\ SetReturns(k, NULL)
  /\ UNCHANGED table

\* ht_set's test of the load.
ht_set(k, v) ==
  /\ pc = "idle"
  /\ key' = k /\ value' = v
  /\ pc' = IF length >= capacity \div 2 THEN "expand" ELSE "insert"
  /\ UNCHANGED <<table, new_entries, i, ret>>

\* Mutant: the table grows by a fixed amount.
NewCapacity_Linear == (capacity + INITIAL_CAPACITY) % SizeLimit

NewCapacity == (capacity * 2) % SizeLimit

\* Mutant: ht_set ignores what ht_expand returns.
ExpandFails_Ignored ==
  /\ pc = "expand"
  /\ pc' = "insert"
  /\ UNCHANGED <<table, locals, ret>>

\* ht_expand: the capacity wraps, or calloc has no memory.
ExpandFails ==
  /\ pc = "expand"
  /\ SetReturns(key, NULL)
  /\ UNCHANGED table

ht_expand ==
  /\ pc = "expand"
  /\ NewCapacity >= capacity
  /\ new_entries' = Calloc(NewCapacity)
  /\ i' = 0
  /\ pc' = "rehash"
  /\ UNCHANGED <<table, key, value, ret>>

\* Mutant: i is advanced only past a key.
MoveEntry_Stuck ==
  /\ pc = "rehash"
  /\ i < capacity
  /\ entries[i].key # NULL
  /\ i' = i + 1
  /\ new_entries' = ht_set_entry(new_entries, NewCapacity, entries[i].key, entries[i].value)
  /\ UNCHANGED <<table, pc, key, value, ret>>

\* One round of the copying loop.  The key is moved, not duplicated.
MoveEntry ==
  /\ pc = "rehash"
  /\ i < capacity
  /\ i' = i + 1
  /\ new_entries' = IF entries[i].key = NULL
                    THEN new_entries
                    ELSE ht_set_entry(new_entries, NewCapacity,
                                      entries[i].key, entries[i].value)
  /\ UNCHANGED <<table, pc, key, value, ret>>

\* Mutant: the copying loop stops one slot early.
SwapEntries_Short ==
  /\ pc = "rehash"
  /\ i >= capacity - 1
  /\ entries' = new_entries
  /\ capacity' = NewCapacity
  /\ new_entries' = Calloc(0) /\ i' = 0
  /\ pc' = "insert"
  /\ UNCHANGED <<hash, length, key, value, ret>>

\* Mutant: the table keeps its old capacity.
SwapEntries_OldCapacity ==
  /\ pc = "rehash"
  /\ i >= capacity
  /\ entries' = new_entries
  /\ new_entries' = Calloc(0) /\ i' = 0
  /\ pc' = "insert"
  /\ UNCHANGED <<hash, capacity, length, key, value, ret>>

SwapEntries ==
  /\ pc = "rehash"
  /\ i >= capacity
  /\ entries' = new_entries
  /\ capacity' = NewCapacity
  /\ new_entries' = Calloc(0) /\ i' = 0
  /\ pc' = "insert"
  /\ UNCHANGED <<hash, length, key, value, ret>>

Present(k) == entries[Find(entries, capacity, k)].key = k

\* Mutant: an update is counted as a new key.
SetEntry_AlwaysCounts ==
  /\ pc = "insert"
  /\ entries' = ht_set_entry(entries, capacity, key, value)
  /\ length' = length + 1
  /\ SetReturns(key, key)
  /\ UNCHANGED <<hash, capacity>>

\* ht_set_entry on the table itself; a new key is copied and counted.
SetEntry ==
  /\ pc = "insert"
  /\ entries' = ht_set_entry(entries, capacity, key, value)
  /\ length' = IF Present(key) THEN length ELSE length + 1
  /\ SetReturns(key, key)
  /\ UNCHANGED <<hash, capacity>>

\* strdup has no memory for a new key.
StrdupFails ==
  /\ pc = "insert"
  /\ ~Present(key)
  /\ SetReturns(key, NULL)
  /\ UNCHANGED table

Continue == \/ ExpandFails \/ ht_expand \/ MoveEntry \/ SwapEntries
            \/ SetEntry \/ StrdupFails

Next == \/ \E k \in Keys : \/ ht_get(k)
                           \/ SetNullValue(k)
                           \/ \E v \in Values : ht_set(k, v)
        \/ Continue

\* The compiler is one thread: a call it has made runs on until it returns.
Fairness == WF_vars(Continue)

Spec == Init /\ [][Next]_vars
FairSpec == Spec /\ Fairness

-----------------------------------------------------------------------------
(* Properties.                                                             *)

Slots(cap) == [0 .. cap - 1 -> [key : Keys \cup {NULL}, value : Values \cup {NULL}]]

Capacities == {c \in Nat : INITIAL_CAPACITY <= c /\ c < SizeLimit}

\* Every variable holds a value its C type and its use allow.
TypeOK ==
  /\ hash \in [Keys -> HashValues]
  /\ capacity \in Nat
  /\ INITIAL_CAPACITY <= capacity /\ capacity < SizeLimit
  /\ entries \in Slots(capacity)
  /\ length \in Nat
  /\ pc \in {"idle", "expand", "rehash", "insert"}
  /\ pc = "idle" <=> key = NULL
  /\ pc # "idle" => key \in Keys /\ value \in Values
  /\ i \in 0 .. capacity
  /\ pc = "rehash" => new_entries \in Slots(NewCapacity) /\ NewCapacity = 2 * capacity

Occupied(e, cap) == {s \in 0 .. cap - 1 : e[s].key # NULL}

\* No loop of ht_get or ht_set_entry runs round the array for ever: whatever
\* the key, in the array it is about to search there is a slot to stop at.
ProbesStop(e, cap) == \A k \in Keys : \E d \in 0 .. cap - 1 : Stops(e, cap, k, d)

ProbingTerminates == /\ ProbesStop(entries, capacity)
                     /\ pc = "rehash" => ProbesStop(new_entries, NewCapacity)

\* The table as its users see it: the value stored with each key, wherever
\* the slot is, whether or not a probe finds it.
Holds(e, cap, k, v) == \E s \in 0 .. cap - 1 : e[s] = [key |-> k, value |-> v]

Contents == [k \in Keys |-> IF \E v \in Values : Holds(entries, capacity, k, v)
                            THEN CHOOSE v \in Values : Holds(entries, capacity, k, v)
                            ELSE NULL]

Map == INSTANCE StringMap WITH map <- Contents

\* Through collisions, wrap-around, doubling and failed allocations the table
\* is the map of hash.h: no key is lost, stored twice or found with a stale value.
MapSpec == Map!Spec

\* `length` counts the keys, and at most half of the slots are taken.
LengthCounts == /\ length = Cardinality(Occupied(entries, capacity))
                /\ length <= capacity \div 2

\* Every call of ht_set returns.
SetTerminates == (pc # "idle") ~> (pc = "idle")
=============================================================================
