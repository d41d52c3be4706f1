------------------------------ MODULE StringMap ------------------------------
(***************************************************************************)
(* What include/hash.h promises of a symbol table: a finite map from names *)
(* to non-null values.  ht_get answers with the value last set, or NULL;   *)
(* ht_set returns the stored key, or NULL and then has changed nothing.    *)
(***************************************************************************)
CONSTANTS Keys, Values, NULL

VARIABLES map,    \* the value of every key, NULL where there is none
          ret     \* the last call that returned, and what it returned

vars == <<map, ret>>

Returns(op, key, out) == ret' = [op |-> op, key |-> key, out |-> out]

Init == /\ map = [k \in Keys |-> NULL]
        /\ ret = [op |-> "create", key |-> NULL, out |-> NULL]

Get(k) == /\ Returns("get", k, map[k])
          /\ UNCHANGED map

Set(k, v) == /\ map' = [map EXCEPT ![k] = v]
             /\ Returns("set", k, k)

\* A null value, or no memory for the larger table or for the key.
SetFails(k) == /\ Returns("set", k, NULL)
               /\ UNCHANGED map

Next == \E k \in Keys : \/ Get(k)
                        \/ \E v \in Values : Set(k, v)
                        \/ SetFails(k)

Spec == Init /\ [][Next]_vars
=============================================================================
