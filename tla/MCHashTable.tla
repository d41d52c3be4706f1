----------------------------- MODULE MCHashTable -----------------------------
EXTENDS HashTable, Bitwise

CONSTANTS k1, k2, k3, v1, v2, Null

MCKeys == {k1, k2, k3}
MCValues == {v1, v2}
\* 3 and 7 collide in 4 slots but not in 8, 3 and 5 in 2 but not in 4, and from 3
\* and 7 a probe goes round the end of an array.
MCHashValues == {0, 3, 5, 7}

\* hash_key(key) & (capacity - 1), the code's way to reduce a hash to a slot,
\* is Home on every capacity the table takes, the one being built included.
MaskIsHome ==
  \A k \in Keys, c \in {capacity} \cup (IF pc = "rehash" THEN {NewCapacity} ELSE {}) :
    hash[k] & (c - 1) = Home(k, c)
=============================================================================
