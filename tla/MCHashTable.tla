----------------------------- MODULE MCHashTable -----------------------------
(***************************************************************************)
(* A small hash table: keys that collide in every way, at the end of the   *)
(* table and around it, and two data with the same key.                    *)
(***************************************************************************)
EXTENDS HashTable

MCData == 1..6

\* data 5 and 6 have the same key
MCKeyOf == [d \in MCData |-> IF d = 6 THEN 5 ELSE d]

\* Sizes are 1, 3, 7 and 15: 2, 6 and 14 are their last slots
MCHashFns == {
    [k \in 1..5 |-> 14],                        \* all in one place
    [k \in 1..5 |-> IF k <= 2 THEN 6 ELSE 0],   \* one run goes around into another
    [k \in 1..5 |-> 16 - k] }                   \* runs that grow at both ends
=============================================================================
