------------------------------ MODULE KeyedMap ------------------------------
(***************************************************************************)
(* What smbase's HashTable promises its clients (smbase/hashtbl.h): a      *)
(* mapping from keys to data, where the data tell their keys and a key is  *)
(* mapped once at most.                                                    *)
(***************************************************************************)
CONSTANTS
    Data,
    KeyOf       \* getKey, a function on Data

VARIABLE contents   \* the mapped data

Mapped(key) == \E d \in contents : KeyOf[d] = key

Init == contents = {}

\* "there must not already be a mapping for this key"
Add(d) == ~Mapped(KeyOf[d]) /\ contents' = contents \cup {d}

\* "it must exist"
Remove(d) == d \in contents /\ contents' = contents \ {d}

Empty == contents' = {}

Next == (\E d \in Data : Add(d) \/ Remove(d)) \/ Empty

Spec == Init /\ [][Next]_contents
=============================================================================
