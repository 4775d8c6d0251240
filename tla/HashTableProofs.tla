-------------------------- MODULE HashTableProofs --------------------------
(***************************************************************************)
(* The hash table is a map, for every set of data, every hash function and *)
(* all sizes: proofs about HashTable.                                      *)
(*                                                                         *)
(* What has to hold between calls is that nothing is free between an       *)
(* entry's home and its slot (NoGap), so that a search for its key comes   *)
(* to it.  A removal breaks that; what is true until its loop stops is     *)
(* Repairing.  It stops in time because a slot is always free, and a slot  *)
(* is always free because fewer data are stored than there are slots.      *)
(***************************************************************************)
EXTENDS HashTable, TLAPS, FiniteSetTheorems, WellFoundedInduction

(* The inductive invariant *)

Slots == 0..(tableSize - 1)
Home(key) == hash[key] % tableSize

\* how many slots a search goes on from slot i until it comes to slot j
Way(i, j) == IF i <= j THEN j - i ELSE j - i + tableSize

\* a search for the key comes to slot i before it comes to slot j
Before(key, i, j) == Way(Home(key), i) < Way(Home(key), j)

Tables(size) == [0..(size - 1) -> Data \cup {NULL}]
Contents(T) == {T[i] : i \in DOMAIN T} \ {NULL}

TypeInv ==
    /\ hash \in HashFns
    /\ tableSize \in Nat \ {0}
    /\ hashTable \in Tables(tableSize)
    /\ numEntries \in Nat
    /\ enableShrink \in BOOLEAN
    /\ pc \in {"idle", "resize", "act", "collide"}
    /\ pc # "idle" => \/ call.fn = "add" /\ call.arg \in Data
                      \/ call.fn = "remove" /\ call.arg \in Keys
    /\ pc = "resize" => \E size \in Nat \ {0} : oldTable \in Tables(size)
    /\ pc = "resize" => index \in Nat

\* a key is stored in one slot
OneSlot(T) ==
    \A i, j \in DOMAIN T : T[i] # NULL /\ T[j] # NULL /\ KeyOf[T[i]] = KeyOf[T[j]] => i = j

\* nothing is free on the way to an entry
NoGap ==
    \A i, j \in Slots : hashTable[i] # NULL /\ Before(KeyOf[hashTable[i]], j, i)
                        => hashTable[j] # NULL

\* the entries that are still in the old table have keys of their own
Moving ==
    /\ OneSlot(oldTable)
    /\ \A i \in Slots, j \in DOMAIN oldTable :
          j >= index /\ hashTable[i] # NULL /\ oldTable[j] # NULL
          => KeyOf[hashTable[i]] # KeyOf[oldTable[j]]

\* While entries are inserted again: only entries from index on, up to the next free
\* slot, may have a gap on their way, and it is one that this removal has left.  There
\* is a free slot where the loop stops, before it comes around: the assertion that it has
\* not ("prevent infinite loops", hashtbl.cc:161) never fails.
Repairing ==
    /\ index \in Slots /\ originalIndex \in Slots /\ index # originalIndex
    /\ \E z \in Slots : /\ hashTable[z] = NULL
                        /\ Way(originalIndex, index) <= Way(originalIndex, z)
    /\ \A i, j \in Slots :
          hashTable[i] # NULL /\ hashTable[j] = NULL /\ Before(KeyOf[hashTable[i]], j, i)
          => /\ Way(originalIndex, j) < Way(originalIndex, index)
             /\ Way(originalIndex, index) <= Way(originalIndex, i)
             /\ \A x \in Slots : /\ Way(originalIndex, index) <= Way(originalIndex, x)
                                 /\ Way(originalIndex, x) <= Way(originalIndex, i)
                                 => hashTable[x] # NULL

Room ==
    /\ numEntries < tableSize
    /\ pc \in {"resize", "act"} /\ call.fn = "add" => numEntries + 1 < tableSize
    /\ pc = "resize" => (tableSize \div 3) * 2 >= numEntries - 1

HashInv ==
    /\ TypeInv
    /\ IsFiniteSet(Stored) /\ CountExact
    /\ Room
    /\ OneSlot(hashTable)
    /\ pc = "resize" => Moving
    /\ pc = "collide" => Repairing
    /\ pc # "collide" => NoGap

-----------------------------------------------------------------------------
(* Numbers *)

\* A set of numbers that is not empty has a least element: the principle by which the
\* proofs of the other modules do induction too.
LEMMA Least ==
    ASSUME NEW S \in SUBSET Nat, S # {}
    PROVE  \E m \in S : \A n \in S : m <= n
<1> DEFINE R == OpToRel(<, Nat)
<1>1. IsWellFoundedOn(R, Nat)
  BY NatLessThanWellFounded
<1>2. PICK m \in S : \A n \in S : <<n, m>> \notin R
  <2> HIDE DEF R
  <2> QED BY <1>1, WFMin
<1>3. \A n \in S : ~(n < m)
  BY <1>2 DEF OpToRel
<1> QED BY <1>3

\* A remainder is a slot.
LEMMA ModIsHome ==
    ASSUME NEW a \in Nat, NEW n \in Nat \ {0}
    PROVE  a % n \in 0..(n - 1)
OBVIOUS

\* Division has one remainder.
LEMMA ModUnique ==
    ASSUME NEW a \in Nat, NEW n \in Nat \ {0}, NEW q \in Nat, NEW r \in 0..(n - 1), a = n * q + r
    PROVE  a % n = r
OBVIOUS
\* To go on by d slots, add d, and come around if that is past the end.
LEMMA ModPlus ==
    ASSUME NEW a \in Nat, NEW n \in Nat \ {0}, NEW d \in 0..(n - 1)
    PROVE  (a + d) % n = IF (a % n) + d < n THEN (a % n) + d ELSE (a % n) + d - n
<1> DEFINE r == a % n
           q == a \div n
<1>1. a = n * q + r /\ r \in 0..(n - 1) /\ q \in Nat
  OBVIOUS
<1> HIDE DEF r, q
<1>2. CASE r + d < n
  <2>1. a + d = n * q + (r + d) /\ r + d \in 0..(n - 1)
    BY <1>1, <1>2
  <2>2. a + d \in Nat
    OBVIOUS
  <2>3. (a + d) % n = r + d
    BY <1>1, <2>1, <2>2, ModUnique
  <2> QED BY <2>3, <1>2 DEF r
<1>3. CASE ~(r + d < n)
  <2>1. a + d = n * (q + 1) + (r + d - n) /\ r + d - n \in 0..(n - 1) /\ q + 1 \in Nat
    BY <1>1, <1>3
  <2>2. a + d \in Nat
    OBVIOUS
  <2>3. (a + d) % n = r + d - n
    BY <2>1, <2>2, ModUnique
  <2> QED BY <2>3, <1>3 DEF r
<1> QED BY <1>2, <1>3

-----------------------------------------------------------------------------
(* Searches *)

\* A key's home is a slot.
LEMMA HomeIsSlot ==
    ASSUME hash \in HashFns, tableSize \in Nat \ {0}, NEW key \in Keys
    PROVE  hash[key] \in Nat /\ Home(key) \in Slots
<1>1. hash[key] \in Nat
  BY HashAssumption
<1> QED BY <1>1, ModIsHome DEF Home, Slots

\* slots and the ways to them correspond
LEMMA SlotIsWay ==
    ASSUME hash \in HashFns, tableSize \in Nat \ {0}, NEW key \in Keys
    PROVE  /\ \A d \in Slots : Slot(key, d) \in Slots /\ Way(Home(key), Slot(key, d)) = d
           /\ \A j \in Slots : Way(Home(key), j) \in Slots /\ Slot(key, Way(Home(key), j)) = j
<1>1. hash[key] \in Nat /\ Home(key) \in Slots
  BY HomeIsSlot
<1>2. \A d \in Slots : Slot(key, d) = IF Home(key) + d < tableSize THEN Home(key) + d
                                    ELSE Home(key) + d - tableSize
  BY <1>1, ModPlus DEF Slot, Home, Slots
<1> QED BY <1>1, <1>2 DEF Way, Slots

\* the loop of remove goes on by one slot, and comes around only at the slot before o
LEMMA NextSlot ==
    ASSUME tableSize \in Nat \ {0}, NEW o \in Slots, NEW p \in Slots, NEW z \in Slots,
           Way(o, p) < Way(o, z)
    PROVE  nextIndex(p) \in Slots /\ Way(o, nextIndex(p)) = Way(o, p) + 1
<1>1. tableSize > 1
  BY DEF Slots, Way
<1>2. p % tableSize = p
  BY <1>1, ModUnique DEF Slots
<1>3. p \in Nat /\ 1 \in 0..(tableSize - 1)
  BY <1>1 DEF Slots
<1>4. nextIndex(p) = IF (p % tableSize) + 1 < tableSize THEN (p % tableSize) + 1
                     ELSE (p % tableSize) + 1 - tableSize
  BY <1>3, ModPlus DEF nextIndex
<1>5. nextIndex(p) = IF p + 1 < tableSize THEN p + 1 ELSE 0
  BY <1>2, <1>4 DEF Slots
<1> QED BY <1>5 DEF Slots, Way

\* What lies between two slots on the way from one slot lies between them on the way
\* from another, or around the end of the table.
LEMMA Cyclic ==
    ASSUME tableSize \in Nat \ {0}, NEW o \in Slots, NEW h \in Slots,
           NEW p \in Slots, NEW i \in Slots, NEW x \in Slots,
           Way(h, p) < Way(h, i), Way(o, p) < Way(o, x), Way(o, x) < Way(o, i) \/ Way(o, i) < Way(o, p)
    PROVE  Way(h, x) < Way(h, i)
BY DEF Slots, Way

\* Different slots are at different distances.
LEMMA SameWay ==
    ASSUME tableSize \in Nat \ {0}, NEW o \in Slots, NEW i \in Slots, NEW j \in Slots
    PROVE  Way(o, i) = Way(o, j) <=> i = j
BY DEF Slots, Way

\* where getEntry stops: at the first slot on its way that is free or has the key
LEMMA SearchStops ==
    ASSUME hash \in HashFns, tableSize \in Nat \ {0}, NEW T \in Tables(tableSize),
           NEW key \in Keys, NEW z \in Slots, T[z] = NULL
    PROVE  /\ getEntry(T, key) \in Slots
           /\ T[getEntry(T, key)] = NULL \/ KeyOf[T[getEntry(T, key)]] = key
           /\ \A j \in Slots : Before(key, j, getEntry(T, key)) => T[j] # NULL /\ KeyOf[T[j]] # key
<1> DEFINE d == CHOOSE x \in Stops(T, key) \cup {tableSize} : \A e \in Stops(T, key) : x <= e
<1>1. Stops(T, key) \subseteq Slots /\ Slots \subseteq Nat
  BY DEF Stops, Slots
<1>2. Stops(T, key) # {}
  BY SlotIsWay DEF Stops, Slots
<1>3. PICK m \in Stops(T, key) : \A e \in Stops(T, key) : m <= e
  BY <1>1, <1>2, Least
<1>4. d \in Stops(T, key) \cup {tableSize} /\ \A e \in Stops(T, key) : d <= e
  BY <1>3
<1>5. getEntry(T, key) = Slot(key, d)
  BY DEF getEntry
<1> HIDE DEF d
<1>6. d \in Stops(T, key)
  BY <1>1, <1>3, <1>4 DEF Slots
<1>7. d \in Slots /\ Slot(key, d) \in Slots /\ Way(Home(key), Slot(key, d)) = d
  BY <1>1, <1>6, SlotIsWay
<1>8. ASSUME NEW j \in Slots, Before(key, j, Slot(key, d))
      PROVE  T[j] # NULL /\ KeyOf[T[j]] # key
  <2>1. Way(Home(key), j) \in Slots /\ Slot(key, Way(Home(key), j)) = j
    BY SlotIsWay
  <2>2. Way(Home(key), j) < d
    BY <1>7, <1>8 DEF Before
  <2>3. Way(Home(key), j) \notin Stops(T, key)
    BY <1>4, <1>7, <2>1, <2>2 DEF Slots
  <2> QED BY <2>1, <2>3 DEF Stops, Slots
<1> QED BY <1>5, <1>6, <1>7, <1>8 DEF Stops

\* a search for a stored key finds it
LEMMA StoredIsFound ==
    ASSUME HashInv, pc # "collide", NEW i \in Slots, hashTable[i] # NULL, NEW z \in Slots, hashTable[z] = NULL
    PROVE  getEntry(hashTable, KeyOf[hashTable[i]]) = i
<1> DEFINE key == KeyOf[hashTable[i]]
           e == getEntry(hashTable, key)
<1>1. hashTable[i] \in Data /\ key \in Keys
  BY DEF HashInv, TypeInv, Tables, Slots, Keys
<1>2. /\ e \in Slots /\ (hashTable[e] = NULL \/ KeyOf[hashTable[e]] = key)
      /\ \A j \in Slots : Before(key, j, e) => hashTable[j] # NULL /\ KeyOf[hashTable[j]] # key
  BY <1>1, SearchStops DEF HashInv, TypeInv
<1>3. Home(key) \in Slots
  BY <1>1, HomeIsSlot DEF HashInv, TypeInv
<1> HIDE DEF key, e
<1>4. ~Before(key, i, e)
  BY <1>2 DEF key
<1>5. CASE Before(key, e, i)
  <2>1. hashTable[e] # NULL
    BY <1>2, <1>5 DEF HashInv, NoGap, key
  <2>2. e = i
    BY <2>1, <1>2 DEF HashInv, OneSlot, TypeInv, Tables, Slots, key
  <2> QED BY <2>2 DEF e, key
<1>6. CASE ~Before(key, e, i)
  <2>1. e = i
    BY <1>2, <1>3, <1>4, <1>6 DEF Before, Way, Slots, HashInv, TypeInv
  <2> QED BY <2>1 DEF e, key
<1> QED BY <1>5, <1>6 DEF e, key

-----------------------------------------------------------------------------
(* Counting *)

\* a table in which each key has one slot, and that stores fewer data than it has
\* slots, has one that is free
LEMMA FreeSlot ==
    ASSUME NEW size \in Nat \ {0}, NEW T \in Tables(size), OneSlot(T),
           IsFiniteSet(Contents(T)), Cardinality(Contents(T)) < size
    PROVE  \E z \in 0..(size - 1) : T[z] = NULL
<1> SUFFICES ASSUME \A i \in 0..(size - 1) : T[i] # NULL PROVE FALSE
  OBVIOUS
<1>1. T \in [0..(size - 1) -> Contents(T)]
  BY DEF Tables, Contents
<1>2. \A i, j \in 0..(size - 1) : T[i] = T[j] => i = j
  BY DEF OneSlot, Tables
<1>3. T \in Injection(0..(size - 1), Contents(T))
  BY <1>1, <1>2 DEF Injection, IsInjective
<1>4. Cardinality(0..(size - 1)) <= Cardinality(Contents(T)) /\ IsFiniteSet(0..(size - 1))
  BY <1>3, FS_Injection
<1>5. Cardinality(0..(size - 1)) = size
  BY FS_Interval
<1>6. Cardinality(Contents(T)) \in Nat
  BY FS_CardinalityType
<1> QED BY <1>4, <1>5, <1>6

\* the same of the table as it is at any time
LEMMA TableHasRoom ==
    ASSUME HashInv
    PROVE  \E z \in Slots : hashTable[z] = NULL
<1>1. Contents(hashTable) \subseteq Stored
  BY DEF Contents, Stored
<1>2. IsFiniteSet(Contents(hashTable)) /\ Cardinality(Contents(hashTable)) <= Cardinality(Stored)
  BY <1>1, FS_Subset DEF HashInv
<1>3. Cardinality(Stored) < tableSize /\ Cardinality(Stored) \in Nat
  BY FS_CardinalityType DEF HashInv, CountExact, Room
<1>4. Cardinality(Contents(hashTable)) \in Nat
  BY <1>2, FS_CardinalityType
<1> QED BY <1>2, <1>3, <1>4, FreeSlot DEF HashInv, TypeInv, Slots

-----------------------------------------------------------------------------
(* One step *)

\* A new table is one.
LEMMA InitHashInv == Init => HashInv
<1> SUFFICES ASSUME Init PROVE HashInv
  OBVIOUS
<1>1. tableSize \in Nat \ {0} /\ hashTable = Cleared(tableSize) /\ numEntries = 0 /\ pc = "idle"
  BY SizeAssumption DEF Init
<1>2. Stored = {}
  BY <1>1 DEF Stored, Cleared
<1>3. IsFiniteSet(Stored) /\ CountExact
  BY <1>1, <1>2, FS_EmptySet DEF CountExact
<1> QED BY <1>1, <1>3 DEF Init, HashInv, TypeInv, Tables, Cleared, Room, OneSlot, NoGap, Slots

\* a call begins and the table is as it was
LEMMA NoResizeInv ==
    ASSUME HashInv, pc = "idle", NoResize, UNCHANGED <<hash, enableShrink>>,
           \/ call'.fn = "add" /\ call'.arg \in Data /\ ~MustGrow
           \/ call'.fn = "remove" /\ call'.arg \in Keys
    PROVE  HashInv' /\ Stored' = Stored
<1>1. UNCHANGED <<hashTable, tableSize, numEntries>> /\ pc' = "act"
  BY DEF NoResize, table
<1>2. Stored' = Stored
  BY <1>1 DEF Stored
<1>3. TypeInv'
  BY <1>1 DEF HashInv, TypeInv
<1>4. Room'
  BY <1>1 DEF HashInv, TypeInv, Room, MustGrow
<1>5. OneSlot(hashTable)' /\ NoGap'
  BY <1>1 DEF HashInv, OneSlot, NoGap, Before, Way, Home, Slots
<1> QED BY <1>1, <1>2, <1>3, <1>4, <1>5 DEF HashInv, CountExact

\* a new table is made and the entries wait in the old one
LEMMA StartResizeInv ==
    ASSUME HashInv, pc = "idle", NEW size \in Nat \ {0}, StartResize(size),
           UNCHANGED <<hash, enableShrink>>,
           \/ call'.fn = "add" /\ call'.arg \in Data /\ MustGrow /\ size = tableSize * 2 + 1
           \/ call'.fn = "remove" /\ call'.arg \in Keys /\ MustShrink /\ size = tableSize \div 2
    PROVE  HashInv' /\ Stored' = Stored
<1>1. /\ oldTable' = hashTable /\ hashTable' = Cleared(size) /\ tableSize' = size
      /\ index' = 0 /\ pc' = "resize" /\ UNCHANGED numEntries
  BY DEF StartResize
<1>2. hashTable \in Tables(tableSize) /\ tableSize \in Nat \ {0} /\ numEntries \in Nat
  BY DEF HashInv, TypeInv
<1>3. Stored' = Stored
  <2>1. Stored = {hashTable[i] : i \in DOMAIN hashTable} \ {NULL}
    BY DEF Stored
  <2>2. {j \in DOMAIN oldTable' : j >= index'} = DOMAIN hashTable
    BY <1>1, <1>2 DEF Tables
  <2>3. Stored' = ({Cleared(size)[i] : i \in 0..(size - 1)} \cup {hashTable[i] : i \in DOMAIN hashTable}) \ {NULL}
    BY <1>1, <2>2 DEF Stored, Cleared
  <2> QED BY <2>1, <2>3 DEF Cleared
<1>4. TypeInv'
  BY <1>1, <1>2 DEF HashInv, TypeInv, Tables, Cleared
<1>5. Room'
  <2>1. numEntries < tableSize
    BY DEF HashInv, Room
  <2>2. CASE call'.fn = "add" /\ MustGrow /\ size = tableSize * 2 + 1
    BY <1>1, <1>2, <2>1, <2>2 DEF Room, MustGrow
  <2>3. CASE call'.fn = "remove" /\ MustShrink /\ size = tableSize \div 2
    BY <1>1, <1>2, <2>1, <2>3 DEF Room, MustShrink
  <2> QED BY <2>2, <2>3
<1>6. OneSlot(hashTable)' /\ NoGap'
  BY <1>1 DEF OneSlot, NoGap, Cleared, Slots
<1>7. Moving'
  BY <1>1 DEF Moving, OneSlot, HashInv, Cleared, Slots
<1> QED BY <1>1, <1>3, <1>4, <1>5, <1>6, <1>7 DEF HashInv, CountExact

\* add begins, and may begin to resize.
LEMMA CallAddInv ==
    ASSUME HashInv, NEW d \in Data, CallAdd(d)
    PROVE  HashInv' /\ Stored' = Stored
<1>1. pc = "idle" /\ call'.fn = "add" /\ call'.arg \in Data /\ UNCHANGED <<hash, enableShrink>>
  BY DEF CallAdd
<1>2. tableSize * 2 + 1 \in Nat \ {0}
  BY DEF HashInv, TypeInv
<1>3. CASE MustGrow
  BY <1>1, <1>2, <1>3, StartResizeInv DEF CallAdd
<1>4. CASE ~MustGrow
  BY <1>1, <1>4, NoResizeInv DEF CallAdd
<1> QED BY <1>3, <1>4

\* remove begins, and may begin to resize.
LEMMA CallRemoveInv ==
    ASSUME HashInv, NEW key \in Keys, CallRemove(key)
    PROVE  HashInv' /\ Stored' = Stored
<1>1. pc = "idle" /\ call'.fn = "remove" /\ call'.arg \in Keys /\ UNCHANGED <<hash, enableShrink>>
  BY DEF CallRemove
<1>2. CASE MustShrink
  <2>1. DefaultSize \in Nat \ {0}
    BY SizeAssumption
  <2>2. tableSize \in Nat /\ tableSize > 1
    BY <1>2, <2>1 DEF MustShrink, HashInv, TypeInv
  <2>3. tableSize \div 2 \in Nat \ {0}
    BY <2>2
  <2> QED BY <1>1, <1>2, <2>3, StartResizeInv DEF CallRemove
<1>3. CASE ~MustShrink
  BY <1>1, <1>3, NoResizeInv DEF CallRemove
<1> QED BY <1>2, <1>3

\* an entry is put where the search for its key stops
LEMMA PutKeeps ==
    ASSUME hash \in HashFns, tableSize \in Nat \ {0}, hashTable \in Tables(tableSize),
           NoGap, OneSlot(hashTable), NEW z \in Slots, hashTable[z] = NULL,
           NEW d \in Data, \A i \in Slots : hashTable[i] # NULL => KeyOf[hashTable[i]] # KeyOf[d],
           UNCHANGED <<hash, tableSize>>,
           hashTable' = [hashTable EXCEPT ![getEntry(hashTable, KeyOf[d])] = d]
    PROVE  /\ hashTable' \in Tables(tableSize')
           /\ OneSlot(hashTable)' /\ NoGap'
           /\ Contents(hashTable') = Contents(hashTable) \cup {d}
           /\ d \notin Contents(hashTable)
           /\ hashTable[getEntry(hashTable, KeyOf[d])] = NULL
           /\ \A i \in Slots : hashTable'[i] = hashTable[i] \/ hashTable'[i] = d
<1> DEFINE e == getEntry(hashTable, KeyOf[d])
<1>1. KeyOf[d] \in Keys /\ d # NULL
  BY NullAssumption DEF Keys
<1>2. /\ e \in Slots /\ hashTable[e] = NULL
      /\ \A j \in Slots : Before(KeyOf[d], j, e) => hashTable[j] # NULL
  BY <1>1, SearchStops
<1> HIDE DEF e
<1>3. hashTable' = [hashTable EXCEPT ![e] = d]
  BY DEF e
<1>4. DOMAIN hashTable = Slots /\ DOMAIN hashTable' = Slots
  BY <1>3 DEF Tables, Slots
<1>5. \A i \in Slots : hashTable'[i] = IF i = e THEN d ELSE hashTable[i]
  BY <1>3, <1>4
<1>6. hashTable' \in Tables(tableSize')
  BY <1>3 DEF Tables
<1>7. OneSlot(hashTable)'
  BY <1>4, <1>5 DEF OneSlot
<1>8. NoGap'
  <2>1. Slots' = Slots /\ \A key, i, j : Before(key, i, j)' = Before(key, i, j)
    BY DEF Slots, Before, Way, Home
  <2>2. ASSUME NEW i \in Slots, NEW j \in Slots, hashTable'[i] # NULL,
               Before(KeyOf[hashTable'[i]], j, i)
        PROVE  hashTable'[j] # NULL
    <3>1. CASE i = e
      BY <1>1, <1>2, <1>5, <2>2, <3>1
    <3>2. CASE i # e
      BY <1>1, <1>5, <2>2, <3>2 DEF NoGap
    <3> QED BY <3>1, <3>2
  <2> QED BY <2>1, <2>2 DEF NoGap
<1>9. Contents(hashTable') = Contents(hashTable) \cup {d}
  <2>1. ASSUME NEW x PROVE x \in Contents(hashTable') <=> x \in Contents(hashTable) \cup {d}
    BY <1>1, <1>2, <1>4, <1>5 DEF Contents
  <2> QED BY <2>1
<1>10. d \notin Contents(hashTable)
  BY <1>4 DEF Contents
<1> QED BY <1>2, <1>5, <1>6, <1>7, <1>8, <1>9, <1>10 DEF e

\* resizeTable moves one entry: it is stored before and after.
LEMMA MoveEntryInv ==
    ASSUME HashInv, MoveEntry
    PROVE  HashInv' /\ Stored' = Stored
<1> DEFINE d == oldTable[index]
<1>1. /\ pc = "resize" /\ index \in DOMAIN oldTable /\ index' = index + 1
      /\ UNCHANGED <<hash, tableSize, numEntries, enableShrink, call, pc, oldTable>>
      /\ hashTable' = IF d = NULL THEN hashTable
                      ELSE [hashTable EXCEPT ![getEntry(hashTable, KeyOf[d])] = d]
  BY DEF MoveEntry
<1>2. /\ TypeInv /\ Room /\ NoGap /\ OneSlot(hashTable) /\ Moving
      /\ hash \in HashFns /\ tableSize \in Nat \ {0} /\ hashTable \in Tables(tableSize)
      /\ index \in Nat
  BY <1>1 DEF HashInv, TypeInv
<1>3. PICK size \in Nat \ {0} : oldTable \in Tables(size)
  BY <1>1 DEF HashInv, TypeInv
<1>4. d \in Data \cup {NULL}
  BY <1>1, <1>3 DEF Tables
<1>5. DOMAIN hashTable = Slots
  BY <1>2 DEF Tables, Slots
<1>6. PICK z \in Slots : hashTable[z] = NULL
  BY TableHasRoom
<1>7. d # NULL => \A i \in Slots : hashTable[i] # NULL => KeyOf[hashTable[i]] # KeyOf[d]
  BY <1>1, <1>2, <1>3 DEF Moving, Tables
<1>8. /\ hashTable' \in Tables(tableSize')
      /\ OneSlot(hashTable)' /\ NoGap'
      /\ Contents(hashTable') = Contents(hashTable) \cup ({d} \ {NULL})
      /\ \A i \in Slots : hashTable'[i] = hashTable[i] \/ hashTable'[i] = d
  <2>1. CASE d = NULL
    BY <1>1, <1>2, <2>1 DEF OneSlot, NoGap, Slots, Before, Way, Home, Contents
  <2>2. CASE d # NULL
    <3> HIDE DEF d
    <3>1. d \in Data /\ hashTable' = [hashTable EXCEPT ![getEntry(hashTable, KeyOf[d])] = d]
      BY <1>1, <1>4, <2>2
    <3>2. \A i \in Slots : hashTable[i] # NULL => KeyOf[hashTable[i]] # KeyOf[d]
      BY <1>7, <2>2
    <3>3. UNCHANGED <<hash, tableSize>>
      BY <1>1
    <3>4. {d} \ {NULL} = {d}
      BY <2>2
    <3> QED BY <1>2, <1>6, <3>1, <3>2, <3>3, <3>4, PutKeeps
  <2> QED BY <2>1, <2>2
<1> DEFINE Waiting(n) == {oldTable[i] : i \in {j \in DOMAIN oldTable : j >= n}}
<1>9. Stored' = Stored
  <2>1. Stored = Contents(hashTable) \cup (Waiting(index) \ {NULL})
    BY <1>1 DEF Stored, Contents
  <2>2. Stored' = Contents(hashTable') \cup (Waiting(index + 1) \ {NULL})
    BY <1>1 DEF Stored, Contents
  <2>3. Waiting(index) = Waiting(index + 1) \cup {d}
    BY <1>1, <1>3 DEF Tables
  <2> QED BY <1>8, <2>1, <2>2, <2>3
<1>10. TypeInv'
  BY <1>1, <1>2, <1>8 DEF TypeInv
<1>11. Moving'
  <2>1. OneSlot(oldTable)' /\ Slots' = Slots
    BY <1>1, <1>2 DEF Moving, OneSlot, Slots
  <2>2. ASSUME NEW i \in Slots, NEW j \in DOMAIN oldTable, j >= index + 1,
               hashTable'[i] # NULL, oldTable[j] # NULL
        PROVE  KeyOf[hashTable'[i]] # KeyOf[oldTable[j]]
    <3>1. j \in Int
      BY <1>3 DEF Tables
    <3>2. CASE hashTable'[i] = hashTable[i]
      BY <1>1, <1>2, <2>2, <3>1, <3>2 DEF Moving
    <3>3. CASE hashTable'[i] = d
      BY <1>1, <1>2, <2>2, <3>1, <3>3 DEF Moving, OneSlot
    <3> QED BY <1>8, <3>2, <3>3
  <2> QED BY <1>1, <2>1, <2>2 DEF Moving
<1>12. Room'
  BY <1>1, <1>2 DEF Room
<1> QED BY <1>1, <1>8, <1>9, <1>10, <1>11, <1>12 DEF HashInv, CountExact

\* resizeTable ends when nothing is left in the old table.
LEMMA FinishResizeInv ==
    ASSUME HashInv, FinishResize
    PROVE  HashInv' /\ Stored' = Stored
<1>1. /\ pc = "resize" /\ index \notin DOMAIN oldTable /\ pc' = "act"
      /\ UNCHANGED <<hash, hashTable, tableSize, numEntries, enableShrink, call>>
  BY DEF FinishResize, table
<1>2. Stored' = Stored
  <2>1. PICK size \in Nat \ {0} : oldTable \in Tables(size)
    BY <1>1 DEF HashInv, TypeInv
  <2>2. index \in Nat
    BY <1>1 DEF HashInv, TypeInv
  <2>3. {j \in DOMAIN oldTable : j >= index} = {}
    BY <1>1, <2>1, <2>2 DEF Tables
  <2> QED BY <1>1, <2>3 DEF Stored
<1>3. TypeInv' /\ Room'
  BY <1>1 DEF HashInv, TypeInv, Room
<1>4. OneSlot(hashTable)' /\ NoGap'
  BY <1>1 DEF HashInv, OneSlot, NoGap, Before, Way, Home, Slots
<1> QED BY <1>1, <1>2, <1>3, <1>4 DEF HashInv, CountExact

\* a call ends without a change of the table
LEMMA ReturnInv ==
    ASSUME HashInv, pc \in {"act", "collide"}, pc = "collide" => NoGap, UNCHANGED table, Return
    PROVE  HashInv' /\ Stored' = Stored
<1>1. /\ pc' = "idle"
      /\ UNCHANGED <<hash, hashTable, tableSize, numEntries, enableShrink>>
  BY DEF Return, table
<1>2. Stored' = Stored
  BY <1>1 DEF Stored
<1>3. TypeInv' /\ Room'
  BY <1>1 DEF HashInv, TypeInv, Room
<1>4. OneSlot(hashTable)' /\ NoGap'
  BY <1>1 DEF HashInv, OneSlot, NoGap, Before, Way, Home, Slots
<1> QED BY <1>1, <1>2, <1>3, <1>4 DEF HashInv, CountExact

\* between calls and before a call gets to work, what is stored is in the table
LEMMA StoredInTable ==
    ASSUME pc # "resize"
    PROVE  Stored = Contents(hashTable)
BY DEF Stored, Contents

\* The rest of add is the abstract Add of a key that is not mapped.
LEMMA InsertInv ==
    ASSUME HashInv, Insert
    PROVE  HashInv' /\ Map!Add(call.arg) /\ call.arg \in Data
<1> DEFINE d == call.arg
           e == getEntry(hashTable, KeyOf[d])
<1>1. /\ pc = "act" /\ call.fn = "add" /\ hashTable[e] = NULL
      /\ hashTable' = [hashTable EXCEPT ![e] = d]
      /\ numEntries' = numEntries + 1 /\ UNCHANGED <<hash, tableSize, enableShrink>> /\ pc' = "idle"
  BY DEF Insert, Return
<1>2. d \in Data /\ d # NULL /\ KeyOf[d] \in Keys
  BY <1>1, NullAssumption DEF HashInv, TypeInv, Keys
<1>3. /\ TypeInv /\ Room /\ NoGap /\ OneSlot(hashTable)
      /\ hash \in HashFns /\ tableSize \in Nat \ {0} /\ hashTable \in Tables(tableSize)
  BY <1>1 DEF HashInv, TypeInv
<1>4. PICK z \in Slots : hashTable[z] = NULL
  BY TableHasRoom
<1>5. \A i \in Slots : hashTable[i] # NULL => KeyOf[hashTable[i]] # KeyOf[d]
  <2> SUFFICES ASSUME NEW i \in Slots, hashTable[i] # NULL, KeyOf[hashTable[i]] = KeyOf[d]
               PROVE FALSE
    OBVIOUS
  <2>1. getEntry(hashTable, KeyOf[hashTable[i]]) = i
    BY <1>1, <1>4, StoredIsFound
  <2> QED BY <1>1, <2>1
<1>6. /\ hashTable' \in Tables(tableSize') /\ OneSlot(hashTable)' /\ NoGap'
      /\ Contents(hashTable') = Contents(hashTable) \cup {d} /\ d \notin Contents(hashTable)
  <2>1. UNCHANGED <<hash, tableSize>>
        /\ hashTable' = [hashTable EXCEPT ![getEntry(hashTable, KeyOf[d])] = d]
    BY <1>1
  <2> HIDE DEF d, e
  <2> QED BY <1>2, <1>3, <1>4, <1>5, <2>1, PutKeeps
<1>7. Stored = Contents(hashTable) /\ Stored' = Contents(hashTable')
  BY <1>1, StoredInTable DEF Stored, Contents
<1>8. IsFiniteSet(Stored)' /\ CountExact'
  BY <1>1, <1>6, <1>7, FS_AddElement DEF HashInv, CountExact
<1>9. TypeInv' /\ Room'
  BY <1>1, <1>3, <1>6 DEF TypeInv, Room
<1>10. Map!Add(d)
  <2>1. \A x \in Stored : KeyOf[x] # KeyOf[d]
    BY <1>3, <1>5, <1>7 DEF Contents, Tables, Slots
  <2> QED BY <1>6, <1>7, <2>1 DEF Map!Add, Map!Mapped
<1> QED BY <1>1, <1>2, <1>6, <1>8, <1>9, <1>10 DEF HashInv

\* remove takes the entry out, the abstract Remove, and its loop starts one slot on.
LEMMA DeleteInv ==
    ASSUME HashInv, Delete
    PROVE  HashInv' /\ \E d \in Data : Map!Remove(d)
<1> DEFINE o == getEntry(hashTable, call.arg)
           d == hashTable[o]
<1>1. /\ pc = "act" /\ call.fn = "remove" /\ d # NULL
      /\ hashTable' = [hashTable EXCEPT ![o] = NULL]
      /\ originalIndex' = o /\ index' = (o + 1) % tableSize
      /\ numEntries' = numEntries - 1 /\ pc' = "collide"
      /\ UNCHANGED <<hash, tableSize, enableShrink, call>>
  BY DEF Delete, get, nextIndex
<1>2. /\ TypeInv /\ Room /\ NoGap /\ OneSlot(hashTable)
      /\ hash \in HashFns /\ tableSize \in Nat \ {0} /\ hashTable \in Tables(tableSize)
      /\ numEntries \in Nat /\ numEntries < tableSize /\ call.arg \in Keys
  BY <1>1 DEF HashInv, TypeInv, Room
<1>3. PICK z \in Slots : hashTable[z] = NULL
  BY TableHasRoom
<1>4. o \in Slots
  BY <1>2, <1>3, SearchStops
<1> HIDE DEF o
<1>5. d \in Data
  BY <1>1, <1>2, <1>4 DEF Tables, Slots
<1>6. z # o /\ index' \in Slots /\ Way(o, index') = 1 /\ index' # o
  <2>1. z # o
    BY <1>1, <1>3
  <2>2. Way(o, o) = 0 /\ Way(o, o) < Way(o, z)
    BY <1>2, <1>3, <1>4, <2>1 DEF Slots, Way
  <2>3. nextIndex(o) \in Slots /\ Way(o, nextIndex(o)) = 1
    BY <1>2, <1>3, <1>4, <2>2, NextSlot
  <2> QED BY <1>1, <2>1, <2>2, <2>3 DEF nextIndex
<1>7. DOMAIN hashTable = Slots /\ \A i \in Slots : hashTable'[i] = IF i = o THEN NULL ELSE hashTable[i]
  BY <1>1, <1>2 DEF Tables, Slots
<1>8. hashTable' \in Tables(tableSize')
  BY <1>1, <1>2, <1>4 DEF Tables
<1>9. DOMAIN hashTable' = Slots
  BY <1>1, <1>7
<1>10. OneSlot(hashTable)'
  BY <1>2, <1>7, <1>9 DEF OneSlot
<1>11. Contents(hashTable') = Contents(hashTable) \ {d} /\ d \in Contents(hashTable)
  <2>1. \A i \in Slots : hashTable[i] = d => i = o
    BY <1>1, <1>2, <1>4, <1>7 DEF OneSlot
  <2> QED BY <1>1, <1>4, <1>7, <1>9, <2>1 DEF Contents
<1>12. Stored = Contents(hashTable) /\ Stored' = Contents(hashTable')
  BY <1>1, StoredInTable DEF Stored, Contents
<1>13. IsFiniteSet(Stored)' /\ CountExact' /\ numEntries' \in Nat
  <2>1. IsFiniteSet(Stored \ {d}) /\ Cardinality(Stored \ {d}) = numEntries - 1
    BY <1>11, <1>12, FS_RemoveElement DEF HashInv, CountExact
  <2>2. Cardinality(Stored \ {d}) \in Nat
    BY <2>1, FS_CardinalityType
  <2> QED BY <1>1, <1>11, <1>12, <2>1, <2>2 DEF CountExact
<1>14. TypeInv' /\ Room'
  BY <1>1, <1>2, <1>8, <1>13 DEF TypeInv, Room
<1>15. Repairing'
  <2>1. Slots' = Slots /\ (\A key, i, j : Before(key, i, j)' = Before(key, i, j))
        /\ (\A i, j : Way(i, j)' = Way(i, j))
    BY <1>1 DEF Slots, Before, Way, Home
  <2>2. hashTable'[z] = NULL /\ Way(o, index') <= Way(o, z)
    <3>1. Way(o, z) >= 1
      BY <1>2, <1>4, <1>6 DEF Slots, Way
    <3>2. hashTable'[z] = NULL
      BY <1>3, <1>7
    <3> QED BY <1>6, <3>1, <3>2
  <2>3. ASSUME NEW i \in Slots, NEW j \in Slots, hashTable'[i] # NULL, hashTable'[j] = NULL,
               Before(KeyOf[hashTable'[i]], j, i)
        PROVE  /\ Way(o, j) < Way(o, index') /\ Way(o, index') <= Way(o, i)
               /\ \A x \in Slots : Way(o, index') <= Way(o, x) /\ Way(o, x) <= Way(o, i)
                                  => hashTable'[x] # NULL
    <3> DEFINE key == KeyOf[hashTable[i]]
    <3>1. i # o /\ hashTable[i] # NULL /\ key \in Keys /\ Before(key, j, i)
      BY <1>2, <1>7, <2>3 DEF Tables, Slots, Keys
    <3>2. j = o
      BY <1>2, <1>7, <2>3, <3>1 DEF NoGap
    <3>3. Home(key) \in Slots
      BY <1>2, <3>1, HomeIsSlot
    <3>4. Way(o, o) = 0 /\ Way(o, i) >= 1
      BY <1>2, <1>4, <3>1 DEF Way, Slots
    <3>5. ASSUME NEW x \in Slots, 1 <= Way(o, x), Way(o, x) <= Way(o, i)
          PROVE  hashTable'[x] # NULL
      <4>1. x = i \/ Before(key, x, i)
        BY <1>2, <1>4, <3>1, <3>2, <3>3, <3>5 DEF Before, Way, Slots
      <4>2. hashTable[x] # NULL
        BY <1>2, <3>1, <4>1 DEF NoGap
      <4>3. x # o
        BY <1>2, <1>4, <3>4, <3>5 DEF Way, Slots
      <4> QED BY <1>7, <4>2, <4>3
    <3> QED BY <1>6, <3>2, <3>4, <3>5
  <2> QED BY <1>1, <1>4, <1>6, <2>1, <2>2, <2>3 DEF Repairing
<1>16. Map!Remove(d)
  BY <1>11, <1>12 DEF Map!Remove
<1> QED BY <1>1, <1>5, <1>10, <1>13, <1>14, <1>15, <1>16 DEF HashInv

\* The loop of remove inserts one entry again.  It goes to its own slot or to a slot the
\* loop has passed, so the free slot ahead stays free; whose way its old slot was on is now
\* to be repaired, and stands between that slot and the free one.
LEMMA ReinsertInv ==
    ASSUME HashInv, Reinsert
    PROVE  HashInv' /\ Stored' = Stored
<1> DEFINE d == hashTable[index]
           k == KeyOf[d]
           T == [hashTable EXCEPT ![index] = NULL]
           e == getEntry(T, k)
           W(x) == Way(originalIndex, x)
<1>1. /\ pc = "collide" /\ d # NULL
      /\ hashTable' = [T EXCEPT ![e] = d] /\ index' = nextIndex(index)
      /\ UNCHANGED <<hash, tableSize, numEntries, enableShrink, call, pc, originalIndex>>
  BY DEF Reinsert
<1>2. /\ TypeInv /\ Room /\ OneSlot(hashTable) /\ Repairing
      /\ hash \in HashFns /\ tableSize \in Nat \ {0} /\ hashTable \in Tables(tableSize)
      /\ index \in Slots /\ originalIndex \in Slots
  BY <1>1 DEF HashInv, TypeInv, Repairing
<1>3. PICK z \in Slots : hashTable[z] = NULL /\ W(index) <= W(z)
  BY <1>2 DEF Repairing
<1>4. W(index) < W(z) /\ z # index
  <2>1. z # index
    BY <1>1, <1>3
  <2> QED BY <1>2, <1>3, <2>1, SameWay DEF Way, Slots
<1>5. DOMAIN hashTable = Slots /\ d \in Data /\ k \in Keys
  BY <1>1, <1>2 DEF Tables, Slots, Keys
<1>6. T \in Tables(tableSize) /\ \A x \in Slots : T[x] = IF x = index THEN NULL ELSE hashTable[x]
  BY <1>2, <1>5 DEF Tables
<1>7. /\ e \in Slots /\ (T[e] = NULL \/ KeyOf[T[e]] = k)
      /\ \A j \in Slots : Before(k, j, e) => T[j] # NULL
  BY <1>2, <1>3, <1>4, <1>5, <1>6, SearchStops
<1>8. DOMAIN T = Slots
  BY <1>5
<1> HIDE DEF e, T
<1>9. T[e] = NULL
  BY <1>1, <1>2, <1>5, <1>6, <1>7 DEF OneSlot
<1>10. \A x \in Slots : hashTable'[x] = IF x = e THEN d ELSE IF x = index THEN NULL ELSE hashTable[x]
  BY <1>1, <1>6, <1>8
<1>11. hashTable' \in Tables(tableSize') /\ DOMAIN hashTable' = Slots
  BY <1>1, <1>5, <1>6, <1>7, <1>8 DEF Tables
<1>12. Home(k) \in Slots
  BY <1>2, <1>5, HomeIsSlot
<1> HIDE DEF k
<1>13. e # index => hashTable[e] = NULL /\ W(e) < W(index)
  <2> SUFFICES ASSUME e # index PROVE hashTable[e] = NULL /\ W(e) < W(index)
    OBVIOUS
  <2>1. hashTable[e] = NULL
    BY <1>6, <1>7, <1>9
  <2>2. ~Before(k, index, e)
    BY <1>2, <1>6, <1>7
  <2>3. Before(k, e, index)
    BY <1>2, <1>7, <1>12, <2>2 DEF Before, Way, Slots
  <2> QED BY <1>1, <1>2, <1>7, <2>1, <2>3 DEF Repairing, k
<1>14. OneSlot(hashTable)'
  BY <1>1, <1>2, <1>5, <1>10, <1>11, <1>13 DEF OneSlot
<1>15. Contents(hashTable') = Contents(hashTable)
  <2>1. ASSUME NEW x, x \in Contents(hashTable) PROVE x \in Contents(hashTable')
    <3>1. PICK i \in Slots : hashTable[i] = x /\ x # NULL
      BY <1>5, <2>1 DEF Contents
    <3>2. hashTable'[e] = d
      BY <1>7, <1>10
    <3>3. i # index => hashTable'[i] = x
      BY <1>10, <1>13, <3>1
    <3> QED BY <1>7, <1>11, <3>1, <3>2, <3>3 DEF Contents
  <2>2. ASSUME NEW x, x \in Contents(hashTable') PROVE x \in Contents(hashTable)
    <3>1. PICK i \in Slots : hashTable'[i] = x /\ x # NULL
      BY <1>11, <2>2 DEF Contents
    <3> QED BY <1>2, <1>5, <1>10, <3>1 DEF Contents
  <2> QED BY <2>1, <2>2
<1>16. Stored' = Stored
  BY <1>1, <1>15, StoredInTable DEF Stored, Contents
<1>17. TypeInv' /\ Room'
  BY <1>1, <1>2, <1>11 DEF TypeInv, Room
<1>18. index' \in Slots /\ W(index') = W(index) + 1 /\ index' # originalIndex
  <2>1. index' \in Slots /\ W(index') = W(index) + 1
    BY <1>1, <1>2, <1>3, <1>4, NextSlot
  <2>2. W(originalIndex) = 0 /\ W(index) \in Nat
    BY <1>2 DEF Way, Slots
  <2> QED BY <2>1, <2>2
<1>19. hashTable'[z] = NULL /\ W(index') <= W(z)
  <2>1. W(index) \in Nat /\ W(z) \in Nat
    BY <1>2 DEF Way, Slots
  <2>2. z # e
    <3>1. ~(W(z) < W(index))
      BY <1>4, <2>1
    <3> QED BY <1>4, <1>13, <3>1
  <2>3. hashTable'[z] = NULL
    BY <1>3, <1>10, <2>2
  <2> QED BY <1>4, <1>18, <2>1, <2>3
<1>20. ASSUME NEW i \in Slots, NEW j \in Slots, hashTable'[i] # NULL, hashTable'[j] = NULL,
              Before(KeyOf[hashTable'[i]], j, i)
       PROVE  /\ W(j) < W(index') /\ W(index') <= W(i)
              /\ \A x \in Slots : W(index') <= W(x) /\ W(x) <= W(i) => hashTable'[x] # NULL
  <2> DEFINE key == KeyOf[hashTable[i]]
  <2>1. i # e
    <3> SUFFICES ASSUME i = e PROVE FALSE
      OBVIOUS
    <3>1. Before(k, j, e)
      BY <1>7, <1>10, <1>20 DEF k
    <3>2. T[j] # NULL
      BY <1>7, <3>1
    <3>3. j # e
      BY <1>2, <1>7, <1>12, <3>1 DEF Before, Way, Slots
    <3> QED BY <1>6, <1>10, <1>20, <3>2, <3>3
  <2>2. i # index /\ hashTable[i] # NULL /\ Before(key, j, i) /\ key \in Keys
    BY <1>2, <1>10, <1>20, <2>1 DEF Tables, Slots, Keys
  <2>3. j # e /\ (j = index \/ hashTable[j] = NULL)
    BY <1>1, <1>10, <1>20
  <2>4. Home(key) \in Slots
    BY <1>2, <2>2, HomeIsSlot
  <2> HIDE DEF key
  <2>5. \A x \in Slots : W(x) \in Nat
    BY <1>2 DEF Way, Slots
  <2>6. ASSUME NEW y \in Slots, hashTable[y] = NULL, Before(key, y, i)
        PROVE  /\ W(y) < W(index) /\ W(index) < W(i)
               /\ \A x \in Slots : W(index) <= W(x) /\ W(x) <= W(i) => hashTable[x] # NULL
    <3>1. /\ W(y) < W(index) /\ W(index) <= W(i)
          /\ \A x \in Slots : W(index) <= W(x) /\ W(x) <= W(i) => hashTable[x] # NULL
      BY <1>2, <2>2, <2>6 DEF Repairing, key
    <3>2. W(index) # W(i)
      BY <1>2, <2>2, SameWay
    <3> QED BY <1>2, <2>5, <3>1, <3>2
  <2>7. /\ W(j) <= W(index) /\ W(index) < W(i)
        /\ \A x \in Slots : W(index) < W(x) /\ W(x) <= W(i) => hashTable[x] # NULL
    <3>1. CASE \E y \in Slots : hashTable[y] = NULL /\ Before(key, y, i)
      <4>1. W(index) < W(i) /\ \A x \in Slots : W(index) <= W(x) /\ W(x) <= W(i) => hashTable[x] # NULL
        BY <2>6, <3>1
      <4>2. W(j) <= W(index)
        BY <1>2, <2>2, <2>3, <2>5, <2>6
      <4> QED BY <1>2, <2>5, <4>1, <4>2
    <3>2. CASE \A y \in Slots : Before(key, y, i) => hashTable[y] # NULL
      <4>1. j = index
        BY <2>2, <2>3, <3>2
      <4>2. ASSUME W(i) < W(index) PROVE FALSE
        <5>1. Before(key, z, i)
          BY <1>2, <1>3, <1>4, <2>2, <2>4, <4>1, <4>2, Cyclic DEF Before
        <5> QED BY <1>3, <3>2, <5>1
      <4>3. W(index) < W(i)
        BY <1>2, <2>2, <2>5, <4>2, SameWay
      <4>4. ASSUME NEW x \in Slots, W(index) < W(x), W(x) <= W(i)
            PROVE  hashTable[x] # NULL
        <5>1. CASE x = i
          BY <2>2, <5>1
        <5>2. CASE x # i
          <6>1. W(x) < W(i)
            BY <1>2, <2>5, <4>4, <5>2, SameWay
          <6>2. Before(key, x, i)
            BY <1>2, <2>2, <2>4, <4>1, <4>4, <6>1, Cyclic DEF Before
          <6> QED BY <3>2, <6>2
        <5> QED BY <5>1, <5>2
      <4> QED BY <1>2, <2>5, <4>1, <4>3, <4>4
    <3> QED BY <3>1, <3>2
  <2>8. ASSUME NEW x \in Slots, W(index') <= W(x), W(x) <= W(i)
        PROVE  hashTable'[x] # NULL
    <3>1. W(index) < W(x)
      BY <1>2, <1>18, <2>5, <2>8
    <3>2. x # index /\ hashTable[x] # NULL
      BY <1>2, <2>5, <2>7, <2>8, <3>1
    <3> QED BY <1>1, <1>10, <3>2
  <2> QED BY <1>2, <1>18, <2>5, <2>7, <2>8
<1>21. Repairing'
  <2>1. /\ Slots' = Slots /\ \A key, i, j : Before(key, i, j)' = Before(key, i, j)
        /\ \A i, j : Way(i, j)' = Way(i, j)
    BY <1>1 DEF Slots, Before, Way, Home
  <2> QED BY <1>1, <1>2, <1>18, <1>19, <1>20, <2>1 DEF Repairing
<1> QED BY <1>1, <1>14, <1>16, <1>17, <1>21 DEF HashInv, CountExact

\* The loop of remove stops at a free slot: nothing is left to be repaired.
LEMMA FinishRemoveInv ==
    ASSUME HashInv, FinishRemove
    PROVE  HashInv' /\ Stored' = Stored
<1>1. pc = "collide" /\ hashTable[index] = NULL /\ UNCHANGED table /\ Return
  BY DEF FinishRemove
<1>2. Repairing /\ tableSize \in Nat \ {0} /\ index \in Slots /\ originalIndex \in Slots
  BY <1>1 DEF HashInv, TypeInv, Repairing
<1>3. NoGap
  <2> SUFFICES ASSUME NEW i \in Slots, NEW j \in Slots, hashTable[i] # NULL,
                      Before(KeyOf[hashTable[i]], j, i), hashTable[j] = NULL
               PROVE  FALSE
    BY DEF NoGap
  <2>1. /\ Way(originalIndex, index) <= Way(originalIndex, i)
        /\ \A x \in Slots : /\ Way(originalIndex, index) <= Way(originalIndex, x)
                            /\ Way(originalIndex, x) <= Way(originalIndex, i)
                            => hashTable[x] # NULL
    BY <1>2 DEF Repairing
  <2>2. Way(originalIndex, index) \in Nat
    BY <1>2 DEF Way, Slots
  <2> QED BY <1>1, <1>2, <2>1, <2>2
<1> QED BY <1>1, <1>3, ReturnInv

\* An assertion of add or remove fails.
LEMMA RefuseInv ==
    ASSUME HashInv, RefuseAdd \/ RefuseRemove
    PROVE  HashInv' /\ Stored' = Stored
BY ReturnInv DEF RefuseAdd, RefuseRemove

\* empty is the abstract Empty.
LEMMA EmptyInv ==
    ASSUME HashInv, NEW size \in InitSizes, Empty(size)
    PROVE  HashInv' /\ Map!Empty
<1>1. /\ pc' = "idle" /\ hashTable' = Cleared(size) /\ tableSize' = size /\ numEntries' = 0
      /\ UNCHANGED <<hash, enableShrink>>
  BY DEF Empty, MakeTable
<1>2. size \in Nat \ {0}
  BY SizeAssumption
<1>3. Stored' = {}
  BY <1>1 DEF Stored, Cleared
<1>4. IsFiniteSet(Stored)' /\ CountExact'
  BY <1>1, <1>3, FS_EmptySet DEF CountExact
<1>5. TypeInv' /\ Room' /\ OneSlot(hashTable)' /\ NoGap'
  BY <1>1, <1>2 DEF HashInv, TypeInv, Tables, Cleared, Room, OneSlot, NoGap, Slots
<1> QED BY <1>1, <1>3, <1>4, <1>5 DEF HashInv, Map!Empty

\* nothing that the invariant speaks of changes
LEMMA QuietInv ==
    ASSUME HashInv, UNCHANGED vars \/ \E enabled \in BOOLEAN : SetEnableShrink(enabled)
    PROVE  HashInv' /\ Stored' = Stored
<1>1. /\ UNCHANGED <<hash, hashTable, tableSize, numEntries, call, pc, oldTable, index, originalIndex>>
      /\ enableShrink' = enableShrink \/ enableShrink' \in BOOLEAN
  BY DEF vars, table, SetEnableShrink
<1>2. Stored' = Stored
  BY <1>1 DEF Stored
<1>3. TypeInv' /\ Room' /\ OneSlot(hashTable)'
  BY <1>1 DEF HashInv, TypeInv, Room, OneSlot
<1>4. Slots' = Slots /\ (\A key, i, j : Before(key, i, j)' = Before(key, i, j))
      /\ (\A i, j : Way(i, j)' = Way(i, j))
  BY <1>1 DEF Slots, Before, Way, Home
<1>5. pc' # "collide" => NoGap'
  BY <1>1, <1>4 DEF HashInv, NoGap
<1>6. pc' = "resize" => Moving'
  BY <1>1, <1>4 DEF HashInv, Moving, OneSlot
<1>7. pc' = "collide" => Repairing'
  BY <1>1, <1>4 DEF HashInv, Repairing
<1> QED BY <1>1, <1>2, <1>3, <1>5, <1>6, <1>7 DEF HashInv, CountExact

\* Every step keeps the invariant, and is a step of the map or none.
LEMMA StepKeeps ==
    HashInv /\ [Next]_vars => HashInv' /\ [Map!Next]_Stored
<1> SUFFICES ASSUME HashInv, [Next]_vars PROVE HashInv' /\ [Map!Next]_Stored
  OBVIOUS
<1>1. ASSUME NEW d \in Data, CallAdd(d) PROVE HashInv' /\ Stored' = Stored
  BY <1>1, CallAddInv
<1>2. ASSUME NEW key \in Keys, CallRemove(key) PROVE HashInv' /\ Stored' = Stored
  BY <1>2, CallRemoveInv
<1>3. ASSUME NEW size \in InitSizes, Empty(size) PROVE HashInv' /\ Map!Next
  BY <1>3, EmptyInv DEF Map!Next
<1>4. CASE UNCHANGED vars \/ \E enabled \in BOOLEAN : SetEnableShrink(enabled)
  BY <1>4, QuietInv
<1>5. CASE MoveEntry
  BY <1>5, MoveEntryInv
<1>6. CASE FinishResize
  BY <1>6, FinishResizeInv
<1>7. CASE Insert
  BY <1>7, InsertInv DEF Map!Next
<1>8. CASE Delete
  BY <1>8, DeleteInv DEF Map!Next
<1>9. CASE RefuseAdd \/ RefuseRemove
  BY <1>9, RefuseInv
<1>10. CASE Reinsert
  BY <1>10, ReinsertInv
<1>11. CASE FinishRemove
  BY <1>11, FinishRemoveInv
<1> QED BY <1>1, <1>2, <1>3, <1>4, <1>5, <1>6, <1>7, <1>8, <1>9, <1>10, <1>11
        DEF Next, Calls, Steps

\* The invariant holds in every state of every table.
THEOREM HashInvariant == Spec => []HashInv
BY InitHashInv, StepKeeps, PTL DEF Spec

-----------------------------------------------------------------------------
(* What follows *)

\* Through every add, removal and resize, and whatever assertion fails on the way,
\* numEntries counts what is stored.
THEOREM CountIsExact == Spec => []CountExact
<1>1. HashInv => CountExact
  BY DEF HashInv
<1> QED BY <1>1, HashInvariant, PTL

\* No order of calls fills a table: getEntry always ends, and an add that resizes or a
\* removal that does finds room for every entry.
THEOREM EverySearchEnds == Spec => []SearchesEnd
<1>1. HashInv => SearchesEnd
  <2> SUFFICES ASSUME HashInv PROVE SearchesEnd
    OBVIOUS
  <2>1. PICK z \in Slots : hashTable[z] = NULL
    BY TableHasRoom
  <2>2. ASSUME NEW key \in Keys PROVE Way(Home(key), z) \in Stops(hashTable, key)
    BY <2>1, SlotIsWay DEF HashInv, TypeInv, Stops, Slots
  <2> QED BY <2>2 DEF HashInv, Room, SearchesEnd
<1> QED BY <1>1, HashInvariant, PTL

\* Whatever was removed, inserted again or moved in between: between calls, and when a
\* call gets to work, the search for the key of an entry ends at that entry.
THEOREM EveryEntryIsFound == Spec => []EntriesFound
<1>1. HashInv => EntriesFound
  <2> SUFFICES ASSUME HashInv, pc \in {"idle", "act"}, NEW d \in Stored PROVE Found(d)
    BY DEF EntriesFound
  <2>1. PICK z \in Slots : hashTable[z] = NULL
    BY TableHasRoom
  <2>2. PICK i \in Slots : hashTable[i] = d /\ d # NULL
    BY StoredInTable DEF Contents, HashInv, TypeInv, Tables, Slots
  <2>3. getEntry(hashTable, KeyOf[hashTable[i]]) = i
    BY <2>1, <2>2, StoredIsFound
  <2> QED BY <2>2, <2>3 DEF Found, get
<1> QED BY <1>1, HashInvariant, PTL

\* The hash table implements the map: only the last part of add, the first of remove
\* and empty change what is stored, as the map's operations do.
THEOREM TableIsMap == Spec => ImplementsMap
<1>1. Init => Map!Init
  BY DEF Init, Map!Init, Stored, Cleared
<1> QED BY <1>1, HashInvariant, StepKeeps, PTL DEF Spec, ImplementsMap, Map!Spec

=============================================================================
