------------------------------ MODULE HashTable ------------------------------
(***************************************************************************)
(* smbase's HashTable (smbase/hashtbl.cc): open addressing with linear     *)
(* probing.  The table grows and shrinks, and a removal inserts again      *)
(* whatever may have collided with the entry that is gone.                 *)
(*                                                                         *)
(* A step of the model is one entry that is moved to a new table or        *)
(* inserted again; the rest of add and of remove is a step of its own.  An *)
(* xassert that fails throws: the call is over, with what it has done.     *)
(***************************************************************************)
EXTENDS Integers, FiniteSets

CONSTANTS
    Data,           \* what is stored; NULL cannot be
    KeyOf,          \* getKey, a function on Data
    HashFns,        \* coreHashFn: functions from keys to numbers
    DefaultSize,    \* 33 in the code
    InitSizes,      \* the sizes clients ask for
    NULL

Keys == {KeyOf[d] : d \in Data}

ASSUME NullAssumption == NULL \notin Data
ASSUME HashAssumption == HashFns \subseteq [Keys -> Nat]
ASSUME SizeAssumption ==
    /\ DefaultSize \in InitSizes
    /\ InitSizes \subseteq Nat \ {0}

VARIABLES
    hash,           \* the hash function of this table
    hashTable,      \* slots 0..tableSize-1
    tableSize,
    numEntries,
    enableShrink,
    call,           \* the call under way: [fn, arg]
    pc,             \* "idle", "resize", "act", "collide"
    oldTable,       \* while the entries are moved
    index,          \* the slot the loop is at
    originalIndex   \* the slot the removed entry was in

table == <<hashTable, tableSize, numEntries>>
vars  == <<hash, table, enableShrink, call, pc, oldTable, index, originalIndex>>

NoCall == [fn |-> "none", arg |-> NULL]

-----------------------------------------------------------------------------
Cleared(size) == [i \in 0..size-1 |-> NULL]

nextIndex(i) == (i + 1) % tableSize

\* the slot that is d places behind the home of the key
Slot(key, d) == (hash[key] + d) % tableSize

\* where a search for the key may stop: nothing there, or the key
Stops(T, key) ==
    {d \in 0..tableSize-1 : \/ T[Slot(key, d)] = NULL
                            \/ KeyOf[T[Slot(key, d)]] = key}

\* The search goes from slot to slot and takes the first place it may stop at.  Back at
\* home, tableSize places on, an assertion fails (SearchesEnd: it never gets there).
getEntry(T, key) ==
    Slot(key, CHOOSE d \in Stops(T, key) \cup {tableSize} : \A e \in Stops(T, key) : d <= e)

get(key) == hashTable[getEntry(hashTable, key)]

-----------------------------------------------------------------------------
\* (variation: the count is left as the new table has it)
StartResize_zero(newSize) ==
    /\ oldTable' = hashTable
    /\ hashTable' = Cleared(newSize)
    /\ tableSize' = newSize
    /\ numEntries' = 0
    /\ index' = 0
    /\ pc' = "resize"

\* the beginning of resizeTable: a new table, to which the entries will be moved
StartResize(newSize) ==
    /\ oldTable' = hashTable
    /\ hashTable' = Cleared(newSize)
    /\ tableSize' = newSize
    /\ index' = 0
    /\ pc' = "resize"
    /\ UNCHANGED numEntries

NoResize ==
    /\ pc' = "act"
    /\ UNCHANGED <<table, oldTable, index>>

MustGrow == numEntries + 1 > (tableSize * 2) \div 3

MustShrink ==
    /\ enableShrink
    /\ numEntries - 1 < tableSize \div 5
    /\ tableSize > DefaultSize

\* (variation: a full table is used to the last slot)
CallAdd_lastSlot(d) ==
    /\ pc = "idle"
    /\ call' = [fn |-> "add", arg |-> d]
    /\ IF numEntries + 1 > tableSize THEN StartResize(tableSize * 2 + 1) ELSE NoResize
    /\ UNCHANGED <<hash, enableShrink, originalIndex>>

CallAdd(d) ==
    /\ pc = "idle"
    /\ call' = [fn |-> "add", arg |-> d]
    /\ IF MustGrow THEN StartResize(tableSize * 2 + 1) ELSE NoResize
    /\ UNCHANGED <<hash, enableShrink, originalIndex>>

CallRemove(key) ==
    /\ pc = "idle"
    /\ call' = [fn |-> "remove", arg |-> key]
    /\ IF MustShrink THEN StartResize(tableSize \div 2) ELSE NoResize
    /\ UNCHANGED <<hash, enableShrink, originalIndex>>

\* (variation: the old slot is kept if the new table has it)
MoveEntry_sameSlot ==
    /\ pc = "resize"
    /\ index \in DOMAIN oldTable
    /\ LET d == oldTable[index]
       IN  hashTable' = IF d = NULL THEN hashTable
                        ELSE IF index < tableSize /\ hashTable[index] = NULL
                        THEN [hashTable EXCEPT ![index] = d]
                        ELSE [hashTable EXCEPT ![getEntry(hashTable, KeyOf[d])] = d]
    /\ index' = index + 1
    /\ UNCHANGED <<hash, tableSize, numEntries, enableShrink, call, pc, oldTable,
                   originalIndex>>

\* resizeTable moves the entries in the order of their slots
MoveEntry ==
    /\ pc = "resize"
    /\ index \in DOMAIN oldTable
    /\ LET d == oldTable[index]
       IN  hashTable' = IF d = NULL THEN hashTable
                        ELSE [hashTable EXCEPT ![getEntry(hashTable, KeyOf[d])] = d]
    /\ index' = index + 1
    /\ UNCHANGED <<hash, tableSize, numEntries, enableShrink, call, pc, oldTable,
                   originalIndex>>

FinishResize ==
    /\ pc = "resize"
    /\ index \notin DOMAIN oldTable
    /\ pc' = "act"
    /\ oldTable' = <<>>
    /\ index' = 0
    /\ UNCHANGED <<hash, table, enableShrink, call, originalIndex>>

-----------------------------------------------------------------------------
\* the loops' variables are local to the call
Return ==
    /\ pc' = "idle"
    /\ call' = NoCall
    /\ index' = 0
    /\ originalIndex' = 0
    /\ UNCHANGED <<hash, enableShrink, oldTable>>

\* (variation: a mapping of the key is replaced)
Insert_replace ==
    /\ pc = "act"
    /\ call.fn = "add"
    /\ hashTable' = [hashTable EXCEPT ![getEntry(hashTable, KeyOf[call.arg])] = call.arg]
    /\ numEntries' = numEntries + 1
    /\ UNCHANGED tableSize
    /\ Return

\* the rest of add
Insert ==
    /\ pc = "act"
    /\ call.fn = "add"
    /\ LET i == getEntry(hashTable, KeyOf[call.arg])
       IN  /\ hashTable[i] = NULL
           /\ hashTable' = [hashTable EXCEPT ![i] = call.arg]
    /\ numEntries' = numEntries + 1
    /\ UNCHANGED tableSize
    /\ Return

\* the key is mapped already: an assertion fails
RefuseAdd ==
    /\ pc = "act"
    /\ call.fn = "add"
    /\ get(KeyOf[call.arg]) # NULL
    /\ UNCHANGED table
    /\ Return

\* remove, up to the loop over what may have collided with the entry
Delete ==
    /\ pc = "act"
    /\ call.fn = "remove"
    /\ get(call.arg) # NULL
    /\ LET i == getEntry(hashTable, call.arg)
       IN  /\ hashTable' = [hashTable EXCEPT ![i] = NULL]
           /\ originalIndex' = i
           /\ index' = nextIndex(i)
    /\ numEntries' = numEntries - 1
    /\ pc' = "collide"
    /\ UNCHANGED <<hash, tableSize, enableShrink, call, oldTable>>

\* the key is not mapped: an assertion fails
RefuseRemove ==
    /\ pc = "act"
    /\ call.fn = "remove"
    /\ get(call.arg) = NULL
    /\ UNCHANGED table
    /\ Return

\* An entry is taken out and added again, in a table that is not over the threshold:
\* this add never has to resize, or the model would come to a stop here.
Reinsert ==
    /\ pc = "collide"
    /\ hashTable[index] # NULL
    /\ numEntries <= (tableSize * 2) \div 3
    /\ LET d == hashTable[index]
           T == [hashTable EXCEPT ![index] = NULL]
       IN  hashTable' = [T EXCEPT ![getEntry(T, KeyOf[d])] = d]
    /\ index' = nextIndex(index)
    /\ UNCHANGED <<hash, tableSize, numEntries, enableShrink, call, pc, oldTable,
                   originalIndex>>

FinishRemove ==
    /\ pc = "collide"
    /\ hashTable[index] = NULL
    /\ UNCHANGED table
    /\ Return

-----------------------------------------------------------------------------
MakeTable(size) ==
    /\ hashTable' = Cleared(size)
    /\ tableSize' = size
    /\ numEntries' = 0

Empty(size) ==
    /\ pc = "idle"
    /\ MakeTable(size)
    /\ UNCHANGED <<hash, enableShrink, call, pc, oldTable, index, originalIndex>>

SetEnableShrink(enabled) ==
    /\ pc = "idle"
    /\ enableShrink' = enabled
    /\ UNCHANGED <<hash, table, call, pc, oldTable, index, originalIndex>>

Init ==
    /\ hash \in HashFns
    /\ \E size \in InitSizes : hashTable = Cleared(size) /\ tableSize = size
    /\ numEntries = 0
    /\ enableShrink = TRUE
    /\ call = NoCall
    /\ pc = "idle"
    /\ oldTable = <<>>
    /\ index = 0
    /\ originalIndex = 0

Calls ==
    \/ \E d \in Data : CallAdd(d)
    \/ \E key \in Keys : CallRemove(key)
    \/ \E size \in InitSizes : Empty(size)
    \/ \E enabled \in BOOLEAN : SetEnableShrink(enabled)

Steps ==
    \/ MoveEntry
    \/ FinishResize
    \/ Insert
    \/ RefuseAdd
    \/ Delete
    \/ RefuseRemove
    \/ Reinsert
    \/ FinishRemove

Next == Calls \/ Steps

Spec == Init /\ [][Next]_vars

-----------------------------------------------------------------------------
\* What is stored: in the table, or still in the old one.
Stored ==
    ({hashTable[i] : i \in DOMAIN hashTable}
       \cup IF pc = "resize" THEN {oldTable[i] : i \in {j \in DOMAIN oldTable : j >= index}}
            ELSE {}) \ {NULL}

\* numEntries counts what is stored, through every resize (selfCheck).
CountExact == numEntries = Cardinality(Stored)

\* There is room: a search for any key ends, and finds a place for what is yet to be
\* moved (the "infinite looping" assertion of getEntry, those of resizeTable and that
\* of add).
SearchesEnd ==
    /\ \A key \in Keys : Stops(hashTable, key) # {}
    /\ numEntries < tableSize
    /\ pc = "act" /\ call.fn = "add" => numEntries + 1 < tableSize
    /\ pc = "resize" => (tableSize \div 3) * 2 >= numEntries - 1

\* Between calls, and when a call gets to work, every entry is found (checkEntry).
Found(d) == get(KeyOf[d]) = d
EntriesFound == pc \in {"idle", "act"} => \A d \in Stored : Found(d)

\* To its clients the table is a map.
Map == INSTANCE KeyedMap WITH contents <- Stored
ImplementsMap == Map!Spec
=============================================================================
