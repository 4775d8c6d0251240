-------------------------- MODULE LRItemSetsProofs --------------------------
(***************************************************************************)
(* For every grammar: each LR state is owned by exactly one of the two     *)
(* tables of constructLRItemSets, and no two states have the same core.    *)
(* What both rest on: no step changes the core of a state, whatever it     *)
(* does to its lookaheads, its closure and its transitions.                *)
(***************************************************************************)
EXTENDS LRItemSets, TLAPS

\* A sequence of records that have a kernel.
SetList(S) ==
    /\ S \in Seq(Range(S))
    /\ \A id \in DOMAIN S : "kernel" \in DOMAIN S[id]

\* R has the sets of S, with the same cores.
SameCores(S, R) ==
    /\ SetList(R)
    /\ DOMAIN R = DOMAIN S
    /\ \A id \in DOMAIN S : DOMAIN R[id].kernel = DOMAIN S[id].kernel

\* The sets that one of the two tables owns.
Owned == ToSet(pending) \cup done

\* A set that has just been made, and is not in a table yet.
Fresh(id) == id = closure.of /\ closure.why \in {"start", "new"}

\* What the steps need to know of the variables, beyond OneOwner and UniqueCores.
WellFormed ==
    /\ SetList(sets)
    /\ pending \in Seq(Nat)
    /\ Owned \subseteq Ids
    /\ itemSet \in Ids \cup {0}
    /\ closure = NoClosure \/ closure.of \in Ids
    /\ \A id \in Ids : Fresh(id) => id \notin Owned

\* The inductive invariant.
TablesInv == WellFormed /\ OneOwner /\ UniqueCores

-----------------------------------------------------------------------------
\* Sets are numbered from 1.
LEMMA SetListShape ==
  ASSUME NEW S, SetList(S)
  PROVE  Len(S) \in Nat /\ DOMAIN S = 1..Len(S) /\ S = [id \in DOMAIN S |-> S[id]]
BY DEF SetList

\* A function on 1..len is a list of sets if its values have kernels.
LEMMA SetListByIndex ==
  ASSUME NEW len \in Nat, NEW R,
         R = [id \in 1..len |-> R[id]],
         \A id \in 1..len : "kernel" \in DOMAIN R[id]
  PROVE  SetList(R)
<1>1. R \in [1..len -> Range(R)]
  BY DEF Range
<1>2. R \in Seq(Range(R))
  BY <1>1
<1> QED
  BY <1>2 DEF SetList

\* A set replaced by one with the same core.
LEMMA SameCoresByExcept ==
  ASSUME NEW S, SetList(S), NEW id, NEW set,
         id \in DOMAIN S => /\ "kernel" \in DOMAIN set
                            /\ DOMAIN set.kernel = DOMAIN S[id].kernel
  PROVE  SameCores(S, [S EXCEPT ![id] = set])
<1> DEFINE R == [S EXCEPT ![id] = set]
<1>1. R = [i \in DOMAIN S |-> R[i]]
  OBVIOUS
<1>2. \A i \in DOMAIN S : /\ "kernel" \in DOMAIN R[i]
                          /\ DOMAIN R[i].kernel = DOMAIN S[i].kernel
  BY DEF SetList
<1> HIDE DEF R
<1>3. SetList(R)
  BY <1>1, <1>2, SetListShape, SetListByIndex
<1>4. DOMAIN R = DOMAIN S
  BY <1>1
<1>5. SameCores(S, R)
  BY <1>2, <1>3, <1>4 DEF SameCores
<1> QED
  BY <1>5 DEF R

\* Steps that keep the cores can be taken one after the other.
LEMMA SameCoresTransitive ==
  ASSUME NEW S, NEW R, NEW Q, SameCores(S, R), SameCores(R, Q)
  PROVE  SameCores(S, Q)
BY DEF SameCores

\* The end of a closure, a transition and a merge keep the cores.
LEMMA ClosedKeepsCores ==
  ASSUME SetList(sets), NEW id, NEW nonkernel
  PROVE  SameCores(sets, Closed(id, nonkernel))
<1> DEFINE set == [sets[id] EXCEPT !.nonkernel = nonkernel]
<1>1. id \in DOMAIN sets => /\ "kernel" \in DOMAIN set
                            /\ DOMAIN set.kernel = DOMAIN sets[id].kernel
  BY DEF SetList
<1>2. Closed(id, nonkernel) = [sets EXCEPT ![id] = set]
  BY DEF Closed
<1> HIDE DEF set
<1>3. SameCores(sets, [sets EXCEPT ![id] = set])
  BY <1>1, SameCoresByExcept
<1> QED
  BY <1>2, <1>3

LEMMA GotoKeepsCores ==
  ASSUME NEW S, SetList(S), NEW sym, NEW id
  PROVE  SameCores(S, Goto(S, sym, id))
<1> DEFINE go == With(S[itemSet].go, sym, id)
           set == [S[itemSet] EXCEPT !.go = go]
<1>1. Goto(S, sym, id) = [S EXCEPT ![itemSet] = set]
  BY DEF Goto
<1> HIDE DEF go
<1>2. itemSet \in DOMAIN S => /\ "kernel" \in DOMAIN set
                              /\ DOMAIN set.kernel = DOMAIN S[itemSet].kernel
  BY DEF SetList
<1> HIDE DEF set
<1>3. SameCores(S, [S EXCEPT ![itemSet] = set])
  BY <1>2, SameCoresByExcept
<1> QED
  BY <1>1, <1>3

LEMMA MergeKeepsCores ==
  ASSUME SetList(sets), NEW id, NEW kernel,
         id \in DOMAIN sets => SameCore(sets[id].kernel, kernel)
  PROVE  SameCores(sets, Merge(id, kernel))
<1> DEFINE merged == MergeItems(sets[id].kernel, kernel)
           set == [sets[id] EXCEPT !.kernel = merged]
<1>1. Merge(id, kernel) = [sets EXCEPT ![id] = set]
  BY DEF Merge
<1>2. DOMAIN merged = DOMAIN sets[id].kernel \cup DOMAIN kernel
  BY DEF MergeItems
<1> HIDE DEF merged
<1>3. id \in DOMAIN sets => /\ "kernel" \in DOMAIN set
                            /\ DOMAIN set.kernel = DOMAIN sets[id].kernel
  BY <1>2 DEF SetList, SameCore
<1> HIDE DEF set
<1>4. SameCores(sets, [sets EXCEPT ![id] = set])
  BY <1>3, SameCoresByExcept
<1> QED
  BY <1>1, <1>4

-----------------------------------------------------------------------------
\* What the stack of pending sets is after a push and after a pop.
LEMMA PushedOnce ==
  ASSUME NEW s \in Seq(Nat), IsInjective(s), NEW id \in Nat, id \notin ToSet(s)
  PROVE  /\ Append(s, id) \in Seq(Nat)
         /\ IsInjective(Append(s, id))
         /\ ToSet(Append(s, id)) = ToSet(s) \cup {id}
<1> DEFINE t == Append(s, id)
<1>1. Len(s) \in Nat /\ DOMAIN s = 1..Len(s) /\ \A i \in DOMAIN s : s[i] # id
  BY DEF ToSet
<1>2. /\ t \in Seq(Nat)
      /\ DOMAIN t = 1..(Len(s) + 1)
      /\ t[Len(s) + 1] = id
      /\ \A i \in DOMAIN s : t[i] = s[i]
  OBVIOUS
<1> HIDE DEF t
<1>3. \A i, j \in DOMAIN t : t[i] = t[j] => i = j
  BY <1>1, <1>2 DEF IsInjective
<1>4. \A e : e \in ToSet(t) <=> e \in ToSet(s) \/ e = id
  BY <1>1, <1>2 DEF ToSet
<1>5. IsInjective(t) /\ ToSet(t) = ToSet(s) \cup {id}
  BY <1>3, <1>4 DEF IsInjective
<1> QED
  BY <1>2, <1>5 DEF t

LEMMA PoppedOnce ==
  ASSUME NEW s \in Seq(Nat), IsInjective(s), s # <<>>
  PROVE  /\ Front(s) \in Seq(Nat)
         /\ IsInjective(Front(s))
         /\ Last(s) \notin ToSet(Front(s))
         /\ ToSet(s) = ToSet(Front(s)) \cup {Last(s)}
<1> DEFINE t == Front(s)
<1>1. Len(s) \in Nat \ {0} /\ DOMAIN s = 1..Len(s) /\ Last(s) = s[Len(s)]
  BY DEF Last
<1>2. t \in Seq(Nat) /\ DOMAIN t = 1..(Len(s) - 1) /\ \A i \in DOMAIN t : t[i] = s[i]
  BY <1>1 DEF Front
<1> HIDE DEF t
<1>3. \A i, j \in DOMAIN t : t[i] = t[j] => i = j
  BY <1>1, <1>2 DEF IsInjective
<1>4. \A i \in DOMAIN t : t[i] # Last(s)
  <2>1. \A i \in DOMAIN t : i \in DOMAIN s /\ i # Len(s)
    BY <1>1, <1>2
  <2>2. \A i \in DOMAIN s : s[i] = s[Len(s)] => i = Len(s)
    BY <1>1 DEF IsInjective
  <2> QED
    BY <1>1, <1>2, <2>1, <2>2
<1>5. \A e : e \in ToSet(s) <=> e \in ToSet(t) \/ e = Last(s)
  <2>1. DOMAIN s = DOMAIN t \cup {Len(s)}
    BY <1>1, <1>2
  <2>2. ToSet(s) = {s[i] : i \in DOMAIN t} \cup {s[Len(s)]}
    BY <2>1 DEF ToSet
  <2>3. ToSet(t) = {s[i] : i \in DOMAIN t}
    BY <1>2 DEF ToSet
  <2> QED
    BY <1>1, <2>2, <2>3
<1>6. IsInjective(t) /\ Last(s) \notin ToSet(t) /\ ToSet(s) = ToSet(t) \cup {Last(s)}
  BY <1>3, <1>4, <1>5 DEF IsInjective, ToSet
<1> QED
  BY <1>2, <1>6 DEF t

\* A set that goes back to the pending ones has one owner before and after.
LEMMA ReconsideredOnce ==
  ASSUME pending \in Seq(Nat), IsInjective(pending), ToSet(pending) \cap done = {},
         NEW id \in Nat, Reconsidered(id), id \in Owned
  PROVE  /\ pending' \in Seq(Nat)
         /\ IsInjective(pending')
         /\ ToSet(pending') \cap done' = {}
         /\ Owned' = Owned
<1>1. CASE id \in done
  <2>1. pending' = Append(pending, id) /\ done' = done \ {id}
    BY <1>1 DEF Reconsidered
  <2>2. id \notin ToSet(pending)
    BY <1>1
  <2> QED
    BY <1>1, <2>1, <2>2, PushedOnce DEF Owned
<1>2. CASE id \notin done
  <2>1. pending' = pending /\ done' = done
    BY <1>2 DEF Reconsidered
  <2> QED
    BY <2>1 DEF Owned
<1> QED
  BY <1>1, <1>2

-----------------------------------------------------------------------------
\* The steps, by what they do to the sets and to the tables.

\* A step that keeps the cores, and the owner of every set.
LEMMA StepKeepsTables ==
  ASSUME TablesInv,
         SameCores(sets, sets'), itemSet' \in Ids \cup {0},
         pending' \in Seq(Nat), IsInjective(pending'), ToSet(pending') \cap done' = {},
         Owned' = Owned,
         \/ closure' = NoClosure
         \/ closure'.of \in Ids /\ closure'.why \in {"again", "myself"},
         closure = NoClosure \/ closure.why \in {"again", "myself"}
  PROVE  TablesInv'
<1>1. \A id \in Ids : ~Fresh(id)
  BY DEF Fresh, NoClosure, Closing
<1>2. \A id : ~Fresh(id)'
  BY DEF Fresh, NoClosure, Closing
<1>3. Ids' = Ids /\ SetList(sets')
  BY DEF SameCores, Ids
<1>4. Ids \subseteq Owned
  BY <1>1 DEF TablesInv, OneOwner, Owned, Fresh
<1>5. WellFormed'
  BY <1>2, <1>3 DEF TablesInv, WellFormed
<1>6. OneOwner'
  BY <1>3, <1>4 DEF OneOwner, Owned
<1>7. UniqueCores'
  BY <1>3 DEF TablesInv, UniqueCores, SameCore, SameCores, Ids
<1> QED
  BY <1>5, <1>6, <1>7 DEF TablesInv

\* The step that gives a new set to the pending ones.
LEMMA StepAddsPending ==
  ASSUME TablesInv,
         SameCores(sets, sets'), itemSet' \in Ids \cup {0},
         closure # NoClosure, closure.why \in {"start", "new"},
         closure' = NoClosure,
         pending' = Append(pending, closure.of), done' = done
  PROVE  TablesInv'
<1>1. Ids' = Ids /\ SetList(sets') /\ Ids \subseteq Nat
  BY SetListShape DEF SameCores, Ids, TablesInv, WellFormed
<1>2. closure.of \in Ids /\ closure.of \notin Owned
  BY DEF TablesInv, WellFormed, Fresh
<1>3. /\ pending' \in Seq(Nat)
      /\ IsInjective(pending')
      /\ ToSet(pending') = ToSet(pending) \cup {closure.of}
  BY <1>1, <1>2, PushedOnce DEF TablesInv, WellFormed, OneOwner, Owned
<1>4. \A id : ~Fresh(id)'
  BY DEF Fresh, NoClosure, Closing
<1>5. WellFormed'
  BY <1>1, <1>2, <1>3, <1>4 DEF TablesInv, WellFormed, Owned
<1>6. OneOwner'
  BY <1>1, <1>2, <1>3 DEF TablesInv, OneOwner, Owned
<1>7. UniqueCores'
  BY <1>1 DEF TablesInv, UniqueCores, SameCore, SameCores, Ids
<1> QED
  BY <1>5, <1>6, <1>7 DEF TablesInv

\* What the lookup of a core finds, and what it means that it finds nothing.
LEMMA LookupFinds ==
  ASSUME NEW kernel
  PROVE  /\ \A id \in Lookup(kernel) : id \in Owned /\ SameCore(sets[id].kernel, kernel)
         /\ Lookup(kernel) = {} => \A id \in Owned : ~SameCore(sets[id].kernel, kernel)
BY DEF Lookup, Owned

LEMMA NewSetPreserves ==
  ASSUME TablesInv, closure = NoClosure, UNCHANGED itemSet, NEW kernel, NEW sym,
         NewSet(kernel, sym)
  PROVE  TablesInv'
<1> DEFINE set == [kernel |-> kernel, nonkernel |-> <<>>, go |-> <<>>]
           new == Len(sets) + 1
<1>1. /\ Len(sets) \in Nat
      /\ Ids = 1..Len(sets)
      /\ sets \in Seq(Range(sets))
      /\ \A id \in Ids : "kernel" \in DOMAIN sets[id]
  BY SetListShape DEF TablesInv, WellFormed, SetList, Ids
<1>2. /\ Lookup(kernel) = {}
      /\ sets' = Append(sets, set)
      /\ closure' = [of |-> new, why |-> "new", sym |-> sym]
      /\ pending' = pending
      /\ done' = done
      /\ itemSet' = itemSet
  BY DEF NewSet, Closing, tables
<1>3. "kernel" \in DOMAIN set /\ set.kernel = kernel
  OBVIOUS
<1> HIDE DEF set
<1>4. /\ sets' \in Seq(Range(sets) \cup {set})
      /\ Ids' = 1..new
      /\ sets'[new] = set
      /\ \A id \in Ids : sets'[id] = sets[id]
  <2>1. sets \in Seq(Range(sets) \cup {set})
    BY <1>1
  <2> QED
    BY <1>1, <1>2, <2>1 DEF Ids
<1>5. SetList(sets')
  <2>1. sets' = [id \in 1..new |-> sets'[id]]
    BY <1>4 DEF Ids
  <2>2. \A id \in 1..new : "kernel" \in DOMAIN sets'[id]
    BY <1>1, <1>3, <1>4
  <2> QED
    BY <1>1, <2>1, <2>2, SetListByIndex
<1>6. Ids = Owned
  BY DEF TablesInv, WellFormed, OneOwner, Owned, NoClosure, Closing
<1>7. Owned' = Owned /\ new \notin Owned /\ Ids \subseteq Ids'
  BY <1>1, <1>2, <1>4, <1>6 DEF Owned
<1>8. WellFormed'
  <2>1. closure'.of = new /\ new \in Ids'
    BY <1>1, <1>2, <1>4
  <2>2. \A id \in Ids' : Fresh(id)' => id \notin Owned'
    BY <1>7, <2>1 DEF Fresh
  <2> QED
    BY <1>2, <1>5, <1>6, <1>7, <2>1, <2>2 DEF TablesInv, WellFormed
<1>9. OneOwner'
  <2>1. \A id \in Ids' : id \in Ids \/ id = new
    BY <1>1, <1>4
  <2>2. \A id \in Ids' : id \in ToSet(pending) \cup done
                        \/ (id = closure'.of /\ closure'.why \in {"start", "new"})
    BY <1>2, <1>6, <2>1 DEF Owned
  <2> QED
    BY <1>2, <2>2 DEF TablesInv, OneOwner
<1>10. UniqueCores'
  <2>1. \A id \in Ids : DOMAIN sets'[id].kernel # DOMAIN sets'[new].kernel
    <3>1. \A id \in Owned : ~SameCore(sets[id].kernel, kernel)
      BY <1>2, LookupFinds
    <3> QED
      BY <1>3, <1>4, <1>6, <3>1 DEF SameCore
  <2>2. \A i, j \in Ids : DOMAIN sets'[i].kernel = DOMAIN sets'[j].kernel => i = j
    BY <1>4 DEF TablesInv, UniqueCores, SameCore
  <2>3. \A i \in Ids' : i \in Ids \/ i = new
    BY <1>1, <1>4
  <2> QED
    BY <2>1, <2>2, <2>3 DEF UniqueCores, SameCore
<1> QED
  BY <1>8, <1>9, <1>10 DEF TablesInv

LEMMA SameSetPreserves ==
  ASSUME TablesInv, closure = NoClosure, UNCHANGED itemSet, NEW kernel, NEW sym,
         SameSet(kernel, sym)
  PROVE  TablesInv'
<1>1. PICK id : sets' = Goto(sets, sym, id)
  BY DEF SameSet
<1>2. SameCores(sets, sets')
  BY <1>1, GotoKeepsCores DEF TablesInv, WellFormed
<1>3. UNCHANGED <<pending, done, closure>>
  BY DEF SameSet, tables
<1> QED
  BY <1>2, <1>3, StepKeepsTables DEF TablesInv, WellFormed, OneOwner, Owned

LEMMA ChangeOtherPreserves ==
  ASSUME TablesInv, closure = NoClosure, UNCHANGED itemSet, NEW kernel, NEW sym,
         ChangeOther(kernel, sym)
  PROVE  TablesInv'
<1>1. PICK id \in Lookup(kernel) : /\ sets' = Merge(id, kernel)
                                   /\ closure' = [of |-> id, why |-> "again", sym |-> sym]
  BY DEF ChangeOther, Closing
<1>2. SameCores(sets, sets') /\ id \in Ids
  BY <1>1, LookupFinds, MergeKeepsCores DEF TablesInv, WellFormed
<1>3. UNCHANGED <<pending, done>>
  BY DEF ChangeOther, tables
<1>4. closure'.of \in Ids /\ closure'.why \in {"again", "myself"}
  BY <1>1, <1>2
<1> QED
  BY <1>2, <1>3, <1>4, StepKeepsTables DEF TablesInv, WellFormed, OneOwner, Owned

LEMMA ChangeMyselfPreserves ==
  ASSUME TablesInv, closure = NoClosure, UNCHANGED itemSet, NEW kernel, NEW sym,
         ChangeMyself(kernel, sym)
  PROVE  TablesInv'
<1>1. /\ itemSet \in Lookup(kernel)
      /\ sets' = Goto(Merge(itemSet, kernel), sym, itemSet)
      /\ Reconsidered(itemSet)
      /\ closure' = closure
  BY DEF ChangeMyself
<1>2. itemSet \in Owned /\ itemSet \in Nat
  BY <1>1, LookupFinds, SetListShape DEF TablesInv, WellFormed, Ids
<1>3. SameCores(sets, Merge(itemSet, kernel))
  BY <1>1, LookupFinds, MergeKeepsCores DEF TablesInv, WellFormed
<1>4. SameCores(Merge(itemSet, kernel), sets')
  BY <1>1, <1>3, GotoKeepsCores DEF SameCores
<1>5. SameCores(sets, sets')
  BY <1>3, <1>4, SameCoresTransitive
<1>6. /\ pending' \in Seq(Nat)
      /\ IsInjective(pending')
      /\ ToSet(pending') \cap done' = {}
      /\ Owned' = Owned
  BY <1>1, <1>2, ReconsideredOnce DEF TablesInv, WellFormed, OneOwner
<1> QED
  BY <1>1, <1>5, <1>6, StepKeepsTables DEF TablesInv, WellFormed

LEMMA ConsiderItemPreserves == TablesInv /\ ConsiderItem => TablesInv'
<1> SUFFICES ASSUME TablesInv, ConsiderItem
             PROVE  TablesInv'
  OBVIOUS
<1>1. closure = NoClosure /\ UNCHANGED itemSet
  BY DEF ConsiderItem
<1>2. PICK kernel, sym : \/ NewSet(kernel, sym)
                         \/ SameSet(kernel, sym)
                         \/ ChangeOther(kernel, sym)
                         \/ ChangeMyself(kernel, sym)
  BY Zenon DEF ConsiderItem
<1> QED
  BY <1>1, <1>2, NewSetPreserves, SameSetPreserves, ChangeOtherPreserves,
     ChangeMyselfPreserves

LEMMA ProcessSetPreserves == TablesInv /\ ProcessSet => TablesInv'
<1> SUFFICES ASSUME TablesInv, ProcessSet
             PROVE  TablesInv'
  OBVIOUS
<1>1. /\ pending # <<>>
      /\ itemSet' = Last(pending)
      /\ pending' = Front(pending)
      /\ done' = done \cup {Last(pending)}
      /\ sets' = sets
      /\ closure' = closure
      /\ closure = NoClosure
  BY DEF ProcessSet
<1>2. /\ pending' \in Seq(Nat)
      /\ IsInjective(pending')
      /\ ToSet(pending') \cap done' = {}
      /\ Owned' = Owned
      /\ itemSet' \in Owned
  BY <1>1, PoppedOnce DEF TablesInv, WellFormed, OneOwner, Owned
<1>3. SameCores(sets, sets')
  BY <1>1 DEF TablesInv, WellFormed, SameCores
<1>4. itemSet' \in Ids
  BY <1>2 DEF TablesInv, WellFormed
<1> QED
  BY <1>1, <1>2, <1>3, <1>4, StepKeepsTables

LEMMA CloseMyselfPreserves == TablesInv /\ CloseMyself => TablesInv'
<1> SUFFICES ASSUME TablesInv, CloseMyself
             PROVE  TablesInv'
  OBVIOUS
<1>1. /\ UNCHANGED <<sets, pending, done, itemSet>>
      /\ closure = NoClosure
      /\ itemSet # 0
      /\ closure' = [of |-> itemSet, why |-> "myself", sym |-> 0]
  BY DEF CloseMyself, Closing, tables, loop
<1>2. SameCores(sets, sets')
  BY <1>1 DEF TablesInv, WellFormed, SameCores
<1>3. closure'.of \in Ids /\ closure'.why \in {"again", "myself"}
  BY <1>1 DEF TablesInv, WellFormed
<1> QED
  BY <1>1, <1>2, <1>3, StepKeepsTables DEF TablesInv, WellFormed, OneOwner, Owned

LEMMA FinishSetPreserves == TablesInv /\ FinishSet => TablesInv'
<1> SUFFICES ASSUME TablesInv, FinishSet
             PROVE  TablesInv'
  OBVIOUS
<1>1. UNCHANGED <<sets, pending, done, closure>> /\ closure = NoClosure /\ itemSet' = 0
  BY DEF FinishSet, tables
<1>2. SameCores(sets, sets')
  BY <1>1 DEF TablesInv, WellFormed, SameCores
<1> QED
  BY <1>1, <1>2, StepKeepsTables DEF TablesInv, WellFormed, OneOwner, Owned

LEMMA FinishAddingPreserves == TablesInv /\ (FinishStart \/ FinishNewSet) => TablesInv'
<1> SUFFICES ASSUME TablesInv, FinishStart \/ FinishNewSet
             PROVE  TablesInv'
  OBVIOUS
<1>1. /\ closure # NoClosure
      /\ closure.why \in {"start", "new"}
      /\ closure' = NoClosure
      /\ pending' = Append(pending, closure.of)
      /\ done' = done
      /\ itemSet' \in Ids \cup {0}
  BY DEF FinishStart, FinishNewSet, ClosureReady, TablesInv, WellFormed
<1>2. SameCores(sets, Closed(closure.of, work.nonkernel))
  BY ClosedKeepsCores DEF TablesInv, WellFormed
<1>3. SetList(Closed(closure.of, work.nonkernel))
  BY <1>2 DEF SameCores
<1>4. SameCores(Closed(closure.of, work.nonkernel),
                Goto(Closed(closure.of, work.nonkernel), closure.sym, closure.of))
  BY <1>3, GotoKeepsCores
<1>5. SameCores(sets, sets')
  BY <1>2, <1>4, SameCoresTransitive DEF FinishStart, FinishNewSet
<1> QED
  BY <1>1, <1>5, StepAddsPending

LEMMA FinishChangePreserves == TablesInv /\ FinishChange => TablesInv'
<1> SUFFICES ASSUME TablesInv, FinishChange
             PROVE  TablesInv'
  OBVIOUS
<1>1. /\ closure # NoClosure
      /\ closure.why = "again"
      /\ closure' = NoClosure
      /\ Reconsidered(closure.of)
      /\ itemSet' \in Ids \cup {0}
      /\ sets' = Goto(Closed(closure.of, work.nonkernel), closure.sym, closure.of)
  BY DEF FinishChange, ClosureReady, TablesInv, WellFormed
<1>2. closure.of \in Owned /\ closure.of \in Nat
  BY <1>1, SetListShape DEF TablesInv, WellFormed, OneOwner, Owned, Ids
<1>3. SameCores(sets, Closed(closure.of, work.nonkernel))
  BY ClosedKeepsCores DEF TablesInv, WellFormed
<1>4. SetList(Closed(closure.of, work.nonkernel))
  BY <1>3 DEF SameCores
<1>5. SameCores(sets, sets')
  BY <1>1, <1>3, <1>4, GotoKeepsCores, SameCoresTransitive
<1>6. /\ pending' \in Seq(Nat)
      /\ IsInjective(pending')
      /\ ToSet(pending') \cap done' = {}
      /\ Owned' = Owned
  BY <1>1, <1>2, ReconsideredOnce DEF TablesInv, WellFormed, OneOwner
<1> QED
  BY <1>1, <1>5, <1>6, StepKeepsTables

LEMMA FinishMyselfPreserves == TablesInv /\ FinishMyself => TablesInv'
<1> SUFFICES ASSUME TablesInv, FinishMyself
             PROVE  TablesInv'
  OBVIOUS
<1>1. /\ closure.why = "myself"
      /\ closure' = NoClosure
      /\ UNCHANGED <<pending, done>>
      /\ itemSet' = 0
      /\ sets' = Closed(closure.of, work.nonkernel)
  BY DEF FinishMyself, ClosureReady, tables
<1>2. SameCores(sets, sets')
  BY <1>1, ClosedKeepsCores DEF TablesInv, WellFormed
<1> QED
  BY <1>1, <1>2, StepKeepsTables DEF TablesInv, WellFormed, OneOwner, Owned

\* The steps of a closure touch neither sets nor tables.
LEMMA OtherStepsPreserve ==
  ASSUME TablesInv, CloseKernelItem \/ CloseWorklistItem \/ UNCHANGED vars
  PROVE  TablesInv'
<1>1. UNCHANGED <<sets, pending, done, itemSet, closure>>
  BY DEF CloseKernelItem, CloseWorklistItem, tables, loop, vars
<1> QED
  BY <1>1 DEF TablesInv, WellFormed, OneOwner, UniqueCores, Owned, Fresh, Ids

LEMMA InitTables == Init => TablesInv
<1> SUFFICES ASSUME Init
             PROVE  TablesInv
  OBVIOUS
<1> DEFINE start == [kernel |-> StartKernel, nonkernel |-> <<>>, go |-> <<>>]
<1>1. /\ sets = <<start>>
      /\ closure = [of |-> 1, why |-> "start", sym |-> 0]
      /\ pending = <<>> /\ done = {} /\ itemSet = 0
  BY DEF Init, Closing
<1>2. "kernel" \in DOMAIN start
  OBVIOUS
<1> HIDE DEF start
<1>3. Ids = {1} /\ sets = [id \in 1..1 |-> sets[id]] /\ sets[1] = start
  BY <1>1 DEF Ids
<1>4. SetList(sets)
  <2>1. \A id \in 1..1 : "kernel" \in DOMAIN sets[id]
    BY <1>2, <1>3
  <2>2. 1 \in Nat
    OBVIOUS
  <2> QED
    BY <1>3, <2>1, <2>2, SetListByIndex
<1>5. Owned = {}
  BY <1>1 DEF Owned, ToSet
<1>6. WellFormed
  BY <1>1, <1>3, <1>4, <1>5 DEF WellFormed
<1>7. OneOwner
  BY <1>1, <1>3, <1>5 DEF OneOwner, Owned, IsInjective
<1>8. UniqueCores
  BY <1>3 DEF UniqueCores
<1> QED
  BY <1>6, <1>7, <1>8 DEF TablesInv

LEMMA NextTables == TablesInv /\ [Next]_vars => TablesInv'
BY ProcessSetPreserves, ConsiderItemPreserves, CloseMyselfPreserves, FinishSetPreserves,
   FinishAddingPreserves, FinishChangePreserves, FinishMyselfPreserves, OtherStepsPreserve
   DEF Next

-----------------------------------------------------------------------------
\* The invariant holds in every state the construction gets to.
THEOREM TablesAlways == Spec => []TablesInv
<1>1. Init => TablesInv
  BY InitTables
<1>2. TablesInv /\ [Next]_vars => TablesInv'
  BY NextTables
<1> QED
  BY <1>1, <1>2, PTL DEF Spec

\* For every grammar, every item set has exactly one owner: it is deleted once, and
\* never left behind, although sets go back and forth between the two tables
\* (gramanl.cc:2321 and 2439).
THEOREM SetsHaveOneOwner == Spec => []OneOwner
<1>1. TablesInv => OneOwner
  BY DEF TablesInv
<1> QED
  BY <1>1, TablesAlways, PTL

\* For every grammar, no two states of the automaton have the same core: the lookup
\* among the pending sets and then those done never misses one (gramanl.cc:2397).
THEOREM CoresAreUnique == Spec => []UniqueCores
<1>1. TablesInv => UniqueCores
  BY DEF TablesInv
<1> QED
  BY <1>1, TablesAlways, PTL

-----------------------------------------------------------------------------
(* What a set knows has reached its successors.  In the middle of things:  *)
(* the set that is being closed is exempt, of the set being processed the  *)
(* items ahead are, and while a closure holds up a transition the set that *)
(* it leads to knows already what it is to know (Aimed).                   *)

Fields(S) == \A id \in DOMAIN S : {"kernel", "nonkernel", "go"} \subseteq DOMAIN S[id]

Moved(id, sym) == MoveDot(g, Items(sets[id]), sym)

\* set x is where the transition leads, and knows what comes that way
Knows(x, id, sym) ==
    /\ x \in Ids
    /\ SameCore(sets[x].kernel, Moved(id, sym))
    /\ MergeItems(sets[x].kernel, Moved(id, sym)) = sets[x].kernel

Arrived(id, sym) == sym \in DOMAIN sets[id].go /\ Knows(sets[id].go[sym], id, sym)

Ahead(id) == IF id = itemSet THEN itemsLeft ELSE {}

Held(id, sym) == id = itemSet /\ closure # NoClosure /\ closure.sym = sym

\* Movable and SymbolAfterDot, for a set
Symbols(id) == {SymbolAfterDot(item) : item \in Movable(sets[id]) \ Ahead(id)}

AllArrived ==
    \A id \in done \ {closure.of} : \A sym \in Symbols(id) : Arrived(id, sym) \/ Held(id, sym)

Aimed ==
    /\ closure.why = "start" => done = {}
    /\ closure.why = "myself" => closure.of = itemSet /\ itemSet \notin done
    /\ closure.why \in {"new", "again"} =>
          itemSet # 0 /\ closure.of # itemSet /\ Knows(closure.of, itemSet, closure.sym)
    /\ closure = NoClosure \/ closure.why \in {"start", "new", "again", "myself"}

PropagationInv ==
    /\ Fields(sets)
    /\ mustCloseMyself => itemSet \notin done
    /\ Aimed
    /\ AllArrived

\* Merging twice is merging once, and what has been merged stays merged.
LEMMA MergeTwice ==
  ASSUME NEW K, NEW J
  PROVE  MergeItems(MergeItems(K, J), J) = MergeItems(K, J)
BY DEF MergeItems, LookaheadIn

LEMMA MergeAbsorbs ==
  ASSUME NEW K, NEW J, NEW L, MergeItems(K, J) = K
  PROVE  MergeItems(MergeItems(K, L), J) = MergeItems(K, L)
<1> DEFINE M == MergeItems(K, L)
<1>1. DOMAIN J \subseteq DOMAIN K
  BY DEF MergeItems
<1>2. \A i \in DOMAIN J : J[i] \subseteq K[i]
  BY <1>1 DEF MergeItems, LookaheadIn
<1>3. DOMAIN M = DOMAIN K \cup DOMAIN L /\ M = [i \in DOMAIN M |-> M[i]]
  BY DEF MergeItems
<1>4. \A i \in DOMAIN J : J[i] \subseteq M[i]
  BY <1>1, <1>2 DEF MergeItems, LookaheadIn
<1> HIDE DEF M
<1>5. \A i \in DOMAIN M : LookaheadIn(M, i) \cup LookaheadIn(J, i) = M[i]
  BY <1>4 DEF LookaheadIn
<1>6. DOMAIN M \cup DOMAIN J = DOMAIN M
  BY <1>1, <1>3
<1>7. MergeItems(M, J) = [i \in DOMAIN M |-> M[i]]
  BY <1>5, <1>6 DEF MergeItems
<1> QED
  BY <1>3, <1>7 DEF M

\* A kernel that is what moves is absorbed by itself.
LEMMA MovedIsMerged ==
  ASSUME NEW id, NEW sym
  PROVE  MergeItems(Moved(id, sym), Moved(id, sym)) = Moved(id, sym)
<1> DEFINE K == Moved(id, sym)
<1>1. K = [i \in DOMAIN K |-> K[i]]
  BY DEF Moved, MoveDot
<1> HIDE DEF K
<1>2. MergeItems(K, K) = [i \in DOMAIN K |-> K[i]]
  BY DEF MergeItems, LookaheadIn
<1> QED
  BY <1>1, <1>2 DEF K

\* What the changes of a set leave alone: the end of a closure everything but nonkernel
\* items, a transition the items, a merge everything but the kernel.
LEMMA ClosedFields ==
  ASSUME Fields(sets), NEW x, NEW nonkernel
  PROVE  LET S == Closed(x, nonkernel)
         IN  /\ DOMAIN S = Ids /\ Fields(S)
             /\ \A id \in Ids : /\ S[id].kernel = sets[id].kernel
                                /\ S[id].go = sets[id].go
                                /\ id # x => S[id] = sets[id]
BY DEF Closed, Fields, Ids

LEMMA MergeFields ==
  ASSUME Fields(sets), NEW x, NEW kernel
  PROVE  LET S == Merge(x, kernel)
         IN  /\ DOMAIN S = Ids /\ Fields(S)
             /\ \A id \in Ids : /\ S[id].nonkernel = sets[id].nonkernel
                                /\ S[id].go = sets[id].go
                                /\ id # x => S[id] = sets[id]
                                /\ id = x => S[id].kernel = MergeItems(sets[id].kernel, kernel)
<1> DEFINE m == MergeItems(sets[x].kernel, kernel)
<1>1. Merge(x, kernel) = [sets EXCEPT ![x] = [sets[x] EXCEPT !.kernel = m]]
  BY DEF Merge
<1> HIDE DEF m
<1>2. LET S == [sets EXCEPT ![x] = [sets[x] EXCEPT !.kernel = m]]
      IN  /\ DOMAIN S = Ids /\ Fields(S)
          /\ \A id \in Ids : /\ S[id].nonkernel = sets[id].nonkernel
                             /\ S[id].go = sets[id].go
                             /\ id # x => S[id] = sets[id]
                             /\ id = x => S[id].kernel = m
  BY DEF Fields, Ids
<1> QED
  BY <1>1, <1>2 DEF m

LEMMA GotoFields ==
  ASSUME NEW S, Fields(S), NEW sym, NEW x
  PROVE  LET R == Goto(S, sym, x)
         IN  /\ DOMAIN R = DOMAIN S /\ Fields(R)
             /\ \A id \in DOMAIN S :
                   /\ R[id].kernel = S[id].kernel /\ R[id].nonkernel = S[id].nonkernel
                   /\ id # itemSet => R[id].go = S[id].go
                   /\ id = itemSet => /\ DOMAIN R[id].go = DOMAIN S[id].go \cup {sym}
                                      /\ R[id].go[sym] = x
                                      /\ \A y \in DOMAIN S[id].go : y # sym => R[id].go[y] = S[id].go[y]
<1> DEFINE go == With(S[itemSet].go, sym, x)
<1>1. Goto(S, sym, x) = [S EXCEPT ![itemSet] = [S[itemSet] EXCEPT !.go = go]]
  BY DEF Goto
<1>2. /\ DOMAIN go = DOMAIN S[itemSet].go \cup {sym}
      /\ go[sym] = x
      /\ \A y \in DOMAIN S[itemSet].go : y # sym => go[y] = S[itemSet].go[y]
  BY DEF With
<1> HIDE DEF go
<1>3. LET R == [S EXCEPT ![itemSet] = [S[itemSet] EXCEPT !.go = go]]
      IN  /\ DOMAIN R = DOMAIN S /\ Fields(R)
          /\ \A id \in DOMAIN S :
                /\ R[id].kernel = S[id].kernel /\ R[id].nonkernel = S[id].nonkernel
                /\ id # itemSet => R[id].go = S[id].go
                /\ id = itemSet => R[id].go = go
  BY DEF Fields
<1> DEFINE R == [S EXCEPT ![itemSet] = [S[itemSet] EXCEPT !.go = go]]
<1> HIDE DEF R
<1>4. /\ DOMAIN R = DOMAIN S /\ Fields(R)
      /\ \A id \in DOMAIN S :
                /\ R[id].kernel = S[id].kernel /\ R[id].nonkernel = S[id].nonkernel
                /\ id # itemSet => R[id].go = S[id].go
                /\ id = itemSet => R[id].go = go
  BY <1>3 DEF R
<1>5. Goto(S, sym, x) = R
  BY <1>1 DEF R
<1> QED
  BY <1>2, <1>4, <1>5

\* A kernel is as it was, or more has been merged into it.
Kept(x) ==
    \/ sets'[x].kernel = sets[x].kernel
    \/ \E L : SameCore(sets[x].kernel, L) /\ sets'[x].kernel = MergeItems(sets[x].kernel, L)

SameItems(id) == sets'[id].kernel = sets[id].kernel /\ sets'[id].nonkernel = sets[id].nonkernel

\* What moves from a set depends on its items.
LEMMA MovedStays ==
  ASSUME UNCHANGED g, NEW id, SameItems(id), NEW sym
  PROVE  Moved(id, sym)' = Moved(id, sym)
BY Zenon DEF Moved, SameItems, Items

\* What a set has reached it has reached for good, as long as its own items stay.
LEMMA KnowsStays ==
  ASSUME UNCHANGED g, Ids \subseteq Ids', NEW id, SameItems(id), NEW sym, NEW x,
         Knows(x, id, sym), Kept(x)
  PROVE  Knows(x, id, sym)'
<1> DEFINE M == Moved(id, sym)
<1>1. Moved(id, sym)' = M
  BY MovedStays
<1>2. x \in Ids' /\ SameCore(sets[x].kernel, M) /\ MergeItems(sets[x].kernel, M) = sets[x].kernel
  BY DEF Knows
<1> HIDE DEF M
<1>3. CASE sets'[x].kernel = sets[x].kernel
  BY <1>1, <1>2, <1>3 DEF Knows
<1>4. CASE sets'[x].kernel # sets[x].kernel
  <2>1. PICK L : SameCore(sets[x].kernel, L) /\ sets'[x].kernel = MergeItems(sets[x].kernel, L)
    BY <1>4 DEF Kept
  <2>2. DOMAIN sets'[x].kernel = DOMAIN sets[x].kernel
    BY <2>1 DEF MergeItems, SameCore
  <2>3. MergeItems(sets'[x].kernel, M) = sets'[x].kernel
    BY <1>2, <2>1, MergeAbsorbs
  <2> QED
    BY <1>1, <1>2, <2>2, <2>3 DEF Knows, SameCore
<1> QED
  BY <1>3, <1>4

LEMMA ArrivedStays ==
  ASSUME UNCHANGED g, Ids \subseteq Ids', \A x \in Ids : Kept(x),
         NEW id, SameItems(id), NEW sym, Arrived(id, sym),
         sym \in DOMAIN sets'[id].go, sets'[id].go[sym] = sets[id].go[sym]
  PROVE  Arrived(id, sym)'
BY KnowsStays DEF Arrived, Knows

LEMMA SameSymbols ==
  ASSUME UNCHANGED g, NEW id, SameItems(id)
  PROVE  Movable(sets[id])' = Movable(sets[id]) /\ \A item : SymbolAfterDot(item)' = SymbolAfterDot(item)
BY DEF Movable, SymbolAfterDot, SameItems, Items

\* The sets that a step is not about.
LEMMA OthersArrive ==
  ASSUME PropagationInv, UNCHANGED g, Ids \subseteq Ids', \A x \in Ids : Kept(x),
         NEW id \in done \ {closure.of, itemSet}, SameItems(id), sets'[id].go = sets[id].go
  PROVE  \A sym \in Symbols(id)' : Arrived(id, sym)'
<1> SUFFICES ASSUME NEW sym \in Symbols(id)' PROVE Arrived(id, sym)'
  OBVIOUS
<1>1. sym \in Symbols(id)
  BY SameSymbols DEF Symbols, Ahead
<1>2. Arrived(id, sym)
  BY <1>1 DEF PropagationInv, AllArrived, Held
<1>3. sym \in DOMAIN sets[id].go
  BY <1>2 DEF Arrived
<1> QED
  BY <1>2, <1>3, ArrivedStays

-----------------------------------------------------------------------------
\* A transition is made from the set being processed, and other sets change as they may.
LEMMA TransitionArrives ==
  ASSUME TablesInv, PropagationInv, UNCHANGED <<g, itemSet>>, NEW sym, NEW x,
         itemSet # 0, closure.of # itemSet, closure'.of # itemSet,
         Knows(x, itemSet, sym), Ids = Ids', \A y \in Ids : Kept(y),
         \A id \in Ids \ {closure.of, closure'.of} : SameItems(id),
         \A id \in Ids \ {itemSet} : sets'[id].go = sets[id].go,
         DOMAIN sets'[itemSet].go = DOMAIN sets[itemSet].go \cup {sym},
         sets'[itemSet].go[sym] = x,
         \A y \in DOMAIN sets[itemSet].go : y # sym => sets'[itemSet].go[y] = sets[itemSet].go[y],
         done' \subseteq done \ {closure.of},
         \A y \in Symbols(itemSet)' : y = sym \/ (y \in Symbols(itemSet) /\ ~Held(itemSet, y))
  PROVE  AllArrived'
<1> SUFFICES ASSUME NEW id \in done' \ {closure'.of}, NEW y \in Symbols(id)'
             PROVE  Arrived(id, y)'
  BY DEF AllArrived
<1>1. id \in done /\ id \in Ids /\ id # closure.of /\ SameItems(id)
  BY DEF TablesInv, WellFormed, Owned
<1>2. CASE id # itemSet
  BY <1>1, <1>2, OthersArrive
<1>3. CASE id = itemSet
  <2>1. CASE y = sym
    <3>1. Knows(x, itemSet, sym)' /\ sym \in DOMAIN sets'[itemSet].go
      BY <1>1, <1>3, KnowsStays DEF Knows
    <3> QED
      BY <1>3, <2>1, <3>1 DEF Arrived
  <2>2. CASE y # sym
    <3>1. y \in Symbols(itemSet) /\ ~Held(itemSet, y)
      BY <1>3, <2>2
    <3>2. Arrived(itemSet, y)
      BY <1>1, <1>3, <3>1 DEF PropagationInv, AllArrived
    <3>3. y \in DOMAIN sets[itemSet].go
      BY <3>2 DEF Arrived
    <3> QED
      BY <1>1, <1>3, <2>2, <3>2, <3>3, ArrivedStays
  <2> QED
    BY <2>1, <2>2
<1> QED
  BY <1>2, <1>3

\* What moves across the symbol of the item that is considered.
LEMMA SymbolsBehind ==
  ASSUME UNCHANGED <<g, itemSet>>, SameItems(itemSet), NEW item, itemsLeft' = itemsLeft \ {item}
  PROVE  \A y \in Symbols(itemSet)' : y = SymbolAfterDot(item) \/ y \in Symbols(itemSet)
BY SameSymbols DEF Symbols, Ahead

\* The steps that look at one item: where its symbol leads to is looked up.
LEMMA ConsiderArrives == TablesInv /\ PropagationInv /\ ConsiderItem => PropagationInv'
<1> SUFFICES ASSUME TablesInv, PropagationInv, ConsiderItem
             PROVE  PropagationInv'
  OBVIOUS
<1>1. /\ closure = NoClosure /\ itemSet # 0 /\ UNCHANGED <<g, itemSet>>
      /\ closure.of = 0 /\ itemSet \in Ids /\ 0 \notin Ids
  BY SetListShape DEF ConsiderItem, analysis, NoClosure, Closing, TablesInv, WellFormed, Ids
<1>2. PICK item, sym, kernel :
         /\ itemsLeft' = itemsLeft \ {item}
         /\ sym = SymbolAfterDot(item) /\ kernel = MoveDot(g, Items(sets[itemSet]), sym)
         /\ \/ NewSet(kernel, sym)
            \/ SameSet(kernel, sym)
            \/ ChangeOther(kernel, sym)
            \/ ChangeMyself(kernel, sym)
  BY Zenon DEF ConsiderItem
<1>3. kernel = Moved(itemSet, sym)
  BY <1>2 DEF Moved
<1>4. /\ SameItems(itemSet) => \A y \in Symbols(itemSet)' : y = sym \/ y \in Symbols(itemSet)
      /\ \A y : ~Held(itemSet, y)
  BY <1>1, <1>2, SymbolsBehind DEF Held
<1>5. CASE NewSet(kernel, sym)
  <2> DEFINE set == [kernel |-> kernel, nonkernel |-> <<>>, go |-> <<>>]
  <2>0. PICK new : new = Len(sets) + 1
    OBVIOUS
  <2>1. /\ sets' = Append(sets, set) /\ closure' = [of |-> new, why |-> "new", sym |-> sym]
        /\ UNCHANGED <<done, mustCloseMyself>>
    BY <1>5, <2>0 DEF NewSet, Closing, tables
  <2>2. /\ Len(sets) \in Nat /\ Ids = 1..Len(sets) /\ sets \in Seq(Range(sets))
    BY SetListShape DEF TablesInv, WellFormed, SetList, Ids
  <2>3. set.kernel = kernel /\ {"kernel", "nonkernel", "go"} \subseteq DOMAIN set
    OBVIOUS
  <2> HIDE DEF set
  <2>4. /\ Ids' = 1..new /\ sets'[new] = set /\ \A id \in Ids : sets'[id] = sets[id]
    <3>1. sets \in Seq(Range(sets) \cup {set})
      BY <2>2
    <3> QED
      BY <2>0, <2>1, <2>2, <3>1 DEF Ids
  <2>5. Ids \subseteq Ids' /\ new \in Ids' /\ new \notin Ids
    BY <2>0, <2>2, <2>4
  <2>6. Fields(sets')
    BY <2>0, <2>2, <2>3, <2>4 DEF PropagationInv, Fields, Ids
  <2>7. Aimed'
    <3>1. Moved(itemSet, sym)' = kernel
      BY <1>1, <1>3, <2>4, MovedStays DEF SameItems
    <3>2. Knows(new, itemSet, sym)'
      <4>1. sets'[new].kernel = kernel /\ MergeItems(kernel, kernel) = kernel
        BY <1>3, <2>3, <2>4, MovedIsMerged
      <4> QED
        BY <2>5, <3>1, <4>1 DEF Knows, SameCore
    <3> QED
      BY <1>1, <2>1, <2>5, <3>2 DEF Aimed, NoClosure, Closing
  <2>8. \A x \in Ids : Kept(x) /\ SameItems(x) /\ sets'[x].go = sets[x].go
    BY <2>4 DEF Kept, SameItems
  <2>9. AllArrived'
    <3> SUFFICES ASSUME NEW id \in done \ {new}, NEW y \in Symbols(id)'
                 PROVE  Arrived(id, y)' \/ Held(id, y)'
      BY <2>1 DEF AllArrived
    <3>1. id \in Ids /\ id # 0
      BY <1>1 DEF TablesInv, WellFormed, Owned
    <3>2. CASE id # itemSet
      BY <1>1, <2>5, <2>8, <3>1, <3>2, OthersArrive
    <3>3. CASE id = itemSet /\ y # sym
      <4>1. y \in Symbols(itemSet) /\ Arrived(itemSet, y)
        BY <1>1, <1>4, <2>8, <3>1, <3>3 DEF PropagationInv, AllArrived
      <4> QED
        BY <1>1, <2>5, <2>8, <3>1, <3>3, <4>1, ArrivedStays DEF Arrived
    <3>4. CASE id = itemSet /\ y = sym
      BY <1>1, <2>1, <3>4 DEF Held, NoClosure, Closing
    <3> QED
      BY <3>2, <3>3, <3>4
  <2> QED
    BY <1>1, <2>1, <2>6, <2>7, <2>9 DEF PropagationInv
<1>6. CASE SameSet(kernel, sym)
  <2>1. PICK x \in Lookup(kernel) : /\ MergeItems(sets[x].kernel, kernel) = sets[x].kernel
                                    /\ sets' = Goto(sets, sym, x)
    BY <1>6 DEF SameSet
  <2>2. UNCHANGED <<done, mustCloseMyself, closure>>
    BY <1>6 DEF SameSet, tables
  <2>3. Knows(x, itemSet, sym)
    BY <1>3, <2>1, LookupFinds DEF Knows, TablesInv, WellFormed
  <2>4. /\ Ids' = Ids /\ Fields(sets')
        /\ \A y \in Ids : SameItems(y) /\ Kept(y)
        /\ \A id \in Ids \ {itemSet} : sets'[id].go = sets[id].go
        /\ DOMAIN sets'[itemSet].go = DOMAIN sets[itemSet].go \cup {sym}
        /\ sets'[itemSet].go[sym] = x
        /\ \A y \in DOMAIN sets[itemSet].go : y # sym => sets'[itemSet].go[y] = sets[itemSet].go[y]
    BY <1>1, <2>1, GotoFields DEF PropagationInv, Ids, SameItems, Kept
  <2>5. done' \subseteq done \ {closure.of}
    BY <1>1, <2>2 DEF TablesInv, WellFormed, Owned
  <2>6. \A y \in Symbols(itemSet)' : y = sym \/ (y \in Symbols(itemSet) /\ ~Held(itemSet, y))
    BY <1>1, <1>4, <2>4
  <2>7. AllArrived'
    BY <1>1, <2>2, <2>3, <2>4, <2>5, <2>6, TransitionArrives
  <2>8. Aimed'
    BY <1>1, <2>2 DEF Aimed, NoClosure, Closing
  <2> QED
    BY <1>1, <2>2, <2>4, <2>7, <2>8 DEF PropagationInv
<1>7. CASE ChangeOther(kernel, sym)
  <2>1. PICK x \in Lookup(kernel) \ {itemSet} :
            sets' = Merge(x, kernel) /\ closure' = [of |-> x, why |-> "again", sym |-> sym]
    BY <1>7 DEF ChangeOther, Closing
  <2>2. UNCHANGED <<done, mustCloseMyself>>
    BY <1>7 DEF ChangeOther, tables
  <2>3. x \in Ids /\ SameCore(sets[x].kernel, kernel) /\ x # 0
    BY <1>1, <2>1, LookupFinds DEF TablesInv, WellFormed
  <2>4. /\ Ids' = Ids /\ Fields(sets')
        /\ \A y \in Ids : y # x => SameItems(y)
        /\ \A y \in Ids : Kept(y) /\ sets'[y].go = sets[y].go
        /\ sets'[x].kernel = MergeItems(sets[x].kernel, kernel)
    BY <2>1, <2>3, MergeFields DEF PropagationInv, Ids, SameItems, Kept
  <2>5. Aimed'
    <3>1. Moved(itemSet, sym)' = kernel
      BY <1>1, <1>3, <2>1, <2>4, MovedStays
    <3>2. Knows(x, itemSet, sym)'
      <4>1. DOMAIN sets'[x].kernel = DOMAIN kernel
        BY <2>3, <2>4 DEF MergeItems, SameCore
      <4>2. MergeItems(sets'[x].kernel, kernel) = sets'[x].kernel
        BY <2>4, MergeTwice
      <4> QED
        BY <2>3, <2>4, <3>1, <4>1, <4>2 DEF Knows, SameCore
    <3> QED
      BY <1>1, <2>1, <3>2 DEF Aimed, NoClosure, Closing
  <2>6. AllArrived'
    <3> SUFFICES ASSUME NEW id \in done \ {x}, NEW y \in Symbols(id)'
                 PROVE  Arrived(id, y)' \/ Held(id, y)'
      BY <2>1, <2>2 DEF AllArrived
    <3>1. id \in Ids /\ id # 0 /\ SameItems(id)
      BY <1>1, <2>4 DEF TablesInv, WellFormed, Owned
    <3>2. CASE id # itemSet
      BY <1>1, <2>4, <3>1, <3>2, OthersArrive
    <3>3. CASE id = itemSet /\ y # sym
      <4>1. y \in Symbols(itemSet) /\ Arrived(itemSet, y)
        BY <1>1, <1>4, <3>1, <3>3 DEF PropagationInv, AllArrived
      <4> QED
        BY <1>1, <2>4, <3>1, <3>3, <4>1, ArrivedStays DEF Arrived
    <3>4. CASE id = itemSet /\ y = sym
      BY <1>1, <2>1, <3>4 DEF Held, NoClosure, Closing
    <3> QED
      BY <3>2, <3>3, <3>4
  <2> QED
    BY <1>1, <2>2, <2>4, <2>5, <2>6 DEF PropagationInv
<1>8. CASE ChangeMyself(kernel, sym)
  <2> DEFINE S == Merge(itemSet, kernel)
  <2>1. /\ itemSet \in Lookup(kernel) /\ sets' = Goto(S, sym, itemSet)
        /\ mustCloseMyself' = TRUE /\ Reconsidered(itemSet) /\ closure' = closure
    BY <1>8 DEF ChangeMyself
  <2>2. SameCore(sets[itemSet].kernel, kernel)
    BY <2>1, LookupFinds
  <2>3. /\ DOMAIN S = Ids /\ Fields(S)
        /\ \A id \in Ids : /\ S[id].nonkernel = sets[id].nonkernel
                           /\ S[id].go = sets[id].go
                           /\ id # itemSet => S[id] = sets[id]
                           /\ id = itemSet => S[id].kernel = MergeItems(sets[id].kernel, kernel)
    BY MergeFields DEF PropagationInv
  <2> HIDE DEF S
  <2>4. /\ Ids' = Ids /\ Fields(sets')
        /\ \A id \in Ids : sets'[id].kernel = S[id].kernel /\ sets'[id].nonkernel = S[id].nonkernel
        /\ \A id \in Ids \ {itemSet} : sets'[id].go = S[id].go
    BY <2>1, <2>3, GotoFields DEF Ids
  <2>5. /\ \A y \in Ids : Kept(y)
        /\ \A y \in Ids \ {itemSet} : SameItems(y) /\ sets'[y].go = sets[y].go
    BY <2>2, <2>3, <2>4 DEF Kept, SameItems
  <2>6. done' = done \ {itemSet}
    BY <2>1 DEF Reconsidered
  <2>7. AllArrived'
    <3> SUFFICES ASSUME NEW id \in done', NEW y \in Symbols(id)' PROVE Arrived(id, y)'
      BY DEF AllArrived
    <3>1. id \in Ids /\ id \in done \ {closure.of, itemSet}
      BY <1>1, <2>6 DEF TablesInv, WellFormed, Owned
    <3> QED
      BY <1>1, <2>4, <2>5, <3>1, OthersArrive
  <2>8. Aimed'
    BY <1>1, <2>1 DEF Aimed, NoClosure, Closing
  <2> QED
    BY <1>1, <2>1, <2>4, <2>6, <2>7, <2>8 DEF PropagationInv
<1> QED
  BY <1>2, <1>5, <1>6, <1>7, <1>8

\* A step that changes no set, and what it may do otherwise.
LEMMA QuietArrives ==
  ASSUME TablesInv, PropagationInv, UNCHANGED <<g, sets, done>>,
         itemSet' = itemSet \/ itemSet' = 0,
         itemsLeft' = itemsLeft, itemSet' = itemSet \/ itemsLeft = {},
         mustCloseMyself' = mustCloseMyself,
         closure' = closure \/ (closure = NoClosure /\ closure'.of = itemSet
                                /\ itemSet \notin done /\ itemSet' = itemSet
                                /\ closure'.why = "myself"),
         itemSet' = itemSet \/ (closure = NoClosure /\ ~mustCloseMyself)
  PROVE  PropagationInv'
<1>1. Ids' = Ids /\ \A id : SameItems(id) /\ Kept(id) /\ sets'[id].go = sets[id].go
  BY DEF Ids, SameItems, Kept
<1>2. \A id, sym, x : (Knows(x, id, sym) => Knows(x, id, sym)') /\ (Arrived(id, sym) => Arrived(id, sym)')
  BY <1>1, KnowsStays DEF Arrived, Knows
<1>3. \A id : Movable(sets[id])' = Movable(sets[id]) /\ \A item : SymbolAfterDot(item)' = SymbolAfterDot(item)
  BY <1>1, SameSymbols
<1>4. \A id \in Ids : id # 0
  BY SetListShape DEF TablesInv, WellFormed, Ids
<1>5. \A id \in done : id \in Ids /\ Ahead(id)' = Ahead(id) /\ Symbols(id)' = Symbols(id)
  <2> SUFFICES ASSUME NEW id \in done
               PROVE  id \in Ids /\ Ahead(id)' = Ahead(id) /\ Symbols(id)' = Symbols(id)
    OBVIOUS
  <2>1. id \in Ids /\ id # 0
    BY <1>4 DEF TablesInv, WellFormed, Owned
  <2>2. Ahead(id)' = Ahead(id)
    BY <2>1 DEF Ahead
  <2> QED
    BY <1>3, <2>1, <2>2 DEF Symbols
<1>6. Aimed'
  <2>1. CASE closure' = closure /\ itemSet' = itemSet
    BY <1>2, <2>1 DEF PropagationInv, Aimed, NoClosure, Closing
  <2>2. CASE closure' = closure /\ closure = NoClosure
    BY <2>2 DEF PropagationInv, Aimed, NoClosure, Closing
  <2>3. CASE closure'.of = itemSet /\ itemSet \notin done /\ itemSet' = itemSet /\ closure'.why = "myself"
    BY <2>3 DEF Aimed
  <2> QED
    BY <2>1, <2>2, <2>3
<1>7. AllArrived'
  <2> SUFFICES ASSUME NEW id \in done \ {closure'.of}, NEW sym \in Symbols(id)
               PROVE  Arrived(id, sym)' \/ Held(id, sym)'
    BY <1>5 DEF AllArrived
  <2>1. id \in Ids /\ id # 0
    BY <1>4, <1>5
  <2>2. id # closure.of
    BY <2>1 DEF NoClosure, Closing
  <2>3. Arrived(id, sym) \/ Held(id, sym)
    BY <2>2 DEF PropagationInv, AllArrived
  <2>4. Held(id, sym) => closure' = closure /\ itemSet' = itemSet
    BY DEF Held
  <2> QED
    BY <1>2, <2>3, <2>4 DEF Held
<1> QED
  BY <1>6, <1>7 DEF PropagationInv

\* The end of a closure that holds up a transition.
LEMMA FinishTransitionArrives ==
  ASSUME TablesInv, PropagationInv, FinishNewSet \/ FinishChange
  PROVE  PropagationInv'
<1> DEFINE S == Closed(closure.of, work.nonkernel)
<1>1. /\ closure # NoClosure /\ closure.why \in {"new", "again"} /\ closure' = NoClosure
      /\ sets' = Goto(S, closure.sym, closure.of)
      /\ UNCHANGED <<g, itemSet, itemsLeft, mustCloseMyself>>
  BY DEF FinishNewSet, FinishChange, ClosureReady, analysis
<1>2. PICK sym, x : sym = closure.sym /\ x = closure.of
  OBVIOUS
<1>3. itemSet # 0 /\ x # itemSet /\ Knows(x, itemSet, sym) /\ itemSet \in Ids /\ 0 \notin Ids
  BY <1>1, <1>2, SetListShape DEF PropagationInv, Aimed, TablesInv, WellFormed, Ids
<1>4. /\ DOMAIN S = Ids /\ Fields(S)
      /\ \A id \in Ids : /\ S[id].kernel = sets[id].kernel
                         /\ S[id].go = sets[id].go
                         /\ id # x => S[id] = sets[id]
  BY <1>2, ClosedFields DEF PropagationInv
<1> HIDE DEF S
<1>5. /\ Ids' = Ids /\ Fields(sets')
      /\ \A id \in Ids : sets'[id].kernel = S[id].kernel /\ sets'[id].nonkernel = S[id].nonkernel
      /\ \A id \in Ids \ {itemSet} : sets'[id].go = S[id].go
      /\ DOMAIN sets'[itemSet].go = DOMAIN S[itemSet].go \cup {sym}
      /\ sets'[itemSet].go[sym] = x
      /\ \A y \in DOMAIN S[itemSet].go : y # sym => sets'[itemSet].go[y] = S[itemSet].go[y]
  BY <1>1, <1>2, <1>3, <1>4, GotoFields DEF Ids
<1>6. /\ \A y \in Ids : Kept(y)
      /\ \A id \in Ids \ {x} : SameItems(id)
      /\ \A id \in Ids \ {itemSet} : sets'[id].go = sets[id].go
      /\ DOMAIN sets'[itemSet].go = DOMAIN sets[itemSet].go \cup {sym}
      /\ \A y \in DOMAIN sets[itemSet].go : y # sym => sets'[itemSet].go[y] = sets[itemSet].go[y]
  BY <1>3, <1>4, <1>5 DEF Kept, SameItems
<1>7. done' \subseteq done \ {x}
  <2>1. CASE FinishNewSet
    <3>1. done' = done /\ Fresh(x) /\ x \in Ids
      BY <1>2, <1>3, <2>1 DEF FinishNewSet, ClosureReady, Fresh, Knows
    <3> QED
      BY <3>1 DEF TablesInv, WellFormed, Owned
  <2>2. CASE FinishChange
    BY <1>2, <2>2 DEF FinishChange, Reconsidered
  <2> QED
    BY <2>1, <2>2
<1>8. \A y \in Symbols(itemSet)' : y = sym \/ (y \in Symbols(itemSet) /\ ~Held(itemSet, y))
  <2>1. SameItems(itemSet) /\ Ahead(itemSet)' = Ahead(itemSet)
    BY <1>1, <1>3, <1>6 DEF Ahead
  <2>2. Symbols(itemSet)' = Symbols(itemSet)
    BY <1>1, <2>1, SameSymbols DEF Symbols
  <2> QED
    BY <1>2, <2>2 DEF Held
<1>9. AllArrived'
  <2>1. closure.of # itemSet /\ closure'.of # itemSet
    BY <1>1, <1>2, <1>3 DEF NoClosure, Closing
  <2>2. \A id \in Ids \ {closure.of, closure'.of} : SameItems(id)
    BY <1>2, <1>6
  <2>3. done' \subseteq done \ {closure.of}
    BY <1>2, <1>7
  <2> QED
    BY <1>1, <1>3, <1>5, <1>6, <1>8, <2>1, <2>2, <2>3, TransitionArrives
<1>10. Aimed'
  BY <1>1 DEF Aimed, NoClosure, Closing
<1> QED
  BY <1>1, <1>5, <1>7, <1>9, <1>10 DEF PropagationInv

\* The end of the first closure and of the one that was put off: no done set is concerned.
LEMMA FinishAloneArrives ==
  ASSUME TablesInv, PropagationInv, FinishStart \/ FinishMyself
  PROVE  PropagationInv'
<1>1. /\ closure' = NoClosure /\ sets' = Closed(closure.of, work.nonkernel)
      /\ UNCHANGED <<g, done, mustCloseMyself, itemsLeft>>
      /\ \/ closure.why = "start" /\ itemSet' = itemSet
         \/ closure.why = "myself" /\ itemSet' = 0
  BY DEF FinishStart, FinishMyself, ClosureReady, analysis, tables
<1>2. /\ Ids' = Ids /\ Fields(sets')
      /\ \A id \in Ids : Kept(id) /\ sets'[id].go = sets[id].go
      /\ \A id \in Ids : id # closure.of => SameItems(id)
  BY <1>1, ClosedFields DEF PropagationInv, Ids, Kept, SameItems
<1>3. \A id \in done : id \in Ids /\ id # 0 /\ closure.why = "myself" /\ id # closure.of /\ id # itemSet
  BY <1>1, SetListShape DEF PropagationInv, Aimed, TablesInv, WellFormed, Owned, Ids
<1>4. AllArrived'
  <2> SUFFICES ASSUME NEW id \in done, NEW sym \in Symbols(id)' PROVE Arrived(id, sym)'
    BY <1>1 DEF AllArrived
  <2> QED
    BY <1>1, <1>2, <1>3, OthersArrive
<1>5. Aimed'
  BY <1>1 DEF Aimed, NoClosure, Closing
<1>6. mustCloseMyself => itemSet' \notin done
  BY <1>1, <1>3
<1> QED
  BY <1>1, <1>2, <1>4, <1>5, <1>6 DEF PropagationInv

\* A pending set is to be processed: all of its items are ahead.
LEMMA ProcessArrives ==
  ASSUME TablesInv, PropagationInv, ProcessSet
  PROVE  PropagationInv'
<1>1. /\ closure = NoClosure /\ closure' = closure /\ itemSet = 0 /\ UNCHANGED <<g, sets>>
      /\ done' = done \cup {itemSet'} /\ itemsLeft' = Movable(sets[itemSet']) /\ mustCloseMyself' = FALSE
  BY DEF ProcessSet, analysis
<1>2. Ids' = Ids /\ \A id : SameItems(id) /\ Kept(id) /\ sets'[id].go = sets[id].go
  BY <1>1 DEF Ids, SameItems, Kept
<1>3. ASSUME NEW id, id = itemSet' PROVE Symbols(id)' = {}
  <2>1. Movable(sets[id])' = Movable(sets[id])
    BY <1>1, <1>2, SameSymbols
  <2>2. Ahead(id)' = Movable(sets[id])
    BY <1>1, <1>3 DEF Ahead
  <2> QED
    BY <2>1, <2>2 DEF Symbols
<1>4. AllArrived'
  <2> SUFFICES ASSUME NEW id \in done', NEW sym \in Symbols(id)' PROVE Arrived(id, sym)'
    BY DEF AllArrived
  <2>1. id # itemSet'
    BY <1>3
  <2>2. id \in done /\ id # 0
    BY <1>1, <2>1, SetListShape DEF TablesInv, WellFormed, Owned, Ids
  <2> QED
    BY <1>1, <1>2, <2>2, OthersArrive DEF NoClosure, Closing
<1>5. Aimed'
  BY <1>1 DEF Aimed, NoClosure, Closing
<1> QED
  BY <1>1, <1>4, <1>5 DEF PropagationInv

LEMMA InitPropagation == Init => PropagationInv
<1> SUFFICES ASSUME Init
             PROVE  PropagationInv
  OBVIOUS
<1>1. /\ sets = <<[kernel |-> StartKernel, nonkernel |-> <<>>, go |-> <<>>]>>
      /\ closure = [of |-> 1, why |-> "start", sym |-> 0]
      /\ done = {} /\ mustCloseMyself = FALSE
  BY DEF Init, Closing
<1>2. Fields(sets)
  BY <1>1 DEF Fields
<1> QED
  BY <1>1, <1>2 DEF PropagationInv, Aimed, AllArrived

LEMMA NextPropagation == TablesInv /\ PropagationInv /\ [Next]_vars => PropagationInv'
<1> SUFFICES ASSUME TablesInv, PropagationInv, [Next]_vars
             PROVE  PropagationInv'
  OBVIOUS
<1>1. CASE CloseKernelItem \/ CloseWorklistItem \/ UNCHANGED vars
  <2>1. UNCHANGED <<g, sets, done, itemSet, itemsLeft, mustCloseMyself, closure>>
    BY <1>1 DEF CloseKernelItem, CloseWorklistItem, analysis, tables, loop, vars
  <2> QED
    BY <2>1, QuietArrives
<1>2. CASE CloseMyself
  <2>1. /\ UNCHANGED <<g, sets, done, itemSet, itemsLeft, mustCloseMyself>>
        /\ closure = NoClosure /\ mustCloseMyself
        /\ closure' = [of |-> itemSet, why |-> "myself", sym |-> 0]
    BY <1>2 DEF CloseMyself, Closing, analysis, tables, loop
  <2>2. itemSet \notin done /\ closure'.of = itemSet /\ closure'.why = "myself"
    BY <2>1 DEF PropagationInv
  <2> QED
    BY <2>1, <2>2, QuietArrives
<1>3. CASE FinishSet
  <2>1. /\ UNCHANGED <<g, sets, done, itemsLeft, mustCloseMyself, closure>>
        /\ closure = NoClosure /\ itemSet' = 0 /\ itemsLeft = {} /\ ~mustCloseMyself
    BY <1>3 DEF FinishSet, analysis, tables
  <2> QED
    BY <2>1, QuietArrives
<1> QED
  BY <1>1, <1>2, <1>3, ConsiderArrives, ProcessArrives, FinishTransitionArrives,
     FinishAloneArrives DEF Next

\* For every grammar, a set that counts as done has told its successors all that it
\* knows, although its lookaheads grow while it is being iterated, sets that it leads to
\* grow by other ways, and the closure of the set itself is put off (gramanl.cc:2397).
THEOREM DoneMeansPropagated == Spec => []DoneIsPropagated
<1>1. TablesInv /\ PropagationInv => DoneIsPropagated
  <2> SUFFICES ASSUME TablesInv, PropagationInv, NEW id \in done \ {closure.of},
                      NEW item \in Movable(sets[id]) \ Ahead(id)
               PROVE  Propagated(id, item) \/ Held(id, SymbolAfterDot(item))
    BY DEF DoneIsPropagated, Ahead, Held
  <2>1. SymbolAfterDot(item) \in Symbols(id)
    BY DEF Symbols
  <2>2. Arrived(id, SymbolAfterDot(item)) \/ Held(id, SymbolAfterDot(item))
    BY <2>1 DEF PropagationInv, AllArrived
  <2> QED
    BY <2>2 DEF Propagated, Arrived, Knows, Moved
<1> QED
  BY <1>1, TablesAlways, InitPropagation, NextPropagation, PTL DEF Spec
=============================================================================
