----------------------------- MODULE LRItemSets -----------------------------
(***************************************************************************)
(* GrammarAnalysis::constructLRItemSets (elkhound/gramanl.cc) with the     *)
(* closure it calls: the worklist that builds the LALR(1) states.  A set   *)
(* is known by its core, the kernel items without their lookaheads.  When  *)
(* a transition leads to a core that exists already, its lookaheads grow,  *)
(* it is closed again and it goes back to the pending sets, if it had left *)
(* them.  The set whose items are being iterated may itself be that set.   *)
(*                                                                         *)
(* A step of the model is one item of the iteration, or one item of a      *)
(* closure.  A set is the record of its kernel and nonkernel items with    *)
(* their lookaheads and its transitions.  The order in which a closure     *)
(* leaves the nonkernel items is that of a hash table: any.                *)
(***************************************************************************)
EXTENDS LRItems

CONSTANT Analyses   \* the grammars, each with its First sets: [grammar, facts]

VARIABLES
    g, f,           \* the grammar, and what the closure asks of it
    sets,           \* the item sets, in the order of their ids
    pending,        \* itemSetsPending, a stack: those yet to be processed
    done,           \* itemSetsDone
    itemSet,        \* the set that is being processed, 0 if none
    itemsLeft,      \* its items that are still to be considered
    mustCloseMyself,
    closure,        \* the closure under way, or NoClosure: of which set and why
    work            \* how far it has come

analysis == <<g, f>>
tables   == <<pending, done>>
loop     == <<itemSet, itemsLeft, mustCloseMyself>>
vars     == <<analysis, sets, tables, loop, closure, work>>

Ids == DOMAIN sets

Items(s) == s.kernel @@ s.nonkernel

Movable(s) == {i \in DOMAIN Items(s) : ~DotAtEnd(g, i)}

SymbolAfterDot(item) == Head(AfterDot(g, item))

\* Why a set is closed, and the symbol whose transition waits for that, if any does
Closing(id, why, sym) == [of |-> id, why |-> why, sym |-> sym]
NoClosure == Closing(0, "none", 0)

-----------------------------------------------------------------------------
\* itemSetClosure, at its beginning: the nonkernel items there are count as
\* finished, and the kernel items are closed first
WorkOn(s) == [kernelLeft |-> DOMAIN s.kernel, worklist |-> <<>>, nonkernel |-> s.nonkernel]

\* (variation: an item that has left the worklist does not get back on it)
Requeued_newItemsOnly(c, old, item) ==
    IF item \notin DOMAIN old THEN Append(c.worklist, item) ELSE c.worklist

\* the worklist, when the lookahead of an item has changed or the item is new
Requeued(c, old, item) ==
    IF item \in ToSet(c.worklist) THEN c.worklist ELSE Append(c.worklist, item)

\* the lookahead of the item that is being closed, as it is by now
LookaheadNow(c, kernel, item) ==
    IF item \in DOMAIN kernel THEN kernel[item] ELSE c.nonkernel[item]

\* singleItemClosure for one production of the nonterminal after the dot
BringIn(c, kernel, item, p) ==
    LET new == [i \in {<<p, 0>>} |->
                   ItemsBroughtIn(g, f, item, LookaheadNow(c, kernel, item))[i]]
        all == MergeItems(c.nonkernel, new)
    IN  IF all = c.nonkernel THEN c
        ELSE [c EXCEPT !.nonkernel = all, !.worklist = Requeued(c, c.nonkernel, <<p, 0>>)]

\* singleItemClosure
CloseItem(c, kernel, item) ==
    IF DotAtEnd(g, item) THEN c
    ELSE FoldLeft(LAMBDA d, p : BringIn(d, kernel, item, p), c,
                  Ascending(ProdsOf(g, SymbolAfterDot(item))))

\* the order in which kernel items are sorted (LRItem::diff)
FirstOf(items) ==
    CHOOSE i \in items : \A j \in items : i[1] < j[1] \/ (i[1] = j[1] /\ i[2] <= j[2])

CloseKernelItem ==
    /\ closure # NoClosure
    /\ work.kernelLeft # {}
    /\ LET item == FirstOf(work.kernelLeft)
       IN  work' = CloseItem([work EXCEPT !.kernelLeft = @ \ {item}],
                             sets[closure.of].kernel, item)
    /\ UNCHANGED <<analysis, sets, tables, loop, closure>>

CloseWorklistItem ==
    /\ closure # NoClosure
    /\ work.kernelLeft = {}
    /\ work.worklist # <<>>
    /\ work' = CloseItem([work EXCEPT !.worklist = Front(@)],
                         sets[closure.of].kernel, Last(work.worklist))
    /\ UNCHANGED <<analysis, sets, tables, loop, closure>>

-----------------------------------------------------------------------------
\* (variation: a set that had left the pending sets stays where it is)
Reconsidered_pendingOnly(id) == pending' = pending /\ done' = done

\* (variation: a set goes back to the pending sets and stays among those done)
Reconsidered_inBoth(id) ==
    /\ pending' = IF id \in done THEN Append(pending, id) ELSE pending
    /\ done' = done

\* the set 'id' goes back to the pending sets if it had left them
Reconsidered(id) ==
    /\ pending' = IF id \in done THEN Append(pending, id) ELSE pending
    /\ done' = done \ {id}

\* setTransition, from the set being processed
With(go, sym, id) == [s \in DOMAIN go \cup {sym} |-> IF s = sym THEN id ELSE go[s]]
Goto(S, sym, id) == [S EXCEPT ![itemSet].go = With(@, sym, id)]

Closed(id, nonkernel) == [sets EXCEPT ![id].nonkernel = nonkernel]

\* the end of itemSetClosure
ClosureReady ==
    /\ closure # NoClosure
    /\ work.kernelLeft = {}
    /\ work.worklist = <<>>
    /\ closure' = NoClosure
    /\ UNCHANGED <<analysis, itemsLeft, mustCloseMyself, work>>

\* the first set is pending
FinishStart ==
    /\ ClosureReady
    /\ closure.why = "start"
    /\ sets' = Closed(closure.of, work.nonkernel)
    /\ pending' = Append(pending, closure.of)
    /\ UNCHANGED <<done, itemSet>>

\* a new set is pending, and the transition to it is made
FinishNewSet ==
    /\ ClosureReady
    /\ closure.why = "new"
    /\ sets' = Goto(Closed(closure.of, work.nonkernel), closure.sym, closure.of)
    /\ pending' = Append(pending, closure.of)
    /\ UNCHANGED <<done, itemSet>>

\* a set that has changed is to be processed, and the transition to it is made
FinishChange ==
    /\ ClosureReady
    /\ closure.why = "again"
    /\ sets' = Goto(Closed(closure.of, work.nonkernel), closure.sym, closure.of)
    /\ Reconsidered(closure.of)
    /\ UNCHANGED itemSet

\* the end of the postponed closure, and of the processing of the set
FinishMyself ==
    /\ ClosureReady
    /\ closure.why = "myself"
    /\ sets' = Closed(closure.of, work.nonkernel)
    /\ itemSet' = 0
    /\ UNCHANGED tables

-----------------------------------------------------------------------------
\* the next pending set: done with, until somebody finds it and changes it
ProcessSet ==
    /\ closure = NoClosure
    /\ itemSet = 0
    /\ pending # <<>>
    /\ itemSet' = Last(pending)
    /\ pending' = Front(pending)
    /\ done' = done \cup {itemSet'}
    /\ itemsLeft' = Movable(sets[itemSet'])
    /\ mustCloseMyself' = FALSE
    /\ UNCHANGED <<analysis, sets, closure, work>>

SameCore(I, J) == DOMAIN I = DOMAIN J

\* (variation: only the pending sets are searched)
Lookup_pendingOnly(kernel) == {id \in ToSet(pending) : SameCore(sets[id].kernel, kernel)}

\* the set with this core: looked for among the pending ones, then those done
Lookup(kernel) ==
    LET waiting == {id \in ToSet(pending) : SameCore(sets[id].kernel, kernel)}
    IN  IF waiting # {} THEN waiting
        ELSE {id \in done : SameCore(sets[id].kernel, kernel)}

\* the core is new: a set is made, closed, and then it will be pending
NewSet(kernel, sym) ==
    LET set == [kernel |-> kernel, nonkernel |-> <<>>, go |-> <<>>]
    IN  /\ Lookup(kernel) = {}
        /\ sets' = Append(sets, set)
        /\ closure' = Closing(Len(sets) + 1, "new", sym)
        /\ work' = WorkOn(set)
        /\ UNCHANGED <<tables, mustCloseMyself>>

\* (variation: lookaheads are not compared, as for LR(0))
SameSet_anyLookaheads(kernel, sym) ==
    \E id \in Lookup(kernel) :
        /\ sets' = Goto(sets, sym, id)
        /\ UNCHANGED <<tables, mustCloseMyself, closure, work>>

\* the set is there, and no lookahead is new to it
SameSet(kernel, sym) ==
    \E id \in Lookup(kernel) :
        /\ MergeItems(sets[id].kernel, kernel) = sets[id].kernel
        /\ sets' = Goto(sets, sym, id)
        /\ UNCHANGED <<tables, mustCloseMyself, closure, work>>

Merge(id, kernel) == [sets EXCEPT ![id].kernel = MergeItems(@, kernel)]

\* (variation: every merge counts as a change)
ChangeOther_always(kernel, sym) ==
    \E id \in Lookup(kernel) \ {itemSet} :
        /\ sets' = Merge(id, kernel)
        /\ closure' = Closing(id, "again", sym)
        /\ work' = WorkOn(sets'[id])
        /\ UNCHANGED <<tables, mustCloseMyself>>

\* mergeLookaheadsInto changes another set, which is closed again at once
ChangeOther(kernel, sym) ==
    \E id \in Lookup(kernel) \ {itemSet} :
        /\ sets' = Merge(id, kernel)
        /\ sets' # sets
        /\ closure' = Closing(id, "again", sym)
        /\ work' = WorkOn(sets'[id])
        /\ UNCHANGED <<tables, mustCloseMyself>>

\* it changes the very set whose items are being iterated: a closure would pull
\* them from under the iteration, and is put off to its end
ChangeMyself(kernel, sym) ==
    /\ itemSet \in Lookup(kernel)
    /\ Merge(itemSet, kernel) # sets
    /\ sets' = Goto(Merge(itemSet, kernel), sym, itemSet)
    /\ mustCloseMyself' = TRUE
    /\ Reconsidered(itemSet)
    /\ UNCHANGED <<closure, work>>

\* the kernel items come first, in their order; nonkernel items come in any order
NextItems ==
    LET kernel == itemsLeft \cap DOMAIN sets[itemSet].kernel
    IN  IF kernel # {} THEN {FirstOf(kernel)} ELSE itemsLeft

\* one item whose dot is not at the end: where does its symbol lead to?
ConsiderItem ==
    /\ closure = NoClosure
    /\ itemSet # 0
    /\ \E item \in NextItems :
          LET sym    == SymbolAfterDot(item)
              kernel == MoveDot(g, Items(sets[itemSet]), sym)
          IN  /\ itemsLeft' = itemsLeft \ {item}
              /\ \/ NewSet(kernel, sym)
                 \/ SameSet(kernel, sym)
                 \/ ChangeOther(kernel, sym)
                 \/ ChangeMyself(kernel, sym)
    /\ UNCHANGED <<analysis, itemSet>>

\* the end of the iteration, with the closure that was put off
CloseMyself ==
    /\ closure = NoClosure
    /\ itemSet # 0
    /\ itemsLeft = {}
    /\ mustCloseMyself
    /\ closure' = Closing(itemSet, "myself", 0)
    /\ work' = WorkOn(sets[itemSet])
    /\ UNCHANGED <<analysis, sets, tables, loop>>

FinishSet ==
    /\ closure = NoClosure
    /\ itemSet # 0
    /\ itemsLeft = {}
    /\ ~mustCloseMyself
    /\ itemSet' = 0
    /\ UNCHANGED <<analysis, sets, tables, itemsLeft, mustCloseMyself, closure, work>>

-----------------------------------------------------------------------------
Init ==
    /\ \E a \in Analyses : g = a.grammar /\ f = a.facts
    /\ LET start == [kernel |-> StartKernel, nonkernel |-> <<>>, go |-> <<>>]
       IN  sets = <<start>> /\ work = WorkOn(start)
    /\ closure = Closing(1, "start", 0)
    /\ pending = <<>>
    /\ done = {}
    /\ itemSet = 0
    /\ itemsLeft = {}
    /\ mustCloseMyself = FALSE

Next ==
    \/ ProcessSet
    \/ ConsiderItem
    \/ CloseMyself
    \/ FinishSet
    \/ CloseKernelItem
    \/ CloseWorklistItem
    \/ FinishStart
    \/ FinishNewSet
    \/ FinishChange
    \/ FinishMyself

\* One thread runs the loops to their end
Spec == Init /\ [][Next]_vars /\ WF_vars(Next)

Finished == closure = NoClosure /\ itemSet = 0 /\ pending = <<>>

-----------------------------------------------------------------------------

\* Every set is owned by exactly one of the two tables, once, except for one that
\* has just been made: what OwnerKHashArray and OwnerKHashTable would delete twice
\* or leak otherwise.
OneOwner ==
    /\ IsInjective(pending)
    /\ ToSet(pending) \cap done = {}
    /\ \A id \in Ids : \/ id \in ToSet(pending) \cup done
                       \/ id = closure.of /\ closure.why \in {"start", "new"}

\* The states are known by their cores: no two sets have the same.
UniqueCores ==
    \A i, j \in Ids : SameCore(sets[i].kernel, sets[j].kernel) => i = j

\* The transition for this item is there, and the set that it leads to has the
\* core and at least the lookaheads that it should have.
Propagated(id, item) ==
    LET s     == sets[id]
        sym   == SymbolAfterDot(item)
        moved == MoveDot(g, Items(s), sym)
    IN  /\ sym \in DOMAIN s.go
        /\ SameCore(sets[s.go[sym]].kernel, moved)
        /\ MergeItems(sets[s.go[sym]].kernel, moved) = sets[s.go[sym]].kernel

\* A set that counts as done is: what it knows has reached all its successors.  A
\* set whose lookaheads grew later on is no longer among them, unless it is just
\* being closed; of the set being processed, this is so for the items behind.
DoneIsPropagated ==
    \A id \in done \ {closure.of} :
        \A item \in Movable(sets[id]) \ (IF id = itemSet THEN itemsLeft ELSE {}) :
            \/ Propagated(id, item)
            \/ id = itemSet /\ closure # NoClosure /\ closure.sym = SymbolAfterDot(item)

\* The construction comes to an end, although sets return to the pending ones.
Terminates == <>Finished
=============================================================================
