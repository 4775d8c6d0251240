-------------------------- MODULE TableConstruction --------------------------
(***************************************************************************)
(* GrammarAnalysis::renumberStates and computeParseTables                  *)
(* (elkhound/gramanl.cc): the states are put in order; the actions of each *)
(* cell of the automaton go through the resolution of conflicts and what   *)
(* is left is encoded; then rows and columns are merged, each time by a    *)
(* coloring of the graph of those that may not share storage.              *)
(*                                                                         *)
(* resolveConflicts and colorTheGraph can also be started alone ("cell",   *)
(* "graph"), on inputs that no small automaton leads to.                   *)
(***************************************************************************)
EXTENDS ParseTables

CONSTANTS
    Inputs,      \* <<an automaton with all its conflicts, a Grammar, configurations>>
    NoNT, Cells, Graphs

VARIABLES raw, grammar,          \* the input; only renumberStates changes raw
    \* of ConflictResolution; resolving is its pc, or "idle" between cells
    cell, superset, shift, reductions, actions, dontWarns, pos, super, map, errors, sr, rr, resolving,
    \* of GraphColoring; coloring is its pc, or "idle" between merges
    graph, color, blocked, usedColors, best, adjColor, j, selColor, coloring

Resolution == INSTANCE ConflictResolution
                WITH Prods <- Nat, NT <- Nonterm, pc <- resolving
Coloring == INSTANCE GraphColoring WITH pc <- coloring

input  == <<raw, grammar>>
crVars == <<cell, superset, shift, reductions, actions, dontWarns, pos, super, map, errors, sr, rr,
            resolving>>
gcVars == <<graph, color, blocked, usedColors, best, adjColor, j, selColor, coloring>>
allVars == <<vars, input, crVars, gcVars>>

\* the declarations of a grammar, maximal nonterminals left out: Production::precedence
\* and left, Terminal::precedence and associativity, Nonterminal::subsets
Grammar == [prec : [Nat -> Nat], left : [Nat -> Nonterm], symPrec : [Term -> Nat],
            assoc : [Term -> Resolution!AssocKind], subsets : [Nonterm -> SUBSET Nonterm],
            allowAmbig : BOOLEAN]

\* what resolveConflicts is called with
CellAt(st, k) ==
    [prec |-> grammar.prec, left |-> grammar.left, reductions |-> raw.reduce[st][k],
     shift |-> raw.shift[st][k] # STATE_INVALID,
     symPrec |-> grammar.symPrec[k], assoc |-> grammar.assoc[k], subsets |-> grammar.subsets,
     maximal |-> {}, extending |-> {}, allowAmbig |-> grammar.allowAmbig]

NoCell == CHOOSE c \in Cells : TRUE

IdleResolution ==
    /\ cell = NoCell /\ superset = [n \in Nonterm |-> NoNT] /\ shift = FALSE /\ reductions = <<>>
    /\ actions = 0 /\ dontWarns = 0 /\ pos = 1 /\ super = NoNT /\ map = {}
    /\ errors = 0 /\ sr = 0 /\ rr = 0 /\ resolving = "idle"
IdleColoring ==
    /\ graph = [n |-> 0, edges |-> {}] /\ color = <<>> /\ blocked = <<>> /\ usedColors = 0
    /\ best = UNASSIGNED /\ adjColor = <<>> /\ j = 1 /\ selColor = 0 /\ coloring = "idle"

AnyInput == CHOOSE i \in Inputs : Cardinality(i[3]) = 1

Empty(a) == [a EXCEPT !.shift = [st \in State |-> [k \in Term |-> STATE_INVALID]],
                      !.reduce = [st \in State |-> [k \in Term |-> <<>>]]]

\* lr gets the actions of each cell as they are resolved
Init ==
    /\ \/ /\ \E i \in Inputs : raw = i[1] /\ grammar = i[2] /\ config \in i[3]
          /\ pc = "states" /\ IdleResolution /\ IdleColoring
       \/ /\ raw = AnyInput[1] /\ grammar = AnyInput[2] /\ config \in AnyInput[3]
          /\ \/ pc = "cell" /\ Resolution!Init /\ IdleColoring
             \/ pc = "graph" /\ IdleResolution /\ Coloring!Init
    /\ lr = Empty(raw)
    /\ Alloc

-----------------------------------------------------------------------------
(* The numbers of the states *)

\* reductions are compared sorted by arbitraryProductionOrder: by left side, then by
\* right side, for which their place in the file stands here
Before(p, q) == grammar.left[p] < grammar.left[q] \/ (grammar.left[p] = grammar.left[q] /\ p < q)
InOrder(prods) == FlattenSeq([i \in DOMAIN prods |->
                     LET p == SetToSortSeq(ToSet(prods), Before)[i] IN <<grammar.left[p], p>>])

\* what renumberStatesDiff compares, from left to right: the symbol, the destinations
\* over each terminal and nonterminal, none being last, and the reductions over each
\* terminal, shorter lists first
Destination(to) == IF to = STATE_INVALID THEN NumStates ELSE to
Key(st) ==
    <<SymbolRank(raw.stateSymbol[st])>>
        \o [k \in 1..NumTerms |-> Destination(raw.shift[st][k - 1])]
        \o [n \in 1..NumNonterms |-> Destination(raw.goto[st][n - 1])]
        \o FlattenSeq([k \in 1..NumTerms |-> Append(InOrder(raw.reduce[st][k - 1]), -1)])

LexLess(a, b) ==
    \E i \in 1..Len(b) : /\ \A k \in 1..(i - 1) : k <= Len(a) /\ a[k] = b[k]
                         /\ i <= Len(a) => a[i] < b[i]
StateBefore(a, b) == LexLess(Key(a), Key(b))

\* the automaton with state order[i] as state i
Renumbered(a, order) ==
    LET id(to) == IF to = STATE_INVALID THEN to ELSE CHOOSE i \in State : order[i] = to
    IN  [shift |-> [st \in State |-> [k \in Term |-> id(a.shift[order[st]][k])]],
         reduce |-> [st \in State |-> a.reduce[order[st]]],
         goto |-> [st \in State |-> [n \in Nonterm |-> id(a.goto[order[st]][n])]],
         stateSymbol |-> [st \in State |-> a.stateSymbol[order[st]]],
         prodInfo |-> a.prodInfo]

\* the sort is not stable: states that compare equal come in either order.  The start
\* state must be the first
RenumberStates ==
    /\ pc = "states"
    /\ \E order \in Bijection(State, State) :
          /\ \A a, b \in State : a < b => ~StateBefore(order[b], order[a])
          /\ IF order[0] = 0
             THEN raw' = Renumbered(raw, order) /\ pc' = "firsts"
             ELSE UNCHANGED raw /\ pc' = "failure"
    /\ lr' = Empty(raw')
    /\ UNCHANGED <<config, firsts, lists, actionTable, gotoTable, maps, s, t, grammar, crVars, gcVars>>

-----------------------------------------------------------------------------
(* One cell *)

\* the call; conflicts are counted from cell to cell
ResolveCell ==
    /\ pc = "cells" /\ resolving = "idle"
    /\ LET c == CellAt(s, t) IN
       /\ cell' = c
       /\ shift' = c.shift /\ reductions' = c.reductions
       /\ actions' = Resolution!B2N(c.shift) + Len(c.reductions)
    /\ superset' = [n \in Nonterm |-> NoNT]
    /\ dontWarns' = 0 /\ pos' = 1 /\ super' = NoNT /\ map' = {} /\ errors' = 0
    /\ sr' = 0 /\ rr' = 0
    /\ resolving' = "supersets"
    /\ UNCHANGED <<vars, input, gcVars>>

ResolutionStep ==
    /\ resolving # "idle" /\ Resolution!Next
    /\ UNCHANGED <<vars, input, gcVars>>

\* (variation: the shift is encoded whether or not it was removed)
LeftShift_raw == raw.shift[s][t]
LeftShift == IF shift THEN raw.shift[s][t] ELSE STATE_INVALID

EncodeCell ==
    /\ resolving = "done" /\ FillCell(LeftShift, reductions)
    /\ cell' = NoCell /\ superset' = [n \in Nonterm |-> NoNT] /\ shift' = FALSE /\ reductions' = <<>>
    /\ actions' = 0 /\ dontWarns' = 0 /\ pos' = 1 /\ super' = NoNT /\ map' = {}
    /\ errors' = 0 /\ sr' = 0 /\ rr' = 0 /\ resolving' = "idle"
    /\ UNCHANGED <<input, gcVars>>

-----------------------------------------------------------------------------
(* One merge *)

GraphOf == CASE pc = "actionColumns" -> ActionColumns
             [] pc = "actionRows"    -> ActionRows
             [] pc = "gotoColumns"   -> GotoColumns
             [] pc = "gotoRows"      -> GotoRows

Color ==
    /\ pc \in {"actionColumns", "actionRows", "gotoColumns", "gotoRows"} /\ coloring = "idle"
    /\ graph' = GraphOf
    /\ color' = [n \in 0..(graph'.n - 1) |-> UNASSIGNED]
    /\ blocked' = [n \in 0..(graph'.n - 1) |-> 0]
    /\ usedColors' = 0 /\ best' = UNASSIGNED /\ adjColor' = <<>> /\ j' = 1 /\ selColor' = 0
    /\ coloring' = "choose"
    /\ UNCHANGED <<vars, input, crVars>>

ColoringStep ==
    /\ coloring # "idle" /\ Coloring!Next
    /\ UNCHANGED <<vars, input, crVars>>

Merge ==
    /\ coloring = "done"
    /\ \/ MergeActionColumns(color)
       \/ MergeActionRows(color)
       \/ MergeGotoColumns(color)
       \/ MergeGotoRows(color)
    /\ graph' = [n |-> 0, edges |-> {}] /\ color' = <<>> /\ blocked' = <<>> /\ usedColors' = 0
    /\ UNCHANGED <<best, adjColor, j, selColor>> /\ coloring' = "idle"
    /\ UNCHANGED <<input, crVars>>

TableStep ==
    /\ FirstStates \/ FillGotos \/ SetProdInfo \/ ComputeErrorBits \/ EmitConstructionCode
    /\ UNCHANGED <<input, crVars, gcVars>>

Finished == pc \in {"emitted", "failure"} /\ UNCHANGED allVars

Next == RenumberStates \/ ResolveCell \/ ResolutionStep \/ EncodeCell \/ Color \/ ColoringStep
        \/ Merge \/ TableStep \/ Finished

Spec == Init /\ [][Next]_allVars

-----------------------------------------------------------------------------
\* The count the warnings and the conflict statistics are computed from is the
\* number of actions that are left, through every removal by every directive.
ActionsExact == resolving # "idle" => Resolution!ActionsExact

\* What a cell keeps is a function of the declarations: neither the order in which
\* the reductions were looked at, nor whether the shift was dropped before a reduction
\* could lose to it, makes a difference, where no 'maximal' applies, the token is not
\* nonassociative at a reduction's own level and no nonterminal is a subset of itself.
OrderIndependent == resolving # "idle" => Resolution!OrderIndependent

\* A cell with actions becomes an error entry only because the user asked for it.
NoSilentError == resolving # "idle" => Resolution!NoSilentError

\* Nodes that conflict never have the same color.
Proper == coloring # "idle" => Coloring!Proper

\* The color a node gets is the lowest that none of its neighbors has.
LowestFree == coloring # "idle" => Coloring!LowestFree

\* the members of list that are in S, in their order
Only(list, S) ==
    LET left[i \in 0..Len(list)] ==
          IF i = 0 THEN <<>>
          ELSE IF list[i] \in S THEN Append(left[i - 1], list[i]) ELSE left[i - 1]
    IN  left[Len(list)]

\* what the declarations say of the conflict c
Declared(c) == INSTANCE ConflictResolution
                 WITH Prods <- Nat, NT <- Nonterm, pc <- resolving, cell <- c,
                      superset <- [n \in Nonterm |-> NoNT]

\* ... and of a cell of the automaton: the state it shifts to and the productions it
\* reduces by.  Without allowAmbig that is one action, the shift or the production
\* that comes first in the grammar file
IsDeclaredAt(st, k)    == Declared(CellAt(st, k))!IsDeclared
DeclaredShiftAt(st, k) == Declared(CellAt(st, k))!DeclaredShift
DeclaredAt(st, k)      == Declared(CellAt(st, k))!Declared
ShiftLeft(st, k) == IF DeclaredShiftAt(st, k) THEN raw.shift[st][k] ELSE STATE_INVALID
LeftAt(st, k) ==
    IF grammar.allowAmbig THEN DeclaredAt(st, k)
    ELSE IF DeclaredShiftAt(st, k) THEN {}
    ELSE {p \in DeclaredAt(st, k) : \A q \in DeclaredAt(st, k) : p <= q}

\* Read through all encodings and merges, a finished or emitted table has in each cell
\* the actions that the grammar's declarations leave of the automaton's: the shift
\* first, then the reductions in item order.
TablesAsDeclared ==
    Ready => \A st \in State, k \in Term :
        IsDeclaredAt(st, k) =>
            Decoded(st, k) = ActionsOf(ShiftLeft(st, k), Only(raw.reduce[st][k], LeftAt(st, k)))
=============================================================================
