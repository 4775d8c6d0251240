----------------------------- MODULE ParseTables -----------------------------
(***************************************************************************)
(* How GrammarAnalysis::computeParseTables encodes the actions of an LR    *)
(* automaton into the cells of ParseTables (elkhound/parsetables.cc), how  *)
(* the tables are compressed, emitted as a program, and read by the        *)
(* parser.  The widths of the entries are parameters; an entry that does   *)
(* not fit fails an assertion ("failure"), or is truncated where the code  *)
(* has none.                                                               *)
(*                                                                         *)
(*   CRS  code reduction: indices relative to the state or the symbol      *)
(*   EEF  error entries factored into a bitmap                             *)
(*   GCS  rows, and with GCSC columns, merged by graph coloring            *)
(***************************************************************************)
EXTENDS Integers, Sequences, SequencesExt, FiniteSets

CONSTANTS
    NumStates, NumTerms, NumNonterms,
    Configs     \* build configurations: see Config

State   == 0..(NumStates - 1)
Term    == 0..(NumTerms - 1)
Nonterm == 0..(NumNonterms - 1)
UNASSIGNED == -1
STATE_INVALID == -1

\* maxIndex is AE_MAXINDEX; actionMax and gotoMax bound ActionEntry and GotoEntry
\* (errorGotoEntry is gotoMax), prodMax ProdIndex, lenMax ProdInfo::rhsLen, termMax
\* TermIndex, ntMax NtIndex and symMax SymbolId
Config == [crs : BOOLEAN, eef : BOOLEAN, gcs : BOOLEAN, gcsc : BOOLEAN,
           maxIndex : Nat, actionMax : Nat, gotoMax : Nat, prodMax : Nat, lenMax : Nat,
           termMax : Nat, ntMax : Nat, symMax : Nat]

Shift(to)  == [kind |-> "shift", to |-> to]
Reduce(p)  == [kind |-> "reduce", prod |-> p]

\* of a production: the length of its right side and its left side
ProdInfo == [rhsLen : Nat, lhsIndex : Nonterm]

\* shift[s][t] is a state or STATE_INVALID, reduce[s][t] a list of productions,
\* goto[s][n] a state or STATE_INVALID, stateSymbol[s] what leads to s (terminal N as
\* N+1, nonterminal N as -N-1, 0 for the start state)
Automaton == [shift : [State -> [Term -> State \cup {STATE_INVALID}]],
              reduce : [State -> [Term -> Seq(Nat)]],
              goto : [State -> [Nonterm -> State \cup {STATE_INVALID}]],
              stateSymbol : [State -> Int], prodInfo : Seq(ProdInfo)]

\* configure refuses GCS without EEF, and column merging without GCS
ASSUME ConfigsAssumption ==
    \A c \in Configs : c \in Config /\ (c.gcs => c.eef) /\ (c.gcsc => c.gcs)

VARIABLES
    lr,                     \* the automaton, with the actions that are left of each cell
    config,                 \* the build, fixed by Init
    firstWithTerminal, firstWithNonterminal,
    bigProductionList, productionsForState,
    ambigTable, ambigStateTable,
    actionTable, gotoTable, \* [row -> [column -> code]]
    errorBits,              \* the terminals whose bit is set, for each unique row
    errorRow,               \* errorBitsPointers: state -> row of errorBits
    actionRow, actionIndexMap, gotoRow, gotoIndexMap,
    s, t,                   \* the cell being filled
    pc

lists == <<bigProductionList, productionsForState, ambigTable, ambigStateTable>>
firsts == <<firstWithTerminal, firstWithNonterminal>>
maps  == <<errorBits, errorRow, actionRow, actionIndexMap, gotoRow, gotoIndexMap>>
vars  == <<lr, config, firsts, lists, actionTable, gotoTable, maps, s, t, pc>>

-----------------------------------------------------------------------------
(* Codes *)

Base      == config.maxIndex + 1
AE_SHIFT  == 0
AE_REDUCE == Base
AE_AMBIGUOUS == 2 * Base
AE_ERROR  == 3 * Base
Kind(code)  == code - (code % Base)
Index(code) == code % Base

errorActionEntry == IF config.crs THEN AE_ERROR ELSE 0
errorGotoEntry   == config.gotoMax

IndexFits(index) == index \in 0..config.maxIndex

\* makeAE and validateAction: whether the code can be written at all
CodeFits(kind, n) ==
    IF config.crs THEN IndexFits(n) ELSE n \in (-config.actionMax - 1)..config.actionMax
Code(kind, n) == IF config.crs THEN kind + n ELSE n

\* where x is in the list from place begin on (places count from 0), or its end
PlaceOf(x, list, begin) ==
    LET hits == {i \in begin..(Len(list) - 1) : list[i + 1] = x}
    IN  IF hits = {} THEN Len(list) ELSE CHOOSE i \in hits : \A k \in hits : i <= k

\* a list under construction: codes so far, bigProductionList, its start for this
\* state, and whether everything fitted
Enc(codes, prods, begin, ok) == [codes |-> codes, prods |-> prods, begin |-> begin, ok |-> ok]

\* (variation: a production that is in the state's set is added again)
ReduceIndex_always(p, list, begin) == Len(list) - begin
ReduceIndex(p, list, begin) == PlaceOf(p, list, begin) - begin

\* ProdIndex is an unsigned short: what push stores of a production's index
Stored(p) == p % (config.prodMax + 1)

\* encodeReduce
encodeReduce(e, p) ==
    IF ~config.crs
    THEN Enc(Append(e.codes, -p - 1), e.prods, e.begin, e.ok /\ CodeFits("reduce", -p - 1))
    ELSE LET begin == IF e.begin = UNASSIGNED THEN Len(e.prods) ELSE e.begin
             delta == ReduceIndex(p, e.prods, begin)
         IN  Enc(Append(e.codes, AE_REDUCE + delta),
                 IF begin + delta = Len(e.prods) THEN Append(e.prods, Stored(p)) ELSE e.prods,
                 begin, e.ok /\ IndexFits(delta))

\* encodeShift
ShiftCode(to, term) ==
    IF config.crs THEN to - firstWithTerminal[term] ELSE to + 1

\* the code's order: the shift first, then the reductions
EncodeActions(st, to, prods) ==
    LET begin == productionsForState[st]
        e0 == IF to = STATE_INVALID THEN Enc(<<>>, bigProductionList, begin, TRUE)
              ELSE Enc(<<ShiftCode(to, t)>>, bigProductionList, begin, CodeFits("shift", ShiftCode(to, t)))
        after[i \in 0..Len(prods)] == IF i = 0 THEN e0 ELSE encodeReduce(after[i - 1], prods[i])
    IN  after[Len(prods)]

\* compareAmbig, and the loop's condition, at offset i of ambigTable
compareAmbig(set, i) ==
    /\ i + Len(set) + 1 <= Len(ambigTable)
    /\ SubSeq(ambigTable, i + 1, i + 1 + Len(set)) = <<Len(set)>> \o set

\* encodeAmbig: the offset in ambigTable of the set, which is appended if new
AmbigPlace(set, begin) ==
    LET hits == {i \in begin..(Len(ambigTable) - 1) : compareAmbig(set, i)}
    IN  IF config.crs /\ hits # {} THEN CHOOSE i \in hits : \A k \in hits : i <= k
        ELSE Len(ambigTable)

-----------------------------------------------------------------------------
\* the tables as they are allocated
Alloc ==
    /\ firstWithTerminal = [k \in Term |-> 0] /\ firstWithNonterminal = [n \in Nonterm |-> 0]
    /\ bigProductionList = <<>> /\ productionsForState = [st \in State |-> UNASSIGNED]
    /\ ambigTable = <<>> /\ ambigStateTable = [st \in State |-> UNASSIGNED]
    /\ actionTable = [st \in State |-> [k \in Term |-> errorActionEntry]]
    /\ gotoTable = [st \in State |-> [n \in Nonterm |-> errorGotoEntry]]
    /\ errorBits = <<>> /\ errorRow = [st \in State |-> 0]
    /\ actionRow = [st \in State |-> st] /\ actionIndexMap = [k \in Term |-> k]
    /\ gotoRow = [st \in State |-> st] /\ gotoIndexMap = [n \in Nonterm |-> n]
    /\ s = 0 /\ t = 0

Lowest(S, default) == IF S = {} THEN default ELSE CHOOSE x \in S : \A y \in S : x <= y

FirstOf(sym) == Lowest({st \in State : lr.stateSymbol[st] = sym}, 0)

\* the order of the symbols: none, the terminals, the nonterminals
SymbolRank(sym) == IF sym < 0 THEN NumTerms - sym ELSE sym

\* each state's symbol is the one before it or a later one
SortedBySymbol ==
    \A a, b \in State : a < b /\ lr.stateSymbol[a] # 0 /\ lr.stateSymbol[b] # 0
        => SymbolRank(lr.stateSymbol[a]) <= SymbolRank(lr.stateSymbol[b])

\* the first of the states each symbol leads to; the loop over the runs of states
\* with the same symbol asserts that the symbols ascend
FirstStates ==
    /\ pc = "firsts"
    /\ IF config.crs /\ SortedBySymbol
       THEN /\ firstWithTerminal' = [k \in Term |-> FirstOf(k + 1)]
            /\ firstWithNonterminal' = [n \in Nonterm |-> FirstOf(-n - 1)]
       ELSE UNCHANGED firsts
    /\ pc' = IF config.crs /\ ~SortedBySymbol THEN "failure" ELSE "cells"
    /\ UNCHANGED <<lr, config, lists, actionTable, gotoTable, maps, s, t>>

NextCell == IF t + 1 < NumTerms THEN t' = t + 1 /\ UNCHANGED <<s, pc>>
            ELSE t' = 0 /\ pc' = "gotos" /\ UNCHANGED s

\* one cell of the action table, which may shift to a state or reduce by some
\* productions: error, a single action, or an ambiguous entry
FillCell(to, prods) ==
    /\ pc = "cells"
    /\ LET e == EncodeActions(s, to, prods)
           set == e.codes
           begin == IF ambigStateTable[s] = UNASSIGNED THEN Len(ambigTable) ELSE ambigStateTable[s]
           place == AmbigPlace(set, begin)
           code == IF config.crs THEN place - begin ELSE NumStates + place + 1
       IN
       /\ bigProductionList' = e.prods
       /\ productionsForState' = [productionsForState EXCEPT ![s] = e.begin]
       /\ IF Len(set) >= 2
          THEN /\ ambigTable' = IF place = Len(ambigTable) THEN ambigTable \o <<Len(set)>> \o set
                                ELSE ambigTable
               /\ ambigStateTable' = IF config.crs THEN [ambigStateTable EXCEPT ![s] = begin]
                                     ELSE ambigStateTable
               /\ actionTable' = [actionTable EXCEPT ![s][t] = Code(AE_AMBIGUOUS, code)]
          ELSE /\ UNCHANGED <<ambigTable, ambigStateTable>>
               /\ actionTable' = [actionTable EXCEPT ![s][t] =
                                    IF set = <<>> THEN errorActionEntry ELSE set[1]]
       /\ IF e.ok /\ (Len(set) >= 2 => CodeFits("ambig", code))
          THEN NextCell
          ELSE pc' = "failure" /\ UNCHANGED <<s, t>>
    /\ lr' = [lr EXCEPT !.shift[s][t] = to, !.reduce[s][t] = prods]
    /\ UNCHANGED <<config, firsts, gotoTable, maps>>

\* encodeGoto and validateGoto: the largest value is the error entry
GotoCode(st, n) ==
    IF lr.goto[st][n] = STATE_INVALID THEN errorGotoEntry
    ELSE IF config.crs THEN lr.goto[st][n] - firstWithNonterminal[n] ELSE lr.goto[st][n]
GotoFits(code) == code \in 0..(config.gotoMax - 1)

\* encodeSymbolId asserts that a nonterminal is an NtIndex and the symbol a SymbolId
SymbolFits(sym) == /\ sym < 0 => -sym - 1 <= config.ntMax
                   /\ sym \in (-config.symMax - 1)..config.symMax

\* the rest of a state's row: its gotos and its symbol
FillGotos ==
    /\ pc = "gotos"
    /\ gotoTable' = [gotoTable EXCEPT ![s] = [n \in Nonterm |-> GotoCode(s, n)]]
    /\ IF /\ \A n \in Nonterm : lr.goto[s][n] # STATE_INVALID => GotoFits(GotoCode(s, n))
          /\ SymbolFits(lr.stateSymbol[s])
       THEN IF s + 1 < NumStates THEN s' = s + 1 /\ pc' = "cells" ELSE s' = 0 /\ pc' = "info"
       ELSE pc' = "failure" /\ UNCHANGED s
    /\ UNCHANGED <<lr, config, firsts, lists, actionTable, maps, t>>

\* checkAssign refuses a right side that is too long and a left side without index
ProdInfoFits(p) == p.rhsLen <= config.lenMax /\ p.lhsIndex <= config.ntMax

\* topologicalSort takes nonterminals as NtIndex: when there are more than it can
\* tell apart, some get no place in the order, and one of the assertions fails
OrderFits == NumNonterms <= config.ntMax + 1

\* what is left to fill in: the productions, then the order of the nonterminals
SetProdInfo ==
    /\ pc = "info"
    /\ pc' = IF ~((\A i \in DOMAIN lr.prodInfo : ProdInfoFits(lr.prodInfo[i])) /\ OrderFits) THEN "failure"
             ELSE IF config.eef THEN "errors" ELSE "done"
    /\ UNCHANGED <<lr, config, firsts, lists, actionTable, gotoTable, maps, s, t>>

-----------------------------------------------------------------------------
(* Compression *)

ErrorsOf(st) == {k \in Term : actionTable[st][k] = errorActionEntry}

\* (variation: a row shares that of any earlier one it includes)
SameErrors_subset(a, b) == ErrorsOf(a) \subseteq ErrorsOf(b)
SameErrors(a, b) == ErrorsOf(a) = ErrorsOf(b)

\* computeErrorBits: a state uses the row of the first state with the same
\* errors; the bits are set again through the new pointers
ComputeErrorBits ==
    /\ pc = "errors"
    /\ LET leader(st) == Lowest({r \in 0..st : SameErrors(st, r)}, st)
           leaders == {leader(st) : st \in State}
           rowOf(st) == Cardinality({r \in leaders : r < leader(st)})
       IN  /\ errorRow' = [st \in State |-> rowOf(st)]
           /\ errorBits' = [r \in 0..(Cardinality(leaders) - 1) |->
                              UNION {ErrorsOf(st) : st \in {x \in State : rowOf(x) = r}}]
    /\ pc' = IF config.gcsc THEN "actionColumns" ELSE IF config.gcs THEN "actionRows" ELSE "done"
    /\ UNCHANGED <<lr, config, firsts, lists, actionTable, gotoTable, actionRow, actionIndexMap,
                   gotoRow, gotoIndexMap, s, t>>

Clash(a, b, err) == a # err /\ b # err /\ a # b

\* the entry the members of a class have in common, error if none has one
Merged(entries, err) ==
    IF entries \subseteq {err} THEN err ELSE CHOOSE e \in entries \ {err} : TRUE

\* the table with columns, or rows, of one color merged
MergeColumns(table, color, err) ==
    [st \in DOMAIN table |-> [c \in {color[k] : k \in DOMAIN color} |->
        Merged({table[st][k] : k \in {x \in DOMAIN color : color[x] = c}}, err)]]
MergeRows(table, color, err) ==
    [c \in {color[st] : st \in DOMAIN color} |-> [k \in DOMAIN table[0] |->
        Merged({table[st][k] : st \in {x \in DOMAIN color : color[x] = c}}, err)]]

ColumnsConflict(table, a, b, err) == \E st \in State : Clash(table[st][a], table[st][b], err)
RowsConflict(table, a, b, err) == \E k \in DOMAIN table[0] : Clash(table[a][k], table[b][k], err)

\* what colorTheGraph is given: which columns, or rows, may not share storage
ActionColumns == [n |-> NumTerms, edges |-> {e \in Term \X Term :
                    ColumnsConflict(actionTable, e[1], e[2], errorActionEntry)}]
ActionRows == [n |-> NumStates, edges |-> {e \in State \X State :
                    RowsConflict(actionTable, e[1], e[2], errorActionEntry)}]
GotoColumns == [n |-> NumNonterms, edges |-> {e \in Nonterm \X Nonterm :
                    ColumnsConflict(gotoTable, e[1], e[2], errorGotoEntry)}]
GotoRows == [n |-> NumStates, edges |-> {e \in State \X State :
                    RowsConflict(gotoTable, e[1], e[2], errorGotoEntry)}]

\* what the merges do with its result c.  The index of a column is a TermIndex or an
\* NtIndex: a color that is none fails an assertion, before the table is replaced
MergeActionColumns(c) ==
    /\ pc = "actionColumns"
    /\ IF \A k \in Term : c[k] <= config.termMax
       THEN /\ actionTable' = MergeColumns(actionTable, c, errorActionEntry)
            /\ actionIndexMap' = c
            /\ pc' = "actionRows"
       ELSE pc' = "failure" /\ UNCHANGED <<actionTable, actionIndexMap>>
    /\ UNCHANGED <<lr, config, firsts, lists, gotoTable, errorBits, errorRow, actionRow, gotoRow,
                   gotoIndexMap, s, t>>

MergeActionRows(c) ==
    /\ pc = "actionRows"
    /\ actionTable' = MergeRows(actionTable, c, errorActionEntry)
    /\ actionRow' = c
    /\ pc' = IF config.gcsc THEN "gotoColumns" ELSE "gotoRows"
    /\ UNCHANGED <<lr, config, firsts, lists, gotoTable, errorBits, errorRow, actionIndexMap,
                   gotoRow, gotoIndexMap, s, t>>

MergeGotoColumns(c) ==
    /\ pc = "gotoColumns"
    /\ IF \A n \in Nonterm : c[n] <= config.ntMax
       THEN /\ gotoTable' = MergeColumns(gotoTable, c, errorGotoEntry)
            /\ gotoIndexMap' = c
            /\ pc' = "gotoRows"
       ELSE pc' = "failure" /\ UNCHANGED <<gotoTable, gotoIndexMap>>
    /\ UNCHANGED <<lr, config, firsts, lists, actionTable, errorBits, errorRow, actionRow,
                   actionIndexMap, gotoRow, s, t>>

MergeGotoRows(c) ==
    /\ pc = "gotoRows"
    /\ gotoTable' = MergeRows(gotoTable, c, errorGotoEntry)
    /\ gotoRow' = c
    /\ pc' = "done"
    /\ UNCHANGED <<lr, config, firsts, lists, actionTable, errorBits, errorRow, actionRow,
                   actionIndexMap, gotoIndexMap, s, t>>

-----------------------------------------------------------------------------
(* The emitted program *)

NULL == <<>>

\* emitOffsetTable: pointers are written as offsets and added to their base again when
\* the program starts; a table without any is not written, and is NULL
OffsetTable(offsets) == IF Range(offsets) \subseteq {UNASSIGNED} THEN NULL ELSE offsets

\* emitConstructionCode; the arrays themselves are written as they are.  (finishTables
\* made pointers of the indices, a null pointer of UNASSIGNED)
EmitConstructionCode ==
    /\ pc = "done"
    /\ productionsForState' = OffsetTable(productionsForState)
    /\ ambigStateTable' = OffsetTable(ambigStateTable)
    /\ errorRow' = IF config.eef THEN OffsetTable(errorRow) ELSE NULL
    /\ firstWithTerminal' = IF config.crs THEN firstWithTerminal ELSE NULL
    /\ firstWithNonterminal' = IF config.crs THEN firstWithNonterminal ELSE NULL
    /\ pc' = "emitted"
    /\ UNCHANGED <<lr, config, bigProductionList, ambigTable, actionTable, gotoTable, errorBits,
                   actionRow, actionIndexMap, gotoRow, gotoIndexMap, s, t>>

\* the tables are ready for a parser, in this process or in one that was compiled
Ready == pc \in {"done", "emitted"}

-----------------------------------------------------------------------------
(* How the parser reads the tables *)

isErrorAction(code) == IF config.crs THEN code = AE_ERROR ELSE code = 0
isShiftAction(code) == IF config.crs THEN Kind(code) = AE_SHIFT ELSE code \in 1..NumStates
isReduceAction(code) == IF config.crs THEN Kind(code) = AE_REDUCE ELSE code < 0

actionEntryIsError(st, term) ==
    IF config.eef THEN term \in errorBits[errorRow[st]]
    ELSE isErrorAction(actionTable[st][term])

getActionEntry(st, term) ==
    IF actionEntryIsError(st, term) THEN errorActionEntry
    ELSE actionTable[actionRow[st]][actionIndexMap[term]]

decodeShift(code, term) == IF config.crs THEN firstWithTerminal[term] + Index(code) ELSE code - 1
decodeReduce(code, st) ==
    IF config.crs THEN bigProductionList[productionsForState[st] + Index(code) + 1] ELSE -(code + 1)
\* the place in ambigTable of an ambiguous entry's length
decodeAmbigAction(code, st) ==
    IF config.crs THEN ambigStateTable[st] + Index(code) ELSE code - 1 - NumStates

\* one action, as the parser carries it out
Action(code, st, term) ==
    IF isShiftAction(code) THEN Shift(decodeShift(code, term)) ELSE Reduce(decodeReduce(code, st))

\* all actions of a cell, in order
Decoded(st, term) ==
    LET code == getActionEntry(st, term)
        place == decodeAmbigAction(code, st)
    IN  IF isErrorAction(code) THEN <<>>
        ELSE IF isShiftAction(code) \/ isReduceAction(code) THEN <<Action(code, st, term)>>
        ELSE [i \in 1..ambigTable[place + 1] |-> Action(ambigTable[place + 1 + i], st, term)]

decodeGoto(st, n) ==
    LET code == gotoTable[gotoRow[st]][gotoIndexMap[n]]
    IN  IF config.crs THEN firstWithNonterminal[n] + code ELSE code

-----------------------------------------------------------------------------
(* Properties *)

\* a shift and a list of reductions as the actions they are: the shift, then the reductions
ActionsOf(to, prods) ==
    (IF to = STATE_INVALID THEN <<>> ELSE <<Shift(to)>>) \o [i \in DOMAIN prods |-> Reduce(prods[i])]

\* what the automaton says of a cell
Actions(st, term) == ActionsOf(lr.shift[st][term], lr.reduce[st][term])

\* Whatever the encoding and the compression, each cell of finished tables, and of the
\* tables that the emitted program sets up, is read back as exactly the actions the automaton has there, in their order, and each
\* goto as its state: offsets are taken from the right base, merged cells give no
\* action to a cell that had none, a match in the middle of the ambiguous lists is as
\* good as one at the start, and no goto is taken for an error.
DecodesBack ==
    Ready => \A st \in State :
        /\ \A k \in Term : Decoded(st, k) = Actions(st, k)
        /\ \A n \in Nonterm : lr.goto[st][n] # STATE_INVALID =>
              /\ decodeGoto(st, n) = lr.goto[st][n]
              /\ gotoTable[gotoRow[st]][gotoIndexMap[n]] # errorGotoEntry

\* the list of a cell is new in its row of the table
FirstInRow(st, k) == \A j \in 0..(k - 1) : Actions(st, j) # Actions(st, k)
Lists(st, k) == {Actions(st, j) : j \in {x \in 0..(k - 1) : Len(Actions(st, x)) >= 2}}
Productions(st) == UNION {Range(lr.reduce[st][k]) : k \in Term}
AllLists == {c \in State \X Term : Len(Actions(c[1], c[2])) >= 2}
Total(S, Size(_)) == FoldLeft(LAMBDA n, x : n + Size(x), 0, SetToSeq(S))

TooBigForCRS ==
    \/ \E st \in State, k \in Term :
          lr.shift[st][k] # STATE_INVALID /\ lr.shift[st][k] - FirstOf(k + 1) > config.maxIndex
    \/ \E st \in State : Cardinality(Productions(st)) > config.maxIndex + 1
    \/ \E st \in State, k \in Term :
          /\ Len(Actions(st, k)) >= 2 /\ FirstInRow(st, k)
          /\ Total(Lists(st, k), LAMBDA a : Len(a) + 1) > config.maxIndex
    \/ \E st \in State, n \in Nonterm :
          lr.goto[st][n] # STATE_INVALID /\ lr.goto[st][n] - FirstOf(-n - 1) >= config.gotoMax

TooBigPlain ==
    \/ \E st \in State, k \in Term : lr.shift[st][k] + 1 > config.actionMax
    \/ \E st \in State : \E p \in Productions(st) : p > config.actionMax
    \/ \E c \in AllLists :
          NumStates + 1 + Total({d \in AllLists : d[1] < c[1] \/ (d[1] = c[1] /\ d[2] < c[2])},
                                LAMBDA d : Len(Actions(d[1], d[2])) + 1) > config.actionMax
    \/ \E st \in State, n \in Nonterm : lr.goto[st][n] >= config.gotoMax

\* more than ntMax + 1 nonterminals, a nonterminal or a terminal with a number that
\* is none, or a production with a right side that is too long
TooManySymbols ==
    \/ NumNonterms > config.ntMax + 1
    \/ \E st \in State : lr.stateSymbol[st] > config.symMax \/ lr.stateSymbol[st] < -config.symMax - 1
    \/ \E i \in DOMAIN lr.prodInfo : lr.prodInfo[i].rhsLen > config.lenMax

\* a terminal whose column clashes with those of more terminals than there are indices
\* to avoid theirs
TooManyColumns ==
    \E k \in Term :
        Cardinality({x \in Term : ColumnsConflict(actionTable, k, x, errorActionEntry)}) > config.termMax

\* An automaton is refused only if some entry really has no code: with CRS a
\* production or a list that occurs in several cells of a state counts once, and
\* offsets count from the state, not from the start of the list; merged columns run out
\* of indices only where one clashes with as many as there are indices, so the coloring
\* wastes none; and nonterminals that can all be ordered always have an index, as
\* left sides, as states' symbols and as merged columns.  The assertions that the
\* states are in order never fail.
RefusedOnlyIfTooBig ==
    pc = "failure" => \/ TooManySymbols
                      \/ config.gcsc /\ TooManyColumns
                      \/ IF config.crs THEN TooBigForCRS ELSE TooBigPlain
=============================================================================
