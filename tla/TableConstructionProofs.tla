----------------------- MODULE TableConstructionProofs -----------------------
(***************************************************************************)
(* For every automaton, declarations and build:                            *)
(*  - what is proved of the resolution of one cell and of one coloring     *)
(*    holds where computeParseTables calls them, since each call begins on *)
(*    a list of productions or on a symmetric graph, and nothing else      *)
(*    touches its variables while it runs;                                 *)
(*  - finished and emitted tables are read back as the actions and gotos   *)
(*    that were put in, through encoding, error factoring, row and column  *)
(*    merging and emission;                                                *)
(*  - and so they say what the grammar declares.                           *)
(***************************************************************************)
EXTENDS TableConstruction, SequenceTheorems, FiniteSetTheorems, WellFoundedInduction, TLAPS

\* the two parts, with their proofs
CR == INSTANCE ConflictResolutionProofs WITH Prods <- Nat, NT <- Nonterm, pc <- resolving
GC == INSTANCE GraphColoringProofs WITH pc <- coloring

\* the instances with and without proofs have the same steps
LEMMA SameResolution == Resolution!Next => CR!Next
<1>1. Resolution!ComputeSupersets => CR!ComputeSupersets
  BY DEF Resolution!ComputeSupersets, CR!ComputeSupersets
<1>2. Resolution!Begin => CR!Begin
  BY DEF Resolution!Begin, CR!Begin
<1>3. Resolution!NextSR => CR!NextSR
  BY DEF Resolution!NextSR, CR!NextSR, Resolution!LeftOf, CR!LeftOf, Resolution!At, CR!At
<1>4. Resolution!WalkUp => CR!WalkUp
  BY DEF Resolution!WalkUp, CR!WalkUp
<1>5. Resolution!ShiftReduce => CR!ShiftReduce
  BY DEF Resolution!ShiftReduce, CR!ShiftReduce, Resolution!Verdict, CR!Verdict, Resolution!At,
         CR!At, Resolution!DropsShift, CR!DropsShift, Resolution!DropsReduce, CR!DropsReduce,
         Resolution!CountRemoved, CR!CountRemoved, Resolution!B2N, CR!B2N,
         Resolution!RemoveHere, CR!RemoveHere, Resolution!KeepHere, CR!KeepHere,
         Resolution!Without, CR!Without, Resolution!PrecOf, CR!PrecOf
<1>6. Resolution!ReduceReduce => CR!ReduceReduce
  BY DEF Resolution!ReduceReduce, CR!ReduceReduce, Resolution!LosesToHighest,
         CR!LosesToHighest, Resolution!At, CR!At, Resolution!PrecOf, CR!PrecOf,
         Resolution!HighestPrec, CR!HighestPrec, Resolution!RemoveHere, CR!RemoveHere,
         Resolution!KeepHere, CR!KeepHere, Resolution!Without, CR!Without
<1>7. Resolution!EndReduceReduce => CR!EndReduceReduce
  BY DEF Resolution!EndReduceReduce, CR!EndReduceReduce, Resolution!WithSuperset,
         CR!WithSuperset, Resolution!LeftOf, CR!LeftOf
<1>8. Resolution!SubsetDirective => CR!SubsetDirective
  BY DEF Resolution!SubsetDirective, CR!SubsetDirective, Resolution!YieldsSuperset,
         CR!YieldsSuperset, Resolution!LeftOf, CR!LeftOf, Resolution!At, CR!At,
         Resolution!RemoveHere, CR!RemoveHere, Resolution!KeepHere, CR!KeepHere,
         Resolution!Without, CR!Without
<1>9. Resolution!EndSubset => CR!EndSubset
  BY DEF Resolution!EndSubset, CR!EndSubset
<1>10. Resolution!Count => CR!Count
  BY DEF Resolution!Count, CR!Count, Resolution!B2N, CR!B2N, Resolution!ConflictsRR,
         CR!ConflictsRR
<1>11. Resolution!ForceOne => CR!ForceOne
  BY DEF Resolution!ForceOne, CR!ForceOne, Resolution!Later, CR!Later, Resolution!Without,
         CR!Without
<1>12. Resolution!Finished => CR!Finished
  BY DEF Resolution!Finished, CR!Finished, Resolution!vars, CR!vars
<1> QED BY <1>1, <1>2, <1>3, <1>4, <1>5, <1>6, <1>7, <1>8, <1>9, <1>10, <1>11, <1>12
       DEF Resolution!Next, CR!Next

\* both instances of the coloring have the same steps
LEMMA SameColoring == Coloring!Next => GC!Next
<1>1. Coloring!Choose => GC!Choose
  BY DEF Coloring!Choose, GC!Choose, Coloring!IsBest, GC!IsBest, Coloring!GoesBefore,
         GC!GoesBefore, Coloring!unblocked, GC!unblocked, Coloring!degree, GC!degree,
         Coloring!Adjacent, GC!Adjacent, Coloring!Colored, GC!Colored,
         Coloring!ColoredNeighbors, GC!ColoredNeighbors, Coloring!ColorsOf, GC!ColorsOf,
         Coloring!Sorted, GC!Sorted, Coloring!FirstColor, GC!FirstColor, Coloring!Node,
         GC!Node, Coloring!N, GC!N, Coloring!UNASSIGNED, GC!UNASSIGNED, Coloring!Cardinality,
         GC!Cardinality
<1>2. Coloring!Scan => GC!Scan
  BY DEF Coloring!Scan, GC!Scan
<1>3. Coloring!Assign => GC!Assign
  BY DEF Coloring!Assign, GC!Assign, Coloring!Blocks, GC!Blocks, Coloring!ColorsUsed,
         GC!ColorsUsed, Coloring!Adjacent, GC!Adjacent, Coloring!Colored, GC!Colored,
         Coloring!Node, GC!Node, Coloring!N, GC!N, Coloring!UNASSIGNED, GC!UNASSIGNED
<1>4. Coloring!Done => GC!Done
  BY DEF Coloring!Done, GC!Done, Coloring!vars, GC!vars
<1> QED BY <1>1, <1>2, <1>3, <1>4 DEF Coloring!Next, GC!Next

-----------------------------------------------------------------------------
\* what the theorems ask of the constants
ConstantsOK ==
    /\ NumStates \in Nat \ {0} /\ NumTerms \in Nat \ {0} /\ NumNonterms \in Nat
    /\ \A i \in Inputs : i[1] \in Automaton
    /\ \E i \in Inputs : Cardinality(i[3]) = 1
    /\ \A c \in Cells : c.reductions \in Seq(Nat) /\ c.shift \in BOOLEAN
    /\ Coloring!GraphsOK

\* the invariants of the two parts hold while they run, and they start on a list of
\* productions and on a graph
TableInv ==
    /\ ConstantsOK
    /\ raw \in Automaton
    /\ s \in State /\ t \in Term
    /\ resolving # "idle" => CR!Inv
    /\ coloring # "idle" => GC!Inv

\* the two parts start as their own specifications do
LEMMA InitTableInv == ConstantsOK /\ Init => TableInv
<1> SUFFICES ASSUME ConstantsOK, Init PROVE TableInv
  OBVIOUS
<1>1. AnyInput \in Inputs
  BY DEF ConstantsOK, AnyInput
<1>2. raw \in Automaton
  BY <1>1 DEF ConstantsOK, Init
<1>3. s \in State /\ t \in Term
  BY DEF Init, Alloc, State, Term, ConstantsOK
<1>4. resolving # "idle" => Resolution!Init
  BY DEF Init, IdleResolution
<1>5. Resolution!Init => CR!Inv
  <2> SUFFICES ASSUME Resolution!Init PROVE CR!Inv
    OBVIOUS
  <2>1. cell.reductions \in Seq(Nat) /\ cell.shift \in BOOLEAN
    BY DEF Resolution!Init, ConstantsOK
  <2> QED BY <2>1 DEF Resolution!Init, Resolution!B2N, CR!Inv, CR!ActionsExact, CR!B2N
<1>6. coloring # "idle" => Coloring!Init
  BY DEF Init, IdleColoring
<1>7. Coloring!Init => GC!Init
  BY DEF Coloring!Init, Coloring!Node, Coloring!N, Coloring!UNASSIGNED,
         GC!Init, GC!Node, GC!N, GC!UNASSIGNED
<1>8. GC!GraphsOK
  BY DEF ConstantsOK, Coloring!GraphsOK, Coloring!GraphOK, GC!GraphsOK, GC!GraphOK
<1> QED BY <1>2, <1>3, <1>4, <1>5, <1>6, <1>7, <1>8, GC!InitInv DEF TableInv

\* columns, or rows, conflict mutually, and none with itself
LEMMA GraphOfIsOK ==
    ASSUME ConstantsOK, pc \in {"actionColumns", "actionRows", "gotoColumns", "gotoRows"}
    PROVE  GC!GraphOK(GraphOf)
<1>1. GC!GraphOK(ActionColumns)
  BY DEF ActionColumns, ColumnsConflict, Clash, Term, ConstantsOK, GC!GraphOK
<1>2. GC!GraphOK(ActionRows)
  BY DEF ActionRows, RowsConflict, Clash, State, ConstantsOK, GC!GraphOK
<1>3. GC!GraphOK(GotoColumns)
  BY DEF GotoColumns, ColumnsConflict, Clash, Nonterm, ConstantsOK, GC!GraphOK
<1>4. GC!GraphOK(GotoRows)
  BY DEF GotoRows, RowsConflict, Clash, State, ConstantsOK, GC!GraphOK
<1> QED BY <1>1, <1>2, <1>3, <1>4 DEF GraphOf

\* renumbering the states of an automaton gives an automaton
LEMMA RenumberedIsOK ==
    ASSUME NEW a \in Automaton, NEW order \in Bijection(State, State)
    PROVE  Renumbered(a, order) \in Automaton
<1> DEFINE id(to) == IF to = STATE_INVALID THEN to ELSE CHOOSE i \in State : order[i] = to
<1>1. order \in [State -> State] /\ \A x \in State : \E i \in State : order[i] = x
  BY DEF Bijection, Injection, Surjection
<1>2. ASSUME NEW to \in State \cup {STATE_INVALID} PROVE id(to) \in State \cup {STATE_INVALID}
  <2>1. CASE to = STATE_INVALID
    BY <2>1
  <2>2. CASE to # STATE_INVALID
    BY <2>2, <1>1
  <2> QED BY <2>1, <2>2
<1> DEFINE R == Renumbered(a, order)
<1>3. R = [shift |-> [st \in State |-> [k \in Term |-> id(a.shift[order[st]][k])]],
           reduce |-> [st \in State |-> a.reduce[order[st]]],
           goto |-> [st \in State |-> [n \in Nonterm |-> id(a.goto[order[st]][n])]],
           stateSymbol |-> [st \in State |-> a.stateSymbol[order[st]]],
           prodInfo |-> a.prodInfo]
  BY DEF Renumbered
<1> HIDE DEF id, R
<1>4. [st \in State |-> [k \in Term |-> id(a.shift[order[st]][k])]]
        \in [State -> [Term -> State \cup {STATE_INVALID}]]
  BY <1>1, <1>2 DEF Automaton
<1>5. [st \in State |-> [n \in Nonterm |-> id(a.goto[order[st]][n])]]
        \in [State -> [Nonterm -> State \cup {STATE_INVALID}]]
  BY <1>1, <1>2 DEF Automaton
<1>6. [st \in State |-> a.reduce[order[st]]] \in [State -> [Term -> Seq(Nat)]]
  BY <1>1 DEF Automaton
<1>7. [st \in State |-> a.stateSymbol[order[st]]] \in [State -> Int] /\ a.prodInfo \in Seq(ProdInfo)
  BY <1>1 DEF Automaton
<1>8. R \in Automaton
  BY <1>3, <1>4, <1>5, <1>6, <1>7 DEF Automaton
<1> QED BY <1>8 DEF R

\* every step keeps them there
LEMMA NextTableInv == TableInv /\ [Next]_allVars => TableInv'
<1> SUFFICES ASSUME TableInv, [Next]_allVars PROVE TableInv'
  OBVIOUS
<1>c. ConstantsOK' /\ ConstantsOK
  BY DEF TableInv, ConstantsOK, Coloring!GraphsOK, Coloring!GraphOK
<1>r. UNCHANGED crVars => (resolving # "idle" => CR!Inv)'
  <2> SUFFICES ASSUME UNCHANGED crVars, resolving' # "idle" PROVE CR!Inv'
    OBVIOUS
  <2>1. UNCHANGED CR!vars /\ CR!Inv
    BY DEF crVars, CR!vars, TableInv
  <2> QED BY <2>1, CR!NextInv
<1>g. UNCHANGED gcVars => (coloring # "idle" => GC!Inv)'
  <2> SUFFICES ASSUME UNCHANGED gcVars, coloring' # "idle" PROVE GC!Inv'
    OBVIOUS
  <2>1. UNCHANGED GC!vars /\ GC!Inv
    BY DEF gcVars, GC!vars, TableInv
  <2> QED BY <2>1, GC!NextInv
<1>s. UNCHANGED vars => UNCHANGED <<s, t>>
  BY DEF vars
<1>i. UNCHANGED input => UNCHANGED raw
  BY DEF input
<1>0. CASE RenumberStates
  <2>1. UNCHANGED <<s, t, crVars, gcVars>>
    BY <1>0 DEF RenumberStates
  <2>2. raw' \in Automaton
    <3>1. CASE UNCHANGED raw
      BY <3>1 DEF TableInv
    <3>2. ASSUME NEW order \in Bijection(State, State), raw' = Renumbered(raw, order)
          PROVE  raw' \in Automaton
      BY <3>2, RenumberedIsOK DEF TableInv
    <3> QED BY <1>0, <3>1, <3>2 DEF RenumberStates
  <2> QED BY <1>c, <1>r, <1>g, <2>1, <2>2 DEF TableInv
<1>1. CASE ResolveCell
  <2> DEFINE c == CellAt(s, t)
  <2>1. c.reductions = raw.reduce[s][t] /\ c.shift \in BOOLEAN
    BY DEF CellAt
  <2>2. c.reductions \in Seq(Nat)
    BY <2>1 DEF TableInv, Automaton
  <2>3. /\ shift' = c.shift /\ reductions' = c.reductions
        /\ actions' = Resolution!B2N(c.shift) + Len(c.reductions)
        /\ pos' = 1 /\ resolving' = "supersets"
        /\ UNCHANGED <<vars, input, gcVars>>
    BY <1>1 DEF ResolveCell
  <2> HIDE DEF c
  <2>4. CR!Inv'
    BY <2>1, <2>2, <2>3 DEF CR!Inv, CR!ActionsExact, CR!B2N, Resolution!B2N
  <2> QED BY <1>c, <1>g, <1>s, <1>i, <2>3, <2>4 DEF TableInv
<1>2. CASE ResolutionStep
  <2>1. CR!Inv /\ CR!Next /\ UNCHANGED <<vars, input, gcVars>>
    BY <1>2, SameResolution DEF ResolutionStep, TableInv
  <2>2. CR!Inv'
    BY <2>1, CR!NextInv
  <2> QED BY <1>c, <1>g, <1>s, <1>i, <2>1, <2>2 DEF TableInv
<1>3. CASE EncodeCell
  <2>1. NextCell \/ UNCHANGED <<s, t>>
    BY <1>3 DEF EncodeCell, FillCell
  <2>2. s' \in State /\ t' \in Term
    BY <1>c, <2>1 DEF NextCell, TableInv, State, Term, ConstantsOK
  <2>3. UNCHANGED <<input, gcVars>> /\ resolving' = "idle"
    BY <1>3 DEF EncodeCell
  <2> QED BY <1>c, <1>g, <1>i, <2>2, <2>3 DEF TableInv
<1>4. CASE Color
  <2>1. GC!GraphOK(GraphOf)
    BY <1>4, <1>c, GraphOfIsOK DEF Color
  <2>2. /\ graph' = GraphOf /\ color' = [n \in 0..(graph'.n - 1) |-> UNASSIGNED]
        /\ blocked' = [n \in 0..(graph'.n - 1) |-> 0]
        /\ selColor' = 0 /\ coloring' = "choose"
        /\ UNCHANGED <<vars, input, crVars>>
    BY <1>4 DEF Color
  <2> DEFINE G == GraphOf
  <2>3. GC!Inv'
    <3>1. (GC!N)' = graph'.n /\ (GC!Node)' = 0..(graph'.n - 1)
      BY DEF GC!Node, GC!N
    <3>2. GC!GraphOK(graph)'
      <4> HIDE DEF G
      <4> QED BY <2>1, <2>2 DEF GC!GraphOK, G
    <3>3. (GC!Colored)' = {}
      BY <2>2, <3>1 DEF GC!Colored, GC!UNASSIGNED, UNASSIGNED
    <3>4. color' \in [(GC!Node)' -> Nat \cup {GC!UNASSIGNED}] /\ blocked' \in [(GC!Node)' -> Nat]
      BY <2>2, <3>1 DEF GC!UNASSIGNED, UNASSIGNED
    <3> QED BY <2>2, <3>2, <3>3, <3>4 DEF GC!Inv, GC!Proper, GC!LowestFree
  <2> QED BY <1>c, <1>r, <1>s, <1>i, <2>2, <2>3 DEF TableInv
<1>5. CASE ColoringStep
  <2>1. GC!Inv /\ GC!Next /\ UNCHANGED <<vars, input, crVars>>
    BY <1>5, SameColoring DEF ColoringStep, TableInv
  <2>2. GC!Inv'
    BY <2>1, GC!NextInv
  <2> QED BY <1>c, <1>r, <1>s, <1>i, <2>1, <2>2 DEF TableInv
<1>6. CASE Merge
  <2>1. UNCHANGED <<s, t, input, crVars>> /\ coloring' = "idle"
    BY <1>6 DEF Merge, MergeActionColumns, MergeActionRows, MergeGotoColumns, MergeGotoRows
  <2> QED BY <1>c, <1>r, <1>i, <2>1 DEF TableInv
<1>7. CASE TableStep
  <2>1. UNCHANGED <<input, crVars, gcVars>>
    BY <1>7 DEF TableStep
  <2>2. t' = t /\ (s' = s \/ s' = 0 \/ (s' = s + 1 /\ s + 1 < NumStates))
    <3>1. CASE FirstStates \/ SetProdInfo \/ EmitConstructionCode
      BY <3>1 DEF FirstStates, SetProdInfo, EmitConstructionCode
    <3>2. CASE FillGotos
      BY <3>2 DEF FillGotos
    <3>3. CASE ComputeErrorBits
      BY <3>3 DEF ComputeErrorBits
    <3> QED BY <1>7, <3>1, <3>2, <3>3 DEF TableStep
  <2>3. s' \in State /\ t' \in Term
    BY <1>c, <2>2 DEF TableInv, State, Term, ConstantsOK
  <2> QED BY <1>c, <1>r, <1>g, <1>i, <2>1, <2>3 DEF TableInv
<1>8. CASE UNCHANGED allVars
  BY <1>8, <1>c, <1>r, <1>g, <1>s, <1>i DEF allVars, TableInv
<1> QED BY <1>0, <1>1, <1>2, <1>3, <1>4, <1>5, <1>6, <1>7, <1>8 DEF Next, Finished

\* Whatever the automaton and the declarations, in every cell that is resolved on the
\* way to its tables the count of the actions left is exact.
THEOREM CountsStayExact == ConstantsOK /\ Spec => []ActionsExact
<1>1. TableInv => ActionsExact
  BY DEF TableInv, CR!Inv, ActionsExact, CR!ActionsExact, Resolution!ActionsExact,
         CR!B2N, Resolution!B2N
<1> QED BY InitTableInv, NextTableInv, <1>1, PTL DEF Spec

\* No two columns or rows of its tables that differ are given the same storage.
THEOREM MergesAreProper == ConstantsOK /\ Spec => []Proper
<1>1. TableInv => Proper
  BY DEF TableInv, GC!Inv, Proper, GC!Proper, Coloring!Proper, GC!Colored, GC!Node, GC!N,
         GC!UNASSIGNED, Coloring!Colored, Coloring!Node, Coloring!N, Coloring!UNASSIGNED
<1> QED BY InitTableInv, NextTableInv, <1>1, PTL DEF Spec

\* Each of them gets the lowest color that is free.
THEOREM ColorsAreLowest == ConstantsOK /\ Spec => []LowestFree
<1>1. TableInv => LowestFree
  BY DEF TableInv, GC!Inv, LowestFree, GC!LowestFree, Coloring!LowestFree,
         GC!ColoredNeighbors, GC!Adjacent, GC!Colored, GC!Node, GC!N, GC!UNASSIGNED,
         Coloring!ColoredNeighbors, Coloring!Adjacent, Coloring!Colored, Coloring!Node,
         Coloring!N, Coloring!UNASSIGNED
<1> QED BY InitTableInv, NextTableInv, <1>1, PTL DEF Spec

-----------------------------------------------------------------------------
(* What each cell keeps *)

\* the productions of a cell have a precedence and a left side, and subsets are made of
\* nonterminals
CellOK(c) ==
    /\ c.reductions \in Seq(Nat) /\ c.shift \in BOOLEAN
    /\ \A i \in DOMAIN c.reductions : c.prec[c.reductions[i]] \in Nat /\ c.left[c.reductions[i]] \in Nonterm
    /\ \A n \in Nonterm : c.subsets[n] \subseteq Nonterm
    /\ c.symPrec \in Nat /\ c.assoc \in CR!AssocKind

\* a grammar declares as much of all the productions that its automaton reduces by
GrammarOK(a, g) ==
    /\ \A st \in State, k \in Term : \A i \in DOMAIN a.reduce[st][k] :
          g.prec[a.reduce[st][k][i]] \in Nat /\ g.left[a.reduce[st][k][i]] \in Nonterm
    /\ \A n \in Nonterm : g.subsets[n] \subseteq Nonterm
    /\ \A k \in Term : g.symPrec[k] \in Nat /\ g.assoc[k] \in CR!AssocKind

DeclarationsOK ==
    /\ NoNT \notin Nonterm
    /\ \A c \in Cells : CellOK(c)
    /\ \A i \in Inputs : GrammarOK(i[1], i[2])

CellInv ==
    /\ DeclarationsOK
    /\ GrammarOK(raw, grammar)
    /\ resolving # "idle" => CR!OrderInv /\ CR!SilentInv

\* what resolveConflicts is called with is a cell of the resolution
LEMMA CellIsWellFormed ==
    ASSUME NoNT \notin Nonterm, CellOK(cell)
    PROVE  CR!WellFormed
BY DEF CellOK, CR!WellFormed, CR!AllOf, CR!SetOf, CR!PrecOf, CR!LeftOf

\* a resolution that is started alone is one of a given cell
LEMMA InitCellInv == ConstantsOK /\ DeclarationsOK /\ Init => CellInv
<1> SUFFICES ASSUME ConstantsOK, DeclarationsOK, Init PROVE CellInv
  OBVIOUS
<1>1. AnyInput \in Inputs
  BY DEF ConstantsOK, AnyInput
<1>2. GrammarOK(raw, grammar)
  BY <1>1 DEF DeclarationsOK, Init
<1>3. ASSUME resolving # "idle" PROVE CR!OrderInv /\ CR!SilentInv
  <2>1. Resolution!Init
    BY <1>3 DEF Init, IdleResolution
  <2>2. CR!Init
    BY <2>1 DEF Resolution!Init, CR!Init, Resolution!B2N, CR!B2N
  <2>3. CR!WellFormed
    <3>1. cell \in Cells
      BY <2>1 DEF Resolution!Init
    <3> QED BY <3>1, CellIsWellFormed DEF DeclarationsOK
  <2> QED BY <2>2, <2>3, CR!InitOrderInv, CR!InitSilentInv
<1> QED BY <1>2, <1>3 DEF CellInv

\* every step keeps the invariants of the resolution of a cell
LEMMA NextCellInv == TableInv /\ CellInv /\ [Next]_allVars => CellInv'
<1> SUFFICES ASSUME TableInv, CellInv, [Next]_allVars PROVE CellInv'
  OBVIOUS
<1>d. DeclarationsOK' /\ DeclarationsOK
  BY DEF CellInv, DeclarationsOK, CellOK, CR!AssocKind, GrammarOK, Nonterm, State, Term
<1>c. UNCHANGED crVars => (resolving # "idle" => CR!OrderInv /\ CR!SilentInv)'
  <2> SUFFICES ASSUME UNCHANGED crVars, resolving' # "idle" PROVE CR!OrderInv' /\ CR!SilentInv'
    OBVIOUS
  <2>1. UNCHANGED CR!vars /\ CR!Inv /\ CR!OrderInv /\ CR!SilentInv
    BY DEF crVars, CR!vars, TableInv, CellInv
  <2> QED BY <2>1, CR!NextOrderInv, CR!NextSilentInv
<1>g. UNCHANGED input => GrammarOK(raw, grammar)'
  BY DEF input, CellInv, GrammarOK, CR!AssocKind, Nonterm, State, Term
<1>0. CASE RenumberStates
  <2>1. UNCHANGED <<grammar, crVars>>
    BY <1>0 DEF RenumberStates
  <2>2. GrammarOK(raw', grammar)
    <3>1. CASE UNCHANGED raw
      BY <3>1 DEF CellInv
    <3>2. ASSUME NEW order \in Bijection(State, State), raw' = Renumbered(raw, order)
          PROVE  GrammarOK(raw', grammar)
      <4>1. raw'.reduce = [st \in State |-> raw.reduce[order[st]]]
        BY <3>2 DEF Renumbered
      <4>2. \A st \in State : order[st] \in State
        BY DEF Bijection, Injection
      <4> QED BY <4>1, <4>2 DEF CellInv, GrammarOK
    <3> QED BY <1>0, <3>1, <3>2 DEF RenumberStates
  <2>3. GrammarOK(raw, grammar)'
    BY <2>1, <2>2 DEF GrammarOK, CR!AssocKind, Nonterm, State, Term
  <2> QED BY <1>c, <1>d, <2>1, <2>3 DEF CellInv
<1>1. CASE ResolveCell
  <2> DEFINE c == CellAt(s, t)
  <2>1. CellOK(c)
    BY DEF CellOK, CellAt, TableInv, CellInv, GrammarOK, Automaton
  <2>2. /\ cell' = c /\ shift' = c.shift /\ reductions' = c.reductions
        /\ actions' = Resolution!B2N(c.shift) + Len(c.reductions)
        /\ superset' = [n \in Nonterm |-> NoNT]
        /\ dontWarns' = 0 /\ pos' = 1 /\ super' = NoNT /\ map' = {} /\ errors' = 0
        /\ sr' = 0 /\ rr' = 0 /\ resolving' = "supersets"
        /\ UNCHANGED <<vars, input, gcVars>>
    BY <1>1 DEF ResolveCell
  <2> HIDE DEF c
  <2>3. CR!WellFormed'
    <3>1. CellOK(cell')
      BY <2>1, <2>2
    <3> QED BY <1>d, <3>1
         DEF DeclarationsOK, CellOK, CR!WellFormed, CR!AllOf, CR!SetOf, CR!PrecOf, CR!LeftOf, CR!AssocKind
  <2>4. CR!OrderInv'
    BY <2>2, <2>3 DEF CR!OrderInv, CR!Untouched, CR!WhileSR, CR!WhileWalking, CR!WhileRR,
         CR!WhileSubset, CR!OrderIndependent, CR!AllOf, CR!SetOf
  <2>5. CR!SilentInv'
    <3>1. (CR!SetOf(reductions))' = CR!AllOf'
      BY <2>2 DEF CR!AllOf, CR!SetOf
    <3> QED BY <2>2, <2>3, <3>1 DEF CR!SilentInv, CR!NotAsked
  <2> QED BY <1>d, <1>g, <2>2, <2>4, <2>5 DEF CellInv
<1>2. CASE ResolutionStep
  <2>1. CR!Inv /\ CR!OrderInv /\ CR!SilentInv /\ CR!Next /\ UNCHANGED input
    BY <1>2, SameResolution DEF ResolutionStep, TableInv, CellInv
  <2> QED BY <1>d, <1>g, <2>1, CR!NextOrderInv, CR!NextSilentInv DEF CellInv
<1>3. CASE EncodeCell
  BY <1>3, <1>d, <1>g DEF EncodeCell, CellInv
<1>4. CASE Color \/ ColoringStep \/ Merge \/ TableStep \/ UNCHANGED allVars
  BY <1>4, <1>c, <1>d, <1>g DEF Color, ColoringStep, Merge, TableStep, allVars, CellInv
<1> QED BY <1>0, <1>1, <1>2, <1>3, <1>4 DEF Next, Finished

\* Whatever the automaton, what is left of each cell does not depend on the order in
\* which its actions were looked at, where the declarations settle it (IsDeclared: no
\* 'maximal', no nonassociative token at a reduction's own level, no nonterminal that is
\* a subset of itself).
THEOREM CellsOrderIndependent == ConstantsOK /\ DeclarationsOK /\ Spec => []OrderIndependent
<1>1. CellInv => OrderIndependent
  <2> SUFFICES ASSUME CR!OrderIndependent PROVE Resolution!OrderIndependent
    BY DEF CellInv, CR!OrderInv, OrderIndependent
  <2>1. /\ Resolution!AllOf = CR!AllOf
        /\ Resolution!Conflicting = CR!Conflicting
        /\ Resolution!SetOf(reductions) = CR!SetOf(reductions)
    BY DEF Resolution!AllOf, CR!AllOf, Resolution!SetOf, CR!SetOf, Resolution!Conflicting,
           CR!Conflicting, Resolution!B2N, CR!B2N
  <2>2. Resolution!IsDeclared = CR!IsDeclared
    BY <2>1 DEF Resolution!IsDeclared, CR!IsDeclared, Resolution!Munched, CR!Munched,
           Resolution!Supersets, CR!Supersets, Resolution!Level, CR!Level,
           Resolution!PrecOf, CR!PrecOf, Resolution!LeftOf, CR!LeftOf
  <2>3. Resolution!DeclaredShift = CR!DeclaredShift
    BY <2>1 DEF Resolution!DeclaredShift, CR!DeclaredShift, Resolution!Beats, CR!Beats,
           Resolution!Level, CR!Level, Resolution!PrecOf, CR!PrecOf
  <2>4. Resolution!DeclaredAfterSR = CR!DeclaredAfterSR
    BY <2>1 DEF Resolution!DeclaredAfterSR, CR!DeclaredAfterSR, Resolution!Beaten, CR!Beaten,
           Resolution!Level, CR!Level, Resolution!PrecOf, CR!PrecOf
  <2>5. Resolution!DeclaredAfterRR = CR!DeclaredAfterRR
    BY <2>4 DEF Resolution!DeclaredAfterRR, CR!DeclaredAfterRR, Resolution!PrecOf, CR!PrecOf
  <2>6. Resolution!Declared = CR!Declared
    BY <2>5 DEF Resolution!Declared, CR!Declared, Resolution!LeftOf, CR!LeftOf
  <2> QED BY <2>1, <2>2, <2>3, <2>6 DEF Resolution!OrderIndependent, CR!OrderIndependent
<1> QED BY InitTableInv, NextTableInv, InitCellInv, NextCellInv, <1>1, PTL DEF Spec

\* Each cell with actions becomes an error entry only if that was asked for, or
\* nonterminals are declared subsets of each other.
THEOREM CellsNotSilent == ConstantsOK /\ DeclarationsOK /\ Spec => []NoSilentError
<1>1. CellInv => NoSilentError
  <2> SUFFICES ASSUME CR!NoSilentError PROVE Resolution!NoSilentError
    BY CR!SilentInvSuffices DEF CellInv, NoSilentError
  <2>1. /\ Resolution!AllOf = CR!AllOf /\ Resolution!Acyclic = CR!Acyclic
        /\ \A p : Resolution!Level(p) = CR!Level(p)
    BY DEF Resolution!AllOf, CR!AllOf, Resolution!SetOf, CR!SetOf, Resolution!Acyclic, CR!Acyclic,
           Resolution!Below, CR!Below, Resolution!Level, CR!Level, Resolution!PrecOf, CR!PrecOf
  <2> QED BY <2>1 DEF Resolution!NoSilentError, CR!NoSilentError
<1> QED BY InitTableInv, NextTableInv, InitCellInv, NextCellInv, <1>1, PTL DEF Spec

-----------------------------------------------------------------------------
(* What an entry is read as *)

\* list is one that old has grown into
Grown(old, list) == Len(old) <= Len(list) /\ \A i \in 1..Len(old) : list[i] = old[i]

\* code is read back as the action a of terminal k, in a state whose productions
\* start at begin in prods
Encodes(code, k, a, prods, begin) ==
    \/ \E to \in State :
          /\ a = Shift(to) /\ code = ShiftCode(to, k)
          /\ config.crs => IndexFits(code)
    \/ \E p \in Nat :
          /\ a = Reduce(p)
          /\ IF config.crs
             THEN \E d \in 0..config.maxIndex :
                     /\ code = AE_REDUCE + d
                     /\ begin \in Nat /\ begin + d < Len(prods) /\ prods[begin + d + 1] = p
             ELSE code = -p - 1

\* ... and as a list of them
EncodesAll(code, st, k, as) ==
    \/ as = <<>> /\ code = errorActionEntry
    \/ Len(as) = 1 /\ Encodes(code, k, as[1], bigProductionList, productionsForState[st])
    \/ /\ Len(as) >= 2
       /\ \E place \in Nat :
             /\ place + Len(as) < Len(ambigTable) /\ ambigTable[place + 1] = Len(as)
             /\ \A i \in 1..Len(as) :
                   Encodes(ambigTable[place + 1 + i], k, as[i], bigProductionList, productionsForState[st])
             /\ IF config.crs
                THEN \E d \in 0..config.maxIndex :
                        /\ code = AE_AMBIGUOUS + d
                        /\ ambigStateTable[st] \in Nat /\ place = ambigStateTable[st] + d
                ELSE code = NumStates + place + 1

Merging == {"actionColumns", "actionRows", "gotoColumns", "gotoRows"}
Factored == config.eef /\ pc \in Merging \cup {"done", "emitted"}
Filling == {"firsts", "cells", "gotos", "info", "errors"}

Unmerged ==
    /\ \A st \in State : actionRow[st] = st
    /\ \A k \in Term : actionIndexMap[k] = k
GotosUnmerged ==
    /\ \A st \in State : gotoRow[st] = st
    /\ \A n \in Nonterm : gotoIndexMap[n] = n

Starts(starts, list) ==
    /\ starts \in [State -> Nat \cup {UNASSIGNED}]
    /\ \A st \in State : starts[st] <= Len(list)

\* the places of the members of S in a merged table
StoredAt(place, S) == {place[x] : x \in S}

\* the shapes of the tables while they are filled and merged
ShapeInv ==
    /\ config \in Configs /\ lr \in Automaton
    /\ config.crs => firstWithTerminal \in [Term -> Int] /\ firstWithNonterminal \in [Nonterm -> Int]
    /\ \A st \in State, k \in Term : raw.reduce[st][k] \in Seq(0..config.prodMax)
    /\ pc \notin {"cells", "cell"} => resolving = "idle"
    /\ pc \notin Merging \cup {"graph"} => coloring = "idle"
    /\ pc \in {"errors"} \cup Merging => config.eef
    /\ pc \in {"states", "firsts"} => s = 0 /\ t = 0
    /\ pc = "gotos" => t = 0
    /\ pc \in {"states", "done"} \cup Filling \cup Merging =>
          /\ bigProductionList \in Seq(Nat) /\ Starts(productionsForState, bigProductionList)
          /\ ambigTable \in Seq(Int) /\ Starts(ambigStateTable, ambigTable)
    /\ Factored => errorRow \in [State -> Nat]
    /\ pc \in {"states", "actionColumns"} \cup Filling =>
          /\ actionTable \in [State -> [Term -> Int]] /\ Unmerged
    /\ pc \in {"states", "actionColumns", "actionRows", "gotoColumns"} \cup Filling =>
          /\ gotoTable \in [State -> [Nonterm -> Int]] /\ GotosUnmerged
    /\ ~config.eef /\ pc \in {"done", "emitted"} => Unmerged
    /\ pc = "actionRows" =>
          /\ actionTable \in [State -> [StoredAt(actionIndexMap, Term) -> Int]]
          /\ \A st \in State : actionRow[st] = st
    /\ pc = "gotoRows" =>
          /\ gotoTable \in [State -> [StoredAt(gotoIndexMap, Nonterm) -> Int]]
          /\ \A st \in State : gotoRow[st] = st

\* the cells and rows that are filled
Filled(st, k) ==
    \/ pc = "cells" /\ (st < s \/ (st = s /\ k < t))
    \/ pc = "gotos" /\ st <= s
    \/ pc \in {"info", "errors", "done", "emitted"} \cup Merging
GotosFilled(st) ==
    \/ pc \in {"cells", "gotos"} /\ st < s
    \/ pc \in {"info", "errors", "done", "emitted"} \cup Merging

Entry(st, k) == actionTable[actionRow[st]][actionIndexMap[k]]
GotoEntry(st, n) == gotoTable[gotoRow[st]][gotoIndexMap[n]]

CellsInv ==
    \A st \in State, k \in Term : Filled(st, k) =>
        /\ (Factored /\ Actions(st, k) = <<>>) \/ EncodesAll(Entry(st, k), st, k, Actions(st, k))
        /\ Factored => (k \in errorBits[errorRow[st]] <=> Actions(st, k) = <<>>)

GotosInv ==
    \A st \in State : GotosFilled(st) => \A n \in Nonterm : lr.goto[st][n] # STATE_INVALID =>
        GotoEntry(st, n) = GotoCode(st, n) /\ GotoFits(GotoCode(st, n))

ColoringInv ==
    pc \in Merging /\ coloring # "idle" =>
        /\ graph = GraphOf
        /\ coloring = "done" => \A n \in 0..(graph.n - 1) : color[n] # UNASSIGNED

-----------------------------------------------------------------------------
(* Finished tables are read back *)

\* the index of a code whose kind is q
LEMMA ModOf ==
    ASSUME NEW b \in Nat \ {0}, NEW q \in 0..3, NEW d \in 0..(b - 1)
    PROVE  (q * b + d) % b = d
<1>1. CASE q = 0
  BY <1>1
<1>2. CASE q = 1
  BY <1>2
<1>3. CASE q = 2
  BY <1>3
<1>4. CASE q = 3
  BY <1>4
<1> QED BY <1>1, <1>2, <1>3, <1>4

\* a sequence is the function from its places to its members
LEMMA SeqIs ==
  ASSUME NEW X, NEW q \in Seq(X)
  PROVE  Len(q) \in Nat /\ q = [i \in 1..Len(q) |-> q[i]]
<1>1. q \in [1..Len(q) -> X] /\ Len(q) \in Nat
  BY LenProperties
<1>2. q = [i \in 1..Len(q) |-> q[i]]
  BY Zenon, <1>1
<1> QED BY <1>1, <1>2

\* a sequence of one
LEMMA SingleIs ==
  ASSUME NEW X, NEW q \in Seq(X), Len(q) = 1
  PROVE  q = <<q[1]>>
<1>1. <<q[1]>> \in Seq(X) /\ Len(<<q[1]>>) = 1 /\ <<q[1]>>[1] = q[1]
  OBVIOUS
<1> QED BY <1>1, SeqEqual

\* the bounds of a build are numbers
LEMMA ConfigIs == 
    ASSUME config \in Configs
    PROVE  /\ config \in Config /\ config.maxIndex \in Nat /\ Base = config.maxIndex + 1
           /\ config.actionMax \in Nat /\ config.gotoMax \in Nat /\ config.prodMax \in Nat
           /\ config.crs \in BOOLEAN /\ config.eef \in BOOLEAN
           /\ config.gcs => config.eef 
           /\ config.gcsc => config.gcs
  BY ConfigsAssumption DEF Config, Base

\* a code of compressed reductions is a kind and an index, which can both be read back
LEMMA KindsApart ==
    ASSUME config \in Configs, NEW d \in 0..config.maxIndex
    PROVE  /\ Index(d) = d /\ Kind(d) = AE_SHIFT
           /\ Index(AE_REDUCE + d) = d /\ Kind(AE_REDUCE + d) = AE_REDUCE
           /\ Index(AE_AMBIGUOUS + d) = d /\ Kind(AE_AMBIGUOUS + d) = AE_AMBIGUOUS
           /\ d # AE_ERROR /\ AE_REDUCE + d # AE_ERROR /\ AE_AMBIGUOUS + d # AE_ERROR
           /\ AE_SHIFT # AE_REDUCE /\ AE_SHIFT # AE_AMBIGUOUS /\ AE_REDUCE # AE_AMBIGUOUS
<1> DEFINE b == config.maxIndex + 1
<1>1. b \in Nat \ {0} /\ Base = b /\ d \in 0..(b - 1)
  BY ConfigIs
<1> HIDE DEF b
<1>2. (0 * b + d) % b = d /\ (1 * b + d) % b = d /\ (2 * b + d) % b = d
  BY <1>1, ModOf
<1>3. 0 * b + d = d /\ 1 * b + d = b + d
  BY <1>1
<1>4. d % b = d /\ (b + d) % b = d /\ (2 * b + d) % b = d
  BY <1>2, <1>3
<1>5. Index(d) = d /\ Index(AE_REDUCE + d) = d /\ Index(AE_AMBIGUOUS + d) = d
  BY <1>1, <1>4 DEF Index, AE_REDUCE, AE_AMBIGUOUS
<1>6. Kind(d) = 0 /\ Kind(AE_REDUCE + d) = b /\ Kind(AE_AMBIGUOUS + d) = 2 * b
  <2>1. Kind(d) = d - (d % b) /\ Kind(AE_REDUCE + d) = (b + d) - ((b + d) % b)
        /\ Kind(AE_AMBIGUOUS + d) = (2 * b + d) - ((2 * b + d) % b)
    BY <1>1 DEF Kind, AE_REDUCE, AE_AMBIGUOUS
  <2>2. d - (d % b) = d - d /\ (b + d) - ((b + d) % b) = (b + d) - d
        /\ (2 * b + d) - ((2 * b + d) % b) = (2 * b + d) - d
    BY <1>4
  <2>3. d - d = 0 /\ (b + d) - d = b /\ (2 * b + d) - d = 2 * b
    BY <1>1
  <2> QED BY <2>1, <2>2, <2>3
<1> QED BY <1>1, <1>5, <1>6 DEF AE_SHIFT, AE_REDUCE, AE_AMBIGUOUS, AE_ERROR

\* a single action is read back
LEMMA DecodesOne ==
    ASSUME config \in Configs, NEW st \in State, NEW k \in Term, NumStates \in Nat,
           config.crs => firstWithTerminal \in [Term -> Int],
           NEW code, NEW a, Encodes(code, k, a, bigProductionList, productionsForState[st])
    PROVE  /\ ~isErrorAction(code) /\ (isShiftAction(code) \/ isReduceAction(code))
           /\ Action(code, st, k) = a
<1>1. CASE config.crs
  <2>1. ASSUME NEW to \in State, a = Shift(to), code = ShiftCode(to, k), IndexFits(code)
        PROVE  /\ ~isErrorAction(code) /\ isShiftAction(code) /\ Action(code, st, k) = a
    <3>1. code \in 0..config.maxIndex /\ code = to - firstWithTerminal[k]
      BY <1>1, <2>1 DEF IndexFits, ShiftCode
    <3>2. isShiftAction(code) /\ ~isErrorAction(code) /\ Index(code) = code
      BY <1>1, <3>1, KindsApart DEF isShiftAction, isErrorAction
    <3>3. decodeShift(code, k) = to
      BY <1>1, <3>1, <3>2 DEF decodeShift, State
    <3> QED BY <2>1, <3>2, <3>3 DEF Action
  <2>2. ASSUME NEW p \in Nat, a = Reduce(p), NEW d \in 0..config.maxIndex, code = AE_REDUCE + d,
               bigProductionList[productionsForState[st] + d + 1] = p
        PROVE  ~isErrorAction(code) /\ isReduceAction(code) /\ Action(code, st, k) = a
    <3>1. ~isShiftAction(code) /\ isReduceAction(code) /\ ~isErrorAction(code) /\ Index(code) = d
      BY <1>1, <2>2, KindsApart DEF isShiftAction, isErrorAction, isReduceAction
    <3>2. decodeReduce(code, st) = p
      BY <1>1, <2>2, <3>1 DEF decodeReduce
    <3> QED BY <2>2, <3>1, <3>2 DEF Action
  <2> QED BY <1>1, <2>1, <2>2 DEF Encodes
<1>2. CASE ~config.crs
  <2>1. ASSUME NEW to \in State, a = Shift(to), code = ShiftCode(to, k)
        PROVE  /\ ~isErrorAction(code) /\ isShiftAction(code) /\ Action(code, st, k) = a
    <3>1. code = to + 1 /\ code \in 1..NumStates
      BY <1>2, <2>1 DEF ShiftCode, State
    <3>2. isShiftAction(code) /\ ~isErrorAction(code) /\ decodeShift(code, k) = to
      BY <1>2, <3>1 DEF isShiftAction, isErrorAction, decodeShift, State
    <3> QED BY <2>1, <3>2 DEF Action
  <2>2. ASSUME NEW p \in Nat, a = Reduce(p), code = -p - 1
        PROVE  ~isErrorAction(code) /\ isReduceAction(code) /\ Action(code, st, k) = a
    <3>1. ~isShiftAction(code) /\ isReduceAction(code) /\ ~isErrorAction(code) /\ decodeReduce(code, st) = p
      BY <1>2, <2>2 DEF isShiftAction, isErrorAction, isReduceAction, decodeReduce
    <3> QED BY <2>2, <3>1 DEF Action
  <2> QED BY <1>2, <2>1, <2>2 DEF Encodes
<1> QED BY <1>1, <1>2

\* an entry is read back as the list it stands for
LEMMA DecodesList ==
    ASSUME config \in Configs, NEW st \in State, NEW k \in Term, NumStates \in Nat,
           config.crs => firstWithTerminal \in [Term -> Int],
           NEW X, NEW as \in Seq(X),
           EncodesAll(getActionEntry(st, k), st, k, as)
    PROVE  Decoded(st, k) = as
<1> DEFINE code == getActionEntry(st, k)
           place == decodeAmbigAction(code, st)
<1>0. Len(as) \in Nat /\ as = [i \in 1..Len(as) |-> as[i]]
  BY SeqIs
<1>1. CASE as = <<>> /\ code = errorActionEntry
  <2>1. isErrorAction(code)
    BY <1>1 DEF isErrorAction, errorActionEntry
  <2> QED BY <1>1, <2>1 DEF Decoded
<1>2. CASE Len(as) = 1 /\ Encodes(code, k, as[1], bigProductionList, productionsForState[st])
  <2> HIDE DEF code
  <2>1. /\ ~isErrorAction(code) /\ (isShiftAction(code) \/ isReduceAction(code))
        /\ Action(code, st, k) = as[1]
    BY <1>2, DecodesOne
  <2>2. as = <<as[1]>>
    BY <1>2, SingleIs
  <2> QED BY <2>1, <2>2 DEF Decoded, code
<1>3. ASSUME Len(as) >= 2, NEW p \in Nat,
             p + Len(as) < Len(ambigTable), ambigTable[p + 1] = Len(as),
             \A i \in 1..Len(as) :
                   Encodes(ambigTable[p + 1 + i], k, as[i], bigProductionList, productionsForState[st]),
             IF config.crs
             THEN \E d \in 0..config.maxIndex :
                     /\ code = AE_AMBIGUOUS + d
                     /\ ambigStateTable[st] \in Nat /\ p = ambigStateTable[st] + d
             ELSE code = NumStates + p + 1
      PROVE  Decoded(st, k) = as
  <2>1. ~isErrorAction(code) /\ ~isShiftAction(code) /\ ~isReduceAction(code) /\ place = p
    <3>1. CASE config.crs
      <4>1. PICK d \in 0..config.maxIndex :
                     /\ code = AE_AMBIGUOUS + d
                     /\ ambigStateTable[st] \in Nat /\ p = ambigStateTable[st] + d
        BY <1>3, <3>1
      <4> HIDE DEF code
      <4>2. ~isErrorAction(code) /\ ~isShiftAction(code) /\ ~isReduceAction(code) /\ Index(code) = d
        BY <3>1, <4>1, KindsApart DEF isErrorAction, isShiftAction, isReduceAction
      <4> QED BY <3>1, <4>1, <4>2 DEF decodeAmbigAction
    <3>2. CASE ~config.crs
      <4>1. code = NumStates + p + 1
        BY <1>3, <3>2
      <4> HIDE DEF code
      <4> QED BY <1>3, <3>2, <4>1 DEF isErrorAction, isShiftAction, isReduceAction, decodeAmbigAction
    <3> QED BY <3>1, <3>2
  <2>2. Decoded(st, k) = [i \in 1..ambigTable[p + 1] |-> Action(ambigTable[p + 1 + i], st, k)]
    BY <2>1 DEF Decoded
  <2>3. \A i \in 1..Len(as) : Action(ambigTable[p + 1 + i], st, k) = as[i]
    BY <1>3, DecodesOne
  <2> QED BY <1>0, <1>3, <2>2, <2>3
<1> QED BY <1>1, <1>2, <1>3 DEF EncodesAll

-----------------------------------------------------------------------------
(* The codes of one cell *)

\* a set of numbers that is not empty has a least element
LEMMA Least ==
    ASSUME NEW S \in SUBSET Nat, S # {}
    PROVE  \E m \in S : \A n \in S : m <= n
<1> DEFINE R == OpToRel(<, Nat)
<1>1. IsWellFoundedOn(R, Nat)
  BY NatLessThanWellFounded
<1>2. PICK m \in S : \A n \in S : <<n, m>> \notin R
  <2> HIDE DEF R
  <2> QED BY <1>1, WFMin
<1>3. \A n \in S : ~(n < m)
  BY <1>2 DEF OpToRel
<1> QED BY <1>3

\* a small number is its own remainder
LEMMA SmallMod ==
    ASSUME NEW b \in Nat \ {0}, NEW d \in 0..(b - 1)
    PROVE  d % b = d
  OBVIOUS

\* a list that grows twice has grown
LEMMA GrownAgain ==
    ASSUME NEW a, NEW b \in Seq(Nat), NEW c \in Seq(Nat), Len(a) \in Nat, Grown(a, b), Grown(b, c)
    PROVE  Grown(a, c)
  BY DEF Grown

\* a code more
LEMMA OneMore ==
    ASSUME NEW q \in Seq(Int), NEW x \in Int, NEW n \in Nat, Len(q) = n
    PROVE  /\ Append(q, x) \in Seq(Int) /\ Len(Append(q, x)) = n + 1
           /\ Append(q, x)[n + 1] = x /\ \A i \in 1..n : Append(q, x)[i] = q[i]
  OBVIOUS

\* the search for a production of a state ends at it or at the end of the list
LEMMA PlaceIs ==
    ASSUME NEW x, NEW list \in Seq(Nat), NEW begin \in 0..Len(list)
    PROVE  /\ PlaceOf(x, list, begin) \in begin..Len(list)
           /\ PlaceOf(x, list, begin) < Len(list) => list[PlaceOf(x, list, begin) + 1] = x
<1> DEFINE hits == {i \in begin..(Len(list) - 1) : list[i + 1] = x}
           p == PlaceOf(x, list, begin)
<1>1. hits \in SUBSET Nat /\ Len(list) \in Nat
  OBVIOUS
<1>2. p = IF hits = {} THEN Len(list) ELSE CHOOSE i \in hits : \A k \in hits : i <= k
  BY DEF PlaceOf
<1>3. CASE hits = {}
  BY <1>1, <1>2, <1>3
<1>4. CASE hits # {}
  <2>1. \E i \in hits : \A k \in hits : i <= k
    <3> HIDE DEF hits
    <3> QED BY <1>1, <1>4, Least
  <2>2. p \in hits
    BY <1>2, <1>4, <2>1
  <2> QED BY <1>1, <2>2
<1> QED BY <1>3, <1>4

\* what reads as an action still does when the list of productions has grown
LEMMA StillEncodes ==
    ASSUME NEW code, NEW k, NEW a, NEW prods \in Seq(Nat), NEW begin, NEW prods2 \in Seq(Nat), NEW begin2,
           Encodes(code, k, a, prods, begin), Grown(prods, prods2), begin \in Nat => begin2 = begin,
           config \in Configs
    PROVE  Encodes(code, k, a, prods2, begin2)
<1>1. CASE \E to \in State : /\ a = Shift(to) /\ code = ShiftCode(to, k)
                             /\ config.crs => IndexFits(code)
  BY <1>1 DEF Encodes
<1>2. ASSUME NEW p \in Nat, a = Reduce(p),
           IF config.crs
             THEN \E d \in 0..config.maxIndex :
                     /\ code = AE_REDUCE + d
                     /\ begin \in Nat /\ begin + d < Len(prods) /\ prods[begin + d + 1] = p
             ELSE code = -p - 1
      PROVE  Encodes(code, k, a, prods2, begin2)
  <2>1. CASE ~config.crs
    BY <1>2, <2>1 DEF Encodes
  <2>2. ASSUME config.crs, NEW d \in 0..config.maxIndex, code = AE_REDUCE + d, 
               begin \in Nat, begin + d < Len(prods), prods[begin + d + 1] = p
        PROVE  Encodes(code, k, a, prods2, begin2)
    <3>0. d \in Nat /\ Len(prods) \in Nat /\ Len(prods2) \in Nat
      <4>1. config.maxIndex \in Nat
        BY ConfigIs
      <4> QED BY <4>1
    <3>1. begin + d + 1 \in 1..Len(prods) /\ d \in Nat /\ Len(prods) \in Nat /\ Len(prods2) \in Nat
      BY <2>2, <3>0
    <3>2. Len(prods) <= Len(prods2) /\ prods2[begin + d + 1] = prods[begin + d + 1]
      BY <3>1 DEF Grown
    <3>3. prods2[begin + d + 1] = p /\ begin + d < Len(prods2)
      BY <2>2, <3>1, <3>2
    <3>4. begin2 = begin
      BY <2>2
    <3> QED BY <1>2, <2>2, <3>3, <3>4 DEF Encodes
  <2> QED BY <1>2, <2>1, <2>2
<1> QED BY <1>1, <1>2 DEF Encodes

\* the lists while a cell is encoded: the first n of the actions as have codes, as long
\* as everything fits
Building == [codes : Seq(Int), prods : Seq(Nat), begin : Nat \cup {UNASSIGNED}, ok : BOOLEAN]
BuildInv(e, k, as, n, prods, begin) ==
    /\ e \in Building /\ e.begin <= Len(e.prods)
    /\ Grown(prods, e.prods) /\ (begin \in Nat => e.begin = begin)
    /\ Len(e.codes) = n
    /\ e.ok = TRUE => \A i \in 1..n : Encodes(e.codes[i], k, as[i], e.prods, e.begin)

\* encodeReduce adds a code that is read back as the reduction
LEMMA EncodesNext ==
    ASSUME config \in Configs, NEW e, NEW k, NEW as, NEW n \in Nat, NEW prods \in Seq(Nat),
           NEW begin, BuildInv(e, k, as, n, prods, begin),
           NEW p \in Nat, p <= config.prodMax, as[n + 1] = Reduce(p)
    PROVE  BuildInv(encodeReduce(e, p), k, as, n + 1, prods, begin)
<1> DEFINE r == encodeReduce(e, p)
<1>1. /\ e \in Building /\ e.begin <= Len(e.prods)
      /\ Grown(prods, e.prods) /\ (begin \in Nat => e.begin = begin)
      /\ Len(e.codes) = n
      /\ e.ok = TRUE => \A i \in 1..n : Encodes(e.codes[i], k, as[i], e.prods, e.begin)
  BY DEF BuildInv
<1>2. e.codes \in Seq(Int) /\ e.prods \in Seq(Nat) /\ e.begin \in Nat \cup {UNASSIGNED} /\ e.ok \in BOOLEAN
  BY <1>1 DEF Building
<1> DEFINE ep == e.prods
           eb == e.begin
           ec == e.codes
<1>3. CASE ~config.crs
  <2> DEFINE c == Append(e.codes, -p - 1)
             ok == e.ok /\ CodeFits("reduce", -p - 1)
  <2>1. r = [codes |-> c, prods |-> ep, begin |-> eb, ok |-> ok]
    BY <1>3 DEF encodeReduce, Enc
  <2>2. c \in Seq(Int) /\ Len(c) = n + 1 /\ c[n + 1] = -p - 1 /\ \A i \in 1..n : c[i] = ec[i]
    BY <1>1, <1>2
  <2>3. ok \in BOOLEAN /\ (ok = TRUE => e.ok = TRUE)
    BY <1>2
  <2>4. Encodes(-p - 1, k, as[n + 1], ep, eb)
    BY <1>3 DEF Encodes
  <2>5. ok = TRUE => \A i \in 1..(n + 1) : Encodes(c[i], k, as[i], ep, eb)
    <3> HIDE DEF c, ok
    <3> SUFFICES ASSUME ok = TRUE, NEW i \in 1..(n + 1) PROVE Encodes(c[i], k, as[i], ep, eb)
      OBVIOUS
    <3>1. CASE i = n + 1
      BY <2>2, <2>4, <3>1
    <3>2. CASE i # n + 1
      <4>1. i \in 1..n
        BY <3>2
      <4> QED BY <1>1, <2>2, <2>3, <4>1
    <3> QED BY <3>1, <3>2
  <2> HIDE DEF c, ok, r
  <2>6. r \in Building
    BY <1>2, <2>1, <2>2, <2>3 DEF Building
  <2>7. BuildInv(r, k, as, n + 1, prods, begin)
    BY <1>1, <2>1, <2>2, <2>5, <2>6 DEF BuildInv
  <2> QED BY <2>7 DEF r
<1>4. CASE config.crs
  <2> DEFINE b == IF eb = UNASSIGNED THEN Len(ep) ELSE eb
             delta == ReduceIndex(p, ep, b)
             q == IF b + delta = Len(ep) THEN Append(ep, Stored(p)) ELSE ep
             c == Append(ec, AE_REDUCE + delta)
             ok == e.ok /\ IndexFits(delta)
  <2>1. r = [codes |-> c, prods |-> q, begin |-> b, ok |-> ok]
    BY <1>4 DEF encodeReduce, Enc
  <2>2. b \in 0..Len(ep) /\ (eb \in Nat => b = eb)
    BY <1>1, <1>2 DEF UNASSIGNED
  <2> HIDE DEF b
  <2>3. delta \in Nat /\ b + delta \in b..Len(ep) /\ (b + delta < Len(ep) => ep[b + delta + 1] = p)
    <3> DEFINE pl == PlaceOf(p, ep, b)
    <3>1. pl \in b..Len(ep) /\ (pl < Len(ep) => ep[pl + 1] = p) /\ Len(ep) \in Nat
      BY <1>2, <2>2, PlaceIs
    <3>2. delta = pl - b
      BY DEF ReduceIndex
    <3> HIDE DEF pl, delta
    <3>3. b + delta = pl
      BY <2>2, <3>1, <3>2
    <3> QED BY <2>2, <3>1, <3>2, <3>3
  <2> HIDE DEF delta
  <2>4. Stored(p) = p
    <3>1. config.prodMax \in Nat
      BY ConfigIs
    <3> DEFINE m == config.prodMax + 1
    <3>2. m \in Nat \ {0} /\ p \in 0..(m - 1)
      BY <3>1
    <3>3. p % m = p
      <4> HIDE DEF m
      <4> QED BY <3>2, SmallMod
    <3> QED BY <3>3 DEF Stored
  <2>5. q \in Seq(Nat) /\ Grown(ep, q) /\ b + delta < Len(q) /\ q[b + delta + 1] = p /\ b <= Len(q)
    <3>1. CASE b + delta = Len(ep)
      <4>1. q = Append(ep, p) /\ Len(ep) \in Nat /\ ep \in Seq(Nat)
        BY <1>2, <2>4, <3>1
      <4> HIDE DEF q, ep
      <4> QED BY <2>2, <2>3, <3>1, <4>1 DEF Grown
    <3>2. CASE b + delta # Len(ep)
      <4>1. q = ep /\ Len(ep) \in Nat /\ ep \in Seq(Nat)
        BY <1>2, <3>2
      <4> HIDE DEF q, ep
      <4> QED BY <2>2, <2>3, <3>2, <4>1 DEF Grown
    <3> QED BY <3>1, <3>2
  <2> HIDE DEF q
  <2>6. c \in Seq(Int) /\ Len(c) = n + 1 /\ c[n + 1] = AE_REDUCE + delta /\ \A i \in 1..n : c[i] = ec[i]
    <3>1. AE_REDUCE + delta \in Int
      BY <2>3, ConfigIs DEF AE_REDUCE
    <3> DEFINE x == AE_REDUCE + delta
    <3> HIDE DEF x
    <3>2. x \in Int /\ ec \in Seq(Int) /\ Len(ec) = n
      BY <1>1, <1>2, <3>1 DEF x
    <3>3. /\ Append(ec, x) \in Seq(Int) /\ Len(Append(ec, x)) = n + 1
          /\ Append(ec, x)[n + 1] = x /\ \A i \in 1..n : Append(ec, x)[i] = ec[i]
      BY <3>2, OneMore
    <3> QED BY <3>3 DEF x
  <2>7. ok \in BOOLEAN /\ (ok = TRUE => e.ok = TRUE /\ delta \in 0..config.maxIndex)
    BY <1>2 DEF IndexFits
  <2> HIDE DEF c, ok, r
  <2>8. ok = TRUE => \A i \in 1..(n + 1) : Encodes(c[i], k, as[i], q, b)
    <3> SUFFICES ASSUME ok = TRUE, NEW i \in 1..(n + 1) PROVE Encodes(c[i], k, as[i], q, b)
      OBVIOUS
    <3>1. CASE i = n + 1
      <4>1. b \in Nat
        BY <2>2
      <4> QED BY <1>4, <2>5, <2>6, <2>7, <3>1, <4>1 DEF Encodes
    <3>2. CASE i # n + 1
      <4>1. i \in 1..n
        BY <3>2
      <4>2. Encodes(ec[i], k, as[i], ep, eb)
        BY <1>1, <2>7, <4>1
      <4>3. Encodes(ec[i], k, as[i], q, b)
        BY <1>2, <2>2, <2>5, <4>2, StillEncodes
      <4> QED BY <2>6, <4>1, <4>3
    <3> QED BY <3>1, <3>2
  <2>9. r \in Building
    <3>1. b \in Nat \cup {UNASSIGNED}
      BY <2>2
    <3> QED BY <2>1, <2>5, <2>6, <2>7, <3>1 DEF Building
  <2>10. Grown(prods, q)
    <3>1. Grown(prods, ep) /\ ep \in Seq(Nat) /\ q \in Seq(Nat) /\ Grown(ep, q) /\ Len(prods) \in Nat
      BY <1>1, <1>2, <2>5
    <3> QED BY <3>1, GrownAgain
  <2>11. begin \in Nat => b = begin
    BY <1>1, <2>2
  <2>12. BuildInv(r, k, as, n + 1, prods, begin)
    BY <2>1, <2>5, <2>6, <2>8, <2>9, <2>10, <2>11 DEF BuildInv
  <2> QED BY <2>12 DEF r
<1> QED BY <1>3, <1>4

\* G takes a number and a value to the next value, and f has what n steps of it give
IsStep(G, n, X) == G \in [(1..n) \X X -> X]
Iterated(f, n, X, x0, G) ==
    f \in [0..n -> X] /\ f[0] = x0 /\ \A k \in 1..n : f[k] = G[<<k, f[k - 1]>>]

\* A step function can be iterated n times.
LEMMA Iterate ==
  ASSUME NEW n \in Nat, NEW X, NEW x0 \in X, NEW G, IsStep(G, n, X)
  PROVE  \E f : Iterated(f, n, X, x0, G)
<1>5. G \in [(1..n) \X X -> X]
  BY DEF IsStep
<1> DEFINE Is(f, m) == f \in [0..m -> X] /\ f[0] = x0 /\ \A k \in 1..m : f[k] = G[<<k, f[k - 1]>>]
           Missing == {m \in 0..n : ~\E f : Is(f, m)}
<1>1. \E f : Is(f, 0)
  <2> DEFINE e == [i \in 0..0 |-> x0]
  <2>1. Is(e, 0)
    OBVIOUS
  <2> QED BY <2>1
<1>2. ASSUME NEW m \in 1..n, NEW f, Is(f, m - 1)
      PROVE  \E g : Is(g, m)
  <2> DEFINE g == [i \in 0..m |-> IF i = m THEN G[<<m, f[m - 1]>>] ELSE f[i]]
  <2>1. m \in Nat \ {0} /\ m - 1 \in 0..(m - 1) /\ f \in [0..(m - 1) -> X] /\ f[0] = x0
        /\ \A k \in 1..(m - 1) : f[k] = G[<<k, f[k - 1]>>]
    BY <1>2
  <2>2. G[<<m, f[m - 1]>>] \in X
    BY <2>1, <1>5
  <2>3. \A i \in 0..(m - 1) : g[i] = f[i]
    BY <2>1
  <2>4. g[m] = G[<<m, g[m - 1]>>]
    <3>1. g[m] = G[<<m, f[m - 1]>>]
      BY <2>1
    <3> HIDE DEF g
    <3> QED BY <2>1, <2>3, <3>1
  <2>5. g \in [0..m -> X]
    <3>1. \A i \in 0..m : (IF i = m THEN G[<<m, f[m - 1]>>] ELSE f[i]) \in X
      BY <2>1, <2>2
    <3> QED BY <3>1
  <2> HIDE DEF g
  <2>6. \A k \in 1..m : g[k] = G[<<k, g[k - 1]>>]
    <3> SUFFICES ASSUME NEW k \in 1..m PROVE g[k] = G[<<k, g[k - 1]>>]
      OBVIOUS
    <3>1. CASE k = m
      BY <2>4, <3>1
    <3>2. CASE k # m
      <4>1. k \in 1..(m - 1) /\ k \in 0..(m - 1) /\ k - 1 \in 0..(m - 1)
        BY <2>1, <3>2
      <4> QED BY <2>1, <2>3, <4>1
    <3> QED BY <3>1, <3>2
  <2>7. g[0] = x0
    BY <2>1, <2>3
  <2> QED BY <2>5, <2>6, <2>7
<1> HIDE DEF Is
<1>3. Missing = {}
  <2> SUFFICES ASSUME Missing # {} PROVE FALSE
    OBVIOUS
  <2>1. PICK m \in Missing : \A k \in Missing : m <= k
    <3>1. Missing \in SUBSET Nat
      OBVIOUS
    <3> HIDE DEF Missing
    <3> QED BY <3>1, Least
  <2>2. m \in 1..n /\ m - 1 \in 0..n /\ m - 1 \notin Missing
    <3>1. m # 0
      BY <1>1, <2>1
    <3>2. m \in 0..n
      BY <2>1
    <3> QED BY <2>1, <3>1, <3>2
  <2>3. PICK f : Is(f, m - 1)
    BY <2>2
  <2> QED BY <1>2, <2>1, <2>2, <2>3
<1>4. PICK f : Is(f, n)
  BY <1>3
<1>6. Iterated(f, n, X, x0, G)
  BY <1>4 DEF Is, Iterated
<1> QED BY <1>6

Shifts(to) == IF to = STATE_INVALID THEN 0 ELSE 1

\* the actions of a cell, by their places
LEMMA ActionsAre ==
    ASSUME NEW to, NEW ps \in Seq(Nat)
    PROVE  /\ Len(ActionsOf(to, ps)) = Shifts(to) + Len(ps)
           /\ to # STATE_INVALID => ActionsOf(to, ps)[1] = Shift(to)
           /\ \A i \in 1..Len(ps) : ActionsOf(to, ps)[Shifts(to) + i] = Reduce(ps[i])
           /\ ActionsOf(to, ps) \in Seq({Shift(to)} \cup {Reduce(p) : p \in Nat})
<1> DEFINE X == {Shift(to)} \cup {Reduce(p) : p \in Nat}
           a == IF to = STATE_INVALID THEN <<>> ELSE <<Shift(to)>>
           b == [i \in DOMAIN ps |-> Reduce(ps[i])]
<1>1. Len(ps) \in Nat /\ DOMAIN ps = 1..Len(ps) /\ \A i \in 1..Len(ps) : ps[i] \in Nat
  OBVIOUS
<1>2. \A i \in 1..Len(ps) : Reduce(ps[i]) \in X
  BY <1>1
<1>3. b \in Seq(X) /\ Len(b) = Len(ps) /\ \A i \in 1..Len(ps) : b[i] = Reduce(ps[i])
  <2>1. b = [i \in 1..Len(ps) |-> Reduce(ps[i])]
    BY <1>1
  <2> HIDE DEF X
  <2>2. [i \in 1..Len(ps) |-> Reduce(ps[i])] \in [1..Len(ps) -> X]
    BY <1>2
  <2>3. b \in Seq(X) 
    BY <1>1, <2>1, <2>2, ElementOfSeq
  <2>4. DOMAIN b = 1..Len(ps)
    BY <2>1
  <2> HIDE DEF b
  <2>5. Len(b) = Len(ps)
    BY <1>1, <2>3, <2>4, LenProperties
  <2> QED BY <2>1, <2>3, <2>5
<1>4. a \in Seq(X) /\ Len(a) = Shifts(to) /\ (to # STATE_INVALID => a[1] = Shift(to))
  <2>1. Shift(to) \in X
    OBVIOUS
  <2> HIDE DEF X
  <2> QED BY <2>1 DEF Shifts
<1>5. ActionsOf(to, ps) = a \o b
  BY DEF ActionsOf
<1> HIDE DEF a, b, X
<1>6. /\ a \o b \in Seq(X) /\ Len(a \o b) = Len(a) + Len(b)
      /\ \A i \in 1..(Len(a) + Len(b)) : (a \o b)[i] = IF i <= Len(a) THEN a[i] ELSE b[i - Len(a)]
  <2>1. a \in Seq(X) /\ b \in Seq(X)
    BY <1>3, <1>4
  <2>2. a \o b \in Seq(X) /\ Len(a \o b) = Len(a) + Len(b)
    BY <2>1, ConcatProperties
  <2>3. \A i \in 1..(Len(a) + Len(b)) : (a \o b)[i] = IF i <= Len(a) THEN a[i] ELSE b[i - Len(a)]
    BY <2>1, ConcatProperties
  <2> QED BY <2>2, <2>3
<1>7. Shifts(to) \in {0, 1} /\ (to # STATE_INVALID => Shifts(to) = 1)
  BY DEF Shifts
<1>8. to # STATE_INVALID => (a \o b)[1] = Shift(to)
  BY <1>1, <1>3, <1>4, <1>6, <1>7
<1>9. \A i \in 1..Len(ps) : (a \o b)[Shifts(to) + i] = Reduce(ps[i])
  <2> SUFFICES ASSUME NEW i \in 1..Len(ps) PROVE (a \o b)[Shifts(to) + i] = Reduce(ps[i])
    OBVIOUS
  <2>1. Shifts(to) + i \in 1..(Len(a) + Len(b)) /\ ~(Shifts(to) + i <= Len(a)) /\ (Shifts(to) + i) - Len(a) = i
    BY <1>1, <1>3, <1>4, <1>7
  <2> QED BY <1>3, <1>6, <2>1
<1> QED BY <1>3, <1>4, <1>5, <1>6, <1>8, <1>9 DEF X

\* The codes of a cell stand for its actions, as long as all of them fit.
LEMMA EncodesCell ==
    ASSUME config \in Configs, NEW st \in State, NEW to \in State \cup {STATE_INVALID},
           NEW ps \in Seq(Nat), \A i \in 1..Len(ps) : ps[i] <= config.prodMax,
           bigProductionList \in Seq(Nat), Starts(productionsForState, bigProductionList),
           config.crs => firstWithTerminal \in [Term -> Int], t \in Term, NumStates \in Nat
    PROVE  BuildInv(EncodeActions(st, to, ps), t, ActionsOf(to, ps), Shifts(to) + Len(ps),
                    bigProductionList, productionsForState[st])
<1> DEFINE begin == productionsForState[st]
           big == bigProductionList
           as == ActionsOf(to, ps)
           L == Len(ps)
           b == Shifts(to)
           e0 == IF to = STATE_INVALID THEN Enc(<<>>, big, begin, TRUE)
                 ELSE Enc(<<ShiftCode(to, t)>>, big, begin, CodeFits("shift", ShiftCode(to, t)))
           Is(f) == f = [i \in 0..L |-> IF i = 0 THEN e0 ELSE encodeReduce(f[i - 1], ps[i])]
           Good(e, m) == BuildInv(e, t, as, m, big, begin)
<1>1. L \in Nat /\ b \in {0, 1} /\ \A i \in 1..L : ps[i] \in Nat /\ ps[i] <= config.prodMax /\ as[b + i] = Reduce(ps[i])
  <2>1. L \in Nat /\ b \in {0, 1} /\ \A i \in 1..L : ps[i] \in Nat /\ ps[i] <= config.prodMax
    BY DEF Shifts
  <2>2. \A i \in 1..L : as[b + i] = Reduce(ps[i])
    BY ActionsAre
  <2> QED BY <2>1, <2>2
<1>2. begin \in Nat \cup {UNASSIGNED} /\ begin <= Len(big) /\ big \in Seq(Nat) /\ Grown(big, big)
  BY DEF Starts, Grown
<1>3. Good(e0, b)
  <2>1. CASE to = STATE_INVALID
    <3>1. e0 = [codes |-> <<>>, prods |-> big, begin |-> begin, ok |-> TRUE] /\ b = 0
      BY <2>1 DEF Enc, Shifts
    <3> HIDE DEF e0, big, begin
    <3>2. e0 \in Building
      BY <1>2, <3>1 DEF Building
    <3> QED BY <1>2, <3>1, <3>2 DEF BuildInv
  <2>2. CASE to # STATE_INVALID
    <3> DEFINE c == ShiftCode(to, t)
               ok == CodeFits("shift", c)
    <3>1. e0 = [codes |-> <<c>>, prods |-> big, begin |-> begin, ok |-> ok] /\ b = 1
      BY <2>2 DEF Enc, Shifts
    <3>2. c \in Int /\ to \in State /\ as[1] = Shift(to)
      <4>1. to \in State /\ to \in Int
        BY <2>2 DEF State
      <4>2. config.crs => firstWithTerminal[t] \in Int
        OBVIOUS
      <4>3. c \in Int
        BY <4>1, <4>2 DEF ShiftCode
      <4>4. as[1] = Shift(to)
        BY <2>2, ActionsAre
      <4> QED BY <4>1, <4>3, <4>4
    <3>3. ok \in BOOLEAN /\ (ok = TRUE => (config.crs => IndexFits(c)))
      <4> HIDE DEF c, ok
      <4>1. CASE config.crs
        <5>1. ok = (c \in 0..config.maxIndex)
          BY <4>1, Zenon DEF CodeFits, IndexFits, ok
        <5>2. ok \in BOOLEAN
          BY <5>1
        <5>3. ok = TRUE => IndexFits(c)
          BY <5>1, Zenon DEF IndexFits
        <5> QED BY <5>2, <5>3
      <4>2. CASE ~config.crs
        <5>1. ok = (c \in (-config.actionMax - 1)..config.actionMax)
          BY <4>2, Zenon DEF CodeFits, ok
        <5> QED BY <4>2, <5>1
      <4> QED BY <4>1, <4>2
    <3>4. ok = TRUE => Encodes(c, t, as[1], big, begin)
      BY <3>2, <3>3 DEF Encodes
    <3> HIDE DEF e0, big, begin, c, ok, as
    <3>5. e0 \in Building
      <4>1. <<c>> \in Seq(Int)
        BY <3>2
      <4> QED BY <1>2, <3>1, <3>3, <4>1 DEF Building
    <3>6. e0.codes = <<c>> /\ Len(<<c>>) = 1 /\ <<c>>[1] = c
      BY <3>1
    <3>7. e0.ok = TRUE => \A i \in 1..1 : Encodes(e0.codes[i], t, as[i], e0.prods, e0.begin)
      <4>1. e0.prods = big /\ e0.begin = begin /\ e0.ok = ok /\ e0.codes[1] = c
        BY <3>1, <3>6
      <4>2. \A i \in 1..1 : i = 1
        OBVIOUS
      <4> QED BY <3>4, <4>1, <4>2, Zenon
    <3> QED BY <1>2, <3>1, <3>5, <3>6, <3>7 DEF BuildInv
  <2> QED BY <2>1, <2>2
<1>4. ASSUME NEW i \in 1..L, NEW e, Good(e, b + (i - 1)) PROVE Good(encodeReduce(e, ps[i]), b + i)
  <2> DEFINE m == b + (i - 1)
  <2> HIDE DEF begin, big, as, L, b
  <2>1. m \in Nat /\ m + 1 = b + i
    BY <1>1
  <2>4. ps[i] \in Nat /\ ps[i] <= config.prodMax /\ as[m + 1] = Reduce(ps[i])
    BY <1>1, <2>1
  <2>2. BuildInv(e, t, as, m, big, begin)
    BY <1>4
  <2> HIDE DEF m
  <2>3. BuildInv(encodeReduce(e, ps[i]), t, as, m + 1, big, begin)
    BY <1>2, <2>1, <2>2, <2>4, EncodesNext
  <2> QED BY <2>1, <2>3
<1> HIDE DEF e0, Good, as, L, b, big, begin
<1>5. \E f : Is(f)
  <2> DEFINE X == {e \in Building : \E m \in 0..(b + L) : Good(e, m)}
             G == [x \in (1..L) \X X |-> IF Good(x[2], b + (x[1] - 1)) THEN encodeReduce(x[2], ps[x[1]]) ELSE e0]
  <2>1. \A e, m : Good(e, m) => e \in Building
    BY DEF Good, BuildInv
  <2>2. e0 \in X
    BY <1>1, <1>3, <2>1
  <2>3. \A i \in 1..L, e \in X : (IF Good(e, b + (i - 1)) THEN encodeReduce(e, ps[i]) ELSE e0) \in X
    <3> SUFFICES ASSUME NEW i \in 1..L, NEW e \in X, Good(e, b + (i - 1)) PROVE encodeReduce(e, ps[i]) \in X
      BY <2>2
    <3>1. Good(encodeReduce(e, ps[i]), b + i)
      BY <1>4
    <3>2. b + i \in 0..(b + L)
      BY <1>1
    <3> QED BY <2>1, <3>1, <3>2
  <2> HIDE DEF X
  <2>4. IsStep(G, L, X)
    BY <2>3 DEF IsStep
  <2>5. \A i \in 1..L, e \in X : G[<<i, e>>] = IF Good(e, b + (i - 1)) THEN encodeReduce(e, ps[i]) ELSE e0
    OBVIOUS
  <2> HIDE DEF G
  <2>6. PICK f : Iterated(f, L, X, e0, G)
    BY <1>1, <2>2, <2>4, Iterate
  <2>7. f \in [0..L -> X] /\ f[0] = e0 /\ \A i \in 1..L : f[i] = G[<<i, f[i - 1]>>]
    BY <2>6 DEF Iterated
  <2>8. \A i \in 1..L : f[i - 1] \in X /\ f[i] = IF Good(f[i - 1], b + (i - 1)) THEN encodeReduce(f[i - 1], ps[i]) ELSE e0
    <3> SUFFICES ASSUME NEW i \in 1..L
                 PROVE  f[i - 1] \in X /\ f[i] = IF Good(f[i - 1], b + (i - 1)) THEN encodeReduce(f[i - 1], ps[i]) ELSE e0
      OBVIOUS
    <3>1. f[i - 1] \in X
      BY <1>1, <2>7
    <3>2. f[i] = G[<<i, f[i - 1]>>]
      BY <2>7
    <3> QED BY <2>5, <3>1, <3>2
  <2> DEFINE Bad == {i \in 0..L : ~Good(f[i], b + i)}
  <2>9. Bad = {}
    <3> SUFFICES ASSUME Bad # {} PROVE FALSE
      OBVIOUS
    <3>1. PICK i \in Bad : \A m \in Bad : i <= m
      <4>1. Bad \in SUBSET Nat
        OBVIOUS
      <4> HIDE DEF Bad
      <4> QED BY <4>1, Least
    <3>2. i # 0
      BY <1>1, <1>3, <2>7, <3>1
    <3>3. i \in 1..L /\ i - 1 \in 0..L /\ i - 1 \notin Bad
      BY <1>1, <3>1, <3>2
    <3>4. Good(f[i - 1], b + (i - 1))
      BY <3>3
    <3>5. Good(f[i], b + i)
      BY <1>4, <2>8, <3>3, <3>4
    <3> QED BY <3>1, <3>5
  <2>10. \A i \in 1..L : f[i] = encodeReduce(f[i - 1], ps[i])
    <3> SUFFICES ASSUME NEW i \in 1..L PROVE f[i] = encodeReduce(f[i - 1], ps[i])
      OBVIOUS
    <3>1. i - 1 \in 0..L
      BY <1>1
    <3> QED BY <2>8, <2>9, <3>1
  <2>11. f = [i \in 0..L |-> IF i = 0 THEN e0 ELSE encodeReduce(f[i - 1], ps[i])]
    <3>1. f = [i \in 0..L |-> f[i]]
      BY <2>7
    <3>2. \A i \in 0..L : f[i] = IF i = 0 THEN e0 ELSE encodeReduce(f[i - 1], ps[i])
      BY <1>1, <2>7, <2>10
    <3> QED BY <3>1, <3>2, Zenon
  <2> QED BY <2>11
<1> DEFINE c == CHOOSE f : Is(f)
<1>6. Is(c)
  BY <1>5, Zenon
<1>7. EncodeActions(st, to, ps) = c[L]
  BY Zenon DEF EncodeActions, e0, big, begin, L
<1>8. c[0] = e0 /\ \A i \in 1..L : c[i] = encodeReduce(c[i - 1], ps[i])
  <2> HIDE DEF c
  <2>1. \A i \in 0..L : c[i] = IF i = 0 THEN e0 ELSE encodeReduce(c[i - 1], ps[i])
    BY <1>6, Zenon
  <2> QED BY <1>1, <2>1
<1> HIDE DEF c
<1> DEFINE Bad == {i \in 0..L : ~Good(c[i], b + i)}
<1>9. Bad = {}
    <2> SUFFICES ASSUME Bad # {} PROVE FALSE
      OBVIOUS
    <2>1. PICK i \in Bad : \A m \in Bad : i <= m
      <3>1. Bad \in SUBSET Nat
        OBVIOUS
      <3> HIDE DEF Bad
      <3> QED BY <3>1, Least
    <2>2. i # 0
      BY <1>1, <1>3, <1>8, <2>1
    <2>3. i \in 1..L /\ i - 1 \in 0..L /\ i - 1 \notin Bad
      BY <1>1, <2>1, <2>2
    <2>4. Good(c[i - 1], b + (i - 1))
      BY <2>3
    <2>5. Good(c[i], b + i)
      BY <1>4, <1>8, <2>3, <2>4
    <2> QED BY <2>1, <2>5
<1>10. Good(c[L], b + L)
  BY <1>1, <1>9
<1> QED BY <1>7, <1>10 DEF Good, as, big, begin, b, L

\* a code of other lists, read with the same first states
LEMMA SameReads ==
    ASSUME UNCHANGED config, config.crs => UNCHANGED firstWithTerminal, 
           NEW code, NEW k, NEW a, NEW st,
           Encodes(code, k, a, bigProductionList', productionsForState'[st])
    PROVE  Encodes(code, k, a, bigProductionList, productionsForState[st])'
<1>0. config' = config /\ (config.crs => firstWithTerminal' = firstWithTerminal)
  OBVIOUS
<1>1. \A to : ShiftCode(to, k)' = ShiftCode(to, k)
  BY <1>0 DEF ShiftCode
<1>2. AE_REDUCE' = AE_REDUCE
  BY <1>0 DEF AE_REDUCE, Base
<1>3. \A x : IndexFits(x)' <=> IndexFits(x)
  BY <1>0 DEF IndexFits
<1> QED BY <1>0, <1>1, <1>2, <1>3 DEF Encodes

\* what an entry is read as stays, while the lists grow
LEMMA StillEncodesAll ==
    ASSUME config \in Configs, UNCHANGED config, config.crs => UNCHANGED firstWithTerminal,
           bigProductionList \in Seq(Nat), bigProductionList' \in Seq(Nat),
           Grown(bigProductionList, bigProductionList'),
           ambigTable \in Seq(Int), Grown(ambigTable, ambigTable'), Len(ambigTable') \in Nat,
           NEW st, NEW k, NEW code, NEW as, Len(as) \in Nat, 
           productionsForState[st] \in Nat => productionsForState'[st] = productionsForState[st],
           ambigStateTable[st] \in Nat => ambigStateTable'[st] = ambigStateTable[st],
           EncodesAll(code, st, k, as)
    PROVE  EncodesAll(code, st, k, as)'
<1>0. UNCHANGED <<errorActionEntry, AE_AMBIGUOUS>> /\ config' = config
  BY DEF errorActionEntry, AE_AMBIGUOUS, AE_ERROR, Base
<1>1. ASSUME NEW c, NEW a, Encodes(c, k, a, bigProductionList, productionsForState[st])
      PROVE  Encodes(c, k, a, bigProductionList, productionsForState[st])'
  <2>1. Encodes(c, k, a, bigProductionList', productionsForState'[st])
    BY <1>1, StillEncodes
  <2> QED BY <2>1, SameReads
<1> DEFINE Reads(c, a) == Encodes(c, k, a, bigProductionList, productionsForState[st])
<1>2. \A c, a : Reads(c, a) => Reads(c, a)'
  BY <1>1
<1> HIDE DEF Reads
<1>3. CASE as = <<>> /\ code = errorActionEntry
  BY <1>0, <1>3 DEF EncodesAll
<1>4. CASE Len(as) = 1 /\ Reads(code, as[1])
  <2>1. Reads(code, as[1])'
    BY <1>2, <1>4
  <2> QED BY <1>4, <2>1 DEF EncodesAll, Reads
<1>5. ASSUME Len(as) >= 2, NEW p \in Nat, p + Len(as) < Len(ambigTable), ambigTable[p + 1] = Len(as),
             \A i \in 1..Len(as) : Reads(ambigTable[p + 1 + i], as[i]),
             IF config.crs
             THEN \E d \in 0..config.maxIndex :
                     /\ code = AE_AMBIGUOUS + d
                     /\ ambigStateTable[st] \in Nat /\ p = ambigStateTable[st] + d
             ELSE code = NumStates + p + 1
      PROVE  EncodesAll(code, st, k, as)'
  <2>0. Len(ambigTable) \in Nat /\ Len(ambigTable) <= Len(ambigTable')
        /\ p + 1 \in 1..Len(ambigTable) /\ \A i \in 1..Len(as) : p + 1 + i \in 1..Len(ambigTable)
    <3>1. Len(ambigTable) \in Nat /\ Len(ambigTable) <= Len(ambigTable')
      BY DEF Grown
    <3> DEFINE n == Len(as)
               m == Len(ambigTable)
    <3>2. p + n < m /\ n >= 2 /\ n \in Nat /\ m \in Nat
      BY <1>5, <3>1
    <3> HIDE DEF n, m
    <3>3. p + 1 \in 1..m /\ \A i \in 1..n : p + 1 + i \in 1..m
      BY <3>2
    <3> QED BY <3>1, <3>3 DEF n, m
  <2>1. p + Len(as) < Len(ambigTable') /\ ambigTable'[p + 1] = Len(as)
    <3>1. ambigTable'[p + 1] = ambigTable[p + 1]
      BY <2>0 DEF Grown
    <3>2. ambigTable[p + 1] = Len(as)
      BY <1>5
    <3> DEFINE n == Len(as)
               m == Len(ambigTable)
               m2 == Len(ambigTable')
    <3>3. p + n < m /\ n \in Nat /\ m \in Nat /\ m2 \in Nat /\ m <= m2
      BY <1>5, <2>0
    <3> HIDE DEF n, m, m2
    <3>4. p + n < m2
      BY <3>3
    <3> QED BY <3>1, <3>2, <3>4 DEF n, m2
  <2>2. \A i \in 1..Len(as) : ambigTable'[p + 1 + i] = ambigTable[p + 1 + i]
    BY <2>0 DEF Grown
  <2>3. \A i \in 1..Len(as) : Reads(ambigTable[p + 1 + i], as[i])'
    <3> SUFFICES ASSUME NEW i \in 1..Len(as) PROVE Reads(ambigTable[p + 1 + i], as[i])'
      OBVIOUS
    <3> DEFINE c == ambigTable[p + 1 + i]
    <3>1. Reads(c, as[i]) /\ c' = c
      BY <1>5, <2>2
    <3> HIDE DEF c
    <3>2. PICK x : x = c
      OBVIOUS
    <3>3. Reads(x, as[i])'
      BY <1>2, <3>1, <3>2
    <3> QED BY <3>1, <3>2, <3>3 DEF c, Reads
  <2>4. IF config'.crs
        THEN \E d \in 0..config'.maxIndex :
                /\ code = AE_AMBIGUOUS' + d
                /\ ambigStateTable'[st] \in Nat /\ p = ambigStateTable'[st] + d
        ELSE code = NumStates + p + 1
    BY <1>0, <1>5
  <2> QED BY <1>5, <2>1, <2>3, <2>4 DEF EncodesAll, Reads
<1> QED BY <1>3, <1>4, <1>5 DEF EncodesAll, Reads

-----------------------------------------------------------------------------
(* The ambiguous lists *)

\* a list with its length, found in the ambiguous lists or added at their end
WithSet(place, set) == IF place = Len(ambigTable) THEN ambigTable \o <<Len(set)>> \o set ELSE ambigTable

Holds(list, place, set) ==
    /\ place + Len(set) < Len(list) /\ list[place + 1] = Len(set)
    /\ \A i \in 1..Len(set) : list[place + 1 + i] = set[i]

\* a list that is appended to the ambiguous lists is found where they ended
LEMMA AppendedHolds ==
    ASSUME NEW list \in Seq(Int), NEW set \in Seq(Int)
    PROVE  /\ list \o <<Len(set)>> \o set \in Seq(Int)
           /\ Grown(list, list \o <<Len(set)>> \o set)
           /\ Holds(list \o <<Len(set)>> \o set, Len(list), set)
<1> DEFINE one == <<Len(set)>>
           mid == list \o one
           all == mid \o set
           n == Len(list)
           m == Len(set)
<1>1. n \in Nat /\ m \in Nat /\ one \in Seq(Int) /\ Len(one) = 1 /\ one[1] = m
  OBVIOUS
<1> HIDE DEF one, m, n
<1>2. /\ mid \in Seq(Int) /\ Len(mid) = n + 1
      /\ \A i \in 1..(n + 1) : mid[i] = IF i <= n THEN list[i] ELSE one[i - n]
  <2>1. mid \in Seq(Int) /\ Len(mid) = Len(list) + Len(one)
    BY <1>1, ConcatProperties
  <2>2. \A i \in 1..(Len(list) + Len(one)) : mid[i] = IF i <= Len(list) THEN list[i] ELSE one[i - Len(list)]
    BY <1>1, ConcatProperties
  <2> QED BY <1>1, <2>1, <2>2 DEF n
<1> HIDE DEF mid
<1>3. mid[n + 1] = m /\ \A i \in 1..n : mid[i] = list[i]
  <2>1. n + 1 \in 1..(n + 1) /\ ~(n + 1 <= n) /\ (n + 1) - n = 1
    BY <1>1
  <2>2. \A i \in 1..n : i \in 1..(n + 1) /\ i <= n
    BY <1>1
  <2> QED BY <1>1, <1>2, <2>1, <2>2
<1> HIDE DEF mid
<1>4. /\ all \in Seq(Int) /\ Len(all) = (n + 1) + m
      /\ \A i \in 1..((n + 1) + m) : all[i] = IF i <= n + 1 THEN mid[i] ELSE set[i - (n + 1)]
  <2>1. all \in Seq(Int) /\ Len(all) = Len(mid) + Len(set)
    BY <1>2, ConcatProperties
  <2>2. \A i \in 1..(Len(mid) + Len(set)) : all[i] = IF i <= Len(mid) THEN mid[i] ELSE set[i - Len(mid)]
    BY <1>2, ConcatProperties
  <2> QED BY <1>2, <2>1, <2>2 DEF m
<1> HIDE DEF all
<1>5. all[n + 1] = m /\ \A i \in 1..n : all[i] = list[i]
  <2>1. n + 1 \in 1..((n + 1) + m) /\ n + 1 <= n + 1
    BY <1>1
  <2>2. \A i \in 1..n : i \in 1..((n + 1) + m) /\ i <= n + 1
    BY <1>1
  <2> QED BY <1>3, <1>4, <2>1, <2>2
<1>6. \A i \in 1..m : all[n + 1 + i] = set[i]
  <2> SUFFICES ASSUME NEW i \in 1..m PROVE all[n + 1 + i] = set[i]
    OBVIOUS
  <2>1. n + 1 + i \in 1..((n + 1) + m) /\ ~(n + 1 + i <= n + 1) /\ (n + 1 + i) - (n + 1) = i
    BY <1>1
  <2> QED BY <1>4, <2>1
<1>7. Grown(list, all)
  BY <1>1, <1>4, <1>5 DEF Grown, n
<1>8. Holds(all, n, set)
  <2>1. n + m < Len(all)
    BY <1>1, <1>4
  <2> QED BY <1>5, <1>6, <2>1 DEF Holds, m
<1> QED BY <1>4, <1>7, <1>8 DEF all, mid, one, m, n

\* a list that compareAmbig finds is found there
LEMMA ComparedHolds ==
    ASSUME NEW set \in Seq(Int), NEW i \in Nat, ambigTable \in Seq(Int), compareAmbig(set, i)
    PROVE  Holds(ambigTable, i, set)
<1> DEFINE n == Len(set)
           sub == SubSeq(ambigTable, i + 1, i + 1 + n)
           r == <<n>> \o set
<1>1. n \in Nat /\ Len(ambigTable) \in Nat
  OBVIOUS
<1>2. i + n + 1 <= Len(ambigTable) /\ sub = r
  BY DEF compareAmbig
<1>3. \A m \in 1..(n + 1) : sub[m] = ambigTable[i + m]
  <2> SUFFICES ASSUME NEW m \in 1..(n + 1) PROVE sub[m] = ambigTable[i + m]
    OBVIOUS
  <2> DEFINE a == i + 1
             b == i + 1 + n
  <2>1. a \in 1..(Len(ambigTable) + 1) /\ b \in (a - 1)..Len(ambigTable)
    BY <1>1, <1>2
  <2>2. m \in 1..((b - a) + 1) /\ (a + m) - 1 = i + m
    BY <1>1
  <2> HIDE DEF a, b
  <2>3. \A x \in 1..((b - a) + 1) : SubSeq(ambigTable, a, b)[x] = ambigTable[(a + x) - 1]
    BY <2>1, SubSeqProperties
  <2> QED BY <2>2, <2>3 DEF a, b
<1>4. r[1] = n /\ \A m \in 1..n : r[m + 1] = set[m]
  <2> DEFINE one == <<n>>
  <2>1. one \in Seq(Int) /\ Len(one) = 1 /\ one[1] = n
    BY <1>1
  <2> HIDE DEF one
  <2>2. \A x \in 1..(Len(one) + Len(set)) : (one \o set)[x] = IF x <= Len(one) THEN one[x] ELSE set[x - Len(one)]
    BY <2>1, ConcatProperties
  <2>3. \A x \in 1..(1 + n) : (one \o set)[x] = IF x <= 1 THEN one[x] ELSE set[x - 1]
    BY <2>1, <2>2
  <2> HIDE DEF n
  <2>4. (one \o set)[1] = n /\ \A m \in 1..n : (one \o set)[m + 1] = set[m]
    <3>1. (one \o set)[1] = n
      BY <1>1, <2>1, <2>3
    <3> SUFFICES ASSUME NEW m \in 1..n PROVE (one \o set)[m + 1] = set[m]
      BY <3>1
    <3>2. m + 1 \in 1..(1 + n) /\ ~(m + 1 <= 1) /\ (m + 1) - 1 = m
      BY <1>1
    <3> QED BY <2>3, <3>2
  <2> QED BY <2>4 DEF one
<1> HIDE DEF sub, r
<1>5. ambigTable[i + 1] = n
  <2>1. 1 \in 1..(n + 1)
    BY <1>1
  <2> QED BY <1>2, <1>3, <1>4, <2>1
<1>6. \A m \in 1..n : ambigTable[i + 1 + m] = set[m]
  <2> SUFFICES ASSUME NEW m \in 1..n PROVE ambigTable[i + 1 + m] = set[m]
    OBVIOUS
  <2>1. m + 1 \in 1..(n + 1) /\ i + (m + 1) = i + 1 + m
    BY <1>1
  <2>2. sub[m + 1] = ambigTable[i + (m + 1)]
    BY <1>3, <2>1
  <2> QED BY <1>2, <1>4, <2>1, <2>2
<1>7. i + n < Len(ambigTable)
  BY <1>1, <1>2
<1> QED BY <1>5, <1>6, <1>7 DEF Holds

\* encodeAmbig leaves the list at the place it returns
LEMMA AmbigPlaceHolds ==
    ASSUME NEW set \in Seq(Int), ambigTable \in Seq(Int), NEW begin \in 0..Len(ambigTable),
           NEW place, place = AmbigPlace(set, begin)
    PROVE  /\ place \in begin..Len(ambigTable) /\ place \in Nat
           /\ ~config.crs => place = Len(ambigTable)
           /\ WithSet(place, set) \in Seq(Int)
           /\ Grown(ambigTable, WithSet(place, set))
           /\ Holds(WithSet(place, set), place, set)
<1> DEFINE hits == {i \in begin..(Len(ambigTable) - 1) : compareAmbig(set, i)}
<1>1. place = IF config.crs /\ hits # {} THEN CHOOSE i \in hits : \A k \in hits : i <= k
              ELSE Len(ambigTable)
  BY DEF AmbigPlace
<1>2. Len(ambigTable) \in Nat /\ begin \in Nat /\ hits \in SUBSET Nat
  OBVIOUS
<1>3. CASE place = Len(ambigTable)
  <2>1. WithSet(place, set) = ambigTable \o <<Len(set)>> \o set
    BY <1>3 DEF WithSet
  <2> HIDE DEF hits
  <2> QED BY <1>2, <1>3, <2>1, AppendedHolds
<1>4. CASE place # Len(ambigTable)
  <2>1. config.crs /\ hits # {}
    BY <1>1, <1>4
  <2>2. \E i \in hits : \A k \in hits : i <= k
    <3> HIDE DEF hits
    <3> QED BY <1>2, <2>1, Least
  <2>3. place \in hits
    BY <1>1, <2>1, <2>2
  <2>4. place \in begin..(Len(ambigTable) - 1) /\ compareAmbig(set, place) /\ place \in Nat
    BY <1>2, <2>3
  <2>5. Holds(ambigTable, place, set)
    BY <2>4, ComparedHolds
  <2>6. WithSet(place, set) = ambigTable /\ Grown(ambigTable, ambigTable)
    BY <1>4 DEF WithSet, Grown
  <2> HIDE DEF hits
  <2> QED BY <1>2, <2>1, <2>4, <2>5, <2>6
<1> QED BY <1>3, <1>4

CellKept ==
    pc = "cells" /\ resolving # "idle" => cell = CellAt(s, t) /\ CR!KeptInOrder

\* the actions of a cell are a list
LEMMA ActionsAreList ==
    ASSUME lr \in Automaton, NEW st \in State, NEW k \in Term
    PROVE  /\ lr.shift[st][k] \in State \cup {STATE_INVALID} /\ lr.reduce[st][k] \in Seq(Nat)
           /\ \E X : Actions(st, k) \in Seq(X)
<1>1. lr.shift[st][k] \in State \cup {STATE_INVALID} /\ lr.reduce[st][k] \in Seq(Nat)
  BY DEF Automaton
<1>2. Actions(st, k) = ActionsOf(lr.shift[st][k], lr.reduce[st][k])
  BY DEF Actions
<1>3. Actions(st, k) \in Seq({Shift(lr.shift[st][k])} \cup {Reduce(p) : p \in Nat})
  BY <1>1, <1>2, ActionsAre
<1> QED BY <1>1, <1>3

\* a list with members is not the empty one
LEMMA NotEmpty == \A q : Len(q) # 0 => q # <<>>
<1>1. Len(<<>>) = 0
  OBVIOUS
<1> QED BY <1>1, Zenon

\* an entry is the error entry only of a cell without actions
LEMMA OnlyErrorsAreErrors ==
    ASSUME config \in Configs, NEW st \in State, NEW k \in Term, NumStates \in Nat,
           config.crs => firstWithTerminal \in [Term -> Int],
           NEW code, NEW X, NEW as \in Seq(X), EncodesAll(code, st, k, as)
    PROVE  code = errorActionEntry <=> as = <<>>
<1> DEFINE AsMany(p) ==
             IF config.crs
             THEN \E d \in 0..config.maxIndex :
                     /\ code = AE_AMBIGUOUS + d
                     /\ ambigStateTable[st] \in Nat /\ p = ambigStateTable[st] + d
             ELSE code = NumStates + p + 1
           Single == Encodes(code, k, as[1], bigProductionList, productionsForState[st])
<1>0. \/ as = <<>> /\ code = errorActionEntry
      \/ Len(as) = 1 /\ Single
      \/ Len(as) >= 2 /\ \E p \in Nat : AsMany(p)
  <2> HIDE DEF Single, AsMany
  <2>1. EncodesAll(code, st, k, as) <=>
          \/ as = <<>> /\ code = errorActionEntry
          \/ Len(as) = 1 /\ Single
          \/ /\ Len(as) >= 2
             /\ \E place \in Nat :
                   /\ place + Len(as) < Len(ambigTable) /\ ambigTable[place + 1] = Len(as)
                   /\ \A i \in 1..Len(as) :
                         Encodes(ambigTable[place + 1 + i], k, as[i], bigProductionList, productionsForState[st])
                   /\ AsMany(place)
    BY Zenon DEF EncodesAll, Single, AsMany
  <2> QED BY <2>1, Zenon
<1>1. CASE as = <<>> /\ code = errorActionEntry
  BY <1>1
<1>2. CASE Len(as) = 1 /\ Encodes(code, k, as[1], bigProductionList, productionsForState[st])
  <2>1. ~isErrorAction(code)
    BY <1>2, DecodesOne
  <2>2. code # errorActionEntry
    BY <2>1 DEF isErrorAction, errorActionEntry
  <2>3. as # <<>>
    <3>1. Len(as) # 0
      BY <1>2
    <3> QED BY <3>1, NotEmpty
  <2> QED BY <2>2, <2>3
<1>3. ASSUME Len(as) >= 2, NEW p \in Nat, AsMany(p)
      PROVE  code # errorActionEntry /\ as # <<>>
  <2>1. code # errorActionEntry
    <3>1. CASE config.crs
      BY <1>3, <3>1, KindsApart DEF errorActionEntry
    <3>2. CASE ~config.crs
      BY <1>3, <3>2 DEF errorActionEntry
    <3> QED BY <3>1, <3>2
  <2>2. as # <<>>
    <3> DEFINE m == Len(as)
    <3>0. m \in Nat /\ m >= 2
      BY <1>3, SeqIs
    <3> HIDE DEF m
    <3>1. m # 0
      BY <3>0
    <3> QED BY <3>1, NotEmpty DEF m
  <2> QED BY <2>1, <2>2
<1> HIDE DEF AsMany
<1> QED BY <1>0, <1>1, <1>2, <1>3

\* the invariant gives what the parser reads of finished tables
LEMMA ReadyDecodes ==
    ASSUME ShapeInv, CellsInv, GotosInv, NumStates \in Nat
    PROVE  DecodesBack
<1> SUFFICES ASSUME Ready, NEW st \in State
             PROVE  /\ \A k \in Term : Decoded(st, k) = Actions(st, k)
                    /\ \A n \in Nonterm : lr.goto[st][n] # STATE_INVALID =>
                          /\ decodeGoto(st, n) = lr.goto[st][n]
                          /\ gotoTable[gotoRow[st]][gotoIndexMap[n]] # errorGotoEntry
  BY DEF DecodesBack
<1>0. /\ config \in Configs /\ lr \in Automaton /\ pc \in {"done", "emitted"}
      /\ config.crs => firstWithTerminal \in [Term -> Int] /\ firstWithNonterminal \in [Nonterm -> Int]
      /\ ~config.eef => Unmerged
  BY DEF ShapeInv, Ready
<1>1. ASSUME NEW k \in Term PROVE Decoded(st, k) = Actions(st, k)
  <2> DEFINE as == Actions(st, k)
             code == getActionEntry(st, k)
  <2>1. PICK X : as \in Seq(X)
    BY <1>0, ActionsAreList
  <2>2. Filled(st, k)
    BY <1>0 DEF Filled
  <2>3. /\ (Factored /\ as = <<>>) \/ EncodesAll(Entry(st, k), st, k, as)
        /\ Factored => (k \in errorBits[errorRow[st]] <=> as = <<>>)
    BY <2>2 DEF CellsInv
  <2>4. Factored <=> config.eef
    BY <1>0 DEF Factored
  <2>5. CASE config.eef
    <3>3. EncodesAll(code, st, k, as)
      <4> HIDE DEF code, as
      <4>1. CASE as = <<>>
        <5>1. code = errorActionEntry
          BY <2>3, <2>4, <2>5, <4>1 DEF getActionEntry, actionEntryIsError, code
        <5> QED BY <4>1, <5>1 DEF EncodesAll
      <4>2. CASE as # <<>>
        <5>1. code = Entry(st, k)
          BY <2>3, <2>4, <2>5, <4>2 DEF getActionEntry, actionEntryIsError, Entry, code
        <5>2. EncodesAll(Entry(st, k), st, k, as)
          BY <2>3, <4>2
        <5> QED BY <5>1, <5>2
      <4> QED BY <4>1, <4>2
    <3> QED BY <1>0, <2>1, <3>3, DecodesList
  <2>6. CASE ~config.eef
    <3>1. actionRow[st] = st /\ actionIndexMap[k] = k
      BY <1>0, <2>6 DEF Unmerged
    <3>2. EncodesAll(Entry(st, k), st, k, as)
      BY <2>3, <2>4, <2>6
    <3>3. Entry(st, k) = actionTable[st][k]
      BY <3>1 DEF Entry
    <3>4. code = Entry(st, k)
      <4>1. isErrorAction(actionTable[st][k]) => errorActionEntry = actionTable[st][k]
        BY DEF isErrorAction, errorActionEntry
      <4> QED BY <2>6, <3>1, <3>3, <4>1 DEF getActionEntry, actionEntryIsError
    <3> HIDE DEF code, as
    <3>5. EncodesAll(code, st, k, as)
      BY <3>2, <3>4
    <3> QED BY <1>0, <2>1, <3>5, DecodesList DEF code, as
  <2> QED BY <2>5, <2>6
<1>2. ASSUME NEW n \in Nonterm, lr.goto[st][n] # STATE_INVALID
      PROVE  /\ decodeGoto(st, n) = lr.goto[st][n]
             /\ gotoTable[gotoRow[st]][gotoIndexMap[n]] # errorGotoEntry
  <2>1. GotoEntry(st, n) = GotoCode(st, n) /\ GotoFits(GotoCode(st, n))
    BY <1>0, <1>2 DEF GotosInv, GotosFilled
  <2>2. lr.goto[st][n] \in State
    BY <1>0, <1>2 DEF Automaton
  <2>3. lr.goto[st][n] \in Int
    BY <2>2 DEF State
  <2> DEFINE to == lr.goto[st][n]
             code == gotoTable[gotoRow[st]][gotoIndexMap[n]]
  <2>4. code = GotoCode(st, n)
    BY <2>1 DEF GotoEntry
  <2>5. GotoCode(st, n) = IF config.crs THEN to - firstWithNonterminal[n] ELSE to
    BY <1>2 DEF GotoCode
  <2>6. config.crs => firstWithNonterminal[n] \in Int
    BY <1>0
  <2>7. decodeGoto(st, n) = IF config.crs THEN firstWithNonterminal[n] + code ELSE code
    BY DEF decodeGoto
  <2>8. config.gotoMax \in Nat
    BY <1>0, ConfigIs
  <2> HIDE DEF to, code
  <2>9. decodeGoto(st, n) = to
    BY <2>3, <2>4, <2>5, <2>6, <2>7 DEF to
  <2>10. code # errorGotoEntry
    BY <2>1, <2>4, <2>8 DEF GotoFits, errorGotoEntry
  <2> QED BY <2>9, <2>10 DEF to, code
<1> QED BY <1>1, <1>2

\* error, single action and ambiguous entry are all the cases
LEMMA SmallNumber == \A n \in Nat : n = 0 \/ n = 1 \/ n >= 2
  OBVIOUS

\* the cell that has just been filled is read back
LEMMA FilledEncodes ==
    ASSUME config \in Configs, UNCHANGED config, config.crs => UNCHANGED firstWithTerminal,
           NEW st, NEW k, NEW e, NEW X, NEW as \in Seq(X), NEW n \in Nat, n = Len(as),
           NEW prods, NEW begin, BuildInv(e, k, as, n, prods, begin), e.ok = TRUE,
           bigProductionList' = e.prods, productionsForState'[st] = e.begin,
           NEW code,
           n = 0 => code = errorActionEntry,
           n = 1 => code = e.codes[1],
           NEW place \in Nat, NEW from \in Nat, from <= place,
           n >= 2 => /\ Holds(ambigTable', place, e.codes)
                     /\ CodeFits("ambig", IF config.crs THEN place - from ELSE NumStates + place + 1)
                     /\ code = Code(AE_AMBIGUOUS, IF config.crs THEN place - from ELSE NumStates + place + 1)
                     /\ config.crs => ambigStateTable'[st] = from
    PROVE  EncodesAll(code, st, k, as)'
<1> DEFINE Reads(c, a) == Encodes(c, k, a, bigProductionList, productionsForState[st])
<1>0. UNCHANGED <<errorActionEntry, AE_AMBIGUOUS>> /\ config' = config
  BY DEF errorActionEntry, AE_AMBIGUOUS, AE_ERROR, Base
<1>1. Len(e.codes) = n /\ \A i \in 1..n : Encodes(e.codes[i], k, as[i], e.prods, e.begin)
  BY DEF BuildInv
<1>2. \A i \in 1..n : Reads(e.codes[i], as[i])'
  <2> SUFFICES ASSUME NEW i \in 1..n PROVE Reads(e.codes[i], as[i])'
    OBVIOUS
  <2>1. Encodes(e.codes[i], k, as[i], bigProductionList', productionsForState'[st])
    BY <1>1
  <2>2. Encodes(e.codes[i], k, as[i], bigProductionList, productionsForState[st])'
    BY <2>1, SameReads
  <2> QED BY <2>2
<1>3. CASE n = 0
  <2>1. as = <<>>
    BY <1>3, EmptySeq
  <2> QED BY <1>0, <1>3, <2>1 DEF EncodesAll
<1> HIDE DEF Reads
<1>4. CASE n = 1
  <2>1. 1 \in 1..n
    BY <1>4
  <2>2. Reads(e.codes[1], as[1])'
    BY <1>2, <2>1
  <2> QED BY <1>4, <2>2 DEF EncodesAll, Reads
<1>5. CASE n >= 2
  <2> DEFINE set == e.codes
             index == IF config.crs THEN place - from ELSE NumStates + place + 1
  <2>1. /\ place + n < Len(ambigTable') /\ ambigTable'[place + 1] = n
        /\ \A i \in 1..n : ambigTable'[place + 1 + i] = set[i]
    BY <1>1, <1>5 DEF Holds
  <2>2. \A i \in 1..n : Reads(ambigTable[place + 1 + i], as[i])'
    BY <1>2, <2>1 DEF Reads
  <2>3. IF config'.crs
        THEN \E d \in 0..config'.maxIndex :
                /\ code = AE_AMBIGUOUS' + d
                /\ ambigStateTable'[st] \in Nat /\ place = ambigStateTable'[st] + d
        ELSE code = NumStates + place + 1
    <3>1. CASE config.crs
      <4>1. index = place - from /\ code = AE_AMBIGUOUS + index /\ index \in 0..config.maxIndex
        BY <1>5, <3>1 DEF Code, CodeFits, IndexFits
      <4>2. ambigStateTable'[st] = from
        BY <1>5, <3>1
      <4>3. place = from + index
        BY <4>1
      <4> HIDE DEF index
      <4> QED BY <1>0, <3>1, <4>1, <4>2, <4>3
    <3>2. CASE ~config.crs
      BY <1>0, <1>5, <3>2 DEF Code
    <3> QED BY <3>1, <3>2
  <2> QED BY <1>5, <2>1, <2>2, <2>3 DEF EncodesAll, Reads
<1>6. n = 0 \/ n = 1 \/ n >= 2
  BY SmallNumber
<1> QED BY <1>3, <1>4, <1>5, <1>6, Zenon

\* what is known of the tables when a cell is filled
Context ==
    /\ config \in Configs /\ lr \in Automaton /\ NumStates \in Nat /\ s \in State /\ t \in Term
    /\ config.crs => firstWithTerminal \in [Term -> Int]
    /\ bigProductionList \in Seq(Nat) /\ Starts(productionsForState, bigProductionList)
    /\ ambigTable \in Seq(Int) /\ Starts(ambigStateTable, ambigTable)
    /\ actionTable \in [State -> [Term -> Int]]

\* the lists of the tables are only added to
ListsGrow ==
    /\ bigProductionList' \in Seq(Nat) /\ Grown(bigProductionList, bigProductionList')
    /\ Starts(productionsForState', bigProductionList')
    /\ ambigTable' \in Seq(Int) /\ Grown(ambigTable, ambigTable')
    /\ Starts(ambigStateTable', ambigTable')
    /\ \A st \in State : productionsForState[st] \in Nat => productionsForState'[st] = productionsForState[st]
    /\ \A st \in State : ambigStateTable[st] \in Nat => ambigStateTable'[st] = ambigStateTable[st]

\* lists that are not touched have grown by nothing
LEMMA ListsSame ==
    ASSUME bigProductionList \in Seq(Nat), Starts(productionsForState, bigProductionList),
           ambigTable \in Seq(Int), Starts(ambigStateTable, ambigTable), UNCHANGED lists
    PROVE  ListsGrow
BY DEF ListsGrow, Grown, lists

\* what is stored of a cell
LEMMA FillEffect ==
    ASSUME Context, NEW to \in State \cup {STATE_INVALID}, NEW prods \in Seq(Nat),
           \A i \in 1..Len(prods) : prods[i] <= config.prodMax, FillCell(to, prods)
    PROVE  /\ ListsGrow
           /\ actionTable' \in [State -> [Term -> Int]]
           /\ \A st \in State, k \in Term : (st # s \/ k # t) => actionTable'[st][k] = actionTable[st][k]
           /\ pc' = "failure"
              \/ /\ NextCell
                 /\ \A st, k, as : st = s /\ k = t /\ as = ActionsOf(to, prods)
                        => EncodesAll(actionTable[st][k], st, k, as)'
<1> DEFINE e == EncodeActions(s, to, prods)
           set == e.codes
           begin == IF ambigStateTable[s] = UNASSIGNED THEN Len(ambigTable) ELSE ambigStateTable[s]
           place == AmbigPlace(set, begin)
           code == IF config.crs THEN place - begin ELSE NumStates + place + 1
           old == productionsForState[s]
           n == Shifts(to) + Len(prods)
           new == IF Len(set) >= 2 THEN Code(AE_AMBIGUOUS, code)
                  ELSE IF set = <<>> THEN errorActionEntry ELSE set[1]
<1>0. /\ config \in Configs /\ lr \in Automaton /\ NumStates \in Nat /\ s \in State /\ t \in Term
      /\ config.crs => firstWithTerminal \in [Term -> Int]
      /\ bigProductionList \in Seq(Nat) /\ Starts(productionsForState, bigProductionList)
      /\ ambigTable \in Seq(Int) /\ Starts(ambigStateTable, ambigTable)
      /\ actionTable \in [State -> [Term -> Int]]
  BY DEF Context
<1>1. /\ pc = "cells" /\ bigProductionList' = e.prods
      /\ productionsForState' = [productionsForState EXCEPT ![s] = e.begin]
      /\ Len(set) >= 2 => ambigTable' = WithSet(place, set)
      /\ ~(Len(set) >= 2) => UNCHANGED ambigTable
      /\ ambigStateTable' = IF Len(set) >= 2 /\ config.crs THEN [ambigStateTable EXCEPT ![s] = begin]
                            ELSE ambigStateTable
      /\ actionTable' = [actionTable EXCEPT ![s][t] = new]
      /\ IF e.ok /\ (Len(set) >= 2 => CodeFits("ambig", code))
         THEN NextCell
         ELSE pc' = "failure"
      /\ UNCHANGED <<config, firsts>>
  BY Zenon DEF FillCell, WithSet
<1>2. BuildInv(e, t, ActionsOf(to, prods), n, bigProductionList, old)
  BY <1>0, EncodesCell
<1> HIDE DEF e, begin, place, new, old, n, code
<1>3. /\ e \in Building /\ e.begin <= Len(e.prods) /\ Grown(bigProductionList, e.prods)
      /\ (old \in Nat => e.begin = old) /\ Len(set) = n
  BY <1>2 DEF BuildInv
<1>4. set \in Seq(Int) /\ e.prods \in Seq(Nat) /\ e.begin \in Nat \cup {UNASSIGNED} /\ e.ok \in BOOLEAN
  BY <1>3 DEF Building
<1>5. begin \in 0..Len(ambigTable) /\ begin \in Nat /\ (ambigStateTable[s] \in Nat => begin = ambigStateTable[s])
  BY <1>0 DEF begin, Starts, UNASSIGNED
<1>6. /\ place \in begin..Len(ambigTable) /\ place \in Nat
      /\ WithSet(place, set) \in Seq(Int) /\ Grown(ambigTable, WithSet(place, set))
      /\ Holds(WithSet(place, set), place, set)
  BY <1>0, <1>4, <1>5, AmbigPlaceHolds DEF place
<1>7. Starts(productionsForState', bigProductionList')
      /\ \A st \in State : productionsForState[st] \in Nat => productionsForState'[st] = productionsForState[st]
  <2>1. productionsForState' \in [State -> Nat \cup {UNASSIGNED}]
    BY <1>0, <1>1, <1>4 DEF Starts
  <2>2. \A st \in State : productionsForState'[st] = IF st = s THEN e.begin ELSE productionsForState[st]
    BY <1>0, <1>1 DEF Starts
  <2>3. \A st \in State : productionsForState[st] \in Nat \cup {UNASSIGNED} /\ productionsForState[st] <= Len(bigProductionList)
    BY <1>0 DEF Starts
  <2>4. Len(bigProductionList) \in Nat /\ Len(e.prods) \in Nat /\ Len(bigProductionList) <= Len(e.prods)
    BY <1>0, <1>3, <1>4 DEF Grown
  <2>5. \A st \in State : productionsForState'[st] <= Len(e.prods)
    <3> SUFFICES ASSUME NEW st \in State PROVE productionsForState'[st] <= Len(e.prods)
      OBVIOUS
    <3>1. CASE st = s
      BY <1>3, <2>2, <3>1
    <3>2. CASE st # s
      <4>1. productionsForState'[st] = productionsForState[st]
        BY <2>2, <3>2
      <4> QED BY <2>3, <2>4, <4>1 DEF UNASSIGNED
    <3> QED BY <3>1, <3>2
  <2>6. Starts(productionsForState', bigProductionList')
    BY <1>1, <2>1, <2>5 DEF Starts
  <2>7. \A st \in State : productionsForState[st] \in Nat => productionsForState'[st] = productionsForState[st]
    BY <1>3, <2>2 DEF old
  <2> QED BY <2>6, <2>7
<1>8. ambigTable' \in Seq(Int) /\ Grown(ambigTable, ambigTable')
  <2>1. ambigTable' = WithSet(place, set) \/ ambigTable' = ambigTable
    BY <1>1
  <2>2. Grown(ambigTable, ambigTable)
    BY <1>0 DEF Grown
  <2> QED BY <1>0, <1>6, <2>1, <2>2, Zenon
<1>9. Starts(ambigStateTable', ambigTable')
      /\ \A st \in State : ambigStateTable[st] \in Nat => ambigStateTable'[st] = ambigStateTable[st]
  <2>1. ambigStateTable' \in [State -> Nat \cup {UNASSIGNED}]
    BY <1>0, <1>1, <1>5 DEF Starts
  <2>2. \A st \in State : ambigStateTable'[st] = ambigStateTable[st] \/ (st = s /\ ambigStateTable'[st] = begin)
    BY <1>0, <1>1 DEF Starts
  <2>3. \A st \in State : ambigStateTable[st] \in Nat \cup {UNASSIGNED} /\ ambigStateTable[st] <= Len(ambigTable)
    BY <1>0 DEF Starts
  <2>4. Len(ambigTable) \in Nat /\ Len(ambigTable') \in Nat /\ Len(ambigTable) <= Len(ambigTable')
    BY <1>0, <1>8 DEF Grown
  <2>5. \A st \in State : ambigStateTable'[st] <= Len(ambigTable')
    BY <1>5, <2>2, <2>3, <2>4 DEF UNASSIGNED
  <2>6. \A st \in State : ambigStateTable[st] \in Nat => ambigStateTable'[st] = ambigStateTable[st]
    BY <1>5, <2>2
  <2> QED BY <2>1, <2>5, <2>6 DEF Starts
<1>10. ListsGrow
  BY <1>1, <1>3, <1>4, <1>7, <1>8, <1>9 DEF ListsGrow
<1>11. new \in Int
  <2>1. CASE Len(set) >= 2
    <3>1. code \in Int
      BY <1>0, <1>5, <1>6 DEF code
    <3>2. AE_AMBIGUOUS \in Int
      BY <1>0, ConfigIs DEF AE_AMBIGUOUS
    <3> QED BY <2>1, <3>1, <3>2 DEF Code, new
  <2>2. CASE ~(Len(set) >= 2) /\ set = <<>>
    BY <1>0, <2>2, ConfigIs DEF errorActionEntry, AE_ERROR, new
  <2>3. CASE ~(Len(set) >= 2) /\ set # <<>>
    BY <1>4, <2>3 DEF new
  <2> QED BY <2>1, <2>2, <2>3
<1>12. /\ actionTable' \in [State -> [Term -> Int]]
       /\ \A st \in State, k \in Term : (st # s \/ k # t) => actionTable'[st][k] = actionTable[st][k]
       /\ actionTable'[s][t] = new
  BY <1>0, <1>1, <1>11
<1>13. ASSUME pc' # "failure",
              NEW st, NEW k, NEW as, st = s, k = t, as = ActionsOf(to, prods)
       PROVE  EncodesAll(actionTable[st][k], st, k, as)'
  <2>1. e.ok /\ (Len(set) >= 2 => CodeFits("ambig", code))
    BY <1>1, <1>13
  <2>2. PICK e1, as1, st1, k1, pl1, bg1, n1, code1 : 
              /\ e1 = e /\ as1 = as /\ st1 = st /\ k1 = k /\ pl1 = place /\ bg1 = begin /\ n1 = n 
              /\ code1 = actionTable'[st][k]
    OBVIOUS
  <2>3. as \in Seq({Shift(to)} \cup {Reduce(p) : p \in Nat}) /\ n1 = Len(as) /\ n1 \in Nat
    BY <1>13, <2>2, ActionsAre DEF n, Shifts
  <2>4. BuildInv(e1, k, as, n1, bigProductionList, old)
    BY <1>2, <1>13, <2>2
  <2>5. bigProductionList' = e1.prods /\ productionsForState'[st] = e1.begin
    BY <1>0, <1>1, <1>13, <2>2 DEF Starts
  <2>6. code1 = new
    BY <1>12, <1>13, <2>2
  <2>7. n1 = 0 => code1 = errorActionEntry
    BY <1>3, <1>4, <2>2, <2>6 DEF new
  <2>8. n1 = 1 => code1 = e1.codes[1]
    BY <1>3, <1>4, <2>2, <2>6 DEF new
  <2>9. n1 >= 2 => /\ Holds(ambigTable', pl1, e1.codes)
                   /\ CodeFits("ambig", IF config.crs THEN pl1 - bg1 ELSE NumStates + pl1 + 1)
                   /\ code1 = Code(AE_AMBIGUOUS, IF config.crs THEN pl1 - bg1 ELSE NumStates + pl1 + 1)
                   /\ config.crs => ambigStateTable'[st] = bg1
    BY <1>0, <1>1, <1>3, <1>6, <1>13, <2>1, <2>2, <2>6 DEF code, new, Starts
  <2>10. pl1 \in Nat /\ bg1 \in Nat /\ bg1 <= pl1 /\ e1.ok = TRUE
    BY <1>4, <1>5, <1>6, <2>1, <2>2
  <2>11. UNCHANGED config /\ (config.crs => UNCHANGED firstWithTerminal)
    BY <1>1 DEF firsts
  <2>12. EncodesAll(code1, st, k, as)'
    BY <1>0, <2>3, <2>4, <2>5, <2>7, <2>8, <2>9, <2>10, <2>11, FilledEncodes
  <2> QED BY <2>2, <2>12 DEF EncodesAll
<1>14. pc' = "failure" \/ NextCell
  BY <1>1
<1>15. NextCell => pc' # "failure"
  BY <1>1 DEF NextCell
<1> QED BY <1>10, <1>12, <1>13, <1>14

\* an entry that is not touched is read as before
LEMMA EntryStands ==
    ASSUME config \in Configs, lr \in Automaton, UNCHANGED config, config.crs => UNCHANGED firstWithTerminal,
           bigProductionList \in Seq(Nat), ambigTable \in Seq(Int), ListsGrow,
           NEW st \in State, NEW k \in Term,
           EncodesAll(Entry(st, k), st, k, Actions(st, k)),
           Entry(st, k)' = Entry(st, k), Actions(st, k)' = Actions(st, k)
    PROVE  EncodesAll(Entry(st, k), st, k, Actions(st, k))'
<1>1. PICK code, as : code = Entry(st, k) /\ as = Actions(st, k)
  OBVIOUS
<1>2. Len(as) \in Nat
  BY <1>1, ActionsAreList, SeqIs
<1>3. EncodesAll(code, st, k, as)
  BY <1>1
<1>4. Len(ambigTable') \in Nat
  BY DEF ListsGrow
<1>5. EncodesAll(code, st, k, as)'
  BY <1>2, <1>3, <1>4, StillEncodesAll DEF ListsGrow
<1> QED BY <1>1, <1>5, Zenon DEF EncodesAll

\* the automaton with the actions of one more cell
LEMMA CellOfAutomaton ==
    ASSUME lr \in Automaton, s \in State, t \in Term, NEW to \in State \cup {STATE_INVALID}, NEW prods \in Seq(Nat),
           lr' = [lr EXCEPT !.shift[s][t] = to, !.reduce[s][t] = prods]
    PROVE  /\ lr' \in Automaton /\ lr'.goto = lr.goto
           /\ \A st \in State, k \in Term :
                 Actions(st, k)' = IF st = s /\ k = t THEN ActionsOf(to, prods) ELSE Actions(st, k)
<1>1. /\ lr.shift \in [State -> [Term -> State \cup {STATE_INVALID}]]
      /\ lr.reduce \in [State -> [Term -> Seq(Nat)]]
      /\ lr.goto \in [State -> [Nonterm -> State \cup {STATE_INVALID}]]
      /\ lr.stateSymbol \in [State -> Int] /\ lr.prodInfo \in Seq(ProdInfo)
      /\ lr = [shift |-> lr.shift, reduce |-> lr.reduce, goto |-> lr.goto,
               stateSymbol |-> lr.stateSymbol, prodInfo |-> lr.prodInfo]
  BY DEF Automaton
<1>2. PICK sh, re, go, sy, le : /\ sh = lr.shift /\ re = lr.reduce /\ go = lr.goto
                                /\ sy = lr.stateSymbol /\ le = lr.prodInfo
  OBVIOUS
<1> DEFINE sh2 == [sh EXCEPT ![s][t] = to]
           re2 == [re EXCEPT ![s][t] = prods]
<1>3. lr = [shift |-> sh, reduce |-> re, goto |-> go, stateSymbol |-> sy, prodInfo |-> le]
  BY <1>1, <1>2
<1>4. lr' = [shift |-> sh2, reduce |-> re2, goto |-> go, stateSymbol |-> sy, prodInfo |-> le]
  BY <1>3
<1>5. /\ sh2 \in [State -> [Term -> State \cup {STATE_INVALID}]]
      /\ \A st \in State, k \in Term : sh2[st][k] = IF st = s /\ k = t THEN to ELSE sh[st][k]
  BY <1>1, <1>2
<1>6. /\ re2 \in [State -> [Term -> Seq(Nat)]]
      /\ \A st \in State, k \in Term : re2[st][k] = IF st = s /\ k = t THEN prods ELSE re[st][k]
  BY <1>1, <1>2
<1> HIDE DEF sh2, re2
<1>7. lr'.shift = sh2 /\ lr'.reduce = re2 /\ lr'.goto = go
  <2> DEFINE new == [shift |-> sh2, reduce |-> re2, goto |-> go, stateSymbol |-> sy, prodInfo |-> le]
  <2>1. new.shift = sh2 /\ new.reduce = re2 /\ new.goto = go
    OBVIOUS
  <2>2. lr' = new
    BY <1>4
  <2> HIDE DEF new
  <2> QED BY <2>1, <2>2, Zenon
<1>8. lr' \in Automaton
  BY <1>1, <1>2, <1>4, <1>5, <1>6 DEF Automaton
<1>9. ASSUME NEW st \in State, NEW k \in Term
      PROVE  Actions(st, k)' = IF st = s /\ k = t THEN ActionsOf(to, prods) ELSE Actions(st, k)
  <2>1. Actions(st, k)' = ActionsOf(lr'.shift[st][k], lr'.reduce[st][k])
    BY DEF Actions
  <2>2. Actions(st, k)' = ActionsOf(sh2[st][k], re2[st][k])
    BY <1>7, <2>1
  <2>3. Actions(st, k) = ActionsOf(sh[st][k], re[st][k])
    BY <1>2 DEF Actions
  <2>4. CASE st = s /\ k = t
    BY <1>5, <1>6, <2>2, <2>4
  <2>5. CASE ~(st = s /\ k = t)
    BY <1>5, <1>6, <2>2, <2>3, <2>5
  <2> QED BY <2>4, <2>5
<1> QED BY <1>2, <1>7, <1>8, <1>9

\* reductions that are left of a cell can be written
LEMMA LeftCanBeWritten ==
    ASSUME TableInv, ShapeInv, CellKept, pc = "cells", resolving # "idle"
    PROVE  /\ reductions \in Seq(Nat) /\ \A i \in 1..Len(reductions) : reductions[i] <= config.prodMax
           /\ LeftShift \in State \cup {STATE_INVALID}
<1>1. reductions \in Seq(Nat)
  BY DEF TableInv, CR!Inv
<1>2. cell = CellAt(s, t) /\ CR!KeptInOrder /\ s \in State /\ t \in Term /\ raw \in Automaton
  BY DEF CellKept, TableInv
<1>3. cell.reductions = raw.reduce[s][t]
  BY <1>2 DEF CellAt
<1> DEFINE all == raw.reduce[s][t]
<1>4. all \in Seq(0..config.prodMax) /\ config.prodMax \in Nat
  BY <1>2, ConfigIs DEF ShapeInv
<1>5. PICK f \in [1..Len(reductions) -> 1..Len(all)] : \A a \in 1..Len(reductions) : reductions[a] = all[f[a]]
  <2>1. CR!Sublist(reductions, all)
    BY <1>2, <1>3 DEF CR!KeptInOrder
  <2> HIDE DEF all
  <2> QED BY <2>1, Zenon DEF CR!Sublist
<1>6. \A i \in 1..Len(all) : all[i] \in 0..config.prodMax
  <2>1. PICK list, m : list = all /\ m = config.prodMax
    OBVIOUS
  <2>2. list \in Seq(0..m)
    BY <1>4, <2>1
  <2> HIDE DEF all
  <2>3. list \in [1..Len(list) -> 0..m]
    BY <2>2, LenProperties
  <2> QED BY <2>1, <2>3
<1>7. \A i \in 1..Len(reductions) : reductions[i] <= config.prodMax
  <2> HIDE DEF all
  <2> SUFFICES ASSUME NEW i \in 1..Len(reductions) PROVE reductions[i] <= config.prodMax
    OBVIOUS
  <2>1. f[i] \in 1..Len(all) /\ reductions[i] = all[f[i]]
    BY <1>5
  <2> QED BY <1>4, <1>6, <2>1
<1>8. LeftShift \in State \cup {STATE_INVALID}
  BY <1>2 DEF LeftShift, Automaton
<1> QED BY <1>1, <1>7, <1>8

-----------------------------------------------------------------------------
(* Filling a cell *)

\* what is read of all filled cells is what the automaton says of them
DecodeInv == ShapeInv /\ CellsInv /\ GotosInv /\ ColoringInv /\ CellKept

\* a cell is encoded: the others are read as before, and it as the actions left of it
LEMMA EncodeCellKeeps == TableInv /\ DecodeInv /\ EncodeCell => DecodeInv'
<1> SUFFICES ASSUME TableInv, DecodeInv, EncodeCell PROVE DecodeInv'
  OBVIOUS
<1>0. ConstantsOK /\ s \in State /\ t \in Term /\ raw \in Automaton /\ NumStates \in Nat /\ NumTerms \in Nat
  BY DEF TableInv, ConstantsOK
<1>1. /\ pc = "cells" /\ resolving = "done" /\ FillCell(LeftShift, reductions) /\ resolving' = "idle"
      /\ UNCHANGED <<raw, config, firsts, gotoTable, maps, coloring>>
  BY DEF EncodeCell, FillCell, input, gcVars
<1>2. /\ config \in Configs /\ lr \in Automaton
      /\ config.crs => firstWithTerminal \in [Term -> Int] /\ firstWithNonterminal \in [Nonterm -> Int]
      /\ bigProductionList \in Seq(Nat) /\ Starts(productionsForState, bigProductionList)
      /\ ambigTable \in Seq(Int) /\ Starts(ambigStateTable, ambigTable)
      /\ actionTable \in [State -> [Term -> Int]] /\ Unmerged
      /\ gotoTable \in [State -> [Nonterm -> Int]] /\ GotosUnmerged
      /\ \A st \in State, k \in Term : raw.reduce[st][k] \in Seq(0..config.prodMax)
      /\ coloring = "idle"
  BY <1>1 DEF DecodeInv, ShapeInv, Filling, Merging
<1>3. PICK to, prods : to = LeftShift /\ prods = reductions
  OBVIOUS
<1>4. /\ to \in State \cup {STATE_INVALID} /\ prods \in Seq(Nat)
      /\ \A i \in 1..Len(prods) : prods[i] <= config.prodMax
  BY <1>1, <1>3, LeftCanBeWritten DEF DecodeInv
<1>5. FillCell(to, prods)
  BY <1>1, <1>3 DEF FillCell
<1>6. Context
  BY <1>0, <1>2 DEF Context
<1>7. /\ ListsGrow
      /\ actionTable' \in [State -> [Term -> Int]]
      /\ \A st \in State, k \in Term : (st # s \/ k # t) => actionTable'[st][k] = actionTable[st][k]
      /\ pc' = "failure"
         \/ /\ NextCell
            /\ \A st, k, as : st = s /\ k = t /\ as = ActionsOf(to, prods)
                   => EncodesAll(actionTable[st][k], st, k, as)'
  BY <1>4, <1>5, <1>6, FillEffect
<1>8. /\ lr' \in Automaton /\ lr'.goto = lr.goto
      /\ \A st \in State, k \in Term :
            Actions(st, k)' = IF st = s /\ k = t THEN ActionsOf(to, prods) ELSE Actions(st, k)
  <2>1. lr' = [lr EXCEPT !.shift[s][t] = to, !.reduce[s][t] = prods]
    BY <1>5 DEF FillCell
  <2> QED BY <1>0, <1>2, <1>4, <2>1, CellOfAutomaton
<1>9. /\ pc' \in {"failure", "cells", "gotos"} /\ (pc' = "gotos" => t' = 0)
      /\ pc' # "failure" => s' = s /\ \A k \in Term : (pc' = "gotos" \/ k < t') => k < t \/ k = t
  <2>1. CASE pc' = "failure"
    BY <2>1
  <2>2. CASE NextCell
    <3>1. CASE t + 1 < NumTerms
      BY <1>0, <1>1, <2>2, <3>1 DEF NextCell, Term
    <3>2. CASE ~(t + 1 < NumTerms)
      BY <1>0, <1>1, <2>2, <3>2 DEF NextCell, Term
    <3> QED BY <3>1, <3>2
  <2> QED BY <1>7, <2>1, <2>2
<1>10. \A st \in State, k \in Term : Entry(st, k) = actionTable[st][k] /\ Entry(st, k)' = actionTable'[st][k]
  BY <1>1, <1>2 DEF Entry, Unmerged, maps
<1>11. CellsInv'
  <2> SUFFICES ASSUME NEW st \in State, NEW k \in Term, Filled(st, k)'
               PROVE  /\ EncodesAll(Entry(st, k), st, k, Actions(st, k))'
                      /\ ~Factored'
    BY DEF CellsInv, State, Term
  <2>1. pc' \in {"cells", "gotos"}
    BY <1>9 DEF Filled, Merging
  <2>2. ~Factored'
    BY <2>1 DEF Factored, Merging
  <2>3. CASE st = s /\ k = t
    <3>1. PICK as : as = ActionsOf(to, prods)
      OBVIOUS
    <3>2. EncodesAll(actionTable[st][k], st, k, as)'
      BY <1>7, <2>1, <2>3, <3>1
    <3>3. Actions(st, k)' = as /\ Entry(st, k)' = actionTable'[st][k]
      BY <1>8, <1>10, <2>3, <3>1
    <3>4. EncodesAll(Entry(st, k), st, k, Actions(st, k))'
      BY <3>2, <3>3, Zenon DEF EncodesAll
    <3> QED BY <2>2, <3>4
  <2>4. CASE ~(st = s /\ k = t)
    <3>1. Filled(st, k) /\ ~Factored
      <4>1. st < s \/ st = s \/ ~(st <= s)
        BY <1>0 DEF State
      <4>2. CASE pc' = "cells"
        <5>1. st < s' \/ (st = s' /\ k < t')
          BY <4>2 DEF Filled, Merging
        <5>2. st < s \/ (st = s /\ k < t)
          BY <1>9, <2>4, <4>2, <5>1
        <5> QED BY <1>1, <5>2 DEF Filled, Factored, Merging
      <4>3. CASE pc' = "gotos"
        <5>1. st <= s'
          BY <4>3 DEF Filled, Merging
        <5>2. st <= s /\ (st < s \/ st = s)
          BY <1>0, <1>9, <4>3, <5>1 DEF State
        <5>3. st < s \/ (st = s /\ k < t)
          BY <1>9, <2>4, <4>3, <5>2
        <5> QED BY <1>1, <5>3 DEF Filled, Factored, Merging
      <4> QED BY <2>1, <4>2, <4>3
    <3>2. EncodesAll(Entry(st, k), st, k, Actions(st, k))
      BY <3>1 DEF DecodeInv, CellsInv
    <3>3. Entry(st, k)' = Entry(st, k)
      BY <1>7, <1>10, <2>4
    <3>4. Actions(st, k)' = Actions(st, k)
      BY <1>8, <2>4
    <3>5. UNCHANGED config /\ (config.crs => UNCHANGED firstWithTerminal)
      BY <1>1 DEF firsts
    <3>6. EncodesAll(Entry(st, k), st, k, Actions(st, k))'
      BY <1>2, <1>7, <3>2, <3>3, <3>4, <3>5, EntryStands
    <3> QED BY <2>2, <3>6
  <2> QED BY <2>3, <2>4
<1>12. GotosInv'
  <2> SUFFICES ASSUME NEW st \in State, GotosFilled(st)', NEW n \in Nonterm, lr'.goto[st][n] # STATE_INVALID
               PROVE  GotoEntry(st, n)' = GotoCode(st, n)' /\ GotoFits(GotoCode(st, n))'
    BY DEF GotosInv, State, Nonterm
  <2>1. GotosFilled(st)
    BY <1>1, <1>9 DEF GotosFilled, Merging
  <2>2. GotoEntry(st, n) = GotoCode(st, n) /\ GotoFits(GotoCode(st, n))
    BY <1>8, <2>1 DEF DecodeInv, GotosInv
  <2>3. GotoEntry(st, n)' = GotoEntry(st, n)
    BY <1>1 DEF GotoEntry, maps
  <2>4. GotoCode(st, n)' = GotoCode(st, n)
    BY <1>1, <1>8 DEF GotoCode, errorGotoEntry, firsts
  <2>5. GotoFits(GotoCode(st, n))' <=> GotoFits(GotoCode(st, n))
    BY <1>1, <2>4 DEF GotoFits
  <2> QED BY <2>2, <2>3, <2>4, <2>5
<1>13. ShapeInv'
  <2>1. Unmerged' /\ GotosUnmerged'
    BY <1>1, <1>2 DEF Unmerged, GotosUnmerged, maps, State, Term, Nonterm
  <2>2. gotoTable' \in [State -> [Nonterm -> Int]]
    BY <1>1, <1>2
  <2>3. config' = config /\ raw' = raw /\ firstWithTerminal' = firstWithTerminal
        /\ firstWithNonterminal' = firstWithNonterminal /\ coloring' = coloring
    BY <1>1 DEF firsts
  <2>4. ~Factored'
    BY <1>9 DEF Factored, Merging
  <2> QED BY <1>1, <1>2, <1>7, <1>8, <1>9, <2>1, <2>2, <2>3, <2>4 DEF ShapeInv, ListsGrow, Filling, Merging
<1>14. ColoringInv' /\ CellKept'
  BY <1>1, <1>9 DEF ColoringInv, CellKept, Merging
<1> QED BY <1>11, <1>12, <1>13, <1>14 DEF DecodeInv

-----------------------------------------------------------------------------
(* Steps that fill no cell *)

\* what is read of the tables depends on the tables alone
LEMMA ReadsStand ==
    ASSUME UNCHANGED <<lr, config, firsts, lists, actionTable, maps>>
    PROVE  \A st, k : /\ Entry(st, k)' = Entry(st, k) /\ Actions(st, k)' = Actions(st, k)
                      /\ EncodesAll(Entry(st, k), st, k, Actions(st, k))' <=> EncodesAll(Entry(st, k), st, k, Actions(st, k))
                      /\ (k \in errorBits[errorRow[st]])' <=> k \in errorBits[errorRow[st]]
<1>1. UNCHANGED <<lr, config, actionTable, firstWithTerminal, bigProductionList, productionsForState,
                  ambigTable, ambigStateTable, errorBits, errorRow, actionRow, actionIndexMap>>
  BY DEF firsts, lists, maps
<1>2. \A st, k : Entry(st, k)' = Entry(st, k) /\ Actions(st, k)' = Actions(st, k)
  BY <1>1 DEF Entry, Actions
<1>3. UNCHANGED <<errorActionEntry, AE_REDUCE, AE_AMBIGUOUS>>
  BY <1>1 DEF errorActionEntry, AE_REDUCE, AE_AMBIGUOUS, AE_ERROR, Base
<1>5. \A code, st, k, as : EncodesAll(code, st, k, as)' <=> EncodesAll(code, st, k, as)
  <2> SUFFICES ASSUME NEW code, NEW st, NEW k, NEW as
               PROVE EncodesAll(code, st, k, as)' <=> EncodesAll(code, st, k, as)
    OBVIOUS
  <2>1. \A c, a : Encodes(c, k, a, bigProductionList, productionsForState[st])'
                    <=> Encodes(c, k, a, bigProductionList, productionsForState[st])
    <3> SUFFICES ASSUME NEW c, NEW a
                 PROVE Encodes(c, k, a, bigProductionList, productionsForState[st])'
                    <=> Encodes(c, k, a, bigProductionList, productionsForState[st])
      OBVIOUS
    <3> QED BY <1>1, <1>3 DEF Encodes, ShiftCode, IndexFits
  <2> DEFINE Reads(c, a) == Encodes(c, k, a, bigProductionList, productionsForState[st])
  <2>2. \A p, i : Reads(ambigTable[p + 1 + i], as[i])' <=> Reads(ambigTable[p + 1 + i], as[i])
    BY <1>1, <1>3 DEF Encodes, ShiftCode, IndexFits
  <2>3. Reads(code, as[1])' <=> Reads(code, as[1])
    BY <2>1
  <2> HIDE DEF Reads
  <2> QED BY <1>1, <1>3, <2>2, <2>3, Zenon DEF EncodesAll, Reads
<1>6. ASSUME NEW st, NEW k
      PROVE  EncodesAll(Entry(st, k), st, k, Actions(st, k))' <=> EncodesAll(Entry(st, k), st, k, Actions(st, k))
  <2>1. PICK code, as : code = Entry(st, k) /\ as = Actions(st, k)
    OBVIOUS
  <2>2. EncodesAll(code, st, k, as)' <=> EncodesAll(code, st, k, as)
    BY <1>5
  <2>3. code = Entry(st, k)' /\ as = Actions(st, k)'
    BY <1>2, <2>1
  <2> QED BY <2>1, <2>2, <2>3, Zenon DEF EncodesAll
<1> QED BY <1>1, <1>2, <1>6

\* the same for the gotos
LEMMA GotosStand ==
    ASSUME UNCHANGED <<lr.goto, config, firsts, maps>>
    PROVE  /\ \A st, n : GotoCode(st, n)' = GotoCode(st, n) /\ (GotoFits(GotoCode(st, n))' <=> GotoFits(GotoCode(st, n)))
           /\ UNCHANGED gotoTable => \A st, n : GotoEntry(st, n)' = GotoEntry(st, n)
<1>1. UNCHANGED <<config, firstWithNonterminal, gotoRow, gotoIndexMap>> /\ lr'.goto = lr.goto
  BY DEF firsts, maps
<1>2. \A st, n : GotoCode(st, n)' = GotoCode(st, n)
  BY <1>1 DEF GotoCode, errorGotoEntry
<1>3. \A c : GotoFits(c)' <=> GotoFits(c)
  BY <1>1 DEF GotoFits
<1>4. \A st, n : GotoFits(GotoCode(st, n))' <=> GotoFits(GotoCode(st, n))
  BY <1>1, <1>2 DEF GotoFits
<1>5. UNCHANGED gotoTable => \A st, n : GotoEntry(st, n)' = GotoEntry(st, n)
  BY <1>1 DEF GotoEntry
<1> QED BY <1>2, <1>4, <1>5

\* cells stay as they are, as long as no more of them count as filled
LEMMA CellsStand ==
    ASSUME CellsInv, UNCHANGED <<lr, config, firsts, lists, actionTable, maps>>,
           \A st \in State, k \in Term : Filled(st, k)' => Filled(st, k),
           Factored' => Factored,
           \A st \in State, k \in Term : Factored /\ Filled(st, k)' => Factored'
    PROVE  CellsInv'
<1> SUFFICES ASSUME NEW st \in State, NEW k \in Term, Filled(st, k)'
             PROVE  /\ (Factored' /\ Actions(st, k)' = <<>>) \/ EncodesAll(Entry(st, k), st, k, Actions(st, k))'
                    /\ Factored' => ((k \in errorBits[errorRow[st]])' <=> Actions(st, k)' = <<>>)
  BY DEF CellsInv, State, Term
<1>1. /\ (Factored /\ Actions(st, k) = <<>>) \/ EncodesAll(Entry(st, k), st, k, Actions(st, k))
      /\ Factored => (k \in errorBits[errorRow[st]] <=> Actions(st, k) = <<>>)
  BY DEF CellsInv
<1>2. /\ Entry(st, k)' = Entry(st, k) /\ Actions(st, k)' = Actions(st, k)
      /\ EncodesAll(Entry(st, k), st, k, Actions(st, k))' <=> EncodesAll(Entry(st, k), st, k, Actions(st, k))
      /\ (k \in errorBits[errorRow[st]])' <=> k \in errorBits[errorRow[st]]
  BY ReadsStand
<1> QED BY <1>1, <1>2

\* a step that changes no table keeps the tables
LEMMA TablesStand == CellsInv /\ GotosInv /\ UNCHANGED vars => CellsInv' /\ GotosInv'
<1> SUFFICES ASSUME CellsInv, GotosInv, UNCHANGED vars PROVE CellsInv' /\ GotosInv'
  OBVIOUS
<1>1. UNCHANGED <<lr, config, firsts, lists, actionTable, gotoTable, maps, s, t, pc>>
  BY DEF vars
<1>2. \A st, k : /\ Filled(st, k)' <=> Filled(st, k)
                 /\ GotosFilled(st)' <=> GotosFilled(st)
  BY <1>1 DEF Filled, GotosFilled, Merging
<1>3. Factored' <=> Factored
  BY <1>1 DEF Factored, Merging
<1>6. CellsInv'
  BY <1>1, <1>2, <1>3, CellsStand
<1>7. GotosInv'
  <2>1. lr'.goto = lr.goto
    BY <1>1
  <2> QED BY <1>1, <1>2, <2>1, GotosStand DEF GotosInv, State, Nonterm
<1> QED BY <1>6, <1>7

\* ... and their shapes
LEMMA ShapeStands ==
    ASSUME ShapeInv, UNCHANGED <<vars, raw>>,
           pc \notin {"cells", "cell"} => resolving' = "idle",
           pc \notin Merging \cup {"graph"} => coloring' = "idle"
    PROVE  ShapeInv'
<1>1. /\ UNCHANGED <<lr, config, actionTable, gotoTable, s, t, pc>>
      /\ UNCHANGED <<firstWithTerminal, firstWithNonterminal, bigProductionList, productionsForState,
                     ambigTable, ambigStateTable, errorBits, errorRow, actionRow, actionIndexMap,
                     gotoRow, gotoIndexMap>>
      /\ UNCHANGED raw
  BY DEF vars, firsts, lists, maps
<1>2. /\ Unmerged' <=> Unmerged
      /\ GotosUnmerged' <=> GotosUnmerged
      /\ Factored' <=> Factored
  BY <1>1 DEF Unmerged, GotosUnmerged, Factored, Merging, State, Term, Nonterm
<1>3. /\ Starts(productionsForState, bigProductionList)' <=> Starts(productionsForState, bigProductionList)
      /\ Starts(ambigStateTable, ambigTable)' <=> Starts(ambigStateTable, ambigTable)
  BY <1>1 DEF Starts, State, UNASSIGNED
<1>10. StoredAt(actionIndexMap, Term)' = StoredAt(actionIndexMap, Term)
       /\ StoredAt(gotoIndexMap, Nonterm)' = StoredAt(gotoIndexMap, Nonterm)
  BY <1>1 DEF StoredAt, Term, Nonterm
<1>4. UNCHANGED <<Merging, Filling, Configs, Automaton, State, Term, Nonterm>>
  BY DEF Merging, Filling, Automaton, State, Term, Nonterm
<1>5. /\ (config \in Configs /\ lr \in Automaton)'
      /\ (config.crs => firstWithTerminal \in [Term -> Int] /\ firstWithNonterminal \in [Nonterm -> Int])'
      /\ (\A st \in State, k \in Term : raw.reduce[st][k] \in Seq(0..config.prodMax))'
  BY <1>1, <1>4 DEF ShapeInv
<1>6. /\ (pc \notin {"cells", "cell"} => resolving = "idle")'
      /\ (pc \notin Merging \cup {"graph"} => coloring = "idle")'
      /\ (pc \in {"errors"} \cup Merging => config.eef)'
      /\ (pc \in {"states", "firsts"} => s = 0 /\ t = 0)'
      /\ (pc = "gotos" => t = 0)'
  BY <1>1, <1>4 DEF ShapeInv
<1>7. (pc \in {"states", "done"} \cup Filling \cup Merging =>
          /\ bigProductionList \in Seq(Nat) /\ Starts(productionsForState, bigProductionList)
          /\ ambigTable \in Seq(Int) /\ Starts(ambigStateTable, ambigTable))'
      /\ (Factored => errorRow \in [State -> Nat])'
  BY <1>1, <1>2, <1>3, <1>4 DEF ShapeInv
<1>8. /\ (pc \in {"states", "actionColumns"} \cup Filling =>
           /\ actionTable \in [State -> [Term -> Int]] /\ Unmerged)'
      /\ (pc \in {"states", "actionColumns", "actionRows", "gotoColumns"} \cup Filling =>
            /\ gotoTable \in [State -> [Nonterm -> Int]] /\ GotosUnmerged)'
      /\ (~config.eef /\ pc \in {"done", "emitted"} => Unmerged)'
  BY <1>1, <1>2, <1>4 DEF ShapeInv
<1>9. /\ (pc = "actionRows" =>
            /\ actionTable \in [State -> [StoredAt(actionIndexMap, Term) -> Int]]
            /\ \A st \in State : actionRow[st] = st)'
      /\ (pc = "gotoRows" =>
            /\ gotoTable \in [State -> [StoredAt(gotoIndexMap, Nonterm) -> Int]]
            /\ \A st \in State : gotoRow[st] = st)'
  BY <1>1, <1>4, <1>10 DEF ShapeInv
<1> QED BY <1>5, <1>6, <1>7, <1>8, <1>9, Zenon DEF ShapeInv

\* ... and the graph of the merge
LEMMA GraphStands == UNCHANGED vars => UNCHANGED GraphOf
BY DEF vars, GraphOf, ActionColumns, ActionRows, GotoColumns, GotoRows, ColumnsConflict, RowsConflict,
       Clash, errorActionEntry, AE_ERROR, Base, errorGotoEntry, State, Term, Nonterm

\* ... and what the cell under resolution was called with
LEMMA CellStands == UNCHANGED <<vars, input>> => UNCHANGED CellAt(s, t)
BY DEF vars, input, CellAt

\* resolveConflicts does not change what it was called with
LEMMA ResolutionKeepsCell == CR!Next => UNCHANGED cell
BY DEF CR!Next, CR!ComputeSupersets, CR!Begin, CR!NextSR, CR!WalkUp, CR!ShiftReduce, CR!ReduceReduce,
       CR!EndReduceReduce, CR!SubsetDirective, CR!EndSubset, CR!Count, CR!ForceOne, CR!Finished, CR!vars

\* a resolution begins with all reductions of its cell
LEMMA ResolveCellKeeps == TableInv /\ DecodeInv /\ ResolveCell => DecodeInv'
<1> SUFFICES ASSUME TableInv, DecodeInv, ResolveCell PROVE DecodeInv'
  OBVIOUS
<1>1. /\ pc = "cells" /\ cell' = CellAt(s, t) /\ reductions' = cell'.reductions
      /\ UNCHANGED <<vars, input, gcVars>>
  BY DEF ResolveCell
<1>2. CellsInv' /\ GotosInv'
  BY <1>1, TablesStand DEF DecodeInv
<1>3. UNCHANGED <<pc, raw, coloring>>
  BY <1>1 DEF vars, input, gcVars
<1>4. ShapeInv'
  BY <1>1, <1>3, ShapeStands DEF DecodeInv, ShapeInv
<1>5. CellKept'
  <2>1. cell' = CellAt(s, t)'
    BY <1>1, CellStands
  <2>2. cell'.reductions \in Seq(Nat)
    <3>1. CellAt(s, t).reductions = raw.reduce[s][t]
      BY DEF CellAt
    <3> QED BY <1>1, <3>1 DEF TableInv, Automaton
  <2>3. PICK list : list = cell'.reductions
    OBVIOUS
  <2>4. CR!Sublist(list, list)
    BY <2>2, <2>3, CR!SublistOfItself
  <2>5. CR!KeptInOrder'
    <3>1. reductions' = list /\ cell'.reductions = list
      BY <1>1, <2>3
    <3>2. CR!Sublist(reductions', cell'.reductions)
      BY <2>4, <3>1
    <3>3. CR!Sublist(reductions, cell.reductions)'
      BY <3>2, Zenon DEF CR!Sublist
    <3> QED BY <2>2, <3>3 DEF CR!KeptInOrder
  <2> QED BY <2>1, <2>5 DEF CellKept
<1>6. ColoringInv'
  BY <1>1, <1>3 DEF ColoringInv, Merging
<1> QED BY <1>2, <1>4, <1>5, <1>6 DEF DecodeInv

\* a resolution only removes reductions
LEMMA ResolutionStepKeeps == TableInv /\ DecodeInv /\ ResolutionStep => DecodeInv'
<1> SUFFICES ASSUME TableInv, DecodeInv, ResolutionStep PROVE DecodeInv'
  OBVIOUS
<1>1. /\ resolving # "idle" /\ CR!Next /\ CR!Inv
      /\ UNCHANGED <<vars, input, gcVars>>
  BY SameResolution DEF ResolutionStep, TableInv
<1>2. CellsInv' /\ GotosInv'
  BY <1>1, TablesStand DEF DecodeInv
<1>3. UNCHANGED <<pc, raw, coloring, graph, color>>
  BY <1>1 DEF vars, input, gcVars
<1>4. ShapeInv'
  BY <1>1, <1>3, ShapeStands DEF DecodeInv, ShapeInv
<1>5. CellKept'
  <2>1. CASE pc = "cells"
    <3>1. cell = CellAt(s, t) /\ CR!KeptInOrder
      BY <1>1, <2>1 DEF DecodeInv, CellKept
    <3>2. CR!KeptInOrder'
      BY <1>1, <3>1, CR!NextKeptInOrder
    <3>3. cell' = CellAt(s, t)'
      BY <1>1, <3>1, CellStands, ResolutionKeepsCell
    <3> QED BY <3>2, <3>3 DEF CellKept
  <2>2. CASE pc # "cells"
    BY <1>3, <2>2 DEF CellKept
  <2> QED BY <2>1, <2>2
<1>6. ColoringInv'
  BY <1>1, <1>3, GraphStands DEF DecodeInv, ColoringInv, Merging
<1> QED BY <1>2, <1>4, <1>5, <1>6 DEF DecodeInv

\* a coloring begins on the graph of the merge
LEMMA ColorKeeps == TableInv /\ DecodeInv /\ Color => DecodeInv'
<1> SUFFICES ASSUME TableInv, DecodeInv, Color PROVE DecodeInv'
  OBVIOUS
<1>1. /\ pc \in Merging /\ graph' = GraphOf /\ coloring' = "choose"
      /\ UNCHANGED <<vars, input, crVars>>
  BY DEF Color, Merging
<1>2. CellsInv' /\ GotosInv'
  BY <1>1, TablesStand DEF DecodeInv
<1>3. UNCHANGED <<pc, raw, resolving>>
  BY <1>1 DEF vars, input, crVars
<1>4. ShapeInv'
  BY <1>1, <1>3, ShapeStands DEF DecodeInv, ShapeInv
<1>5. CellKept'
  BY <1>1, <1>3 DEF CellKept, Merging
<1>6. ColoringInv'
  BY <1>1, <1>3, GraphStands DEF ColoringInv, Merging
<1> QED BY <1>2, <1>4, <1>5, <1>6 DEF DecodeInv

\* when a coloring is done every node has a color
LEMMA ColoringStepColors ==
    ASSUME GC!Inv, GC!Next, coloring = "done" => \A n \in 0..(graph.n - 1) : color[n] # UNASSIGNED
    PROVE  /\ UNCHANGED graph
           /\ coloring' = "done" => \A n \in 0..(graph'.n - 1) : color'[n] # UNASSIGNED
           /\ coloring # "idle" => coloring' # "idle"
<1>1. CASE GC!Choose \/ GC!Scan
  BY <1>1 DEF GC!Choose, GC!Scan
<1>2. CASE GC!Done
  BY <1>2 DEF GC!Done, GC!vars
<1>3. CASE GC!Assign
  <2>1. /\ color' = [color EXCEPT ![best] = selColor] /\ UNCHANGED graph
        /\ coloring' = IF GC!Colored \cup {best} = GC!Node THEN "done" ELSE "choose"
    BY <1>3 DEF GC!Assign
  <2>2. color \in [GC!Node -> Nat \cup {GC!UNASSIGNED}] /\ selColor \in Nat
    BY DEF GC!Inv
  <2>3. ASSUME GC!Colored \cup {best} = GC!Node, NEW n \in GC!Node PROVE color'[n] # UNASSIGNED
    BY <2>1, <2>2, <2>3 DEF GC!Colored, GC!UNASSIGNED, UNASSIGNED
  <2> QED BY <2>1, <2>3 DEF GC!Node, GC!N
<1> QED BY <1>1, <1>2, <1>3 DEF GC!Next

\* a coloring ends with a color for each node of that graph
LEMMA ColoringStepKeeps == TableInv /\ DecodeInv /\ ColoringStep => DecodeInv'
<1> SUFFICES ASSUME TableInv, DecodeInv, ColoringStep PROVE DecodeInv'
  OBVIOUS
<1>1. /\ coloring # "idle" /\ GC!Next /\ GC!Inv
      /\ UNCHANGED <<vars, input, crVars>>
  BY SameColoring DEF ColoringStep, TableInv
<1>2. CellsInv' /\ GotosInv'
  BY <1>1, TablesStand DEF DecodeInv
<1>3. UNCHANGED <<pc, raw, resolving, cell, reductions>>
  BY <1>1 DEF vars, input, crVars
<1>4. ShapeInv'
  BY <1>1, <1>3, ShapeStands DEF DecodeInv, ShapeInv
<1>5. CellKept'
  BY <1>1, <1>3, CellStands DEF DecodeInv, CellKept, CR!KeptInOrder, CR!Sublist
<1>6. ColoringInv'
  BY <1>1, <1>3, GraphStands, ColoringStepColors DEF DecodeInv, ColoringInv, Merging
<1> QED BY <1>2, <1>4, <1>5, <1>6 DEF DecodeInv

\* a step that changes nothing
LEMMA NothingKeeps == DecodeInv /\ UNCHANGED allVars => DecodeInv'
<1> SUFFICES ASSUME DecodeInv, UNCHANGED allVars PROVE DecodeInv'
  OBVIOUS
<1>1. UNCHANGED <<vars, input, crVars, gcVars>>
  BY DEF allVars
<1>2. CellsInv' /\ GotosInv'
  BY <1>1, TablesStand DEF DecodeInv
<1>3. UNCHANGED <<pc, raw, resolving, cell, reductions, coloring, graph, color>>
  BY <1>1 DEF vars, input, crVars, gcVars
<1>4. ShapeInv'
  BY <1>1, <1>3, ShapeStands DEF DecodeInv, ShapeInv
<1>5. CellKept'
  BY <1>1, <1>3, CellStands DEF DecodeInv, CellKept, CR!KeptInOrder, CR!Sublist
<1>6. ColoringInv'
  BY <1>1, <1>3, GraphStands DEF DecodeInv, ColoringInv, Merging
<1> QED BY <1>2, <1>4, <1>5, <1>6 DEF DecodeInv

\* the first state of a symbol is a number
LEMMA FirstOfIsInt == \A sym : lr \in Automaton /\ NumStates \in Nat => FirstOf(sym) \in Int
<1> SUFFICES ASSUME NEW sym, NumStates \in Nat PROVE FirstOf(sym) \in Int
  OBVIOUS
<1> DEFINE S == {st \in State : lr.stateSymbol[st] = sym}
<1>1. S \in SUBSET Nat
  BY DEF State
<1>2. FirstOf(sym) = IF S = {} THEN 0 ELSE CHOOSE x \in S : \A y \in S : x <= y
  BY DEF FirstOf, Lowest
<1> HIDE DEF S
<1>3. S # {} => \E x \in S : \A y \in S : x <= y
  BY <1>1, Least
<1>4. CASE S # {}
  <2>1. FirstOf(sym) \in S
    BY <1>2, <1>3, <1>4
  <2>2. FirstOf(sym) \in Nat
    BY <1>1, <2>1
  <2> QED BY <2>2
<1>5. CASE S = {}
  BY <1>2, <1>5
<1> QED BY <1>4, <1>5

\* the first states are set before any cell is filled
LEMMA FirstStatesKeeps ==
    ASSUME TableInv, DecodeInv, FirstStates, UNCHANGED <<input, crVars, gcVars>>
    PROVE  DecodeInv'
<1>1. /\ pc = "firsts" /\ pc' \in {"failure", "cells"}
      /\ UNCHANGED <<lr, config, lists, actionTable, gotoTable, maps, s, t>>
      /\ UNCHANGED <<raw, resolving, coloring>>
      /\ (IF config.crs /\ SortedBySymbol
           THEN /\ firstWithTerminal' = [k \in Term |-> FirstOf(k + 1)]
                /\ firstWithNonterminal' = [n \in Nonterm |-> FirstOf(-n - 1)]
           ELSE UNCHANGED firsts)
  BY DEF FirstStates, input, crVars, gcVars
<1>2. /\ s = 0 /\ t = 0 /\ resolving = "idle" /\ coloring = "idle"
  BY <1>1 DEF DecodeInv, ShapeInv, Merging
<1>3. CellsInv' /\ GotosInv'
  <2>1. \A st \in State, k \in Term : ~Filled(st, k)' /\ ~GotosFilled(st)'
    <3>1. \A st \in State, k \in Term : ~(st < 0) /\ ~(k < 0)
      BY DEF State, Term
    <3>2. s' = 0 /\ t' = 0
      BY <1>1, <1>2
    <3> QED BY <1>1, <3>1, <3>2 DEF Filled, GotosFilled, Merging
  <2>2. \A st \in State : ~GotosFilled(st)'
    <3>1. 0 \in Term
      BY DEF TableInv, ConstantsOK, Term
    <3> QED BY <2>1, <3>1
  <2> QED BY <2>1, <2>2 DEF CellsInv, GotosInv, State, Term
<1>4. config'.crs => firstWithTerminal' \in [Term -> Int] /\ firstWithNonterminal' \in [Nonterm -> Int]
  <2>1. CASE config.crs /\ SortedBySymbol
    <3>1. lr \in Automaton /\ NumStates \in Nat
      BY DEF TableInv, ConstantsOK, DecodeInv, ShapeInv
    <3> QED BY <1>1, <2>1, <3>1, FirstOfIsInt
  <2>2. CASE ~(config.crs /\ SortedBySymbol)
    BY <1>1, <2>2 DEF DecodeInv, ShapeInv, firsts
  <2> QED BY <2>1, <2>2
<1>5. ShapeInv'
  <2>1. UNCHANGED <<bigProductionList, productionsForState, ambigTable, ambigStateTable,
                    actionRow, actionIndexMap, gotoRow, gotoIndexMap>>
    BY <1>1 DEF lists, maps
  <2>2. Unmerged' /\ GotosUnmerged'
    BY <1>1, <2>1 DEF DecodeInv, ShapeInv, Unmerged, GotosUnmerged, State, Term, Nonterm, Filling
  <2>3. Starts(productionsForState, bigProductionList)' /\ Starts(ambigStateTable, ambigTable)'
    BY <1>1, <2>1 DEF DecodeInv, ShapeInv, Starts, State, UNASSIGNED, Filling
  <2>4. ~Factored'
    BY <1>1 DEF Factored, Merging
  <2> QED BY <1>1, <1>2, <1>4, <2>1, <2>2, <2>3, <2>4 DEF DecodeInv, ShapeInv, Merging, Filling
<1>6. ColoringInv' /\ CellKept'
  BY <1>1, <1>2 DEF ColoringInv, CellKept, Merging
<1> QED BY <1>3, <1>5, <1>6 DEF DecodeInv

\* a row of gotos is filled
LEMMA FillGotosKeeps ==
    ASSUME TableInv, DecodeInv, FillGotos, UNCHANGED <<input, crVars, gcVars>>
    PROVE  DecodeInv'
<1>0. s \in State /\ t \in Term /\ NumStates \in Nat
  BY DEF TableInv, ConstantsOK
<1>1. /\ pc = "gotos"
      /\ gotoTable' = [gotoTable EXCEPT ![s] = [n \in Nonterm |-> GotoCode(s, n)]]
      /\ IF /\ \A n \in Nonterm : lr.goto[s][n] # STATE_INVALID => GotoFits(GotoCode(s, n))
            /\ SymbolFits(lr.stateSymbol[s])
         THEN IF s + 1 < NumStates THEN s' = s + 1 /\ pc' = "cells" ELSE s' = 0 /\ pc' = "info"
         ELSE pc' = "failure" /\ UNCHANGED s
      /\ UNCHANGED <<lr, config, firsts, lists, actionTable, maps, t>>
      /\ UNCHANGED <<raw, resolving, coloring>>
  BY DEF FillGotos, input, crVars, gcVars
<1>2. /\ t = 0 /\ resolving = "idle" /\ coloring = "idle"
      /\ gotoTable \in [State -> [Nonterm -> Int]] /\ GotosUnmerged /\ config \in Configs /\ lr \in Automaton
      /\ config.crs => firstWithNonterminal \in [Nonterm -> Int]
  BY <1>1 DEF DecodeInv, ShapeInv, Merging, Filling
<1>3. /\ pc' \in {"failure", "cells", "info"}
      /\ pc' # "failure" => \A n \in Nonterm : lr.goto[s][n] # STATE_INVALID => GotoFits(GotoCode(s, n))
      /\ pc' = "cells" => s' = s + 1
      /\ pc' = "info" => \A st \in State : st <= s
  <2>1. ~(s + 1 < NumStates) => \A st \in State : st <= s
    BY <1>0 DEF State
  <2> QED BY <1>1, <2>1
<1>4. CellsInv'
  <2>1. \A st \in State, k \in Term : Filled(st, k)' => Filled(st, k)
    <3> SUFFICES ASSUME NEW st \in State, NEW k \in Term, Filled(st, k)' PROVE Filled(st, k)
      OBVIOUS
    <3>1. st <= s
      <4>1. CASE pc' = "cells"
        <5>1. st < s + 1 \/ k < 0
          BY <1>1, <1>2, <1>3, <4>1 DEF Filled, Merging
        <5> QED BY <1>0, <5>1 DEF State, Term
      <4>2. CASE pc' = "info"
        BY <1>3, <4>2
      <4>3. pc' # "failure"
        BY DEF Filled, Merging
      <4> QED BY <1>3, <4>1, <4>2, <4>3
    <3> QED BY <1>1, <3>1 DEF Filled
  <2>2. ~Factored /\ ~Factored'
    BY <1>1, <1>3 DEF Factored, Merging
  <2> QED BY <1>1, <2>1, <2>2, CellsStand DEF DecodeInv
<1>5. \A st \in State, n \in Nonterm : GotoEntry(st, n) = gotoTable[st][n] /\ GotoEntry(st, n)' = gotoTable'[st][n]
  BY <1>1, <1>2 DEF GotoEntry, GotosUnmerged, maps
<1>6. GotosInv'
  <2> SUFFICES ASSUME NEW st \in State, GotosFilled(st)', NEW n \in Nonterm, lr'.goto[st][n] # STATE_INVALID
               PROVE  GotoEntry(st, n)' = GotoCode(st, n)' /\ GotoFits(GotoCode(st, n))'
    BY DEF GotosInv, State, Nonterm
  <2>1. pc' # "failure" /\ st <= s
    <3>1. pc' # "failure"
      BY DEF GotosFilled, Merging
    <3>2. CASE pc' = "cells"
      <4>1. st < s + 1
        BY <1>3, <3>2 DEF GotosFilled, Merging
      <4> QED BY <1>0, <3>1, <4>1 DEF State
    <3> QED BY <1>3, <3>1, <3>2
  <2>2. lr'.goto = lr.goto
    BY <1>1
  <2>3. GotoCode(st, n)' = GotoCode(st, n) /\ (GotoFits(GotoCode(st, n))' <=> GotoFits(GotoCode(st, n)))
    BY <1>1, <2>2, GotosStand
  <2>4. CASE st = s
    <3>1. gotoTable'[st][n] = GotoCode(st, n)
      BY <1>0, <1>1, <1>2, <2>4
    <3>2. GotoFits(GotoCode(st, n))
      BY <1>3, <2>1, <2>2, <2>4
    <3> QED BY <1>5, <2>3, <3>1, <3>2
  <2>5. CASE st # s
    <3>1. GotosFilled(st)
      BY <1>0, <1>1, <2>1, <2>5 DEF GotosFilled, State
    <3>2. GotoEntry(st, n) = GotoCode(st, n) /\ GotoFits(GotoCode(st, n))
      BY <2>2, <3>1 DEF DecodeInv, GotosInv
    <3>3. gotoTable'[st][n] = gotoTable[st][n]
      BY <1>0, <1>1, <1>2, <2>5
    <3> QED BY <1>5, <2>3, <3>2, <3>3
  <2> QED BY <2>4, <2>5
<1>7. gotoTable' \in [State -> [Nonterm -> Int]]
  <2>1. \A n \in Nonterm : GotoCode(s, n) \in Int
    <3> SUFFICES ASSUME NEW n \in Nonterm PROVE GotoCode(s, n) \in Int
      OBVIOUS
    <3>1. lr.goto[s][n] \in State \cup {STATE_INVALID}
      BY <1>0, <1>2 DEF Automaton
    <3>2. lr.goto[s][n] \in Int
      BY <3>1 DEF State, STATE_INVALID
    <3>3. config.gotoMax \in Nat
      BY <1>2, ConfigIs
    <3> QED BY <1>2, <3>2, <3>3 DEF GotoCode, errorGotoEntry
  <2> QED BY <1>1, <1>2, <2>1
<1>8. ShapeInv'
  <2>1. UNCHANGED <<bigProductionList, productionsForState, ambigTable, ambigStateTable,
                    actionRow, actionIndexMap, gotoRow, gotoIndexMap>>
        /\ UNCHANGED <<firstWithTerminal, firstWithNonterminal>>
    BY <1>1 DEF lists, maps, firsts
  <2>2. Unmerged' /\ GotosUnmerged'
    BY <1>1, <2>1 DEF DecodeInv, ShapeInv, Unmerged, GotosUnmerged, State, Term, Nonterm, Filling
  <2>3. Starts(productionsForState, bigProductionList)' /\ Starts(ambigStateTable, ambigTable)'
    BY <1>1, <2>1 DEF DecodeInv, ShapeInv, Starts, State, UNASSIGNED, Filling
  <2>4. ~Factored'
    BY <1>3 DEF Factored, Merging
  <2> QED BY <1>1, <1>2, <1>3, <1>7, <2>1, <2>2, <2>3, <2>4 DEF DecodeInv, ShapeInv, Merging, Filling
<1>9. ColoringInv' /\ CellKept'
  BY <1>1, <1>2, <1>3 DEF ColoringInv, CellKept, Merging
<1> QED BY <1>4, <1>6, <1>8, <1>9 DEF DecodeInv

\* the lengths of the right sides change no table
LEMMA SetProdInfoKeeps ==
    ASSUME TableInv, DecodeInv, SetProdInfo, UNCHANGED <<input, crVars, gcVars>>
    PROVE  DecodeInv'
<1>1. /\ pc = "info" /\ pc' \in {"failure", "errors", "done"}
      /\ pc' = "errors" => config.eef
      /\ pc' = "done" => ~config.eef
      /\ UNCHANGED <<lr, config, firsts, lists, actionTable, gotoTable, maps, s, t>>
      /\ UNCHANGED <<raw, resolving, coloring>>
  BY DEF SetProdInfo, input, crVars, gcVars
<1>2. resolving = "idle" /\ coloring = "idle"
  BY <1>1 DEF DecodeInv, ShapeInv, Merging
<1>3. ~Factored /\ ~Factored'
  BY <1>1 DEF Factored, Merging
<1>4. CellsInv'
  <2>1. \A st, k : Filled(st, k)
    BY <1>1 DEF Filled
  <2> QED BY <1>1, <1>3, <2>1, CellsStand DEF DecodeInv
<1>5. GotosInv'
  <2>1. \A st : GotosFilled(st)
    BY <1>1 DEF GotosFilled
  <2>2. lr'.goto = lr.goto
    BY <1>1
  <2> QED BY <1>1, <2>1, <2>2, GotosStand DEF DecodeInv, GotosInv, State, Nonterm
<1>6. ShapeInv'
  <2>1. UNCHANGED <<bigProductionList, productionsForState, ambigTable, ambigStateTable,
                    actionRow, actionIndexMap, gotoRow, gotoIndexMap>>
        /\ UNCHANGED <<firstWithTerminal, firstWithNonterminal>>
    BY <1>1 DEF lists, maps, firsts
  <2>2. Unmerged' /\ GotosUnmerged'
    BY <1>1, <2>1 DEF DecodeInv, ShapeInv, Unmerged, GotosUnmerged, State, Term, Nonterm, Filling
  <2>3. Starts(productionsForState, bigProductionList)' /\ Starts(ambigStateTable, ambigTable)'
    BY <1>1, <2>1 DEF DecodeInv, ShapeInv, Starts, State, UNASSIGNED, Filling
  <2> QED BY <1>1, <1>2, <1>3, <2>1, <2>2, <2>3 DEF DecodeInv, ShapeInv, Merging, Filling
<1>7. ColoringInv' /\ CellKept'
  BY <1>1, <1>2 DEF ColoringInv, CellKept, Merging
<1> QED BY <1>4, <1>5, <1>6, <1>7 DEF DecodeInv

-----------------------------------------------------------------------------
(* The merges *)

\* the entry that is kept of a class
LEMMA MergedKeeps ==
    ASSUME NEW entries \in SUBSET Int, NEW err \in Int
    PROVE  /\ Merged(entries, err) \in Int
           /\ \A x \in entries : x # err /\ (\A y \in entries : ~Clash(x, y, err)) => Merged(entries, err) = x
<1>1. CASE entries \subseteq {err}
  BY <1>1 DEF Merged
<1>2. CASE ~(entries \subseteq {err})
  <2>1. Merged(entries, err) = CHOOSE e \in entries \ {err} : TRUE
    BY <1>2 DEF Merged
  <2>2. \E e \in entries \ {err} : TRUE
    BY <1>2
  <2>3. Merged(entries, err) \in entries \ {err}
    BY <2>1, <2>2
  <2> QED BY <2>3 DEF Clash
<1> QED BY <1>1, <1>2

\* columns, or rows, of a table over S and D that share a class of c agree
ColumnsApart(f, S, D, c, err) ==
    /\ f \in [S -> [D -> Int]] /\ c \in [D -> Nat] /\ err \in Int
    /\ \A a, b \in D : (\E st \in S : Clash(f[st][a], f[st][b], err)) => c[a] # c[b]
RowsApart(f, S, D, c, err) ==
    /\ f \in [S -> [D -> Int]] /\ c \in [S -> Nat] /\ err \in Int /\ 0 \in S
    /\ \A a, b \in S : (\E k \in D : Clash(f[a][k], f[b][k], err)) => c[a] # c[b]

\* merging columns that do not clash keeps every entry that is not an error
LEMMA ColumnsMerge ==
    ASSUME NEW S, NEW D, NEW f, NEW c, NEW err, ColumnsApart(f, S, D, c, err)
    PROVE  /\ MergeColumns(f, c, err) \in [S -> [StoredAt(c, D) -> Int]]
           /\ \A st \in S, k \in D : f[st][k] # err => MergeColumns(f, c, err)[st][c[k]] = f[st][k]
<1> DEFINE Class(st, x) == {f[st][k] : k \in {y \in D : c[y] = x}}
           M == MergeColumns(f, c, err)
<1>0. /\ f \in [S -> [D -> Int]] /\ c \in [D -> Nat] /\ err \in Int
      /\ \A a, b \in D : (\E st \in S : Clash(f[st][a], f[st][b], err)) => c[a] # c[b]
  BY DEF ColumnsApart
<1>1. \A st \in S : \A x : Class(st, x) \in SUBSET Int
  BY <1>0
<1>2. M = [st \in S |-> [x \in StoredAt(c, D) |-> Merged(Class(st, x), err)]]
  BY <1>0 DEF MergeColumns, StoredAt
<1>3. ASSUME NEW st \in S, NEW k \in D, f[st][k] # err PROVE Merged(Class(st, c[k]), err) = f[st][k]
  <2>1. f[st][k] \in Class(st, c[k])
    BY <1>0
  <2>2. \A y \in Class(st, c[k]) : ~Clash(f[st][k], y, err)
    BY <1>0
  <2> HIDE DEF Class
  <2> QED BY <1>0, <1>1, <1>3, <2>1, <2>2, MergedKeeps
<1>4. \A st \in S : \A x : Merged(Class(st, x), err) \in Int
  <2> HIDE DEF Class
  <2> QED BY <1>0, <1>1, MergedKeeps
<1>5. \A k \in D : c[k] \in StoredAt(c, D)
  BY <1>0 DEF StoredAt
<1> HIDE DEF Class, M
<1>6. M \in [S -> [StoredAt(c, D) -> Int]]
  BY <1>0, <1>2, <1>4
<1>7. \A st \in S, k \in D : M[st][c[k]] = Merged(Class(st, c[k]), err)
  BY <1>0, <1>2, <1>5
<1> QED BY <1>3, <1>6, <1>7 DEF M

\* ... and so does merging rows
LEMMA RowsMerge ==
    ASSUME NEW S, NEW D, NEW f, NEW c, NEW err, RowsApart(f, S, D, c, err)
    PROVE  \A st \in S, k \in D : f[st][k] # err => MergeRows(f, c, err)[c[st]][k] = f[st][k]
<1> DEFINE Class(x, k) == {f[st][k] : st \in {y \in S : c[y] = x}}
           M == MergeRows(f, c, err)
<1>0. /\ f \in [S -> [D -> Int]] /\ c \in [S -> Nat] /\ err \in Int /\ 0 \in S
      /\ \A a, b \in S : (\E k \in D : Clash(f[a][k], f[b][k], err)) => c[a] # c[b]
  BY DEF RowsApart
<1>1. \A k \in D : \A x : Class(x, k) \in SUBSET Int
  BY <1>0
<1>2. M = [x \in {c[st] : st \in S} |-> [k \in D |-> Merged(Class(x, k), err)]]
  BY <1>0 DEF MergeRows
<1>3. ASSUME NEW st \in S, NEW k \in D, f[st][k] # err PROVE Merged(Class(c[st], k), err) = f[st][k]
  <2>1. f[st][k] \in Class(c[st], k)
    BY <1>0
  <2>2. \A y \in Class(c[st], k) : ~Clash(f[st][k], y, err)
    BY <1>0
  <2> HIDE DEF Class
  <2> QED BY <1>0, <1>1, <1>3, <2>1, <2>2, MergedKeeps
<1> HIDE DEF Class, M
<1>7. \A st \in S, k \in D : M[c[st]][k] = Merged(Class(c[st], k), err)
  BY <1>0, <1>2
<1> QED BY <1>3, <1>7 DEF M

\* a finished coloring gives nodes with an edge two colors
LEMMA ColoringFacts ==
    ASSUME TableInv, ColoringInv, pc \in Merging, coloring = "done"
    PROVE  /\ color \in [0..(GraphOf.n - 1) -> Nat]
           /\ \A a, b \in 0..(GraphOf.n - 1) : <<a, b>> \in GraphOf.edges => color[a] # color[b]
<1>1. graph = GraphOf /\ \A n \in 0..(graph.n - 1) : color[n] # UNASSIGNED
  BY DEF ColoringInv
<1>2. GC!Inv
  BY DEF TableInv
<1>3. color \in [0..(graph.n - 1) -> Nat \cup {UNASSIGNED}]
  BY <1>2 DEF GC!Inv, GC!Node, GC!N, GC!UNASSIGNED, UNASSIGNED
<1>4. color \in [0..(graph.n - 1) -> Nat]
  BY <1>1, <1>3
<1>5. GC!Colored = 0..(graph.n - 1)
  BY <1>1 DEF GC!Colored, GC!Node, GC!N, GC!UNASSIGNED, UNASSIGNED
<1>6. \A a, b \in 0..(graph.n - 1) : <<a, b>> \in graph.edges => color[a] # color[b]
  BY <1>2, <1>5 DEF GC!Inv, GC!Proper
<1> QED BY <1>1, <1>4, <1>6

\* cells whose entries are kept unless they are errors are read as before
LEMMA CellsMerged ==
    ASSUME TableInv, ShapeInv, CellsInv, pc \in Merging, pc' \in Merging \cup {"done"},
           UNCHANGED <<lr, config, firsts, lists, errorBits, errorRow>>,
           \A st \in State, k \in Term : Entry(st, k) # errorActionEntry => Entry(st, k)' = Entry(st, k)
    PROVE  CellsInv'
<1>1. Factored /\ Factored' /\ config.eef
  BY DEF Factored, ShapeInv
<1> SUFFICES ASSUME NEW st \in State, NEW k \in Term
             PROVE  /\ Actions(st, k)' = <<>> \/ EncodesAll(Entry(st, k), st, k, Actions(st, k))'
                    /\ (k \in errorBits[errorRow[st]])' <=> Actions(st, k)' = <<>>
  BY <1>1 DEF CellsInv, State, Term
<1>2. Filled(st, k)
  BY DEF Filled
<1>3. /\ Actions(st, k) = <<>> \/ EncodesAll(Entry(st, k), st, k, Actions(st, k))
      /\ k \in errorBits[errorRow[st]] <=> Actions(st, k) = <<>>
  BY <1>1, <1>2 DEF CellsInv
<1>4. Actions(st, k)' = Actions(st, k)
  BY DEF Actions
<1>5. /\ config \in Configs /\ lr \in Automaton /\ NumStates \in Nat
      /\ config.crs => firstWithTerminal \in [Term -> Int]
      /\ bigProductionList \in Seq(Nat) /\ Starts(productionsForState, bigProductionList)
      /\ ambigTable \in Seq(Int) /\ Starts(ambigStateTable, ambigTable)
  BY DEF ShapeInv, TableInv, ConstantsOK
<1>6. ASSUME Actions(st, k) # <<>> PROVE EncodesAll(Entry(st, k), st, k, Actions(st, k))'
  <2>1. EncodesAll(Entry(st, k), st, k, Actions(st, k))
    BY <1>3, <1>6
  <2>2. \E X : Actions(st, k) \in Seq(X)
    BY <1>5, ActionsAreList
  <2>3. Entry(st, k) # errorActionEntry
    BY <1>5, <1>6, <2>1, <2>2, OnlyErrorsAreErrors
  <2>4. ListsGrow
    BY <1>5, ListsSame
  <2>5. UNCHANGED config /\ (config.crs => UNCHANGED firstWithTerminal)
    BY DEF firsts
  <2> QED BY <1>4, <1>5, <2>1, <2>3, <2>4, <2>5, EntryStands
<1> QED BY <1>3, <1>4, <1>6

\* ... and so are gotos
LEMMA GotosMerged ==
    ASSUME ShapeInv, GotosInv, pc \in Merging,
           UNCHANGED <<lr, config, firsts>>,
           \A st \in State, n \in Nonterm : GotoEntry(st, n) # errorGotoEntry => GotoEntry(st, n)' = GotoEntry(st, n)
    PROVE  GotosInv'
<1> SUFFICES ASSUME NEW st \in State, NEW n \in Nonterm, lr'.goto[st][n] # STATE_INVALID
             PROVE  GotoEntry(st, n)' = GotoCode(st, n)' /\ GotoFits(GotoCode(st, n))'
  BY DEF GotosInv, State, Nonterm
<1>1. GotosFilled(st)
  BY DEF GotosFilled
<1>2. GotoEntry(st, n) = GotoCode(st, n) /\ GotoFits(GotoCode(st, n))
  BY <1>1 DEF GotosInv
<1>3. GotoCode(st, n)' = GotoCode(st, n) /\ errorGotoEntry' = errorGotoEntry
  BY DEF GotoCode, errorGotoEntry, firsts
<1>4. GotoFits(GotoCode(st, n))' <=> GotoFits(GotoCode(st, n))
  BY <1>3 DEF GotoFits
<1>5. config.gotoMax \in Nat
  BY ConfigIs DEF ShapeInv
<1>6. GotoCode(st, n) # errorGotoEntry
  <2> DEFINE c == GotoCode(st, n)
  <2>1. c \in 0..(config.gotoMax - 1)
    BY <1>2 DEF GotoFits
  <2> HIDE DEF c
  <2>2. c # config.gotoMax
    BY <1>5, <2>1
  <2> QED BY <2>2 DEF c, errorGotoEntry
<1> QED BY <1>2, <1>3, <1>4, <1>6

\* the error entries are numbers
LEMMA ErrorsAreInts == config \in Configs => errorActionEntry \in Int /\ errorGotoEntry \in Int
BY ConfigIs DEF errorActionEntry, AE_ERROR, errorGotoEntry

\* each merge that does not fail keeps all that is not an error
LEMMA MergesKeep ==
    ASSUME TableInv, ShapeInv, ColoringInv, coloring = "done", NEW c, c = color,
           MergeActionColumns(c) \/ MergeActionRows(c) \/ MergeGotoColumns(c) \/ MergeGotoRows(c),
           pc' # "failure"
    PROVE  /\ \A st \in State, k \in Term : Entry(st, k) # errorActionEntry => Entry(st, k)' = Entry(st, k)
           /\ \A st \in State, n \in Nonterm : GotoEntry(st, n) # errorGotoEntry => GotoEntry(st, n)' = GotoEntry(st, n)
           /\ pc = "actionColumns" => actionTable' \in [State -> [StoredAt(actionIndexMap', Term) -> Int]]
           /\ pc = "gotoColumns" => gotoTable' \in [State -> [StoredAt(gotoIndexMap', Nonterm) -> Int]]
<1>0. pc \in Merging
  BY DEF Merging, MergeActionColumns, MergeActionRows, MergeGotoColumns, MergeGotoRows
<1>1. /\ c \in [0..(GraphOf.n - 1) -> Nat]
      /\ \A a, b \in 0..(GraphOf.n - 1) : <<a, b>> \in GraphOf.edges => c[a] # c[b]
  BY <1>0, ColoringFacts
<1>2. errorActionEntry \in Int /\ errorGotoEntry \in Int /\ 0 \in State
  BY ErrorsAreInts DEF ShapeInv, TableInv, ConstantsOK, State
<1>3. CASE MergeActionColumns(c)
  <2>1. /\ pc = "actionColumns" /\ actionTable' = MergeColumns(actionTable, c, errorActionEntry)
        /\ actionIndexMap' = c /\ UNCHANGED <<actionRow, gotoTable, gotoRow, gotoIndexMap>>
    BY <1>3 DEF MergeActionColumns
  <2>2. actionTable \in [State -> [Term -> Int]] /\ Unmerged
    BY <2>1 DEF ShapeInv
  <2>3. GraphOf = ActionColumns
    BY <2>1 DEF GraphOf
  <2>4. /\ c \in [Term -> Nat]
        /\ \A a, b \in Term : (\E st \in State : Clash(actionTable[st][a], actionTable[st][b], errorActionEntry)) => c[a] # c[b]
    BY <1>1, <2>3 DEF ActionColumns, ColumnsConflict, Term
  <2>5. PICK f, err : f = actionTable /\ err = errorActionEntry
    OBVIOUS
  <2>56. ColumnsApart(f, State, Term, c, err)
    BY <1>2, <2>2, <2>4, <2>5 DEF ColumnsApart
  <2>6. /\ MergeColumns(f, c, err) \in [State -> [StoredAt(c, Term) -> Int]]
        /\ \A st \in State, k \in Term : f[st][k] # err => MergeColumns(f, c, err)[st][c[k]] = f[st][k]
    BY <2>56, ColumnsMerge
  <2>7. ASSUME NEW st \in State, NEW k \in Term, Entry(st, k) # errorActionEntry PROVE Entry(st, k)' = Entry(st, k)
    <3>1. Entry(st, k) = f[st][k]
      BY <2>2, <2>5 DEF Entry, Unmerged
    <3>2. Entry(st, k)' = MergeColumns(f, c, err)[st][c[k]]
      BY <2>1, <2>2, <2>5 DEF Entry, Unmerged
    <3> QED BY <2>5, <2>6, <2>7, <3>1, <3>2
  <2> QED BY <2>1, <2>5, <2>6, <2>7 DEF GotoEntry
<1>4. CASE MergeActionRows(c)
  <2>1. /\ pc = "actionRows" /\ actionTable' = MergeRows(actionTable, c, errorActionEntry)
        /\ actionRow' = c /\ UNCHANGED <<actionIndexMap, gotoTable, gotoRow, gotoIndexMap>>
    BY <1>4 DEF MergeActionRows
  <2>2. PICK f, err, D : f = actionTable /\ err = errorActionEntry /\ D = StoredAt(actionIndexMap, Term)
    OBVIOUS
  <2>21. err \in Int
    BY <1>2, <2>2
  <2>3. f \in [State -> [D -> Int]] /\ \A st \in State : actionRow[st] = st
    BY <2>1, <2>2 DEF ShapeInv
  <2>4. GraphOf = ActionRows
    BY <2>1 DEF GraphOf
  <2>5. DOMAIN f[0] = D
    BY <1>2, <2>3
  <2>6. /\ c \in [State -> Nat]
        /\ \A a, b \in State : (\E k \in D : Clash(f[a][k], f[b][k], err)) => c[a] # c[b]
    BY <1>1, <2>2, <2>4, <2>5 DEF ActionRows, RowsConflict, State
  <2>7. \A st \in State, k \in D : f[st][k] # err => MergeRows(f, c, err)[c[st]][k] = f[st][k]
    <3>1. RowsApart(f, State, D, c, err)
      BY <1>2, <2>21, <2>3, <2>6 DEF RowsApart
    <3> QED BY <3>1, RowsMerge
  <2>8. ASSUME NEW st \in State, NEW k \in Term, Entry(st, k) # errorActionEntry PROVE Entry(st, k)' = Entry(st, k)
    <3>1. actionIndexMap[k] \in D
      BY <2>2 DEF StoredAt
    <3>2. Entry(st, k) = f[st][actionIndexMap[k]]
      BY <2>2, <2>3 DEF Entry
    <3>3. Entry(st, k)' = MergeRows(f, c, err)[c[st]][actionIndexMap[k]]
      BY <2>1, <2>2 DEF Entry
    <3> QED BY <2>2, <2>7, <2>8, <3>1, <3>2, <3>3
  <2> QED BY <2>1, <2>8 DEF GotoEntry
<1>5. CASE MergeGotoColumns(c)
  <2>1. /\ pc = "gotoColumns" /\ gotoTable' = MergeColumns(gotoTable, c, errorGotoEntry)
        /\ gotoIndexMap' = c /\ UNCHANGED <<gotoRow, actionTable, actionRow, actionIndexMap>>
    BY <1>5 DEF MergeGotoColumns
  <2>2. gotoTable \in [State -> [Nonterm -> Int]] /\ GotosUnmerged
    BY <2>1 DEF ShapeInv
  <2>3. GraphOf = GotoColumns
    BY <2>1 DEF GraphOf
  <2>4. /\ c \in [Nonterm -> Nat]
        /\ \A a, b \in Nonterm : (\E st \in State : Clash(gotoTable[st][a], gotoTable[st][b], errorGotoEntry)) => c[a] # c[b]
    BY <1>1, <2>3 DEF GotoColumns, ColumnsConflict, Nonterm
  <2>5. PICK f, err : f = gotoTable /\ err = errorGotoEntry
    OBVIOUS
  <2>56. ColumnsApart(f, State, Nonterm, c, err)
    BY <1>2, <2>2, <2>4, <2>5 DEF ColumnsApart
  <2>6. /\ MergeColumns(f, c, err) \in [State -> [StoredAt(c, Nonterm) -> Int]]
        /\ \A st \in State, k \in Nonterm : f[st][k] # err => MergeColumns(f, c, err)[st][c[k]] = f[st][k]
    BY <2>56, ColumnsMerge
  <2>7. ASSUME NEW st \in State, NEW n \in Nonterm, GotoEntry(st, n) # errorGotoEntry PROVE GotoEntry(st, n)' = GotoEntry(st, n)
    <3>1. GotoEntry(st, n) = f[st][n]
      BY <2>2, <2>5 DEF GotoEntry, GotosUnmerged
    <3>2. GotoEntry(st, n)' = MergeColumns(f, c, err)[st][c[n]]
      BY <2>1, <2>2, <2>5 DEF GotoEntry, GotosUnmerged
    <3> QED BY <2>5, <2>6, <2>7, <3>1, <3>2
  <2> QED BY <2>1, <2>5, <2>6, <2>7 DEF Entry
<1>6. CASE MergeGotoRows(c)
  <2>1. /\ pc = "gotoRows" /\ gotoTable' = MergeRows(gotoTable, c, errorGotoEntry)
        /\ gotoRow' = c /\ UNCHANGED <<gotoIndexMap, actionTable, actionRow, actionIndexMap>>
    BY <1>6 DEF MergeGotoRows
  <2>2. PICK f, err, D : f = gotoTable /\ err = errorGotoEntry /\ D = StoredAt(gotoIndexMap, Nonterm)
    OBVIOUS
  <2>21. err \in Int
    BY <1>2, <2>2
  <2>3. f \in [State -> [D -> Int]] /\ \A st \in State : gotoRow[st] = st
    BY <2>1, <2>2 DEF ShapeInv
  <2>4. GraphOf = GotoRows
    BY <2>1 DEF GraphOf
  <2>5. DOMAIN f[0] = D
    BY <1>2, <2>3
  <2>6. /\ c \in [State -> Nat]
        /\ \A a, b \in State : (\E k \in D : Clash(f[a][k], f[b][k], err)) => c[a] # c[b]
    BY <1>1, <2>2, <2>4, <2>5 DEF GotoRows, RowsConflict, State
  <2>7. \A st \in State, k \in D : f[st][k] # err => MergeRows(f, c, err)[c[st]][k] = f[st][k]
    <3>1. RowsApart(f, State, D, c, err)
      BY <1>2, <2>21, <2>3, <2>6 DEF RowsApart
    <3> QED BY <3>1, RowsMerge
  <2>8. ASSUME NEW st \in State, NEW n \in Nonterm, GotoEntry(st, n) # errorGotoEntry PROVE GotoEntry(st, n)' = GotoEntry(st, n)
    <3>1. gotoIndexMap[n] \in D
      BY <2>2 DEF StoredAt
    <3>2. GotoEntry(st, n) = f[st][gotoIndexMap[n]]
      BY <2>2, <2>3 DEF GotoEntry
    <3>3. GotoEntry(st, n)' = MergeRows(f, c, err)[c[st]][gotoIndexMap[n]]
      BY <2>1, <2>2 DEF GotoEntry
    <3> QED BY <2>2, <2>7, <2>8, <3>1, <3>2, <3>3
  <2> QED BY <2>1, <2>8 DEF Entry
<1> QED BY <1>3, <1>4, <1>5, <1>6

\* the shapes that do not depend on which tables a step of the compression changes
LEMMA ShapeCompressed ==
    ASSUME ShapeInv, pc \in Merging \cup {"errors"}, pc' \in Merging \cup {"done"}, pc' # pc,
           UNCHANGED <<lr, config, firsts, lists, s, t, raw>>,
           resolving' = "idle", coloring' = "idle",
           errorRow' \in [State -> Nat],
           pc' = "actionColumns" => /\ UNCHANGED <<actionTable, actionRow, actionIndexMap>>
                                    /\ pc = "errors",
           pc' = "actionRows" =>
              /\ actionTable' \in [State -> [StoredAt(actionIndexMap', Term) -> Int]]
              /\ \A st \in State : actionRow'[st] = st,
           pc' \in {"actionColumns", "actionRows", "gotoColumns"} =>
              /\ UNCHANGED <<gotoTable, gotoRow, gotoIndexMap>>
              /\ pc \in {"errors", "actionColumns", "actionRows"},
           pc' = "gotoRows" =>
              /\ gotoTable' \in [State -> [StoredAt(gotoIndexMap', Nonterm) -> Int]]
              /\ \A st \in State : gotoRow'[st] = st
    PROVE  ShapeInv'
<1>1. /\ UNCHANGED <<lr, config, s, t>> /\ config.eef
      /\ UNCHANGED <<firstWithTerminal, firstWithNonterminal, bigProductionList, productionsForState,
                     ambigTable, ambigStateTable>>
      /\ UNCHANGED raw
  BY DEF firsts, lists, ShapeInv
<1>2. /\ Starts(productionsForState, bigProductionList)' <=> Starts(productionsForState, bigProductionList)
      /\ Starts(ambigStateTable, ambigTable)' <=> Starts(ambigStateTable, ambigTable)
  BY <1>1 DEF Starts, State, UNASSIGNED
<1>3. UNCHANGED <<Merging, Filling, Configs, Automaton, State, Term, Nonterm>>
  BY DEF Merging, Filling, Automaton, State, Term, Nonterm
<1>4. pc' \in Merging \cup {"done"} /\ pc' \notin {"states"} \cup Filling \cup {"cell", "graph", "emitted"}
  BY DEF Merging, Filling
<1>5. /\ (config \in Configs /\ lr \in Automaton)'
      /\ (config.crs => firstWithTerminal \in [Term -> Int] /\ firstWithNonterminal \in [Nonterm -> Int])'
      /\ (\A st \in State, k \in Term : raw.reduce[st][k] \in Seq(0..config.prodMax))'
  BY <1>1, <1>3 DEF ShapeInv
<1>6. /\ (pc \notin {"cells", "cell"} => resolving = "idle")'
      /\ (pc \notin Merging \cup {"graph"} => coloring = "idle")'
      /\ (pc \in {"errors"} \cup Merging => config.eef)'
      /\ (pc \in {"states", "firsts"} => s = 0 /\ t = 0)'
      /\ (pc = "gotos" => t = 0)'
  BY <1>1, <1>3, <1>4 DEF Filling
<1>7. /\ bigProductionList \in Seq(Nat) /\ Starts(productionsForState, bigProductionList)
      /\ ambigTable \in Seq(Int) /\ Starts(ambigStateTable, ambigTable)
  BY DEF ShapeInv, Filling
<1>8. (pc \in {"states", "done"} \cup Filling \cup Merging =>
          /\ bigProductionList \in Seq(Nat) /\ Starts(productionsForState, bigProductionList)
          /\ ambigTable \in Seq(Int) /\ Starts(ambigStateTable, ambigTable))'
      /\ (Factored => errorRow \in [State -> Nat])'
  BY <1>1, <1>2, <1>3, <1>7
<1>9. (pc \in {"states", "actionColumns"} \cup Filling =>
           /\ actionTable \in [State -> [Term -> Int]] /\ Unmerged)'
  <2>1. CASE pc' = "actionColumns"
    <3>1. actionTable \in [State -> [Term -> Int]] /\ Unmerged
      BY <2>1 DEF ShapeInv, Filling
    <3>2. Unmerged' <=> Unmerged
      BY <2>1 DEF Unmerged, State, Term
    <3> QED BY <1>3, <2>1, <3>1, <3>2
  <2> QED BY <1>3, <1>4, <2>1
<1>10. (pc \in {"states", "actionColumns", "actionRows", "gotoColumns"} \cup Filling =>
            /\ gotoTable \in [State -> [Nonterm -> Int]] /\ GotosUnmerged)'
  <2>1. CASE pc' \in {"actionColumns", "actionRows", "gotoColumns"}
    <3>1. gotoTable \in [State -> [Nonterm -> Int]] /\ GotosUnmerged
      BY <2>1, <1>4 DEF ShapeInv, Filling
    <3>2. GotosUnmerged' <=> GotosUnmerged
      BY <2>1 DEF GotosUnmerged, State, Nonterm
    <3> QED BY <1>3, <2>1, <3>1, <3>2
  <2> QED BY <1>3, <1>4, <2>1
<1>11. (~config.eef /\ pc \in {"done", "emitted"} => Unmerged)'
  BY <1>1
<1>12. /\ (pc = "actionRows" =>
             /\ actionTable \in [State -> [StoredAt(actionIndexMap, Term) -> Int]]
             /\ \A st \in State : actionRow[st] = st)'
       /\ (pc = "gotoRows" =>
             /\ gotoTable \in [State -> [StoredAt(gotoIndexMap, Nonterm) -> Int]]
             /\ \A st \in State : gotoRow[st] = st)'
  <2>1. (\A st \in State : actionRow'[st] = st) <=> (\A st \in State : actionRow[st] = st)'
    BY <1>3
  <2>2. (\A st \in State : gotoRow'[st] = st) <=> (\A st \in State : gotoRow[st] = st)'
    BY <1>3
  <2>3. /\ StoredAt(actionIndexMap, Term)' = StoredAt(actionIndexMap', Term)
        /\ StoredAt(gotoIndexMap, Nonterm)' = StoredAt(gotoIndexMap', Nonterm)
    BY DEF StoredAt, Term, Nonterm
  <2> QED BY <1>3, <2>1, <2>2, <2>3
<1> QED BY <1>5, <1>6, <1>8, <1>9, <1>10, <1>11, <1>12, Zenon DEF ShapeInv

\* a table that is not merged by columns is merged by rows as it is
LEMMA RowsOfUnmerged ==
    ASSUME NEW f, NEW place, NEW D, f \in [State -> [D -> Int]], \A k \in D : place[k] = k
    PROVE  f \in [State -> [StoredAt(place, D) -> Int]]
<1>1. StoredAt(place, D) = D
  BY DEF StoredAt
<1> QED BY <1>1

\* where a merge fails, no table is read any more
LEMMA MergeFails == TableInv /\ DecodeInv /\ Merge /\ pc' = "failure" => DecodeInv'
<1> SUFFICES ASSUME TableInv, DecodeInv, Merge, pc' = "failure" PROVE DecodeInv'
  OBVIOUS
<1>1. /\ pc \in Merging /\ coloring' = "idle"
      /\ UNCHANGED <<lr, config, firsts, raw, resolving>>
  BY DEF Merge, Merging, MergeActionColumns, MergeActionRows, MergeGotoColumns, MergeGotoRows, input, crVars
<1>2. /\ config \in Configs /\ lr \in Automaton /\ resolving = "idle"
      /\ config.crs => firstWithTerminal \in [Term -> Int] /\ firstWithNonterminal \in [Nonterm -> Int]
      /\ \A st \in State, k \in Term : raw.reduce[st][k] \in Seq(0..config.prodMax)
  BY <1>1 DEF DecodeInv, ShapeInv, Merging
<1>3. UNCHANGED <<Configs, Automaton, State, Term, Nonterm, firstWithTerminal, firstWithNonterminal>>
  BY <1>1 DEF Automaton, State, Term, Nonterm, firsts
<1>4. pc' \notin {"states", "cells", "cell", "graph", "done", "emitted"} \cup Filling \cup Merging
  BY DEF Filling, Merging
<1>5. ShapeInv'
  BY <1>1, <1>2, <1>3, <1>4 DEF ShapeInv, Factored, Filling, Merging
<1>6. ~Factored' /\ \A st, k : ~Filled(st, k)' /\ ~GotosFilled(st)'
  BY <1>4 DEF Factored, Filled, GotosFilled, Merging
<1>7. CellsInv' /\ GotosInv'
  BY <1>6 DEF CellsInv, GotosInv
<1>8. ColoringInv' /\ CellKept'
  BY <1>1, <1>4 DEF ColoringInv, CellKept, Merging
<1> QED BY <1>5, <1>7, <1>8 DEF DecodeInv

\* a merge keeps what is read of the tables
LEMMA MergeKeeps == TableInv /\ DecodeInv /\ Merge => DecodeInv'
<1> SUFFICES ASSUME TableInv, DecodeInv, Merge, pc' # "failure" PROVE DecodeInv'
  BY MergeFails
<1>1. PICK c : /\ c = color
               /\ MergeActionColumns(c) \/ MergeActionRows(c) \/ MergeGotoColumns(c) \/ MergeGotoRows(c)
  BY DEF Merge
<1>2. /\ coloring = "done" /\ coloring' = "idle" /\ UNCHANGED <<raw, resolving>>
  BY DEF Merge, input, crVars
<1>3. /\ pc \in Merging /\ pc' \in Merging \cup {"done"} /\ pc' # pc /\ pc' # "actionColumns"
      /\ UNCHANGED <<lr, config, firsts, lists, errorBits, errorRow, s, t>>
  BY <1>1 DEF Merging, MergeActionColumns, MergeActionRows, MergeGotoColumns, MergeGotoRows
<1>4. /\ pc' = "actionRows" <=> MergeActionColumns(c)
      /\ pc' = "gotoColumns" => MergeActionRows(c)
      /\ pc' = "gotoRows" => MergeActionRows(c) \/ MergeGotoColumns(c)
  BY <1>1 DEF MergeActionColumns, MergeActionRows, MergeGotoColumns, MergeGotoRows
<1>5. /\ ShapeInv /\ ColoringInv /\ CellsInv /\ GotosInv
  BY DEF DecodeInv
<1>6. /\ \A st \in State, k \in Term : Entry(st, k) # errorActionEntry => Entry(st, k)' = Entry(st, k)
      /\ \A st \in State, n \in Nonterm : GotoEntry(st, n) # errorGotoEntry => GotoEntry(st, n)' = GotoEntry(st, n)
      /\ pc = "actionColumns" => actionTable' \in [State -> [StoredAt(actionIndexMap', Term) -> Int]]
      /\ pc = "gotoColumns" => gotoTable' \in [State -> [StoredAt(gotoIndexMap', Nonterm) -> Int]]
  BY <1>1, <1>2, <1>5, MergesKeep
<1>7. CellsInv'
  BY <1>3, <1>5, <1>6, CellsMerged
<1>8. GotosInv'
  BY <1>3, <1>5, <1>6, GotosMerged
<1>9. ShapeInv'
  <2>1. resolving' = "idle" /\ errorRow' \in [State -> Nat]
    BY <1>2, <1>3, <1>5 DEF ShapeInv, Merging, Factored
  <2>2. pc' = "actionRows" =>
              /\ actionTable' \in [State -> [StoredAt(actionIndexMap', Term) -> Int]]
              /\ \A st \in State : actionRow'[st] = st
    <3> SUFFICES ASSUME pc' = "actionRows" PROVE actionTable' \in [State -> [StoredAt(actionIndexMap', Term) -> Int]]
                                                 /\ \A st \in State : actionRow'[st] = st
      OBVIOUS
    <3>1. pc = "actionColumns" /\ UNCHANGED actionRow
      BY <1>4 DEF MergeActionColumns
    <3>2. \A st \in State : actionRow[st] = st
      BY <1>5, <3>1 DEF ShapeInv, Unmerged
    <3> QED BY <1>6, <3>1, <3>2
  <2>3. pc' \in {"actionColumns", "actionRows", "gotoColumns"} =>
              /\ UNCHANGED <<gotoTable, gotoRow, gotoIndexMap>>
              /\ pc \in {"errors", "actionColumns", "actionRows"}
    BY <1>3, <1>4 DEF MergeActionColumns, MergeActionRows
  <2>4. pc' = "gotoRows" =>
              /\ gotoTable' \in [State -> [StoredAt(gotoIndexMap', Nonterm) -> Int]]
              /\ \A st \in State : gotoRow'[st] = st
    <3> SUFFICES ASSUME pc' = "gotoRows" PROVE gotoTable' \in [State -> [StoredAt(gotoIndexMap', Nonterm) -> Int]]
                                                 /\ \A st \in State : gotoRow'[st] = st
      OBVIOUS
    <3>1. pc \in {"actionRows", "gotoColumns"} /\ UNCHANGED gotoRow
      BY <1>4 DEF MergeActionRows, MergeGotoColumns
    <3>2. \A st \in State : gotoRow[st] = st
      BY <1>5, <3>1 DEF ShapeInv, GotosUnmerged
    <3>3. CASE pc = "actionRows"
      <4>1. UNCHANGED <<gotoTable, gotoIndexMap>>
        BY <1>4, <3>3 DEF MergeActionRows, MergeGotoColumns
      <4>2. gotoTable \in [State -> [Nonterm -> Int]] /\ \A n \in Nonterm : gotoIndexMap[n] = n
        BY <1>5, <3>3 DEF ShapeInv, GotosUnmerged
      <4> QED BY <3>1, <3>2, <4>1, <4>2, RowsOfUnmerged
    <3>4. CASE pc = "gotoColumns"
      BY <1>6, <3>1, <3>2, <3>4
    <3> QED BY <3>1, <3>3, <3>4
  <2> QED BY <1>2, <1>3, <1>5, <2>1, <2>2, <2>3, <2>4, ShapeCompressed
<1>10. ColoringInv' /\ CellKept'
  BY <1>2, <1>3 DEF ColoringInv, CellKept, Merging
<1> QED BY <1>7, <1>8, <1>9, <1>10 DEF DecodeInv

-----------------------------------------------------------------------------
(* The error bits *)

\* how many of L come before x
Rank(L, x) == Cardinality({r \in L : r < x})

\* members of a finite set have different ranks
LEMMA RanksApart ==
    ASSUME NEW L \in SUBSET Nat, IsFiniteSet(L)
    PROVE  /\ \A a \in L : Rank(L, a) \in 0..(Cardinality(L) - 1)
           /\ \A a, b \in L : Rank(L, a) = Rank(L, b) => a = b
<1> DEFINE below(x) == {r \in L : r < x}
<1>1. \A x : IsFiniteSet(below(x)) /\ below(x) \subseteq L /\ Rank(L, x) = Cardinality(below(x))
             /\ Rank(L, x) \in Nat
  <2> SUFFICES ASSUME NEW x PROVE IsFiniteSet(below(x)) /\ below(x) \subseteq L /\ Rank(L, x) = Cardinality(below(x))
             /\ Rank(L, x) \in Nat
    OBVIOUS
  <2>1. below(x) \in SUBSET L /\ Rank(L, x) = Cardinality(below(x))
    BY DEF Rank
  <2> HIDE DEF below
  <2> QED BY <2>1, FS_Subset, FS_CardinalityType
<1>2. \A a \in L : Cardinality(below(a)) # Cardinality(L)
  <2> SUFFICES ASSUME NEW a \in L PROVE Cardinality(below(a)) # Cardinality(L)
    OBVIOUS
  <2>1. a \notin below(a)
    OBVIOUS
  <2> HIDE DEF below
  <2> QED BY <1>1, <2>1, FS_Subset
<1>3. ASSUME NEW a \in L, NEW b \in L, a < b PROVE Rank(L, a) # Rank(L, b)
  <2>1. below(a) \subseteq below(b)
    <3>1. \A r \in L : r < a => r < b
      BY <1>3
    <3> QED BY <3>1
  <2>2. a \in below(b) /\ a \notin below(a)
    BY <1>3
  <2> HIDE DEF below
  <2> QED BY <1>1, <2>1, <2>2, FS_Subset
<1>4. \A a \in L : Rank(L, a) \in 0..(Cardinality(L) - 1)
  <2> SUFFICES ASSUME NEW a \in L PROVE Rank(L, a) \in 0..(Cardinality(L) - 1)
    OBVIOUS
  <2>1. Cardinality(below(a)) <= Cardinality(L) /\ Cardinality(L) \in Nat
    <3>1. below(a) \in SUBSET L
      BY <1>1
    <3> HIDE DEF below
    <3> QED BY <3>1, FS_Subset, FS_CardinalityType
  <2> HIDE DEF below
  <2> QED BY <1>1, <1>2, <2>1
<1>5. \A a, b \in L : a < b \/ b < a \/ a = b
  OBVIOUS
<1> HIDE DEF below
<1> QED BY <1>3, <1>4, <1>5

\* the row of errorBits of a state
Leader(st) == Lowest({r \in 0..st : SameErrors(st, r)}, st)
Leaders == {Leader(st) : st \in State}
RowOf(st) == Rank(Leaders, Leader(st))

\* the first state with the same errors has the same errors
LEMMA LeaderIs == NumStates \in Nat => \A st \in State : Leader(st) \in State /\ ErrorsOf(Leader(st)) = ErrorsOf(st)
<1> SUFFICES ASSUME NumStates \in Nat, NEW st \in State PROVE Leader(st) \in State /\ ErrorsOf(Leader(st)) = ErrorsOf(st)
  OBVIOUS
<1> DEFINE S == {r \in 0..st : SameErrors(st, r)}
<1>1. S \in SUBSET Nat /\ S # {}
  BY DEF State, SameErrors
<1>2. Leader(st) = CHOOSE x \in S : \A y \in S : x <= y
  BY <1>1 DEF Leader, Lowest
<1>3. Leader(st) \in S
  <2> HIDE DEF S
  <2> QED BY <1>1, <1>2, Least
<1>4. Leader(st) \in 0..st /\ SameErrors(st, Leader(st))
  BY <1>3
<1> QED BY <1>4 DEF State, SameErrors

\* the rows that are shared are those of states with the same errors
LEMMA RowsOfErrors ==
    ASSUME NumStates \in Nat
    PROVE  \A st \in State :
              /\ RowOf(st) \in 0..(Cardinality(Leaders) - 1) /\ RowOf(st) \in Nat
              /\ UNION {ErrorsOf(x) : x \in {y \in State : RowOf(y) = RowOf(st)}} = ErrorsOf(st)
<1>1. Leaders \in SUBSET State /\ \A st \in State : Leader(st) \in Leaders
  BY LeaderIs DEF Leaders
<1>2. State \in SUBSET Nat /\ IsFiniteSet(State)
  BY FS_Interval DEF State
<1>3. Leaders \in SUBSET Nat /\ IsFiniteSet(Leaders)
  BY <1>1, <1>2, FS_Subset
<1>4. \A a, b \in State : RowOf(a) = RowOf(b) => ErrorsOf(a) = ErrorsOf(b)
  <2> SUFFICES ASSUME NEW a \in State, NEW b \in State, RowOf(a) = RowOf(b) PROVE ErrorsOf(a) = ErrorsOf(b)
    OBVIOUS
  <2>1. Leader(a) \in Leaders /\ Leader(b) \in Leaders /\ Rank(Leaders, Leader(a)) = Rank(Leaders, Leader(b))
    BY <1>1 DEF RowOf
  <2>2. Leader(a) = Leader(b)
    BY <1>3, <2>1, RanksApart
  <2> QED BY <2>2, LeaderIs
<1>5. \A st \in State : RowOf(st) \in 0..(Cardinality(Leaders) - 1)
  BY <1>1, <1>3, RanksApart DEF RowOf
<1> QED BY <1>4, <1>5

\* the bitmap of errors has the bit of a cell set exactly if it has no action
LEMMA ComputeErrorBitsKeeps ==
    ASSUME TableInv, DecodeInv, ComputeErrorBits, UNCHANGED <<input, crVars, gcVars>>
    PROVE  DecodeInv'
<1>1. /\ pc = "errors" /\ pc' \in {"actionColumns", "actionRows", "done"}
      /\ UNCHANGED <<lr, config, firsts, lists, actionTable, gotoTable, actionRow, actionIndexMap,
                     gotoRow, gotoIndexMap, s, t>>
      /\ UNCHANGED <<raw, resolving, coloring>>
  BY DEF ComputeErrorBits, input, crVars, gcVars
<1>2. /\ errorRow' = [st \in State |-> RowOf(st)]
      /\ errorBits' = [r \in 0..(Cardinality(Leaders) - 1) |->
                          UNION {ErrorsOf(st) : st \in {x \in State : RowOf(x) = r}}]
  BY DEF ComputeErrorBits, RowOf, Rank, Leaders, Leader
<1>3. /\ resolving = "idle" /\ coloring = "idle" /\ config \in Configs /\ lr \in Automaton
      /\ NumStates \in Nat /\ config.eef
      /\ config.crs => firstWithTerminal \in [Term -> Int]
      /\ actionTable \in [State -> [Term -> Int]] /\ Unmerged
      /\ gotoTable \in [State -> [Nonterm -> Int]] /\ GotosUnmerged
      /\ bigProductionList \in Seq(Nat) /\ Starts(productionsForState, bigProductionList)
      /\ ambigTable \in Seq(Int) /\ Starts(ambigStateTable, ambigTable)
  BY <1>1 DEF DecodeInv, ShapeInv, Merging, Filling, TableInv, ConstantsOK
<1>4. /\ \A st \in State : errorRow'[st] \in Nat /\ errorBits'[errorRow'[st]] = ErrorsOf(st)
      /\ errorRow' \in [State -> Nat]
  <2>1. \A st \in State : errorRow'[st] = RowOf(st)
    BY <1>2
  <2> QED BY <1>2, <1>3, <2>1, RowsOfErrors
<1>5. /\ Factored' /\ ~Factored /\ \A st, k : Filled(st, k) /\ GotosFilled(st)
      /\ pc' \in Merging \cup {"done"}
  BY <1>1, <1>3 DEF Factored, Filled, GotosFilled, Merging
<1>6. CellsInv'
  <2> SUFFICES ASSUME NEW st \in State, NEW k \in Term
               PROVE  /\ EncodesAll(Entry(st, k), st, k, Actions(st, k))'
                      /\ (k \in errorBits[errorRow[st]])' <=> Actions(st, k)' = <<>>
    BY <1>5 DEF CellsInv, State, Term
  <2>1. EncodesAll(Entry(st, k), st, k, Actions(st, k))
    BY <1>5 DEF DecodeInv, CellsInv
  <2>2. Entry(st, k)' = Entry(st, k) /\ Actions(st, k)' = Actions(st, k)
    BY <1>1 DEF Entry, Actions
  <2>3. ListsGrow
    BY <1>1, <1>3, ListsSame
  <2>4. UNCHANGED config /\ (config.crs => UNCHANGED firstWithTerminal)
    BY <1>1 DEF firsts
  <2>5. EncodesAll(Entry(st, k), st, k, Actions(st, k))'
    BY <1>3, <2>1, <2>2, <2>3, <2>4, EntryStands
  <2>6. Entry(st, k) = errorActionEntry <=> Actions(st, k) = <<>>
    <3>1. \E X : Actions(st, k) \in Seq(X)
      BY <1>3, ActionsAreList
    <3> QED BY <1>3, <2>1, <3>1, OnlyErrorsAreErrors
  <2>7. k \in ErrorsOf(st) <=> Entry(st, k) = errorActionEntry
    BY <1>3 DEF ErrorsOf, Entry, Unmerged
  <2> QED BY <1>4, <2>2, <2>5, <2>6, <2>7
<1>7. GotosInv'
  <2> SUFFICES ASSUME NEW st \in State, NEW n \in Nonterm, lr'.goto[st][n] # STATE_INVALID
               PROVE  GotoEntry(st, n)' = GotoCode(st, n)' /\ GotoFits(GotoCode(st, n))'
    BY DEF GotosInv, State, Nonterm
  <2>1. GotoEntry(st, n) = GotoCode(st, n) /\ GotoFits(GotoCode(st, n))
    BY <1>1, <1>5 DEF DecodeInv, GotosInv
  <2>2. GotoCode(st, n)' = GotoCode(st, n) /\ GotoEntry(st, n)' = GotoEntry(st, n)
    BY <1>1 DEF GotoCode, errorGotoEntry, firsts, GotoEntry
  <2>3. GotoFits(GotoCode(st, n))' <=> GotoFits(GotoCode(st, n))
    BY <1>1, <2>2 DEF GotoFits
  <2> QED BY <2>1, <2>2, <2>3
<1>8. ShapeInv'
  <2>1. pc' = "actionRows" => /\ actionTable' \in [State -> [StoredAt(actionIndexMap', Term) -> Int]]
                              /\ \A st \in State : actionRow'[st] = st
    <3>1. actionTable \in [State -> [StoredAt(actionIndexMap, Term) -> Int]]
      BY <1>3, RowsOfUnmerged DEF Unmerged
    <3> QED BY <1>1, <1>3, <3>1 DEF Unmerged
  <2> QED BY <1>1, <1>3, <1>4, <1>5, <2>1, ShapeCompressed DEF DecodeInv
<1>9. ColoringInv' /\ CellKept'
  BY <1>1, <1>3 DEF ColoringInv, CellKept
<1> QED BY <1>6, <1>7, <1>8, <1>9 DEF DecodeInv

-----------------------------------------------------------------------------
(* The emitted program *)

\* a table with a pointer in it is written
LEMMA OffsetsWritten ==
    ASSUME NEW f, NEW D, NEW x \in D, DOMAIN f = D, f[x] \in Nat
    PROVE  OffsetTable(f) = f
<1>1. f[x] \in Range(f) /\ f[x] # UNASSIGNED
  BY DEF Range, UNASSIGNED
<1> QED BY <1>1 DEF OffsetTable

\* the emitted program sets up tables that are read as the ones in memory
LEMMA EmitKeeps ==
    ASSUME TableInv, DecodeInv, EmitConstructionCode, UNCHANGED <<input, crVars, gcVars>>
    PROVE  DecodeInv'
<1>1. /\ pc = "done" /\ pc' = "emitted"
      /\ productionsForState' = OffsetTable(productionsForState)
      /\ ambigStateTable' = OffsetTable(ambigStateTable)
      /\ config.eef => errorRow' = OffsetTable(errorRow)
      /\ config.crs => UNCHANGED <<firstWithTerminal, firstWithNonterminal>>
      /\ UNCHANGED <<lr, config, bigProductionList, ambigTable, actionTable, gotoTable, errorBits,
                     actionRow, actionIndexMap, gotoRow, gotoIndexMap, s, t>>
      /\ UNCHANGED <<raw, resolving, coloring>>
  BY DEF EmitConstructionCode, input, crVars, gcVars
<1>2. /\ resolving = "idle" /\ coloring = "idle" /\ config \in Configs /\ lr \in Automaton
      /\ config.crs => firstWithTerminal \in [Term -> Int] /\ firstWithNonterminal \in [Nonterm -> Int]
      /\ ~config.eef => Unmerged
      /\ \A st \in State, k \in Term : raw.reduce[st][k] \in Seq(0..config.prodMax)
      /\ bigProductionList \in Seq(Nat) /\ Starts(productionsForState, bigProductionList)
      /\ ambigTable \in Seq(Int) /\ Starts(ambigStateTable, ambigTable)
      /\ config.eef => errorRow \in [State -> Nat]
      /\ 0 \in State
  BY <1>1 DEF DecodeInv, ShapeInv, Merging, Filling, Factored, TableInv, ConstantsOK, State
<1>3. /\ \A st \in State : productionsForState[st] \in Nat => productionsForState'[st] = productionsForState[st]
      /\ \A st \in State : ambigStateTable[st] \in Nat => ambigStateTable'[st] = ambigStateTable[st]
      /\ config.eef => errorRow' = errorRow
  <2>1. productionsForState \in [State -> Nat \cup {UNASSIGNED}] /\ ambigStateTable \in [State -> Nat \cup {UNASSIGNED}]
    BY <1>2 DEF Starts
  <2>2. \A st \in State : productionsForState[st] \in Nat => OffsetTable(productionsForState) = productionsForState
    BY <2>1, OffsetsWritten
  <2>3. \A st \in State : ambigStateTable[st] \in Nat => OffsetTable(ambigStateTable) = ambigStateTable
    BY <2>1, OffsetsWritten
  <2>4. config.eef => OffsetTable(errorRow) = errorRow
    <3> SUFFICES ASSUME config.eef PROVE OffsetTable(errorRow) = errorRow
      OBVIOUS
    <3>1. DOMAIN errorRow = State /\ errorRow[0] \in Nat
      BY <1>2
    <3> QED BY <1>2, <3>1, OffsetsWritten
  <2> QED BY <1>1, <2>2, <2>3, <2>4
<1>4. /\ Factored <=> config.eef
      /\ Factored' <=> config.eef
      /\ \A st, k : Filled(st, k) /\ GotosFilled(st)
  BY <1>1 DEF Factored, Filled, GotosFilled, Merging
<1>5. CellsInv'
  <2> SUFFICES ASSUME NEW st \in State, NEW k \in Term
               PROVE  /\ (Factored' /\ Actions(st, k)' = <<>>) \/ EncodesAll(Entry(st, k), st, k, Actions(st, k))'
                      /\ Factored' => ((k \in errorBits[errorRow[st]])' <=> Actions(st, k)' = <<>>)
    BY DEF CellsInv, State, Term
  <2>1. /\ (Factored /\ Actions(st, k) = <<>>) \/ EncodesAll(Entry(st, k), st, k, Actions(st, k))
        /\ Factored => (k \in errorBits[errorRow[st]] <=> Actions(st, k) = <<>>)
    BY <1>4 DEF DecodeInv, CellsInv
  <2>2. PICK code, as, st1, k1 : code = Entry(st, k) /\ as = Actions(st, k) /\ st1 = st /\ k1 = k
    OBVIOUS
  <2>3. Entry(st, k)' = code /\ Actions(st, k)' = as
    BY <1>1, <2>2 DEF Entry, Actions
  <2>4. ASSUME EncodesAll(Entry(st, k), st, k, Actions(st, k))
        PROVE  EncodesAll(Entry(st, k), st, k, Actions(st, k))'
    <3>1. EncodesAll(code, st1, k1, as)
      BY <2>2, <2>4
    <3>2. Len(as) \in Nat
      BY <1>2, <2>2, ActionsAreList, SeqIs
    <3>3. Grown(bigProductionList, bigProductionList') /\ Grown(ambigTable, ambigTable')
          /\ bigProductionList' \in Seq(Nat) /\ Len(ambigTable') \in Nat
      BY <1>1, <1>2 DEF Grown
    <3>4. UNCHANGED config /\ (config.crs => UNCHANGED firstWithTerminal)
      BY <1>1
    <3>5. EncodesAll(code, st1, k1, as)'
      BY <1>2, <1>3, <2>2, <3>1, <3>2, <3>3, <3>4, StillEncodesAll
    <3> QED BY <2>2, <2>3, <3>5, Zenon DEF EncodesAll
  <2> QED BY <1>1, <1>3, <1>4, <2>1, <2>2, <2>3, <2>4
<1>6. GotosInv'
  <2> SUFFICES ASSUME NEW st \in State, NEW n \in Nonterm, lr'.goto[st][n] # STATE_INVALID
               PROVE  GotoEntry(st, n)' = GotoCode(st, n)' /\ GotoFits(GotoCode(st, n))'
    BY DEF GotosInv, State, Nonterm
  <2>1. GotoEntry(st, n) = GotoCode(st, n) /\ GotoFits(GotoCode(st, n))
    BY <1>1, <1>4 DEF DecodeInv, GotosInv
  <2>2. GotoCode(st, n)' = GotoCode(st, n) /\ GotoEntry(st, n)' = GotoEntry(st, n)
    BY <1>1 DEF GotoCode, errorGotoEntry, GotoEntry
  <2>3. GotoFits(GotoCode(st, n))' <=> GotoFits(GotoCode(st, n))
    BY <1>1, <2>2 DEF GotoFits
  <2> QED BY <2>1, <2>2, <2>3
<1>7. ShapeInv'
  <2>1. UNCHANGED <<Merging, Filling, Configs, Automaton, State, Term, Nonterm>>
    BY DEF Merging, Filling, Automaton, State, Term, Nonterm
  <2>2. pc' \notin {"states", "cells", "cell", "graph", "errors", "firsts", "gotos", "done", "info"} \cup Merging
        /\ pc' \notin Filling
    BY <1>1 DEF Merging, Filling
  <2>3. ~config.eef => Unmerged'
    BY <1>1, <1>2 DEF Unmerged, State, Term
  <2>4. /\ (config \in Configs /\ lr \in Automaton)'
        /\ (config.crs => firstWithTerminal \in [Term -> Int] /\ firstWithNonterminal \in [Nonterm -> Int])'
        /\ (\A st \in State, k \in Term : raw.reduce[st][k] \in Seq(0..config.prodMax))'
        /\ (Factored => errorRow \in [State -> Nat])'
        /\ (~config.eef /\ pc \in {"done", "emitted"} => Unmerged)'
    BY <1>1, <1>2, <1>3, <1>4, <2>1, <2>3
  <2>5. /\ resolving' = "idle" /\ coloring' = "idle" /\ pc' # "gotos" /\ pc' # "actionRows" /\ pc' # "gotoRows"
        /\ pc' \notin {"states", "firsts"} /\ pc' \notin {"states", "done"} \cup Filling \cup Merging
        /\ pc' \notin {"states", "actionColumns"} \cup Filling
        /\ pc' \notin {"states", "actionColumns", "actionRows", "gotoColumns"} \cup Filling
        /\ pc' \notin {"errors"} \cup Merging
    BY <1>1, <1>2, <2>2
  <2> QED BY <2>1, <2>4, <2>5, Zenon DEF ShapeInv
<1>8. ColoringInv' /\ CellKept'
  BY <1>1, <1>2 DEF ColoringInv, CellKept, Merging
<1> QED BY <1>5, <1>6, <1>7, <1>8 DEF DecodeInv

-----------------------------------------------------------------------------
(* The whole construction *)

\* the automaton without actions is one
LEMMA EmptyIsOK == \A a \in Automaton : Empty(a) \in Automaton
<1> SUFFICES ASSUME NEW a \in Automaton PROVE Empty(a) \in Automaton
  OBVIOUS
<1>1. [st \in State |-> [k \in Term |-> STATE_INVALID]] \in [State -> [Term -> State \cup {STATE_INVALID}]]
  OBVIOUS
<1>2. [st \in State |-> [k \in Term |-> <<>>]] \in [State -> [Term -> Seq(Nat)]]
  OBVIOUS
<1> QED BY <1>1, <1>2 DEF Empty, Automaton

\* the productions of a cell stay those of some cell
LEMMA RenumberedReduces ==
    ASSUME NEW a \in Automaton, NEW order \in [State -> State], NEW S,
           \A st \in State, k \in Term : a.reduce[st][k] \in S
    PROVE  \A st \in State, k \in Term : Renumbered(a, order).reduce[st][k] \in S
<1>1. Renumbered(a, order).reduce = [st \in State |-> a.reduce[order[st]]]
  BY DEF Renumbered
<1> QED BY <1>1

\* the states are renumbered before any cell is filled
LEMMA RenumberStatesKeeps == TableInv /\ DecodeInv /\ RenumberStates => DecodeInv'
<1> SUFFICES ASSUME TableInv, DecodeInv, RenumberStates PROVE DecodeInv'
  OBVIOUS
<1>1. /\ pc = "states" /\ pc' \in {"firsts", "failure"} /\ lr' = Empty(raw')
      /\ UNCHANGED <<config, firsts, lists, actionTable, gotoTable, maps, s, t, grammar, crVars, gcVars>>
      /\ \E order \in Bijection(State, State) : raw' = Renumbered(raw, order) \/ UNCHANGED raw
  BY DEF RenumberStates
<1>2. /\ resolving = "idle" /\ coloring = "idle" /\ config \in Configs /\ s = 0 /\ t = 0
      /\ config.crs => firstWithTerminal \in [Term -> Int] /\ firstWithNonterminal \in [Nonterm -> Int]
      /\ \A st \in State, k \in Term : raw.reduce[st][k] \in Seq(0..config.prodMax)
      /\ actionTable \in [State -> [Term -> Int]] /\ Unmerged
      /\ gotoTable \in [State -> [Nonterm -> Int]] /\ GotosUnmerged
      /\ bigProductionList \in Seq(Nat) /\ Starts(productionsForState, bigProductionList)
      /\ ambigTable \in Seq(Int) /\ Starts(ambigStateTable, ambigTable)
      /\ raw \in Automaton
  BY <1>1 DEF DecodeInv, ShapeInv, Merging, Filling, TableInv
<1>3. raw' \in Automaton /\ \A st \in State, k \in Term : raw'.reduce[st][k] \in Seq(0..config.prodMax)
  <2>1. PICK order \in Bijection(State, State) : raw' = Renumbered(raw, order) \/ UNCHANGED raw
    BY <1>1
  <2>2. order \in [State -> State]
    BY DEF Bijection, Injection
  <2>3. CASE raw' = Renumbered(raw, order)
    BY <1>2, <2>1, <2>2, <2>3, RenumberedIsOK, RenumberedReduces
  <2>4. CASE UNCHANGED raw
    BY <1>2, <2>4
  <2> QED BY <2>1, <2>3, <2>4
<1>4. UNCHANGED <<resolving, coloring, firstWithTerminal, firstWithNonterminal, bigProductionList,
                  productionsForState, ambigTable, ambigStateTable, actionRow, actionIndexMap, gotoRow,
                  gotoIndexMap>>
  BY <1>1 DEF crVars, gcVars, firsts, lists, maps
<1>5. CellsInv' /\ GotosInv'
  <2>1. \A st \in State, k \in Term : ~Filled(st, k)'
    BY <1>1, <1>2 DEF Filled, Merging
  <2>2. \A st \in State : ~GotosFilled(st)'
    BY <1>1, <1>2 DEF GotosFilled, Merging
  <2> QED BY <2>1, <2>2 DEF CellsInv, GotosInv, State, Term
<1>6. ShapeInv'
  <2>1. UNCHANGED <<Merging, Filling, Configs, Automaton, State, Term, Nonterm>>
    BY DEF Merging, Filling, Automaton, State, Term, Nonterm
  <2>2. pc' \notin {"cells", "cell", "gotos", "errors", "info", "states", "done", "emitted"} \cup Merging
    BY <1>1 DEF Merging
  <2>3. /\ Unmerged' /\ GotosUnmerged'
        /\ Starts(productionsForState, bigProductionList)' /\ Starts(ambigStateTable, ambigTable)'
    BY <1>2, <1>4 DEF Unmerged, GotosUnmerged, Starts, State, Term, Nonterm, UNASSIGNED
  <2>4. ~Factored'
    BY <1>1 DEF Factored, Merging
  <2>5. lr' \in Automaton
    BY <1>1, <1>3, EmptyIsOK
  <2>6. /\ (config \in Configs /\ lr \in Automaton)'
        /\ (config.crs => firstWithTerminal \in [Term -> Int] /\ firstWithNonterminal \in [Nonterm -> Int])'
        /\ (\A st \in State, k \in Term : raw.reduce[st][k] \in Seq(0..config.prodMax))'
        /\ (bigProductionList \in Seq(Nat) /\ Starts(productionsForState, bigProductionList)
            /\ ambigTable \in Seq(Int) /\ Starts(ambigStateTable, ambigTable))'
        /\ (actionTable \in [State -> [Term -> Int]] /\ Unmerged)'
        /\ (gotoTable \in [State -> [Nonterm -> Int]] /\ GotosUnmerged)'
        /\ (s = 0 /\ t = 0)'
    BY <1>1, <1>2, <1>3, <1>4, <2>1, <2>3, <2>5
  <2>7. /\ resolving' = "idle" /\ coloring' = "idle" /\ pc' # "gotos" /\ pc' # "actionRows" /\ pc' # "gotoRows"
        /\ pc' \notin {"errors"} \cup Merging /\ pc' \notin {"done", "emitted"}
    BY <1>1, <1>2, <1>4, <2>2 DEF Merging
  <2> QED BY <2>1, <2>4, <2>6, <2>7, Zenon DEF ShapeInv
<1>7. ColoringInv' /\ CellKept'
  BY <1>1, <1>2, <1>4 DEF ColoringInv, CellKept, Merging
<1> QED BY <1>5, <1>6, <1>7 DEF DecodeInv

\* every build of an input is one of the builds, and its productions have an index
\* that can be stored
TablesOK ==
    \A i \in Inputs : \A c \in i[3] :
        /\ c \in Configs
        /\ \A st \in State, k \in Term : i[1].reduce[st][k] \in Seq(0..c.prodMax)

\* the tables as they are allocated
LEMMA InitDecodeInv == ConstantsOK /\ TablesOK /\ Init => DecodeInv
<1> SUFFICES ASSUME ConstantsOK, TablesOK, Init PROVE DecodeInv
  OBVIOUS
<1>1. PICK i \in Inputs : raw = i[1] /\ config \in i[3]
  <2>1. AnyInput \in Inputs
    BY DEF ConstantsOK, AnyInput
  <2> QED BY <2>1 DEF Init
<1>2. /\ config \in Configs /\ raw \in Automaton
      /\ \A st \in State, k \in Term : raw.reduce[st][k] \in Seq(0..config.prodMax)
  BY <1>1 DEF ConstantsOK, TablesOK
<1>3. /\ pc \in {"states", "cell", "graph"} /\ lr = Empty(raw)
      /\ pc # "cell" => resolving = "idle"
      /\ pc # "graph" => coloring = "idle"
  BY DEF Init, IdleResolution, IdleColoring
<1>4. lr \in Automaton
  BY <1>2, <1>3, EmptyIsOK
<1>5. /\ firstWithTerminal = [k \in Term |-> 0] /\ firstWithNonterminal = [n \in Nonterm |-> 0]
      /\ bigProductionList = <<>> /\ productionsForState = [st \in State |-> UNASSIGNED]
      /\ ambigTable = <<>> /\ ambigStateTable = [st \in State |-> UNASSIGNED]
      /\ actionTable = [st \in State |-> [k \in Term |-> errorActionEntry]]
      /\ gotoTable = [st \in State |-> [n \in Nonterm |-> errorGotoEntry]]
      /\ actionRow = [st \in State |-> st] /\ actionIndexMap = [k \in Term |-> k]
      /\ gotoRow = [st \in State |-> st] /\ gotoIndexMap = [n \in Nonterm |-> n]
      /\ s = 0 /\ t = 0
  BY DEF Init, Alloc
<1>6. /\ firstWithTerminal \in [Term -> Int] /\ firstWithNonterminal \in [Nonterm -> Int]
      /\ bigProductionList \in Seq(Nat) /\ ambigTable \in Seq(Int)
      /\ Starts(productionsForState, bigProductionList) /\ Starts(ambigStateTable, ambigTable)
      /\ actionTable \in [State -> [Term -> Int]] /\ Unmerged
      /\ gotoTable \in [State -> [Nonterm -> Int]] /\ GotosUnmerged
  <2>1. errorActionEntry \in Int /\ errorGotoEntry \in Int
    BY <1>2, ErrorsAreInts
  <2>2. Starts(productionsForState, bigProductionList) /\ Starts(ambigStateTable, ambigTable)
    <3>1. Len(bigProductionList) = 0 /\ Len(ambigTable) = 0
      BY <1>5
    <3> QED BY <1>5, <3>1 DEF Starts, UNASSIGNED
  <2>3. actionTable \in [State -> [Term -> Int]] /\ gotoTable \in [State -> [Nonterm -> Int]]
    BY <1>5, <2>1
  <2> QED BY <1>5, <2>2, <2>3 DEF Unmerged, GotosUnmerged
<1>7. pc \notin {"done", "emitted", "errors", "info", "cells", "gotos", "firsts"} \cup Merging
  BY <1>3 DEF Merging
<1>8. ~Factored /\ \A st, k : ~Filled(st, k) /\ ~GotosFilled(st)
  BY <1>7 DEF Factored, Filled, GotosFilled
<1>9. ShapeInv
  BY <1>2, <1>3, <1>4, <1>5, <1>6, <1>7, <1>8 DEF ShapeInv
<1>10. CellsInv /\ GotosInv
  BY <1>8 DEF CellsInv, GotosInv
<1>11. ColoringInv /\ CellKept
  BY <1>7 DEF ColoringInv, CellKept
<1> QED BY <1>9, <1>10, <1>11 DEF DecodeInv

\* every step keeps the invariant
LEMMA NextDecodeInv == TableInv /\ DecodeInv /\ [Next]_allVars => DecodeInv'
<1> SUFFICES ASSUME TableInv, DecodeInv, [Next]_allVars PROVE DecodeInv'
  OBVIOUS
<1>1. CASE RenumberStates
  BY <1>1, RenumberStatesKeeps
<1>2. CASE ResolveCell
  BY <1>2, ResolveCellKeeps
<1>3. CASE ResolutionStep
  BY <1>3, ResolutionStepKeeps
<1>4. CASE EncodeCell
  BY <1>4, EncodeCellKeeps
<1>5. CASE Color
  BY <1>5, ColorKeeps
<1>6. CASE ColoringStep
  BY <1>6, ColoringStepKeeps
<1>7. CASE Merge
  BY <1>7, MergeKeeps
<1>8. CASE TableStep
  BY <1>8, FirstStatesKeeps, FillGotosKeeps, SetProdInfoKeeps, ComputeErrorBitsKeeps, EmitKeeps DEF TableStep
<1>9. CASE UNCHANGED allVars
  BY <1>9, NothingKeeps
<1> QED BY <1>1, <1>2, <1>3, <1>4, <1>5, <1>6, <1>7, <1>8, <1>9 DEF Next, Finished

\* Whatever the encoding and the compression, finished and emitted tables give every
\* cell its actions back, in order, and every goto its state: for all automata whose
\* productions have an index that can be stored, all declarations and all builds.
THEOREM TablesDecodeBack == ConstantsOK /\ TablesOK /\ Spec => []DecodesBack
<1>1. TableInv /\ DecodeInv => DecodesBack
  <2> SUFFICES ASSUME TableInv, DecodeInv PROVE DecodesBack
    OBVIOUS
  <2> QED BY ReadyDecodes DEF DecodeInv, TableInv, ConstantsOK
<1> QED BY <1>1, InitTableInv, NextTableInv, InitDecodeInv, NextDecodeInv, PTL DEF Spec

-----------------------------------------------------------------------------
(* What the tables say *)

\* no production twice
NoRepeats(list) == \A i, k \in 1..Len(list) : list[i] = list[k] => i = k

\* the first m members of a list
FirstOnes(a, m) == [x \in 1..m |-> a[x]]

\* one more member of a list
LEMMA OneMoreOfThem ==
    ASSUME NEW a \in Seq(Nat), NEW m \in 0..(Len(a) - 1)
    PROVE  Append(FirstOnes(a, m), a[m + 1]) = FirstOnes(a, m + 1)
<1>1. Len(a) \in Nat /\ m \in Nat /\ m + 1 \in 1..Len(a) /\ \A x \in 1..Len(a) : a[x] \in Nat
  OBVIOUS
<1> DEFINE u == FirstOnes(a, m)
           w == FirstOnes(a, m + 1)
<1>2. u \in Seq(Nat) /\ DOMAIN u = 1..m /\ \A x \in 1..m : u[x] = a[x]
  <2>1. u \in [1..m -> Nat]
    BY <1>1 DEF FirstOnes
  <2> QED BY <1>1, <2>1, ElementOfSeq DEF FirstOnes
<1>3. w \in Seq(Nat) /\ DOMAIN w = 1..(m + 1) /\ \A x \in 1..(m + 1) : w[x] = a[x]
  <2>1. w \in [1..(m + 1) -> Nat]
    BY <1>1 DEF FirstOnes
  <2> QED BY <1>1, <2>1, ElementOfSeq DEF FirstOnes
<1> HIDE DEF u, w
<1>4. Len(u) = m /\ Len(w) = m + 1
  BY <1>1, <1>2, <1>3, LenProperties
<1>5. PICK v : v = a[m + 1]
  OBVIOUS
<1>6. v \in Nat
  BY <1>1, <1>5
<1>7. /\ Append(u, v) \in Seq(Nat) /\ Len(Append(u, v)) = Len(u) + 1
      /\ \A x \in 1..Len(u) : Append(u, v)[x] = u[x]
      /\ Append(u, v)[Len(u) + 1] = v
  BY <1>2, <1>6, AppendProperties
<1>8. \A x \in 1..(m + 1) : Append(u, v)[x] = w[x]
  <2> SUFFICES ASSUME NEW x \in 1..(m + 1) PROVE Append(u, v)[x] = w[x]
    OBVIOUS
  <2>1. CASE x \in 1..m
    BY <1>2, <1>3, <1>4, <1>7, <2>1
  <2>2. CASE x = m + 1
    <3>1. Append(u, v)[m + 1] = v
      BY <1>4, <1>7
    <3> QED BY <1>3, <1>5, <2>2, <3>1
  <2>3. x \in 1..m \/ x = m + 1
    BY <1>1
  <2> QED BY <2>1, <2>2, <2>3
<1>9. Append(u, v) = w
  BY <1>3, <1>4, <1>7, <1>8, SeqEqual
<1> QED BY <1>5, <1>9 DEF u, w

\* What is left of a list without repetitions is known from the set of what is left.
LEMMA OnlyIsKept ==
    ASSUME NEW list \in Seq(Nat), NoRepeats(list), NEW a \in Seq(Nat), CR!Sublist(a, list), NEW S,
           S = CR!SetOf(a)
    PROVE  Only(list, S) = a
<1> DEFINE n == Len(list)
           N == Len(a)
           Is(f) == f = [i \in 0..n |->
                        IF i = 0 THEN <<>>
                        ELSE IF list[i] \in S THEN Append(f[i - 1], list[i]) ELSE f[i - 1]]
<1>1. n \in Nat /\ N \in Nat /\ \A i \in 1..n : list[i] \in Nat
  OBVIOUS
<1>2. \E f : Is(f)
  <2> DEFINE X == Seq(Nat)
             G == [x \in (1..n) \X X |-> IF list[x[1]] \in S THEN Append(x[2], list[x[1]]) ELSE x[2]]
  <2> HIDE DEF n
  <2>1. \A i \in 1..n, q \in X : (IF list[i] \in S THEN Append(q, list[i]) ELSE q) \in X
    BY <1>1
  <2>2. \A x \in (1..n) \X X : x[1] \in 1..n /\ x[2] \in X
    OBVIOUS
  <2>3. \A x \in (1..n) \X X : (IF list[x[1]] \in S THEN Append(x[2], list[x[1]]) ELSE x[2]) \in X
    BY <2>1, <2>2
  <2>4. IsStep(G, n, X)
    BY <2>3, Zenon DEF IsStep
  <2>5. \A i \in 1..n, q \in X : G[<<i, q>>] = IF list[i] \in S THEN Append(q, list[i]) ELSE q
    OBVIOUS
  <2>6. <<>> \in X
    OBVIOUS
  <2> HIDE DEF G, X
  <2>7. PICK f : Iterated(f, n, X, <<>>, G)
    BY <1>1, <2>4, <2>6, Iterate
  <2>8. f \in [0..n -> X] /\ f[0] = <<>> /\ \A i \in 1..n : f[i] = G[<<i, f[i - 1]>>]
    BY <2>7 DEF Iterated
  <2>9. \A i \in 1..n : f[i] = IF list[i] \in S THEN Append(f[i - 1], list[i]) ELSE f[i - 1]
    <3> SUFFICES ASSUME NEW i \in 1..n
                 PROVE  f[i] = IF list[i] \in S THEN Append(f[i - 1], list[i]) ELSE f[i - 1]
      OBVIOUS
    <3>1. f[i - 1] \in X
      <4>1. i - 1 \in 0..n
        BY <1>1
      <4> QED BY <2>8, <4>1
    <3>2. f[i] = G[<<i, f[i - 1]>>]
      BY <2>8
    <3> QED BY <2>5, <3>1, <3>2, Zenon
  <2>10. f = [i \in 0..n |-> f[i]]
    BY <2>8
  <2>11. \A i \in 0..n : f[i] = IF i = 0 THEN <<>>
                               ELSE IF list[i] \in S THEN Append(f[i - 1], list[i]) ELSE f[i - 1]
    <3> SUFFICES ASSUME NEW i \in 0..n
                 PROVE  f[i] = IF i = 0 THEN <<>>
                               ELSE IF list[i] \in S THEN Append(f[i - 1], list[i]) ELSE f[i - 1]
      OBVIOUS
    <3>1. i = 0 \/ i \in 1..n
      BY <1>1
    <3>2. i \in 1..n => i # 0
      BY <1>1
    <3> QED BY <2>8, <2>9, <3>1, <3>2, Zenon
  <2> QED BY <2>10, <2>11, Zenon
<1> DEFINE c == CHOOSE f : Is(f)
<1>3. Is(c)
  BY <1>2, Zenon
<1>4. Only(list, S) = c[n]
  BY Zenon DEF Only, n
<1>5. c[0] = <<>> /\ \A i \in 1..n : c[i] = IF list[i] \in S THEN Append(c[i - 1], list[i]) ELSE c[i - 1]
  <2> HIDE DEF c, n
  <2>1. \A i \in 0..n : c[i] = IF i = 0 THEN <<>>
                               ELSE IF list[i] \in S THEN Append(c[i - 1], list[i]) ELSE c[i - 1]
    BY <1>3, Zenon
  <2>2. 0 \in 0..n /\ \A i \in 1..n : i \in 0..n /\ i # 0
    BY <1>1
  <2> QED BY <2>1, <2>2, Zenon
<1> HIDE DEF c
<1>6. PICK g \in [1..N -> 1..n] :
        /\ \A x, y \in 1..N : x < y => g[x] < g[y]
        /\ \A x \in 1..N : a[x] = list[g[x]]
  BY DEF CR!Sublist
<1> HIDE DEF n, N
<1>7. \A i \in 1..n, x \in 1..N : list[i] = a[x] => g[x] = i
  BY <1>6 DEF NoRepeats, n
<1>8. \A i \in 1..n : list[i] \in S <=> \E x \in 1..N : g[x] = i
  <2>1. S = {a[x] : x \in 1..N}
    <3>1. DOMAIN a = 1..N
      BY DEF N
    <3> QED BY <3>1 DEF CR!SetOf
  <2> QED BY <1>6, <1>7, <2>1
<1> DEFINE Good(q, i) == \E m \in 0..N : q = FirstOnes(a, m) /\ \A x \in 1..N : x <= m <=> g[x] <= i
<1>9. Good(<<>>, 0)
  <2>1. <<>> = FirstOnes(a, 0)
    <3>1. 1..0 = {}
      OBVIOUS
    <3> QED BY <3>1 DEF FirstOnes
  <2>2. \A x \in 1..N : ~(x <= 0) /\ ~(g[x] <= 0)
    <3> SUFFICES ASSUME NEW x \in 1..N PROVE ~(x <= 0) /\ ~(g[x] <= 0)
      OBVIOUS
    <3>1. g[x] \in 1..n
      BY <1>6
    <3> QED BY <1>1, <3>1
  <2>3. 0 \in 0..N
    BY <1>1
  <2> QED BY <2>1, <2>2, <2>3
<1>10. ASSUME NEW i \in 1..n, NEW q, Good(q, i - 1)
       PROVE  Good(IF list[i] \in S THEN Append(q, list[i]) ELSE q, i)
  <2>1. PICK m \in 0..N : q = FirstOnes(a, m) /\ \A x \in 1..N : x <= m <=> g[x] <= i - 1
    BY <1>10
  <2>2. i \in Nat /\ m \in Nat /\ \A x \in 1..N : g[x] \in Nat /\ x \in Nat
    BY <1>1, <1>6
  <2>3. CASE list[i] \in S
    <3>1. PICK x \in 1..N : g[x] = i
      BY <1>8, <2>3
    <3>2. x > m
      BY <2>1, <2>2, <3>1
    <3>3. m + 1 \in 1..N
      BY <1>1, <2>2, <3>2
    <3>4. g[m + 1] > i - 1
      <4>1. ~(m + 1 <= m)
        BY <2>2
      <4>2. ~(g[m + 1] <= i - 1)
        BY <2>1, <3>3, <4>1
      <4> QED BY <2>2, <3>3, <4>2
    <3>5. m + 1 = x
      <4>1. m + 1 < x => g[m + 1] < i
        BY <1>6, <3>1, <3>3
      <4> QED BY <2>2, <3>2, <3>3, <3>4, <4>1
    <3>6. list[i] = a[m + 1]
      BY <1>6, <3>1, <3>5
    <3>7. Append(q, list[i]) = FirstOnes(a, m + 1)
      <4>1. m \in 0..(Len(a) - 1)
        BY <1>1, <2>2, <3>3 DEF N
      <4> QED BY <2>1, <3>6, <4>1, OneMoreOfThem
    <3>8. \A y \in 1..N : y <= m + 1 <=> g[y] <= i
      <4> SUFFICES ASSUME NEW y \in 1..N PROVE y <= m + 1 <=> g[y] <= i
        OBVIOUS
      <4>1. CASE y <= m
        BY <2>1, <2>2, <4>1
      <4>2. CASE y = x
        BY <2>2, <3>1, <3>5, <4>2
      <4>3. CASE x < y
        <5>1. g[x] < g[y]
          BY <1>6, <4>3
        <5> QED BY <2>2, <3>1, <3>5, <4>3, <5>1
      <4> QED BY <2>2, <3>5, <4>1, <4>2, <4>3
    <3>9. m + 1 \in 0..N
      BY <1>1, <3>3
    <3>10. Good(Append(q, list[i]), i)
      BY <3>7, <3>8, <3>9
    <3> QED BY <2>3, <3>10
  <2>4. CASE list[i] \notin S
    <3>1. \A y \in 1..N : g[y] # i
      BY <1>8, <2>4
    <3>2. \A y \in 1..N : y <= m <=> g[y] <= i
      BY <2>1, <2>2, <3>1
    <3>3. Good(q, i)
      BY <2>1, <3>2
    <3> QED BY <2>4, <3>3
  <2> QED BY <2>3, <2>4
<1> DEFINE Bad == {i \in 0..n : ~Good(c[i], i)}
<1> HIDE DEF Good
<1>11. Bad = {}
  <2> SUFFICES ASSUME Bad # {} PROVE FALSE
    OBVIOUS
  <2>1. PICK i \in Bad : \A m \in Bad : i <= m
    <3>1. Bad \in SUBSET Nat
      OBVIOUS
    <3> HIDE DEF Bad
    <3> QED BY <3>1, Least
  <2>2. i # 0
    BY <1>5, <1>9, <2>1
  <2>3. i \in 1..n /\ i - 1 \in 0..n /\ i - 1 \notin Bad
    BY <1>1, <2>1, <2>2
  <2>4. Good(c[i - 1], i - 1)
    BY <2>3
  <2>5. Good(IF list[i] \in S THEN Append(c[i - 1], list[i]) ELSE c[i - 1], i)
    BY <1>10, <2>3, <2>4
  <2>6. Good(c[i], i)
    BY <1>5, <2>3, <2>5, Zenon
  <2> QED BY <2>1, <2>6
<1>12. Good(c[n], n)
  <2>1. n \in 0..n
    BY <1>1
  <2> QED BY <1>11, <2>1, Zenon
<1>13. PICK m \in 0..N : c[n] = FirstOnes(a, m) /\ \A x \in 1..N : x <= m <=> g[x] <= n
  BY <1>12 DEF Good
<1>14. \A x \in 1..N : x <= m
  BY <1>6, <1>13
<1>15. m = N
  <2>1. m \in Nat /\ m <= N
    BY <1>1
  <2>2. N # 0 => N \in 1..N
    BY <1>1
  <2>3. N # 0 => N <= m
    BY <1>14, <2>2
  <2> QED BY <1>1, <2>1, <2>3
<1>16. FirstOnes(a, N) = a
  BY <1>1 DEF FirstOnes, N
<1> QED BY <1>4, <1>13, <1>15, <1>16

\* a filled cell has what the declarations leave
AsDeclared(st, k) ==
    IsDeclaredAt(st, k) => /\ lr.shift[st][k] = ShiftLeft(st, k)
                           /\ lr.reduce[st][k] = Only(raw.reduce[st][k], LeftAt(st, k))

\* a state reduces by a production at most once over a token: an item set has an item once
EachOnce == \A i \in Inputs : \A st \in State, k \in Term : NoRepeats(i[1].reduce[st][k])

DeclaredInv ==
    /\ \A st \in State, k \in Term : NoRepeats(raw.reduce[st][k])
    /\ resolving # "idle" => CR!LeftAsDeclared
    /\ \A st \in State, k \in Term : Filled(st, k) => AsDeclared(st, k)

\* what is declared depends on the automaton and the grammar alone
LEMMA DeclaredStands ==
    ASSUME UNCHANGED input, NEW st, NEW k
    PROVE  /\ IsDeclaredAt(st, k)' <=> IsDeclaredAt(st, k)
           /\ DeclaredShiftAt(st, k)' = DeclaredShiftAt(st, k)
           /\ DeclaredAt(st, k)' = DeclaredAt(st, k)
           /\ raw' = raw /\ grammar' = grammar
<1>0. raw' = raw /\ grammar' = grammar
  BY DEF input
<1>1. PICK c : c = CellAt(st, k)
  OBVIOUS
<1>2. CellAt(st, k)' = CellAt(st, k)
  BY DEF input, CellAt
<1>3. IsDeclaredAt(st, k)' <=> IsDeclaredAt(st, k)
  BY <1>2 DEF IsDeclaredAt, Declared!IsDeclared, Declared!Munched, Declared!Supersets, Declared!Level,
              Declared!PrecOf, Declared!LeftOf, Declared!AllOf, Declared!SetOf, Nonterm
<1>4. DeclaredShiftAt(st, k)' = DeclaredShiftAt(st, k)
  BY <1>2 DEF DeclaredShiftAt, Declared!DeclaredShift, Declared!Beats, Declared!Level, Declared!PrecOf,
              Declared!AllOf, Declared!SetOf
<1>5. DeclaredAt(st, k)' = DeclaredAt(st, k)
  BY <1>2 DEF DeclaredAt, Declared!Declared, Declared!DeclaredAfterRR, Declared!DeclaredAfterSR,
              Declared!Beaten, Declared!Level, Declared!PrecOf, Declared!LeftOf, Declared!AllOf, Declared!SetOf
<1> QED BY <1>0, <1>3, <1>4, <1>5

\* the resolution of a cell says the same of it
LEMMA DeclaredOfCell ==
    ASSUME NEW st, NEW k, cell = CellAt(st, k)
    PROVE  /\ IsDeclaredAt(st, k) => CR!IsDeclared
           /\ DeclaredShiftAt(st, k) = CR!DeclaredShift
           /\ LeftAt(st, k) = CR!Wanted
<1>1. PICK c : c = cell
  OBVIOUS
<1>2. c.maximal = {} /\ c.allowAmbig = grammar.allowAmbig
  BY <1>1 DEF CellAt
<1>3. IsDeclaredAt(st, k) => CR!IsDeclared
  <2>1. \A p : ~CR!Munched(p)
    BY <1>1, <1>2 DEF CR!Munched
  <2>2. IsDeclaredAt(st, k) = Declared(cell)!IsDeclared
    BY DEF IsDeclaredAt
  <2> QED BY <2>1, <2>2 DEF Declared!IsDeclared, Declared!Level, Declared!PrecOf, Declared!LeftOf,
        Declared!AllOf, Declared!SetOf, CR!IsDeclared, CR!Level, CR!PrecOf, CR!LeftOf, CR!AllOf, CR!SetOf
<1>4. DeclaredShiftAt(st, k) = CR!DeclaredShift
  BY DEF DeclaredShiftAt, Declared!DeclaredShift, Declared!Beats, Declared!Level, Declared!PrecOf,
         Declared!AllOf, Declared!SetOf, CR!DeclaredShift, CR!Beats, CR!Level, CR!PrecOf, CR!AllOf, CR!SetOf
<1>5. DeclaredAt(st, k) = CR!Declared
  BY DEF DeclaredAt, Declared!Declared, Declared!DeclaredAfterRR, Declared!DeclaredAfterSR,
         Declared!Beaten, Declared!Level, Declared!PrecOf, Declared!LeftOf, Declared!AllOf, Declared!SetOf,
         CR!Declared, CR!DeclaredAfterRR, CR!DeclaredAfterSR,
         CR!Beaten, CR!Level, CR!PrecOf, CR!LeftOf, CR!AllOf, CR!SetOf
<1> QED BY <1>1, <1>2, <1>3, <1>4, <1>5 DEF LeftAt, CR!Wanted

\* Finished tables whose entries read back say what was declared.
LEMMA DeclaredIsRead ==
    ASSUME DecodesBack, DeclaredInv
    PROVE  TablesAsDeclared
<1> SUFFICES ASSUME Ready, NEW st \in State, NEW k \in Term, IsDeclaredAt(st, k)
             PROVE  Decoded(st, k) = ActionsOf(ShiftLeft(st, k), Only(raw.reduce[st][k], LeftAt(st, k)))
  BY Zenon DEF TablesAsDeclared
<1>1. Filled(st, k)
  BY DEF Ready, Filled
<1>2. lr.shift[st][k] = ShiftLeft(st, k) /\ lr.reduce[st][k] = Only(raw.reduce[st][k], LeftAt(st, k))
  BY <1>1 DEF DeclaredInv, AsDeclared
<1>3. Decoded(st, k) = Actions(st, k)
  BY DEF DecodesBack
<1> QED BY <1>2, <1>3 DEF Actions

\* cells keep what they say while nothing is filled
LEMMA CellsStayDeclared ==
    ASSUME DeclaredInv, UNCHANGED <<lr, raw, grammar>>,
           \A st \in State, k \in Term : Filled(st, k)' => Filled(st, k)
    PROVE  /\ \A st \in State, k \in Term : Filled(st, k)' => AsDeclared(st, k)'
           /\ \A st \in State, k \in Term : NoRepeats(raw.reduce[st][k])'
<1>1. \A st \in State, k \in Term : NoRepeats(raw.reduce[st][k])'
  BY DEF DeclaredInv, NoRepeats
<1>2. ASSUME NEW st \in State, NEW k \in Term, Filled(st, k)' PROVE AsDeclared(st, k)'
  <2>1. AsDeclared(st, k)
    BY <1>2 DEF DeclaredInv
  <2>2. /\ IsDeclaredAt(st, k)' <=> IsDeclaredAt(st, k)
        /\ DeclaredShiftAt(st, k)' = DeclaredShiftAt(st, k)
        /\ DeclaredAt(st, k)' = DeclaredAt(st, k)
    BY DeclaredStands DEF input
  <2>3. ShiftLeft(st, k)' = ShiftLeft(st, k) /\ LeftAt(st, k)' = LeftAt(st, k)
    BY <2>2 DEF ShiftLeft, LeftAt
  <2>4. Only(raw.reduce[st][k], LeftAt(st, k))' = Only(raw.reduce[st][k], LeftAt(st, k))
    BY <2>3 DEF Only
  <2> QED BY <2>1, <2>2, <2>3, <2>4 DEF AsDeclared
<1> QED BY <1>1, <1>2

\* ... and the resolution, what it says of its own cell
LEMMA ResolutionStays ==
    ASSUME TableInv, CellInv, DeclaredInv, UNCHANGED crVars
    PROVE  (resolving # "idle" => CR!LeftAsDeclared)'
<1> SUFFICES ASSUME resolving' # "idle" PROVE CR!LeftAsDeclared'
  OBVIOUS
<1>1. UNCHANGED CR!vars /\ CR!Inv /\ CR!OrderInv /\ CR!LeftAsDeclared
  BY DEF crVars, CR!vars, TableInv, CellInv, DeclaredInv
<1> QED BY <1>1, CR!NextLeftAsDeclared

\* a step that encodes the next cell
LEMMA EncodeCellDeclared == 
    ASSUME TableInv, CellInv, DecodeInv, DeclaredInv, EncodeCell
    PROVE  DeclaredInv'
<1>0. ConstantsOK /\ s \in State /\ t \in Term /\ raw \in Automaton /\ NumStates \in Nat /\ NumTerms \in Nat
  BY DEF TableInv, ConstantsOK
<1>1. /\ pc = "cells" /\ resolving = "done" /\ resolving' = "idle"
      /\ lr' = [lr EXCEPT !.shift[s][t] = LeftShift, !.reduce[s][t] = reductions]
      /\ pc' = "failure" \/ NextCell
      /\ UNCHANGED input
  BY DEF EncodeCell, FillCell, input
<1>2. cell = CellAt(s, t) /\ CR!KeptInOrder
  BY <1>1 DEF DecodeInv, CellKept
<1>3. reductions \in Seq(Nat) /\ LeftShift \in State \cup {STATE_INVALID}
  BY <1>1, LeftCanBeWritten DEF DecodeInv
<1>4. PICK to, prods : to = LeftShift /\ prods = reductions
  OBVIOUS
<1>5. lr \in Automaton
  BY DEF DecodeInv, ShapeInv
<1>6. /\ lr'.shift[s][t] = to /\ lr'.reduce[s][t] = prods
      /\ \A st \in State, k \in Term : ~(st = s /\ k = t) =>
            lr'.shift[st][k] = lr.shift[st][k] /\ lr'.reduce[st][k] = lr.reduce[st][k]
  BY <1>0, <1>1, <1>4, <1>5 DEF Automaton
<1>7. IsDeclaredAt(s, t) => to = ShiftLeft(s, t) /\ prods = Only(raw.reduce[s][t], LeftAt(s, t))
  <2> SUFFICES ASSUME IsDeclaredAt(s, t)
               PROVE  to = ShiftLeft(s, t) /\ prods = Only(raw.reduce[s][t], LeftAt(s, t))
    OBVIOUS
  <2>1. /\ CR!IsDeclared /\ DeclaredShiftAt(s, t) = CR!DeclaredShift /\ LeftAt(s, t) = CR!Wanted
    BY <1>2, DeclaredOfCell
  <2>2. shift = CR!DeclaredShift /\ CR!SetOf(reductions) = CR!Wanted
    <3>1. CR!Inv /\ CR!OrderInv /\ CR!LeftAsDeclared
      BY <1>1 DEF TableInv, CellInv, DeclaredInv
    <3> QED BY <1>1, <2>1, <3>1, CR!DoneAsDeclared
  <2>3. to = ShiftLeft(s, t)
    BY <1>4, <2>1, <2>2 DEF ShiftLeft, LeftShift
  <2>4. PICK list, S : list = raw.reduce[s][t] /\ S = LeftAt(s, t)
    OBVIOUS
  <2>5. list \in Seq(Nat) /\ NoRepeats(list)
    BY <1>0, <2>4 DEF DeclaredInv, Automaton
  <2>6. CR!Sublist(prods, list)
    <3>1. cell.reductions = list
      BY <1>2, <2>4 DEF CellAt
    <3> QED BY <1>2, <1>4, <3>1 DEF CR!KeptInOrder
  <2>7. S = CR!SetOf(prods)
    BY <1>4, <2>1, <2>2, <2>4
  <2>8. Only(list, S) = prods
    BY <1>3, <1>4, <2>5, <2>6, <2>7, OnlyIsKept
  <2> QED BY <2>3, <2>4, <2>8
<1>8. ASSUME NEW st \in State, NEW k \in Term, Filled(st, k)' PROVE Filled(st, k) \/ (st = s /\ k = t)
  <2>1. NextCell /\ (pc' = "cells" \/ pc' = "gotos")
    BY <1>1, <1>8 DEF Filled, NextCell, Merging
  <2>2. st \in Nat /\ k \in Nat /\ s \in Nat /\ t \in Nat /\ k < NumTerms /\ t < NumTerms
    BY <1>0 DEF State, Term
  <2>3. CASE t + 1 < NumTerms
    <3>1. t' = t + 1 /\ s' = s /\ pc' = "cells"
      BY <1>1, <2>1, <2>3 DEF NextCell
    <3>2. st < s \/ (st = s /\ k < t + 1)
      BY <1>8, <3>1 DEF Filled, Merging
    <3>3. st < s \/ (st = s /\ (k < t \/ k = t))
      BY <2>2, <3>2
    <3> QED BY <1>1, <3>3 DEF Filled
  <2>4. CASE ~(t + 1 < NumTerms)
    <3>1. s' = s /\ pc' = "gotos"
      BY <2>1, <2>4 DEF NextCell
    <3>2. st <= s
      BY <1>8, <3>1 DEF Filled, Merging
    <3>3. st < s \/ (st = s /\ (k < t \/ k = t))
      BY <1>0, <2>2, <2>4, <3>2
    <3> QED BY <1>1, <3>3 DEF Filled
  <2> QED BY <2>3, <2>4
<1>9. ASSUME NEW st \in State, NEW k \in Term, Filled(st, k)' PROVE AsDeclared(st, k)'
  <2>1. /\ IsDeclaredAt(st, k)' <=> IsDeclaredAt(st, k)
        /\ DeclaredShiftAt(st, k)' = DeclaredShiftAt(st, k)
        /\ DeclaredAt(st, k)' = DeclaredAt(st, k)
        /\ raw' = raw /\ grammar' = grammar
    BY <1>1, DeclaredStands
  <2>2. ShiftLeft(st, k)' = ShiftLeft(st, k) /\ LeftAt(st, k)' = LeftAt(st, k)
    BY <2>1 DEF ShiftLeft, LeftAt
  <2>3. Only(raw.reduce[st][k], LeftAt(st, k))' = Only(raw.reduce[st][k], LeftAt(st, k))
    BY <2>1, <2>2 DEF Only
  <2>4. IsDeclaredAt(st, k) => /\ lr'.shift[st][k] = ShiftLeft(st, k)
                               /\ lr'.reduce[st][k] = Only(raw.reduce[st][k], LeftAt(st, k))
    <3>1. CASE st = s /\ k = t
      BY <1>6, <1>7, <3>1
    <3>2. CASE ~(st = s /\ k = t)
      <4>1. AsDeclared(st, k)
        BY <1>8, <1>9, <3>2 DEF DeclaredInv
      <4>2. lr'.shift[st][k] = lr.shift[st][k] /\ lr'.reduce[st][k] = lr.reduce[st][k]
        BY <1>6, <3>2
      <4> QED BY <4>1, <4>2 DEF AsDeclared
    <3> QED BY <3>1, <3>2
  <2> QED BY <2>1, <2>2, <2>3, <2>4 DEF AsDeclared
<1>10. \A st \in State, k \in Term : NoRepeats(raw.reduce[st][k])'
  BY <1>1 DEF DeclaredInv, NoRepeats, input
<1> QED BY <1>1, <1>9, <1>10 DEF DeclaredInv, State, Term

\* every step keeps the invariant
LEMMA NextDeclaredInv == TableInv /\ CellInv /\ DecodeInv /\ DeclaredInv /\ [Next]_allVars => DeclaredInv'
<1> SUFFICES ASSUME TableInv, CellInv, DecodeInv, DeclaredInv, [Next]_allVars PROVE DeclaredInv'
  OBVIOUS
<1>0. /\ \A st \in State, k \in Term : st \in Nat /\ k \in Nat
      /\ s \in Nat /\ t \in Nat /\ NumStates \in Nat
  BY DEF TableInv, ConstantsOK, State, Term
<1>s. UNCHANGED <<vars, raw, grammar>> /\ (resolving # "idle" => CR!LeftAsDeclared)' => DeclaredInv'
  <2> SUFFICES ASSUME UNCHANGED <<vars, raw, grammar>>, (resolving # "idle" => CR!LeftAsDeclared)'
               PROVE  DeclaredInv'
    OBVIOUS
  <2>1. \A st \in State, k \in Term : Filled(st, k)' => Filled(st, k)
    BY DEF vars, Filled, Merging
  <2>2. UNCHANGED <<lr, raw, grammar>>
    BY DEF vars
  <2> QED BY <2>1, <2>2, CellsStayDeclared DEF DeclaredInv, State, Term
<1>1. CASE RenumberStates
  <2>1. /\ pc' \in {"firsts", "failure"} /\ UNCHANGED crVars
        /\ \E order \in Bijection(State, State) : raw' = Renumbered(raw, order) \/ UNCHANGED raw
    BY <1>1 DEF RenumberStates
  <2>2. \A st \in State, k \in Term : ~Filled(st, k)'
    BY <2>1 DEF Filled, Merging
  <2>3. \A st \in State, k \in Term : NoRepeats(raw'.reduce[st][k])
    <3>1. PICK order \in Bijection(State, State) : raw' = Renumbered(raw, order) \/ UNCHANGED raw
      BY <2>1
    <3>2. order \in [State -> State] /\ raw \in Automaton
      BY DEF Bijection, Injection, TableInv
    <3>3. CASE raw' = Renumbered(raw, order)
      <4>1. raw'.reduce = [st \in State |-> raw.reduce[order[st]]]
        BY <3>3 DEF Renumbered
      <4>2. \A st \in State, k \in Term : raw'.reduce[st][k] = raw.reduce[order[st]][k] /\ order[st] \in State
        BY <3>2, <4>1
      <4> QED BY <4>2 DEF DeclaredInv
    <3>4. CASE UNCHANGED raw
      BY <3>4 DEF DeclaredInv
    <3> QED BY <3>1, <3>3, <3>4
  <2>4. \A st \in State, k \in Term : NoRepeats(raw.reduce[st][k])'
    BY <2>3 DEF NoRepeats
  <2>5. (resolving # "idle" => CR!LeftAsDeclared)'
    BY <2>1, ResolutionStays
  <2> QED BY <2>2, <2>4, <2>5 DEF DeclaredInv, State, Term
<1>2. CASE ResolveCell
  <2>1. UNCHANGED <<vars, raw, grammar>> /\ resolving' = "supersets"
    BY <1>2 DEF ResolveCell, input
  <2>2. CR!LeftAsDeclared'
    BY <2>1 DEF CR!LeftAsDeclared, CR!Entered
  <2> QED BY <1>s, <2>1, <2>2
<1>3. CASE ResolutionStep
  <2>1. UNCHANGED <<vars, raw, grammar>> /\ resolving # "idle" /\ CR!Next
    BY <1>3, SameResolution DEF ResolutionStep, input
  <2>2. CR!Inv /\ CR!OrderInv /\ CR!LeftAsDeclared
    BY <2>1 DEF TableInv, CellInv, DeclaredInv
  <2>3. CR!LeftAsDeclared'
    BY <2>1, <2>2, CR!NextLeftAsDeclared
  <2> QED BY <1>s, <2>1, <2>3
<1>4. CASE EncodeCell
  BY <1>4, EncodeCellDeclared
<1>5. CASE Color \/ ColoringStep \/ UNCHANGED allVars
  <2>1. UNCHANGED <<vars, raw, grammar, crVars>>
    BY <1>5 DEF Color, ColoringStep, allVars, input
  <2> QED BY <1>s, <2>1, ResolutionStays
<1>6. CASE Merge \/ TableStep
  <2>1. UNCHANGED <<lr, raw, grammar, crVars>>
    BY <1>6 DEF Merge, TableStep, input, MergeActionColumns, MergeActionRows, MergeGotoColumns, MergeGotoRows,
                FirstStates, FillGotos, SetProdInfo, ComputeErrorBits, EmitConstructionCode
  <2>2. ASSUME NEW st \in State, NEW k \in Term, Filled(st, k)' PROVE Filled(st, k)
    <3>1. CASE FirstStates
      <4>1. pc = "firsts" /\ pc' \in {"failure", "cells"} /\ s' = s /\ t' = t
        BY <3>1 DEF FirstStates
      <4>2. s = 0 /\ t = 0
        BY <4>1 DEF DecodeInv, ShapeInv
      <4>3. ~(st < s') /\ ~(k < t')
        BY <1>0, <4>1, <4>2
      <4> QED BY <2>2, <4>1, <4>3 DEF Filled, Merging
    <3>2. CASE FillGotos
      <4>1. /\ pc = "gotos" /\ pc' \in {"failure", "cells", "info"} /\ t' = t
            /\ pc' = "cells" => s' = s + 1
            /\ pc' = "info" => ~(s + 1 < NumStates)
        BY <3>2 DEF FillGotos
      <4>2. t = 0
        BY <4>1 DEF DecodeInv, ShapeInv
      <4>3. pc' = "cells" => st < s + 1
        <5>1. pc' = "cells" => st < s' \/ (st = s' /\ k < 0)
          BY <2>2, <4>1, <4>2 DEF Filled, Merging
        <5> QED BY <1>0, <4>1, <5>1
      <4>4. st < NumStates
        BY <1>0 DEF State
      <4>5. pc' # "failure"
        BY <2>2 DEF Filled, Merging
      <4>6. st <= s
        BY <1>0, <4>1, <4>3, <4>4, <4>5
      <4> QED BY <4>1, <4>6 DEF Filled
    <3>3. CASE Merge \/ SetProdInfo \/ ComputeErrorBits \/ EmitConstructionCode
      <4>1. pc \in {"info", "errors", "done"} \cup Merging
        BY <3>3 DEF Merge, MergeActionColumns, MergeActionRows, MergeGotoColumns, MergeGotoRows,
                    SetProdInfo, ComputeErrorBits, EmitConstructionCode, Merging
      <4> QED BY <4>1 DEF Filled
    <3> QED BY <1>6, <3>1, <3>2, <3>3 DEF TableStep
  <2>3. (resolving # "idle" => CR!LeftAsDeclared)'
    BY <2>1, ResolutionStays
  <2> QED BY <2>1, <2>2, <2>3, CellsStayDeclared DEF DeclaredInv, State, Term
<1> QED BY <1>1, <1>2, <1>3, <1>4, <1>5, <1>6 DEF Next, Finished

\* no cell is filled in the beginning
LEMMA InitDeclaredInv == ConstantsOK /\ EachOnce /\ Init => DeclaredInv
<1> SUFFICES ASSUME ConstantsOK, EachOnce, Init PROVE DeclaredInv
  OBVIOUS
<1>1. \A st \in State, k \in Term : NoRepeats(raw.reduce[st][k])
  <2>1. AnyInput \in Inputs
    BY DEF ConstantsOK, AnyInput
  <2> QED BY <2>1 DEF Init, EachOnce
<1>2. pc \in {"states", "cell", "graph"}
  BY DEF Init
<1>3. \A st \in State, k \in Term : ~Filled(st, k)
  BY <1>2 DEF Filled, Merging
<1>4. ASSUME resolving # "idle" PROVE CR!LeftAsDeclared
  <2>1. resolving = "supersets"
    BY <1>4 DEF Init, IdleResolution, Resolution!Init
  <2> QED BY <2>1 DEF CR!LeftAsDeclared, CR!Entered
<1> QED BY <1>1, <1>3, <1>4 DEF DeclaredInv

\* From the automaton's conflicts to the emitted tables: whatever the order of the items,
\* the encoding and the compression, a cell whose declarations settle it says what they
\* leave of its actions, in the order of the items.
THEOREM TablesSayWhatIsDeclared ==
    ConstantsOK /\ TablesOK /\ DeclarationsOK /\ EachOnce /\ Spec => []TablesAsDeclared
<1>1. TableInv /\ DecodeInv /\ DeclaredInv => TablesAsDeclared
  <2> SUFFICES ASSUME TableInv, DecodeInv, DeclaredInv PROVE TablesAsDeclared
    OBVIOUS
  <2>1. DecodesBack
    BY ReadyDecodes DEF DecodeInv, TableInv, ConstantsOK
  <2> QED BY <2>1, DeclaredIsRead
<1> QED BY <1>1, InitTableInv, NextTableInv, InitCellInv, NextCellInv, InitDecodeInv, NextDecodeInv,
           InitDeclaredInv, NextDeclaredInv, PTL DEF Spec
=============================================================================
