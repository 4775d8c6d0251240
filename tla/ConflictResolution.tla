------------------------- MODULE ConflictResolution -------------------------
(***************************************************************************)
(* GrammarAnalysis::resolveConflicts (elkhound/gramanl.cc): what is left   *)
(* of one cell of the action table, a shift and a list of reductions that  *)
(* compete for one lookahead, after precedence, associativity, 'maximal'   *)
(* and subset directives have removed actions one at a time.               *)
(*                                                                         *)
(* A step of the model is one iteration of a loop of the code.             *)
(***************************************************************************)
EXTENDS Integers, Sequences

CONSTANTS
    Prods,      \* production indices, assigned in file order
    NT,         \* nonterminals
    NoNT,       \* the null Nonterminal*
    Cells       \* the inputs: see Cell

AssocKind == {"LEFT", "RIGHT", "NONASSOC", "NEVERASSOC", "SPLIT"}

Cell == [prec       : [Prods -> Nat],      \* Production::precedence, 0 for none
         left       : [Prods -> NT],       \* Production::left
         reductions : Seq(Prods),          \* the items ready to reduce, in item order
         shift      : BOOLEAN,             \* there is a state to shift to
         symPrec    : Nat,                 \* Terminal::precedence and ::associativity
         assoc      : AssocKind,
         subsets    : [NT -> SUBSET NT],   \* Nonterminal::subsets
         maximal    : SUBSET NT,           \* Nonterminal::maximal
         extending  : SUBSET NT,           \* those the shift would extend
         allowAmbig : BOOLEAN]

VARIABLES
    cell,        \* the input, fixed by Init
    superset,    \* Nonterminal::superset
    shift,       \* shiftDest is not NULL
    reductions,  \* the reductions not removed, in order
    actions,     \* the code's count of the actions left
    dontWarns,   \* warnings the user asked to suppress
    pos,         \* the list iterator of the current loop
    super,       \* 'super', while looking for a maximal superset
    map,         \* 'map' of subsetDirectiveResolution
    errors, sr, rr,
    pc

vars == <<cell, superset, shift, reductions, actions, dontWarns, pos, super, map, errors, sr, rr, pc>>

-----------------------------------------------------------------------------
At(s)      == s[pos]

Without(s, i) == [k \in 1..(Len(s) - 1) |-> IF k < i THEN s[k] ELSE s[k + 1]]
PrecOf(p)  == cell.prec[p]
LeftOf(p)  == cell.left[p]
B2N(b)     == IF b THEN 1 ELSE 0

\* mut.remove(): the iterator moves on to what followed
RemoveHere ==
    /\ reductions' = Without(reductions, pos)
    /\ UNCHANGED pos

KeepHere ==
    /\ pos' = pos + 1
    /\ UNCHANGED reductions

HighestPrec(s) ==
    LET ps == {PrecOf(s[i]) : i \in DOMAIN s} \cup {0}
    IN  CHOOSE p \in ps : \A q \in ps : q <= p

-----------------------------------------------------------------------------
Init ==
    /\ cell \in Cells
    /\ superset = [n \in NT |-> NoNT]
    /\ shift = cell.shift /\ reductions = cell.reductions
    /\ actions = B2N(cell.shift) + Len(cell.reductions)
    /\ dontWarns = 0 /\ pos = 1 /\ super = NoNT /\ map = {}
    /\ errors = 0 /\ sr = 0 /\ rr = 0
    /\ pc = "supersets"

\* computeSupersets: a nonterminal named in two subset lists is refused
ComputeSupersets ==
    /\ pc = "supersets"
    /\ IF \E m, k \in NT : m # k /\ cell.subsets[m] \cap cell.subsets[k] # {}
       THEN pc' = "failure" /\ UNCHANGED superset
       ELSE /\ superset' = [n \in NT |->
                  IF \E m \in NT : n \in cell.subsets[m]
                  THEN CHOOSE m \in NT : n \in cell.subsets[m] ELSE NoNT]
            /\ pc' = "begin"
    /\ UNCHANGED <<cell, shift, reductions, actions, dontWarns, pos, super, map, errors, sr, rr>>

\* no conflict, or the loop over the reductions begins
Begin ==
    /\ pc = "begin"
    /\ pc' = IF actions <= 1 THEN "done" ELSE IF shift THEN "sr" ELSE "rr"
    /\ UNCHANGED <<cell, superset, shift, reductions, actions, dontWarns, pos, super, map, errors, sr, rr>>

\* the S/R loop takes the next reduction, while there is a shift to compare with
NextSR ==
    /\ pc = "sr"
    /\ IF pos <= Len(reductions) /\ shift
       THEN super' = LeftOf(At(reductions)) /\ pc' = "maximal" /\ UNCHANGED pos
       ELSE /\ super' = NoNT /\ pos' = 1
            /\ pc' = IF Len(reductions) > 1 THEN "rr" ELSE "count"
    /\ UNCHANGED <<cell, superset, shift, reductions, actions, dontWarns, map, errors, sr, rr>>

\* handleShiftReduceConflict looks for the nearest superset that is maximal
WalkUp ==
    /\ pc = "maximal"
    /\ super \notin cell.maximal /\ superset[super] # NoNT
    /\ super' = superset[super]
    /\ UNCHANGED <<cell, superset, shift, reductions, actions, dontWarns, pos, map, errors, sr, rr, pc>>

\* handleShiftReduceConflict, once 'super' is maximal or has no superset
Verdict(p) ==
    LET k == PrecOf(p) IN
    IF super \in cell.maximal /\ super \in cell.extending THEN "dropReduce"
    ELSE IF k = 0 \/ cell.symPrec = 0 THEN "keep"
    ELSE IF k > cell.symPrec THEN "dropShift"
    ELSE IF k < cell.symPrec THEN "dropReduce"
    ELSE CASE cell.assoc = "LEFT"       -> "dropShift"
           [] cell.assoc = "RIGHT"      -> "dropReduce"
           [] cell.assoc = "NONASSOC"   -> "dropBoth"
           [] cell.assoc = "NEVERASSOC" -> "error"
           [] cell.assoc = "SPLIT"      -> "split"

DropsShift(v)  == v \in {"dropShift", "dropBoth"}
DropsReduce(v) == v \in {"dropReduce", "dropBoth"}

\* (variation: both are gone, and one is counted)
CountRemoved_once(v) == actions - B2N(DropsShift(v) \/ DropsReduce(v))
CountRemoved(v) == actions - B2N(DropsShift(v)) - B2N(DropsReduce(v))

ShiftReduce ==
    /\ pc = "maximal"
    /\ super \in cell.maximal \/ superset[super] = NoNT
    /\ LET v == Verdict(At(reductions)) IN
       /\ shift' = (shift /\ ~DropsShift(v))
       /\ IF DropsReduce(v) THEN RemoveHere ELSE KeepHere
       /\ actions' = CountRemoved(v)
       /\ dontWarns' = dontWarns + B2N(v = "split")
       /\ errors' = errors + B2N(v = "error")
    /\ super' = NoNT /\ pc' = "sr"
    /\ UNCHANGED <<cell, superset, map, sr, rr>>

-----------------------------------------------------------------------------
\* a production without precedence is never removed for one with
\* (variation: unspecified counts as the lowest precedence)
LosesToHighest_zeroToo(p) == PrecOf(p) < HighestPrec(reductions)
\* (variation: ties lose as well)
LosesToHighest_ties(p) == PrecOf(p) # 0 /\ PrecOf(p) <= HighestPrec(reductions)
LosesToHighest(p) == PrecOf(p) # 0 /\ PrecOf(p) < HighestPrec(reductions)

\* one iteration of the R/R loop; the highest precedence, which the code finds
\* before the loop, does not change while lower ones are removed
ReduceReduce ==
    /\ pc = "rr" /\ pos <= Len(reductions)
    /\ IF LosesToHighest(At(reductions))
       THEN RemoveHere /\ actions' = actions - 1
       ELSE KeepHere /\ UNCHANGED actions
    /\ UNCHANGED <<cell, superset, shift, dontWarns, super, map, errors, sr, rr, pc>>

\* the nonterminals of 'map': left sides of reductions that have a superset
WithSuperset(s) == {n \in {LeftOf(s[i]) : i \in DOMAIN s} : superset[n] # NoNT}

\* subsetDirectiveResolution is called if reductions still compete
EndReduceReduce ==
    /\ pc = "rr" /\ pos > Len(reductions)
    /\ pos' = 1
    /\ IF Len(reductions) > 1 /\ WithSuperset(reductions) # {}
       THEN pc' = "subset" /\ map' = WithSuperset(reductions)
       ELSE pc' = "count" /\ UNCHANGED map
    /\ UNCHANGED <<cell, superset, shift, reductions, actions, dontWarns, super, errors, sr, rr>>

\* a reduction to a declared subset was in the list when the loop began
YieldsSuperset(p) == cell.subsets[LeftOf(p)] \cap map # {}

SubsetDirective ==
    /\ pc = "subset" /\ pos <= Len(reductions)
    /\ IF YieldsSuperset(At(reductions))
       THEN RemoveHere /\ actions' = actions - 1
       ELSE KeepHere /\ UNCHANGED actions
    /\ UNCHANGED <<cell, superset, shift, dontWarns, super, map, errors, sr, rr, pc>>

EndSubset ==
    /\ pc = "subset" /\ pos > Len(reductions)
    /\ pc' = "count" /\ pos' = 1 /\ map' = {}
    /\ UNCHANGED <<cell, superset, shift, reductions, actions, dontWarns, super, errors, sr, rr>>

-----------------------------------------------------------------------------
ConflictsRR == IF shift THEN actions - 2 ELSE actions - 1

\* count what is left, unless the user asked for as much; without allowAmbig
\* keep the shift, or else let the reductions compete in pairs
Count ==
    /\ pc = "count"
    /\ IF actions - dontWarns <= 1 THEN UNCHANGED <<sr, rr>>
       ELSE sr' = sr + B2N(shift) /\ rr' = rr + ConflictsRR
    /\ IF cell.allowAmbig \/ actions <= 1
       THEN pc' = "done" /\ UNCHANGED reductions
       ELSE IF shift THEN reductions' = <<>> /\ pc' = "done"
       ELSE pc' = "force" /\ UNCHANGED reductions
    /\ UNCHANGED <<cell, superset, shift, actions, dontWarns, pos, super, map, errors>>

Later(s) == IF s[1] < s[2] THEN 2 ELSE 1

ForceOne ==
    /\ pc = "force"
    /\ IF Len(reductions) >= 2
       THEN reductions' = Without(reductions, Later(reductions)) /\ UNCHANGED pc
       ELSE pc' = "done" /\ UNCHANGED reductions
    /\ UNCHANGED <<cell, superset, shift, actions, dontWarns, pos, super, map, errors, sr, rr>>

Finished == pc \in {"done", "failure"} /\ UNCHANGED vars

Next == \/ ComputeSupersets \/ Begin
        \/ NextSR \/ WalkUp \/ ShiftReduce
        \/ ReduceReduce \/ EndReduceReduce \/ SubsetDirective \/ EndSubset
        \/ Count \/ ForceOne \/ Finished

Spec == Init /\ [][Next]_vars

-----------------------------------------------------------------------------
(* Properties *)

SetOf(s) == {s[i] : i \in DOMAIN s}

\* The count the warnings and the conflict statistics are computed from is the
\* number of actions that are left, through every removal by every directive.
ActionsExact ==
    pc \notin {"force", "done"} => actions = B2N(shift) + Len(reductions)

\* a nonterminal with all that it is a subset of, and with all that are subsets of it,
\* directly or not: the least sets that are closed
Supersets(n) ==
    {m \in NT : \A S \in SUBSET NT :
        n \in S /\ (\A k \in S : superset[k] \in S \cup {NoNT}) => m \in S}
Below(n) ==
    {m \in NT : \A S \in SUBSET NT :
        n \in S /\ (\A k \in S : cell.subsets[k] \subseteq S) => m \in S}

\* what the reduction p is declared to do to the shift and itself
Munched(p) ==
    \E m \in Supersets(LeftOf(p)) \cap cell.maximal :
        /\ m \in cell.extending
        /\ \A k \in (Supersets(LeftOf(p)) \cap cell.maximal) : k \in Supersets(m)
Beaten(p)   == PrecOf(p) # 0 /\ cell.symPrec # 0 /\ PrecOf(p) < cell.symPrec
Beats(p)    == PrecOf(p) # 0 /\ cell.symPrec # 0 /\ PrecOf(p) > cell.symPrec
Level(p)    == PrecOf(p) # 0 /\ PrecOf(p) = cell.symPrec
AllOf       == SetOf(cell.reductions)
Conflicting == B2N(cell.shift) + Len(cell.reductions) > 1

DeclaredShift ==
    cell.shift /\ ~ \E p \in AllOf : Beats(p) \/ (Level(p) /\ cell.assoc = "LEFT")
DeclaredAfterSR ==
    IF cell.shift
    THEN {p \in AllOf : ~Beaten(p) /\ ~(Level(p) /\ cell.assoc = "RIGHT")}
    ELSE AllOf
DeclaredAfterRR ==
    {p \in DeclaredAfterSR :
        PrecOf(p) = 0 \/ \A q \in DeclaredAfterSR : PrecOf(q) <= PrecOf(p)}
Declared ==
    {p \in DeclaredAfterRR :
        ~ \E q \in DeclaredAfterRR : LeftOf(q) \in cell.subsets[LeftOf(p)]}

IsDeclared ==
    \A p \in AllOf :
        /\ ~Munched(p)
        /\ cell.shift /\ cell.assoc = "NONASSOC" => ~Level(p)
        /\ LeftOf(p) \notin cell.subsets[LeftOf(p)]

\* Where no 'maximal' applies, the token is not nonassociative at a reduction's own
\* level and no nonterminal is a subset of itself, what is left is a function of the
\* declarations: the order in which the reductions were looked at, and whether the
\* shift was dropped before a reduction could lose to it, makes no difference.
OrderIndependent ==
    /\ pc = "count"
    /\ Conflicting /\ IsDeclared
    => shift = DeclaredShift /\ SetOf(reductions) = Declared

\* the grammar reader accepts subset declarations that form a cycle
Acyclic == \A n \in NT : \A m \in cell.subsets[n] : n \notin Below(m)

\* A cell with actions becomes an error entry only because the user asked for
\* it, the shift and one reduction being dropped together as nonassociative, or
\* because nonterminals are declared subsets of each other.
NoSilentError ==
    /\ pc = "done" /\ ~shift /\ reductions = <<>> /\ (cell.shift \/ AllOf # {})
    => \/ cell.assoc = "NONASSOC" /\ cell.shift /\ \E p \in AllOf : Level(p)
       \/ ~Acyclic

=============================================================================
