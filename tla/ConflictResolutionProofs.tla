---------------------- MODULE ConflictResolutionProofs ----------------------
(***************************************************************************)
(* For every cell: the count of the actions left is exact after every      *)
(* removal; what is left is what the declarations say, up to the end, and  *)
(* in the order of the items; and no cell loses all of its actions unless  *)
(* that was asked for.                                                     *)
(***************************************************************************)
EXTENDS ConflictResolution, TLAPS, FiniteSetTheorems, WellFoundedInduction

\* removing an element that is there leaves a sequence one shorter
LEMMA WithoutShortens ==
    ASSUME NEW S, NEW s \in Seq(S), NEW i \in 1..Len(s)
    PROVE  /\ Without(s, i) \in Seq(S)
           /\ Len(Without(s, i)) = Len(s) - 1
<1>1. \A k \in 1..(Len(s) - 1) : (IF k < i THEN s[k] ELSE s[k + 1]) \in S
  OBVIOUS
<1>2. Without(s, i) \in [1..(Len(s) - 1) -> S]
  BY <1>1 DEF Without
<1> DEFINE w == Without(s, i)
<1>3. Len(s) - 1 \in Nat
  OBVIOUS
<1>4. w \in Seq(S) /\ Len(w) = Len(s) - 1
  <2> HIDE DEF w
  <2> QED BY <1>2, <1>3 DEF w
<1> QED BY <1>4

LEMMA TruthCounts ==
    ASSUME NEW b
    PROVE  /\ B2N(b) \in {0, 1}
           /\ b => B2N(b) = 1
           /\ ~b => B2N(b) = 0
BY DEF B2N

\* what the count relies on: the iterator is on an element, and the shift still
\* there, while a reduction is compared with the shift
Inv ==
    /\ reductions \in Seq(Prods)
    /\ shift \in BOOLEAN
    /\ actions \in Int
    /\ pos \in 1..(Len(reductions) + 1)
    /\ pc = "maximal" => shift /\ pos <= Len(reductions)
    /\ pc \in {"count", "force"} => pos = 1
    /\ ActionsExact

LEMMA InitInv == Cells \subseteq Cell /\ Init => Inv
<1> SUFFICES ASSUME Cells \subseteq Cell, Init PROVE Inv
  OBVIOUS
<1>1. cell.reductions \in Seq(Prods) /\ cell.shift \in BOOLEAN
  BY DEF Init, Cell
<1> QED BY <1>1 DEF Init, Inv, ActionsExact, B2N

\* the two ways a loop treats the reduction it is at
LEMMA RemoveKeeps ==
    ASSUME Inv, pos <= Len(reductions), RemoveHere
    PROVE  /\ reductions' \in Seq(Prods)
           /\ Len(reductions') = Len(reductions) - 1
           /\ pos' \in 1..(Len(reductions') + 1)
<1>1. pos \in 1..Len(reductions)
  BY DEF Inv
<1>2. reductions' \in Seq(Prods) /\ Len(reductions') = Len(reductions) - 1
  BY <1>1, WithoutShortens DEF Inv, RemoveHere
<1> QED BY <1>1, <1>2 DEF RemoveHere

LEMMA KeepKeeps ==
    ASSUME Inv, pos <= Len(reductions), KeepHere
    PROVE  /\ reductions' \in Seq(Prods)
           /\ Len(reductions') = Len(reductions)
           /\ pos' \in 1..(Len(reductions') + 1)
  BY DEF Inv, KeepHere

LEMMA NextInv == Inv /\ [Next]_vars => Inv'
<1> SUFFICES ASSUME Inv, [Next]_vars PROVE Inv'
  OBVIOUS
<1>1. CASE ComputeSupersets
  BY <1>1 DEF Inv, ComputeSupersets, ActionsExact
<1>2. CASE Begin
  BY <1>2 DEF Inv, Begin, ActionsExact
<1>3. CASE NextSR
  BY <1>3 DEF Inv, NextSR, ActionsExact
<1>4. CASE WalkUp
  BY <1>4 DEF Inv, WalkUp, ActionsExact
<1>5. CASE ShiftReduce
  <2> DEFINE v == Verdict(At(reductions))
  <2>1. pos <= Len(reductions) /\ shift /\ actions = 1 + Len(reductions)
    BY <1>5 DEF Inv, ShiftReduce, ActionsExact, B2N
  <2>2. /\ shift' = (shift /\ ~DropsShift(v))
        /\ (IF DropsReduce(v) THEN RemoveHere ELSE KeepHere)
        /\ actions' = CountRemoved(v)
        /\ cell' = cell /\ pc' = "sr"
    BY <1>5 DEF ShiftReduce
  <2> HIDE DEF v
  <2>3. shift' \in BOOLEAN /\ shift' = ~DropsShift(v)
    BY <2>1, <2>2 DEF DropsShift
  <2>4. B2N(shift') = 1 - B2N(DropsShift(v))
    <3>1. CASE DropsShift(v)
      <4>1. ~shift'
        BY <2>3, <3>1
      <4>2. B2N(shift') = 0
        BY <4>1 DEF B2N
      <4>3. B2N(DropsShift(v)) = 1
        BY <3>1, TruthCounts
      <4> QED BY <4>2, <4>3
    <3>2. CASE ~DropsShift(v)
      <4>1. shift'
        BY <2>3, <3>2
      <4>2. B2N(shift') = 1
        BY <4>1 DEF B2N
      <4>3. B2N(DropsShift(v)) = 0
        BY <3>2, TruthCounts
      <4> QED BY <4>2, <4>3
    <3> QED BY <3>1, <3>2
  <2>5. actions' = B2N(shift') + Len(reductions) - B2N(DropsReduce(v))
    <3>1. B2N(DropsShift(v)) \in {0, 1} /\ B2N(DropsReduce(v)) \in {0, 1}
      BY TruthCounts
    <3> QED BY <2>1, <2>2, <2>4, <3>1 DEF CountRemoved, Inv
  <2>6. CASE DropsReduce(v)
    <3>1. /\ reductions' \in Seq(Prods) /\ Len(reductions') = Len(reductions) - 1
          /\ pos' \in 1..(Len(reductions') + 1)
      BY <2>1, <2>2, <2>6, RemoveKeeps
    <3>2. B2N(DropsReduce(v)) = 1 /\ B2N(shift') \in {0, 1}
      BY <2>6, TruthCounts
    <3>3. actions' = B2N(shift') + Len(reductions')
      BY <2>5, <3>1, <3>2 DEF Inv
    <3> QED BY <2>2, <2>3, <3>1, <3>2, <3>3 DEF Inv, ActionsExact
  <2>7. CASE ~DropsReduce(v)
    <3>1. /\ reductions' \in Seq(Prods) /\ Len(reductions') = Len(reductions)
          /\ pos' \in 1..(Len(reductions') + 1)
      BY <2>1, <2>2, <2>7, KeepKeeps
    <3>2. B2N(DropsReduce(v)) = 0 /\ B2N(shift') \in {0, 1}
      BY <2>7, TruthCounts
    <3>3. actions' = B2N(shift') + Len(reductions')
      BY <2>5, <3>1, <3>2 DEF Inv
    <3> QED BY <2>2, <2>3, <3>1, <3>2, <3>3 DEF Inv, ActionsExact
  <2> QED BY <2>6, <2>7
<1>6. ASSUME NEW Loses \in BOOLEAN, pc \in {"rr", "subset"}, pos <= Len(reductions),
             IF Loses THEN RemoveHere /\ actions' = actions - 1
                      ELSE KeepHere /\ UNCHANGED actions,
             UNCHANGED <<cell, shift, pc>>
      PROVE  Inv'
  <2>1. actions = B2N(shift) + Len(reductions)
    BY <1>6 DEF Inv, ActionsExact
  <2>2. CASE Loses
    <3>1. /\ reductions' \in Seq(Prods) /\ Len(reductions') = Len(reductions) - 1
          /\ pos' \in 1..(Len(reductions') + 1)
      BY <1>6, <2>2, RemoveKeeps
    <3> QED BY <1>6, <2>1, <2>2, <3>1 DEF Inv, ActionsExact, B2N
  <2>3. CASE ~Loses
    <3>1. /\ reductions' \in Seq(Prods) /\ Len(reductions') = Len(reductions)
          /\ pos' \in 1..(Len(reductions') + 1)
      BY <1>6, <2>3, KeepKeeps
    <3> QED BY <1>6, <2>1, <2>3, <3>1 DEF Inv, ActionsExact, B2N
  <2> QED BY <2>2, <2>3
<1>7. CASE ReduceReduce
  <2>1. LosesToHighest(At(reductions)) \in BOOLEAN
    BY DEF LosesToHighest
  <2> QED BY <1>6, <1>7, <2>1 DEF ReduceReduce
<1>8. CASE EndReduceReduce
  BY <1>8 DEF Inv, EndReduceReduce, ActionsExact
<1>9. CASE SubsetDirective
  <2>1. YieldsSuperset(At(reductions)) \in BOOLEAN
    BY DEF YieldsSuperset
  <2> QED BY <1>6, <1>9, <2>1 DEF SubsetDirective
<1>10. CASE EndSubset
  BY <1>10 DEF Inv, EndSubset, ActionsExact
<1>11. CASE Count
  <2>1. pos' = 1 /\ cell' = cell /\ shift' = shift /\ actions' = actions
    BY <1>11 DEF Inv, Count
  <2>2. \/ reductions' = reductions /\ pc' \in {"done", "force"}
        \/ reductions' = <<>> /\ pc' = "done"
    BY <1>11 DEF Count
  <2>3. reductions' \in Seq(Prods)
    <3>1. << >> \in Seq(Prods)
      OBVIOUS
    <3>2. CASE reductions' = reductions
      BY <3>2 DEF Inv
    <3> QED BY <2>2, <3>1, <3>2
  <2> QED BY <2>1, <2>2, <2>3 DEF Inv, ActionsExact
<1>12. CASE ForceOne
  <2>1. CASE Len(reductions) >= 2
    <3> DEFINE i == Later(reductions)
    <3>1. i \in 1..Len(reductions)
      BY <2>1 DEF Later, Inv
    <3>2. reductions' = Without(reductions, i)
      BY <1>12, <2>1 DEF ForceOne
    <3> HIDE DEF i
    <3>3. reductions' \in Seq(Prods) /\ Len(reductions') = Len(reductions) - 1
      BY <3>1, <3>2, WithoutShortens DEF Inv
    <3> QED BY <1>12, <2>1, <3>3 DEF Inv, ForceOne, ActionsExact
  <2>2. CASE ~(Len(reductions) >= 2)
    BY <1>12, <2>2 DEF Inv, ForceOne, ActionsExact
  <2> QED BY <2>1, <2>2
<1>13. CASE UNCHANGED vars
  BY <1>13 DEF Inv, vars, ActionsExact
<1> QED
  BY <1>1, <1>2, <1>3, <1>4, <1>5, <1>7, <1>8, <1>9, <1>10, <1>11, <1>12, <1>13
     DEF Next, Finished

\* The count that the warnings and the statistics of conflicts are computed from
\* is the number of actions left in the cell, for every cell.
THEOREM CountIsExact == Cells \subseteq Cell /\ Spec => []ActionsExact
<1>1. Inv => ActionsExact
  BY DEF Inv
<1> QED BY InitInv, NextInv, <1>1, PTL DEF Spec

-----------------------------------------------------------------------------
(* What a cell keeps *)

\* what is asked of the declarations: the productions that compete have a precedence and a
\* left side, and subsets are made of nonterminals
WellFormed ==
    /\ NoNT \notin NT
    /\ cell.reductions \in Seq(Prods) /\ cell.shift \in BOOLEAN
    /\ \A p \in AllOf : PrecOf(p) \in Nat /\ LeftOf(p) \in NT
    /\ \A n \in NT : cell.subsets[n] \subseteq NT
    /\ cell.symPrec \in Nat /\ cell.assoc \in AssocKind

\* the superset of a nonterminal is one that names it
SupersetsAreNamed ==
    \A n \in NT : /\ superset[n] \in NT \cup {NoNT}
                  /\ superset[n] # NoNT <=> \E m \in NT : n \in cell.subsets[m]

\* the reductions at which the shift is dropped
Outranks(p) == Beats(p) \/ (Level(p) /\ cell.assoc = "LEFT")

Untouched == pc \in {"supersets", "begin"} =>
    shift = cell.shift /\ reductions = cell.reductions /\ pos = 1

\* the reductions before the iterator were neither dropped nor did they drop the shift
WhileSR == pc \in {"sr", "maximal"} /\ IsDeclared =>
    /\ cell.shift
    /\ DeclaredAfterSR \subseteq SetOf(reductions)
    /\ shift => \A i \in 1..(pos - 1) : reductions[i] \in DeclaredAfterSR /\ ~Outranks(reductions[i])
    /\ ~shift => \E p \in SetOf(reductions) : Outranks(p)

\* a maximal superset that was not passed yet is a superset of the one looked at
WhileWalking == pc = "maximal" =>
    /\ super \in Supersets(LeftOf(At(reductions)))
    /\ \A k \in Supersets(LeftOf(At(reductions))) \cap cell.maximal : k \in Supersets(super)

\* a reduction that was not compared because the shift was gone has less precedence than
\* one that was, and what the declarations do not keep will lose
CompetesAsDeclared ==
    /\ shift = DeclaredShift
    /\ DeclaredAfterRR \subseteq SetOf(reductions)
    /\ \A p \in SetOf(reductions) \ DeclaredAfterSR :
          PrecOf(p) # 0 /\ \E q \in DeclaredAfterSR : PrecOf(q) > PrecOf(p)
    /\ \A p \in SetOf(reductions) \ DeclaredAfterRR : LosesToHighest(p)

WhileRR == pc = "rr" /\ IsDeclared =>
    /\ CompetesAsDeclared
    /\ \A i \in 1..(pos - 1) : ~LosesToHighest(reductions[i])

WhileSubset == pc = "subset" /\ IsDeclared =>
    /\ shift = DeclaredShift
    /\ Declared \subseteq SetOf(reductions) /\ SetOf(reductions) \subseteq DeclaredAfterRR
    /\ map = {n \in {LeftOf(p) : p \in DeclaredAfterRR} : superset[n] # NoNT}
    /\ \A i \in 1..(pos - 1) : reductions[i] \in Declared

OrderInv ==
    /\ WellFormed
    /\ SetOf(reductions) \subseteq AllOf
    /\ pc \notin {"supersets", "failure"} => SupersetsAreNamed
    /\ Untouched /\ WhileSR /\ WhileWalking /\ WhileRR /\ WhileSubset
    /\ OrderIndependent

\* nobody asked for the cell to be an error entry
NotAsked ==
    /\ cell.shift \/ AllOf # {}
    /\ ~ (cell.assoc = "NONASSOC" /\ cell.shift /\ \E p \in AllOf : Level(p))
    /\ Acyclic

\* an action is left, and during the loop over the subsets one that will not be removed
SilentInv ==
    /\ WellFormed
    /\ SetOf(reductions) \subseteq AllOf /\ (shift => cell.shift)
    /\ pc \in {"supersets", "begin"} => shift = cell.shift /\ reductions = cell.reductions
    /\ NotAsked =>
          /\ shift \/ SetOf(reductions) # {}
          /\ pc = "subset" => shift \/ \E p \in SetOf(reductions) : ~YieldsSuperset(p)

\* what is left after a removal, and what was removed
LEMMA WithoutLeaves ==
    ASSUME NEW S, NEW s \in Seq(S), NEW i \in 1..Len(s)
    PROVE  /\ SetOf(Without(s, i)) \subseteq SetOf(s)
           /\ SetOf(s) \subseteq SetOf(Without(s, i)) \cup {s[i]}
           /\ \A k \in 1..(i - 1) : Without(s, i)[k] = s[k]
<1> DEFINE w == Without(s, i)
<1>1. DOMAIN w = 1..(Len(s) - 1) /\ DOMAIN s = 1..Len(s)
  BY DEF Without
<1>2. \A k \in 1..(Len(s) - 1) : w[k] = IF k < i THEN s[k] ELSE s[k + 1]
  BY DEF Without
<1> HIDE DEF w
<1>3. SetOf(w) \subseteq SetOf(s)
  BY <1>1, <1>2 DEF SetOf
<1>4. ASSUME NEW k \in 1..Len(s), k # i PROVE s[k] \in SetOf(w)
  <2>1. CASE k < i
    <3>1. k \in 1..(Len(s) - 1) /\ w[k] = s[k]
      BY <1>2, <2>1
    <3> QED BY <1>1, <3>1 DEF SetOf
  <2>2. CASE ~(k < i)
    <3>1. k - 1 \in 1..(Len(s) - 1) /\ ~(k - 1 < i) /\ (k - 1) + 1 = k
      BY <1>4, <2>2
    <3>2. w[k - 1] = s[k]
      BY <1>2, <3>1
    <3> QED BY <1>1, <3>1, <3>2 DEF SetOf
  <2> QED BY <2>1, <2>2
<1>5. SetOf(s) \subseteq SetOf(w) \cup {s[i]}
  BY <1>1, <1>4 DEF SetOf
<1>6. \A k \in 1..(i - 1) : w[k] = s[k]
  BY <1>2
<1> QED BY <1>3, <1>5, <1>6 DEF w

\* a set of numbers that is not empty has a least element
LEMMA Least ==
    ASSUME NEW S \in SUBSET Nat, S # {}
    PROVE  \E m \in S : \A n \in S : m <= n
<1> DEFINE R == OpToRel(<, Nat)
<1>1. IsWellFoundedOn(R, Nat)
  BY NatLessThanWellFounded
<1>2. PICK m \in S : \A n \in S : <<n, m>> \notin R
  <2> HIDE DEF R
  <2> QED BY <1>1, WFMin
<1>3. \A n \in S : ~(n < m)
  BY <1>2 DEF OpToRel
<1> QED BY <1>3

\* HighestPrec is what its name says, and 0 if no precedence is given
LEMMA HighestIsHighest ==
    ASSUME NEW s \in Seq(Prods), \A p \in SetOf(s) : PrecOf(p) \in Nat
    PROVE  /\ HighestPrec(s) \in Nat
           /\ \A p \in SetOf(s) : PrecOf(p) <= HighestPrec(s)
           /\ HighestPrec(s) = 0 \/ \E p \in SetOf(s) : PrecOf(p) = HighestPrec(s)
<1> DEFINE Ps(k) == {PrecOf(s[i]) : i \in 1..k} \cup {0}
           Greatest(k, m) == m \in Ps(k) /\ \A q \in Ps(k) : q <= m
           Bad == {k \in 0..Len(s) : ~ \E m : Greatest(k, m)}
<1>1. \A i \in 1..Len(s) : PrecOf(s[i]) \in Nat
  BY DEF SetOf
<1>2. Bad = {}
  <2> SUFFICES ASSUME Bad # {} PROVE FALSE
    OBVIOUS
  <2>0. Bad \in SUBSET Nat
    OBVIOUS
  <2>1. PICK k \in Bad : \A j \in Bad : k <= j
    <3> HIDE DEF Bad
    <3> QED BY <2>0, Least
  <2>2. Greatest(0, 0)
    OBVIOUS
  <2>3. k \in 1..Len(s) /\ k - 1 \in 0..Len(s) /\ k - 1 \notin Bad
    <3>1. k # 0
      BY <2>1, <2>2
    <3>2. k \in 0..Len(s)
      OBVIOUS
    <3>3. k - 1 \notin Bad
      <4> HIDE DEF Bad
      <4> QED BY <2>1, <3>2
    <3> QED BY <3>1, <3>2, <3>3
  <2>4. PICK m : Greatest(k - 1, m)
    BY <2>3
  <2>5. PrecOf(s[k]) \in Nat /\ Ps(k) = Ps(k - 1) \cup {PrecOf(s[k])} /\ Ps(k - 1) \subseteq Nat
    BY <1>1, <2>3
  <2>6. m \in Nat
    BY <2>4, <2>5
  <2> DEFINE P == Ps(k - 1)
             z == PrecOf(s[k])
  <2>7. m \in P /\ (\A q \in P : q <= m) /\ P \subseteq Nat /\ z \in Nat /\ Ps(k) = P \cup {z}
    BY <2>4, <2>5
  <2> HIDE DEF P, z
  <2>8. \E g : g \in P \cup {z} /\ \A q \in P \cup {z} : q <= g
    <3>1. CASE z <= m
      <4>1. \A q \in P \cup {z} : q <= m
        BY <2>7, <3>1
      <4> QED BY <2>7, <4>1
    <3>2. CASE ~(z <= m)
      <4>1. \A q \in P \cup {z} : q <= z
        BY <2>6, <2>7, <3>2
      <4> QED BY <4>1
    <3> QED BY <3>1, <3>2
  <2>9. \E g : Greatest(k, g)
    BY <2>7, <2>8
  <2> QED BY <2>9
<1>3. PICK m : Greatest(Len(s), m)
  <2>1. Len(s) \in 0..Len(s)
    OBVIOUS
  <2> QED BY <1>2, <2>1
<1>4. {PrecOf(s[i]) : i \in DOMAIN s} \cup {0} = Ps(Len(s))
  OBVIOUS
<1>5. Greatest(Len(s), HighestPrec(s))
  BY <1>3, <1>4 DEF HighestPrec
<1>6. Ps(Len(s)) \subseteq Nat
  BY <1>1
<1>7. \A p \in SetOf(s) : PrecOf(p) \in Ps(Len(s))
  BY DEF SetOf
<1>8. HighestPrec(s) = 0 \/ \E p \in SetOf(s) : PrecOf(p) = HighestPrec(s)
  BY <1>5 DEF SetOf
<1> QED BY <1>5, <1>6, <1>7, <1>8

\* a reduction that loses was not the one with the highest precedence
LEMMA HighestStays ==
    ASSUME NEW s \in Seq(Prods), \A p \in SetOf(s) : PrecOf(p) \in Nat,
           NEW i \in 1..Len(s), PrecOf(s[i]) < HighestPrec(s)
    PROVE  HighestPrec(Without(s, i)) = HighestPrec(s)
<1> DEFINE w == Without(s, i)
<1>1. w \in Seq(Prods)
  BY WithoutShortens
<1>2. SetOf(w) \subseteq SetOf(s) /\ SetOf(s) \subseteq SetOf(w) \cup {s[i]}
  BY WithoutLeaves
<1>3. /\ HighestPrec(s) \in Nat
      /\ \A p \in SetOf(s) : PrecOf(p) <= HighestPrec(s)
      /\ HighestPrec(s) = 0 \/ \E p \in SetOf(s) : PrecOf(p) = HighestPrec(s)
  BY HighestIsHighest
<1> HIDE DEF w
<1>4. /\ HighestPrec(w) \in Nat
      /\ \A p \in SetOf(w) : PrecOf(p) <= HighestPrec(w)
      /\ HighestPrec(w) = 0 \/ \E p \in SetOf(w) : PrecOf(p) = HighestPrec(w)
  BY <1>1, <1>2, HighestIsHighest
<1>5. s[i] \in SetOf(s)
  BY DEF SetOf
<1>6. PICK p \in SetOf(s) : PrecOf(p) = HighestPrec(s)
  BY <1>3, <1>5
<1>7. p \in SetOf(w)
  <2>1. p # s[i]
    BY <1>6, <1>3
  <2> QED BY <1>2, <1>6, <2>1
<1>8. HighestPrec(s) <= HighestPrec(w)
  BY <1>4, <1>6, <1>7
<1>9. HighestPrec(w) <= HighestPrec(s)
  BY <1>2, <1>3, <1>4
<1> QED BY <1>3, <1>4, <1>8, <1>9 DEF w

\* a nonterminal's supersets are itself and its superset's
LEMMA SupersetsOfSuperset ==
    ASSUME WellFormed, SupersetsAreNamed, NEW n \in NT
    PROVE  /\ n \in Supersets(n)
           /\ \A m \in Supersets(n) : m \in NT /\ (superset[m] # NoNT => superset[m] \in Supersets(n))
           /\ superset[n] # NoNT => Supersets(n) \subseteq {n} \cup Supersets(superset[n])
<1>1. n \in Supersets(n)
  BY DEF Supersets
<1>2. ASSUME NEW m \in Supersets(n), superset[m] # NoNT
      PROVE  superset[m] \in Supersets(n)
  <2>1. m \in NT /\ superset[m] \in NT
    BY <1>2 DEF Supersets, SupersetsAreNamed
  <2>2. ASSUME NEW S \in SUBSET NT, n \in S, \A k \in S : superset[k] \in S \cup {NoNT}
        PROVE  superset[m] \in S
    <3>1. m \in S
      BY <2>2 DEF Supersets
    <3> QED BY <1>2, <2>2, <3>1
  <2> QED BY <2>1, <2>2 DEF Supersets
<1>3. ASSUME superset[n] # NoNT
      PROVE  Supersets(n) \subseteq {n} \cup Supersets(superset[n])
  <2> DEFINE up == superset[n]
             T == {n} \cup Supersets(up)
  <2>1. up \in NT
    BY <1>3 DEF SupersetsAreNamed
  <2>2. T \in SUBSET NT /\ n \in T
    BY DEF Supersets
  <2>3. up \in T
    BY <2>1 DEF Supersets
  <2>4. ASSUME NEW k \in T PROVE superset[k] \in T \cup {NoNT}
    <3>1. CASE k = n
      BY <2>3, <3>1
    <3>2. CASE k \in Supersets(up)
      <4>1. superset[k] = NoNT \/ superset[k] \in NT
        BY <2>2, <2>4 DEF SupersetsAreNamed
      <4>2. ASSUME superset[k] \in NT, NEW S \in SUBSET NT, up \in S,
                   \A x \in S : superset[x] \in S \cup {NoNT}
            PROVE  superset[k] \in S
        <5>1. k \in S
          BY <3>2, <4>2 DEF Supersets
        <5> QED BY <4>2, <5>1 DEF WellFormed
      <4> QED BY <4>1, <4>2 DEF Supersets
    <3> QED BY <2>4, <3>1, <3>2
  <2> HIDE DEF T
  <2>5. Supersets(n) \subseteq T
    BY <2>2, <2>4 DEF Supersets
  <2> QED BY <2>5 DEF T
<1>4. Supersets(n) \subseteq NT
  BY DEF Supersets
<1> QED BY <1>1, <1>2, <1>3, <1>4

\* what is declared depends on the input only
LEMMA SameCell ==
    ASSUME UNCHANGED cell
    PROVE  /\ WellFormed' = WellFormed /\ AllOf' = AllOf
           /\ DeclaredShift' = DeclaredShift /\ DeclaredAfterSR' = DeclaredAfterSR
           /\ DeclaredAfterRR' = DeclaredAfterRR /\ Declared' = Declared
           /\ \A p : Outranks(p)' = Outranks(p)
           /\ NotAsked' = NotAsked
<1>1. AllOf' = AllOf /\ WellFormed' = WellFormed
  BY DEF AllOf, SetOf, WellFormed, PrecOf, LeftOf
<1>2. DeclaredShift' = DeclaredShift /\ DeclaredAfterSR' = DeclaredAfterSR
  BY DEF DeclaredShift, DeclaredAfterSR, AllOf, SetOf, Beats, Beaten, Level, PrecOf
<1>3. DeclaredAfterRR' = DeclaredAfterRR
  BY <1>2 DEF DeclaredAfterRR, PrecOf
<1>4. Declared' = Declared
  BY <1>3 DEF Declared, LeftOf
<1>5. \A p : Outranks(p)' = Outranks(p)
  BY DEF Outranks, Beats, Level, PrecOf
<1>6. NotAsked' = NotAsked
  BY DEF NotAsked, AllOf, SetOf, Level, PrecOf, Acyclic, Below
<1> QED BY <1>1, <1>2, <1>3, <1>4, <1>5, <1>6

LEMMA SameSupersets ==
    ASSUME UNCHANGED <<cell, superset>>
    PROVE  /\ SupersetsAreNamed' = SupersetsAreNamed /\ IsDeclared' = IsDeclared
           /\ \A n : Supersets(n)' = Supersets(n)
<1>1. SupersetsAreNamed' = SupersetsAreNamed
  BY DEF SupersetsAreNamed
<1>2. \A n : Supersets(n)' = Supersets(n)
  BY DEF Supersets
<1>3. IsDeclared' = IsDeclared
  BY DEF IsDeclared, Munched, Supersets, AllOf, SetOf, Level, PrecOf, LeftOf
<1> QED BY <1>1, <1>2, <1>3

\* what handleShiftReduceConflict decides is what precedence and associativity declare
LEMMA VerdictAsDeclared ==
    ASSUME WellFormed, IsDeclared, cell.shift, NEW p \in AllOf,
           super \in Supersets(LeftOf(p)),
           \A k \in Supersets(LeftOf(p)) \cap cell.maximal : k \in Supersets(super)
    PROVE  /\ DropsShift(Verdict(p)) <=> Outranks(p)
           /\ DropsReduce(Verdict(p)) <=> p \notin DeclaredAfterSR
<1>1. ~(super \in cell.maximal /\ super \in cell.extending)
  BY DEF IsDeclared, Munched
<1>2. ~(cell.assoc = "NONASSOC" /\ Level(p))
  BY DEF IsDeclared
<1>3. PrecOf(p) \in Nat /\ cell.symPrec \in Nat /\ cell.assoc \in AssocKind
  BY DEF WellFormed
<1>4. p \notin DeclaredAfterSR <=> Beaten(p) \/ (Level(p) /\ cell.assoc = "RIGHT")
  BY DEF DeclaredAfterSR
<1>5. CASE PrecOf(p) = 0 \/ cell.symPrec = 0
  BY <1>1, <1>3, <1>4, <1>5
     DEF Verdict, DropsShift, DropsReduce, Outranks, Beats, Beaten, Level
<1> DEFINE k == PrecOf(p)
           byAssoc == CASE cell.assoc = "LEFT"       -> "dropShift"
                        [] cell.assoc = "RIGHT"      -> "dropReduce"
                        [] cell.assoc = "NONASSOC"   -> "dropBoth"
                        [] cell.assoc = "NEVERASSOC" -> "error"
                        [] cell.assoc = "SPLIT"      -> "split"
<1>v. Verdict(p) = IF super \in cell.maximal /\ super \in cell.extending THEN "dropReduce"
                   ELSE IF k = 0 \/ cell.symPrec = 0 THEN "keep"
                   ELSE IF k > cell.symPrec THEN "dropShift"
                   ELSE IF k < cell.symPrec THEN "dropReduce"
                   ELSE byAssoc
  BY DEF Verdict
<1> HIDE DEF byAssoc
<1>6. CASE PrecOf(p) # 0 /\ cell.symPrec # 0 /\ PrecOf(p) # cell.symPrec
  BY <1>1, <1>v, <1>3, <1>4, <1>6
     DEF DropsShift, DropsReduce, Outranks, Beats, Beaten, Level
<1>7. CASE PrecOf(p) # 0 /\ PrecOf(p) = cell.symPrec
  <2>1. cell.assoc \in {"LEFT", "RIGHT", "NEVERASSOC", "SPLIT"}
    BY <1>2, <1>3, <1>7 DEF AssocKind, Level
  <2>2. Verdict(p) = byAssoc
    BY <1>1, <1>v, <1>3, <1>7
  <2>3. Level(p) /\ ~Beats(p) /\ ~Beaten(p)
    BY <1>3, <1>7 DEF Level, Beats, Beaten
  <2>4. CASE cell.assoc = "LEFT"
    BY <1>4, <2>2, <2>3, <2>4 DEF byAssoc, DropsShift, DropsReduce, Outranks
  <2>5. CASE cell.assoc = "RIGHT"
    BY <1>4, <2>2, <2>3, <2>5 DEF byAssoc, DropsShift, DropsReduce, Outranks
  <2>6. CASE cell.assoc = "NEVERASSOC"
    BY <1>4, <2>2, <2>3, <2>6 DEF byAssoc, DropsShift, DropsReduce, Outranks
  <2>7. CASE cell.assoc = "SPLIT"
    BY <1>4, <2>2, <2>3, <2>7 DEF byAssoc, DropsShift, DropsReduce, Outranks
  <2> QED BY <2>1, <2>4, <2>5, <2>6, <2>7
<1> QED BY <1>5, <1>6, <1>7

\* LosesToHighest means that somebody has a higher precedence
LEMMA LosingMeans ==
    ASSUME WellFormed, reductions \in Seq(Prods), SetOf(reductions) \subseteq AllOf, NEW p \in SetOf(reductions)
    PROVE  LosesToHighest(p) <=> PrecOf(p) # 0 /\ \E q \in SetOf(reductions) : PrecOf(q) > PrecOf(p)
<1>1. \A q \in SetOf(reductions) : PrecOf(q) \in Nat
  BY DEF WellFormed
<1>2. /\ HighestPrec(reductions) \in Nat
      /\ \A q \in SetOf(reductions) : PrecOf(q) <= HighestPrec(reductions)
      /\ HighestPrec(reductions) = 0 \/ \E q \in SetOf(reductions) : PrecOf(q) = HighestPrec(reductions)
  BY <1>1, HighestIsHighest
<1> QED BY <1>1, <1>2 DEF LosesToHighest

\* after the S/R loop the reductions compete as declared
LEMMA ThenCompetes ==
    ASSUME WellFormed, reductions \in Seq(Prods), SetOf(reductions) \subseteq AllOf,
           shift = DeclaredShift, DeclaredAfterSR \subseteq SetOf(reductions),
           \A p \in SetOf(reductions) \ DeclaredAfterSR :
              PrecOf(p) # 0 /\ \E q \in DeclaredAfterSR : PrecOf(q) > PrecOf(p)
    PROVE  CompetesAsDeclared
<1>1. DeclaredAfterRR \subseteq SetOf(reductions)
  BY DEF DeclaredAfterRR
<1>2. \A p \in AllOf : PrecOf(p) \in Nat
  BY DEF WellFormed
<1>3. ASSUME NEW p \in SetOf(reductions) \ DeclaredAfterRR
      PROVE  PrecOf(p) # 0 /\ \E q \in DeclaredAfterSR : PrecOf(q) > PrecOf(p)
  <2>1. CASE p \in DeclaredAfterSR
    <3>1. PrecOf(p) # 0 /\ \E q \in DeclaredAfterSR : ~(PrecOf(q) <= PrecOf(p))
      BY <1>3, <2>1 DEF DeclaredAfterRR
    <3> QED BY <1>2, <3>1
  <2> QED BY <1>3, <2>1
<1>4. \A p \in SetOf(reductions) \ DeclaredAfterRR : LosesToHighest(p)
  BY <1>3, LosingMeans
<1> QED BY <1>1, <1>4 DEF CompetesAsDeclared

\* what the declarations keep does not lose
LEMMA DeclaredDoNotLose ==
    ASSUME WellFormed, reductions \in Seq(Prods), SetOf(reductions) \subseteq AllOf, CompetesAsDeclared,
           NEW p \in DeclaredAfterRR
    PROVE  ~LosesToHighest(p)
<1> SUFFICES ASSUME LosesToHighest(p) PROVE FALSE
  OBVIOUS
<1>1. p \in SetOf(reductions)
  BY DEF CompetesAsDeclared
<1>2. PrecOf(p) # 0
  BY DEF LosesToHighest
<1>3. PICK q \in SetOf(reductions) : PrecOf(q) > PrecOf(p)
  BY <1>1, LosingMeans
<1>4. \A x \in AllOf : PrecOf(x) \in Nat
  BY DEF WellFormed
<1>5. \A x \in DeclaredAfterSR : x \in AllOf /\ PrecOf(x) <= PrecOf(p)
  BY <1>2 DEF DeclaredAfterRR, DeclaredAfterSR
<1>6. CASE q \in DeclaredAfterSR
  BY <1>1, <1>3, <1>4, <1>5, <1>6
<1>7. CASE q \notin DeclaredAfterSR
  <2>1. PICK x \in DeclaredAfterSR : PrecOf(x) > PrecOf(q)
    BY <1>3, <1>7 DEF CompetesAsDeclared
  <2> QED BY <1>1, <1>3, <1>4, <1>5, <2>1
<1> QED BY <1>6, <1>7

\* a single reduction is kept
LEMMA SingleIsDeclared ==
    ASSUME WellFormed, IsDeclared, reductions \in Seq(Prods), SetOf(reductions) \subseteq AllOf,
           SetOf(reductions) = DeclaredAfterRR, Len(reductions) <= 1
    PROVE  SetOf(reductions) = Declared
<1>1. \A p, q \in SetOf(reductions) : p = q
  BY DEF SetOf
<1>2. \A p \in SetOf(reductions) : LeftOf(p) \notin cell.subsets[LeftOf(p)]
  BY DEF IsDeclared
<1> QED BY <1>1, <1>2 DEF Declared

\* nobody loses to itself
LEMMA SingleDoesNotLose ==
    ASSUME WellFormed, reductions \in Seq(Prods), SetOf(reductions) \subseteq AllOf, Len(reductions) <= 1,
           CompetesAsDeclared
    PROVE  SetOf(reductions) = DeclaredAfterRR
<1>1. \A p, q \in SetOf(reductions) : p = q
  BY DEF SetOf
<1>2. \A p \in AllOf : PrecOf(p) \in Nat
  BY DEF WellFormed
<1>3. \A p \in SetOf(reductions) : ~LosesToHighest(p)
  BY <1>1, <1>2, LosingMeans
<1> QED BY <1>3 DEF CompetesAsDeclared

LEMMA InitOrderInv == WellFormed /\ Init => OrderInv
BY DEF Init, OrderInv, Untouched, WhileSR, WhileWalking, WhileRR, WhileSubset, OrderIndependent,
       AllOf, SetOf

\* what follows the S/R loop: the reductions, if several, compete
LEMMA EndOfSR ==
    ASSUME Inv, OrderInv, NextSR, ~(pos <= Len(reductions) /\ shift), IsDeclared
    PROVE  CompetesAsDeclared
<1>1. /\ WellFormed /\ cell.shift /\ DeclaredAfterSR \subseteq SetOf(reductions)
      /\ SetOf(reductions) \subseteq AllOf
      /\ reductions \in Seq(Prods) /\ shift \in BOOLEAN
  BY DEF OrderInv, WhileSR, NextSR, Inv
<1>2. \A p \in AllOf : PrecOf(p) \in Nat
  BY <1>1 DEF WellFormed
<1>3. \A p \in AllOf : p \notin DeclaredAfterSR <=> Beaten(p) \/ (Level(p) /\ cell.assoc = "RIGHT")
  BY <1>1 DEF DeclaredAfterSR
<1>4. cell.symPrec \in Nat
  BY <1>1 DEF WellFormed
<1>5. DeclaredShift <=> ~ \E p \in AllOf : Outranks(p)
  BY <1>1 DEF DeclaredShift, Outranks
<1>6. \A p \in AllOf : Outranks(p) => p \in DeclaredAfterSR
  BY <1>2, <1>3, <1>4 DEF Outranks, Beats, Beaten, Level
<1>7. CASE shift
  <2>1. \A i \in 1..Len(reductions) : reductions[i] \in DeclaredAfterSR /\ ~Outranks(reductions[i])
    BY <1>7 DEF OrderInv, WhileSR, NextSR, Inv
  <2>2. \A p \in SetOf(reductions) : p \in DeclaredAfterSR /\ ~Outranks(p)
    BY <1>1, <2>1 DEF SetOf
  <2>3. \A p \in AllOf : ~Outranks(p)
    BY <1>1, <1>6, <2>2
  <2>4. shift = DeclaredShift
    BY <1>5, <1>7, <2>3 DEF DeclaredShift
  <2> QED BY <1>1, <2>2, <2>4, ThenCompetes
<1>8. CASE ~shift
  <2>1. PICK d \in SetOf(reductions) : Outranks(d)
    BY <1>8 DEF OrderInv, WhileSR, NextSR
  <2>2. d \in DeclaredAfterSR /\ d \in AllOf
    BY <1>1, <1>6, <2>1
  <2>3. shift = DeclaredShift
    BY <1>1, <1>5, <1>8, <2>1, <2>2 DEF DeclaredShift
  <2>4. ASSUME NEW p \in SetOf(reductions) \ DeclaredAfterSR
        PROVE  PrecOf(p) # 0 /\ \E q \in DeclaredAfterSR : PrecOf(q) > PrecOf(p)
    <3>1. p \in AllOf /\ (Beaten(p) \/ (Level(p) /\ cell.assoc = "RIGHT"))
      BY <1>1, <1>3, <2>4
    <3>2. PrecOf(p) # 0 /\ PrecOf(d) > PrecOf(p)
      BY <1>2, <1>4, <2>1, <2>2, <3>1 DEF Outranks, Beats, Beaten, Level
    <3> QED BY <2>2, <3>2
  <2> QED BY <1>1, <2>3, <2>4, ThenCompetes
<1> QED BY <1>1, <1>7, <1>8

\* what a removal leaves, and what keeping does
LEMMA RemoveLeaves ==
    ASSUME Inv, pos <= Len(reductions), RemoveHere
    PROVE  /\ SetOf(reductions') \subseteq SetOf(reductions)
           /\ SetOf(reductions) \subseteq SetOf(reductions') \cup {At(reductions)}
           /\ pos' = pos /\ \A i \in 1..(pos - 1) : reductions'[i] = reductions[i]
           /\ reductions' \in Seq(Prods)
           /\ At(reductions) \in SetOf(reductions)
<1>1. pos \in 1..Len(reductions) /\ reductions \in Seq(Prods)
  BY DEF Inv
<1>2. reductions' = Without(reductions, pos) /\ pos' = pos
  BY DEF RemoveHere
<1>3. /\ SetOf(reductions') \subseteq SetOf(reductions)
      /\ SetOf(reductions) \subseteq SetOf(reductions') \cup {reductions[pos]}
      /\ \A i \in 1..(pos - 1) : reductions'[i] = reductions[i]
  BY <1>1, <1>2, WithoutLeaves
<1>4. reductions' \in Seq(Prods)
  BY <1>1, <1>2, WithoutShortens
<1>5. At(reductions) = reductions[pos] /\ At(reductions) \in SetOf(reductions)
  BY <1>1 DEF At, SetOf
<1> QED BY <1>2, <1>3, <1>4, <1>5

LEMMA KeepLeaves ==
    ASSUME Inv, pos <= Len(reductions), KeepHere
    PROVE  /\ reductions' = reductions /\ reductions \in Seq(Prods)
           /\ pos' - 1 = pos /\ \A i \in 1..(pos' - 1) : i \in 1..(pos - 1) \/ reductions[i] = At(reductions)
           /\ At(reductions) \in SetOf(reductions)
  BY DEF KeepHere, Inv, At, SetOf

LEMMA ShiftReduceOrderInv == Inv /\ OrderInv /\ ShiftReduce => OrderInv'
<1> SUFFICES ASSUME Inv, OrderInv, ShiftReduce PROVE OrderInv'
  OBVIOUS
<1>0. WellFormed' /\ SupersetsAreNamed' /\ SetOf(reductions) \subseteq AllOf /\ AllOf' = AllOf
  BY SameCell, SameSupersets DEF OrderInv, ShiftReduce
<1>1. pos <= Len(reductions) /\ pos \in Nat /\ shift = TRUE /\ reductions \in Seq(Prods)
  BY DEF Inv, ShiftReduce
<1> DEFINE p == At(reductions)
           v == Verdict(p)
<1>2. /\ shift' = (shift /\ ~DropsShift(v))
      /\ IF DropsReduce(v) THEN RemoveHere ELSE KeepHere
      /\ pc' = "sr" /\ UNCHANGED <<cell, superset>>
  BY DEF ShiftReduce
<1>3. p \in SetOf(reductions)
  BY <1>1 DEF At, SetOf, Inv
<1> HIDE DEF p, v
<1>4. SetOf(reductions') \subseteq AllOf'
  <2>1. SetOf(reductions') \subseteq SetOf(reductions)
    BY <1>1, <1>2, RemoveLeaves, KeepLeaves
  <2> QED BY <1>0, <2>1
<1>5. WhileSR'
  <2> SUFFICES ASSUME IsDeclared PROVE WhileSR'
    <3>1. IsDeclared' = IsDeclared
      BY <1>2, SameSupersets
    <3> QED BY <3>1 DEF WhileSR
  <2>1. cell.shift /\ DeclaredAfterSR \subseteq SetOf(reductions)
        /\ \A i \in 1..(pos - 1) : reductions[i] \in DeclaredAfterSR /\ ~Outranks(reductions[i])
    BY <1>1 DEF OrderInv, WhileSR, ShiftReduce
  <2>2. (DropsShift(v) <=> Outranks(p)) /\ (DropsReduce(v) <=> p \notin DeclaredAfterSR)
    BY <1>0, <1>3, <2>1, VerdictAsDeclared DEF OrderInv, WhileWalking, ShiftReduce, p, v
  <2>3. shift' = ~Outranks(p)
    BY <1>1, <1>2, <2>2
  <2>4. Outranks(p) => p \in DeclaredAfterSR
    <3>1. PrecOf(p) \in Nat /\ cell.symPrec \in Nat
      BY <1>0, <1>3 DEF OrderInv, WellFormed
    <3> QED BY <1>0, <1>3, <2>1, <3>1 DEF DeclaredAfterSR, Outranks, Beats, Beaten, Level
  <2>5. CASE p \in DeclaredAfterSR
    <3>1. KeepHere
      BY <1>2, <2>2, <2>5
    <3>2. /\ reductions' = reductions
          /\ \A i \in 1..(pos' - 1) : i \in 1..(pos - 1) \/ reductions[i] = p
      BY <1>1, <3>1, KeepLeaves DEF p
    <3>3. shift' => \A i \in 1..(pos' - 1) :
              reductions'[i] \in DeclaredAfterSR /\ ~Outranks(reductions'[i])
      BY <2>1, <2>3, <2>5, <3>2
    <3> QED BY <1>2, <1>3, <2>1, <2>3, <3>2, <3>3, SameCell DEF WhileSR
  <2>6. CASE p \notin DeclaredAfterSR
    <3>1. RemoveHere
      BY <1>2, <2>2, <2>6
    <3>2. /\ SetOf(reductions) \subseteq SetOf(reductions') \cup {p}
          /\ pos' = pos /\ \A i \in 1..(pos - 1) : reductions'[i] = reductions[i]
      BY <1>1, <3>1, RemoveLeaves DEF p
    <3>3. shift' = TRUE /\ DeclaredAfterSR \subseteq SetOf(reductions')
      BY <2>1, <2>3, <2>4, <2>6, <3>2
    <3>4. \A i \in 1..(pos' - 1) : reductions'[i] \in DeclaredAfterSR /\ ~Outranks(reductions'[i])
      BY <2>1, <3>2
    <3> QED BY <1>2, <2>1, <3>3, <3>4, SameCell DEF WhileSR
  <2> QED BY <2>5, <2>6
<1> QED BY <1>0, <1>2, <1>4, <1>5
     DEF OrderInv, Untouched, WhileWalking, WhileRR, WhileSubset, OrderIndependent

LEMMA WalkUpOrderInv == Inv /\ OrderInv /\ WalkUp => OrderInv'
<1> SUFFICES ASSUME Inv, OrderInv, WalkUp PROVE OrderInv'
  OBVIOUS
<1>1. /\ pc = "maximal" /\ super \notin cell.maximal /\ superset[super] # NoNT
      /\ super' = superset[super]
      /\ UNCHANGED <<cell, superset, shift, reductions, pos, pc>>
  BY DEF WalkUp
<1>2. pos \in 1..Len(reductions) /\ reductions \in Seq(Prods)
  BY <1>1 DEF Inv
<1> DEFINE n == LeftOf(At(reductions))
<1>3. n \in NT /\ WellFormed /\ SupersetsAreNamed
  BY <1>1, <1>2 DEF OrderInv, WellFormed, At, SetOf
<1>4. n' = n
  BY <1>1 DEF At, LeftOf
<1> HIDE DEF n
<1>5. super \in Supersets(n) /\ \A k \in Supersets(n) \cap cell.maximal : k \in Supersets(super)
  BY <1>1 DEF OrderInv, WhileWalking, n
<1>6. super \in NT /\ super' \in Supersets(n)
  BY <1>1, <1>3, <1>5, SupersetsOfSuperset
<1>7. Supersets(super) \subseteq {super} \cup Supersets(super')
  BY <1>1, <1>3, <1>6, SupersetsOfSuperset
<1>8. \A k \in Supersets(n) \cap cell.maximal : k \in Supersets(super')
  BY <1>1, <1>5, <1>7
<1>9. WhileWalking'
  <2>1. \A x : Supersets(x)' = Supersets(x)
    BY <1>1, SameSupersets
  <2>2. Supersets(n)' = Supersets(n) /\ Supersets(super)' = Supersets(super')
    BY <1>1, <1>4 DEF Supersets
  <2> QED BY <1>1, <1>4, <1>6, <1>8, <2>2 DEF WhileWalking, n
<1>10. WhileSR'
  BY <1>1, SameCell, SameSupersets DEF OrderInv, WhileSR
<1>11. WellFormed' /\ SupersetsAreNamed' /\ SetOf(reductions') \subseteq AllOf'
  BY <1>1, SameCell, SameSupersets DEF OrderInv
<1> QED BY <1>1, <1>9, <1>10, <1>11
     DEF OrderInv, Untouched, WhileRR, WhileSubset, OrderIndependent

LEMMA ReduceReduceOrderInv == Inv /\ OrderInv /\ ReduceReduce => OrderInv'
<1> SUFFICES ASSUME Inv, OrderInv, ReduceReduce PROVE OrderInv'
  OBVIOUS
<1> DEFINE p == At(reductions)
<1>1. /\ pc = "rr" /\ pos <= Len(reductions) /\ UNCHANGED <<cell, superset, shift, pc>>
      /\ IF LosesToHighest(p) THEN RemoveHere ELSE KeepHere
  BY DEF ReduceReduce
<1>2. /\ WellFormed /\ SetOf(reductions) \subseteq AllOf /\ reductions \in Seq(Prods)
      /\ pos \in 1..Len(reductions) /\ p \in SetOf(reductions)
  BY <1>1 DEF OrderInv, Inv, At, SetOf
<1> HIDE DEF p
<1>3. WellFormed' /\ SupersetsAreNamed' /\ AllOf' = AllOf
  BY <1>1, SameCell, SameSupersets DEF OrderInv
<1>4. SetOf(reductions') \subseteq SetOf(reductions) /\ reductions' \in Seq(Prods)
  BY <1>1, RemoveLeaves, KeepLeaves
<1>5. HighestPrec(reductions)' = HighestPrec(reductions)
  <2>1. \A x \in SetOf(reductions) : PrecOf(x) \in Nat
    BY <1>2 DEF WellFormed
  <2>2. HighestPrec(reductions)' = HighestPrec(reductions')
    BY <1>1 DEF HighestPrec, PrecOf
  <2>3. CASE LosesToHighest(p)
    <3>1. PrecOf(reductions[pos]) < HighestPrec(reductions)
      BY <2>3 DEF LosesToHighest, p, At
    <3>2. HighestPrec(Without(reductions, pos)) = HighestPrec(reductions)
      BY <1>2, <2>1, <3>1, HighestStays
    <3> QED BY <1>1, <2>2, <2>3, <3>2 DEF RemoveHere
  <2>4. CASE ~LosesToHighest(p)
    BY <1>1, <2>2, <2>4 DEF KeepHere
  <2> QED BY <2>3, <2>4
<1>6. \A x : LosesToHighest(x)' = LosesToHighest(x)
  BY <1>1, <1>5 DEF LosesToHighest, PrecOf
<1>7. WhileRR'
  <2> SUFFICES ASSUME IsDeclared PROVE WhileRR'
    <3>1. IsDeclared' = IsDeclared
      BY <1>1, SameSupersets
    <3> QED BY <3>1 DEF WhileRR
  <2>1. CompetesAsDeclared /\ \A i \in 1..(pos - 1) : ~LosesToHighest(reductions[i])
    BY <1>1 DEF OrderInv, WhileRR
  <2>2. DeclaredAfterRR \subseteq SetOf(reductions')
    <3>1. CASE LosesToHighest(p)
      <4>1. p \notin DeclaredAfterRR
        BY <1>2, <2>1, <3>1, DeclaredDoNotLose
      <4>2. SetOf(reductions) \subseteq SetOf(reductions') \cup {p}
        BY <1>1, <3>1, RemoveLeaves DEF p
      <4> QED BY <2>1, <4>1, <4>2 DEF CompetesAsDeclared
    <3>2. CASE ~LosesToHighest(p)
      BY <1>1, <2>1, <3>2 DEF KeepHere, CompetesAsDeclared
    <3> QED BY <3>1, <3>2
  <2>3. /\ shift = DeclaredShift
        /\ \A x \in SetOf(reductions') \ DeclaredAfterSR :
              PrecOf(x) # 0 /\ \E q \in DeclaredAfterSR : PrecOf(q) > PrecOf(x)
        /\ \A x \in SetOf(reductions') \ DeclaredAfterRR : LosesToHighest(x)
    BY <1>4, <2>1 DEF CompetesAsDeclared
  <2>4. CompetesAsDeclared'
    <3>1. /\ DeclaredShift' = DeclaredShift /\ DeclaredAfterSR' = DeclaredAfterSR
          /\ DeclaredAfterRR' = DeclaredAfterRR /\ \A x : PrecOf(x)' = PrecOf(x)
          /\ SetOf(reductions)' = SetOf(reductions')
      BY <1>1, SameCell DEF PrecOf, SetOf
    <3>2. \A x \in SetOf(reductions') \ DeclaredAfterSR' :
              PrecOf(x)' # 0 /\ \E q \in DeclaredAfterSR' : PrecOf(q)' > PrecOf(x)'
      BY <2>3, <3>1
    <3> QED BY <1>1, <1>6, <2>2, <2>3, <3>1, <3>2 DEF CompetesAsDeclared
  <2>5. \A i \in 1..(pos' - 1) : ~LosesToHighest(reductions'[i])
    <3>1. CASE LosesToHighest(p)
      <4>1. pos' = pos /\ \A i \in 1..(pos - 1) : reductions'[i] = reductions[i]
        BY <1>1, <3>1, RemoveLeaves
      <4> QED BY <2>1, <4>1
    <3>2. CASE ~LosesToHighest(p)
      <4>1. /\ reductions' = reductions
            /\ \A i \in 1..(pos' - 1) : i \in 1..(pos - 1) \/ reductions[i] = p
        BY <1>1, <3>2, KeepLeaves DEF p
      <4> QED BY <2>1, <3>2, <4>1
    <3> QED BY <3>1, <3>2
  <2>6. \A i \in 1..(pos' - 1) : ~LosesToHighest(reductions[i])'
    BY <1>1, <1>5, <2>5 DEF LosesToHighest, PrecOf
  <2> QED BY <2>4, <2>6 DEF WhileRR
<1>8. SetOf(reductions') \subseteq AllOf'
  BY <1>2, <1>3, <1>4
<1> QED BY <1>1, <1>3, <1>7, <1>8
     DEF OrderInv, Untouched, WhileSR, WhileWalking, WhileSubset, OrderIndependent

LEMMA SubsetDirectiveOrderInv == Inv /\ OrderInv /\ SubsetDirective => OrderInv'
<1> SUFFICES ASSUME Inv, OrderInv, SubsetDirective PROVE OrderInv'
  OBVIOUS
<1> DEFINE p == At(reductions)
<1>1. /\ pc = "subset" /\ pos <= Len(reductions) /\ UNCHANGED <<cell, superset, shift, map, pc>>
      /\ IF YieldsSuperset(p) THEN RemoveHere ELSE KeepHere
  BY DEF SubsetDirective
<1>2. /\ WellFormed /\ SetOf(reductions) \subseteq AllOf /\ reductions \in Seq(Prods)
      /\ pos \in 1..Len(reductions) /\ p \in SetOf(reductions) /\ SupersetsAreNamed
  BY <1>1 DEF OrderInv, Inv, At, SetOf
<1> HIDE DEF p
<1>3. WellFormed' /\ SupersetsAreNamed' /\ AllOf' = AllOf
  BY <1>1, SameCell, SameSupersets DEF OrderInv
<1>4. SetOf(reductions') \subseteq SetOf(reductions) /\ reductions' \in Seq(Prods)
  BY <1>1, RemoveLeaves, KeepLeaves
<1>5. WhileSubset'
  <2> SUFFICES ASSUME IsDeclared PROVE WhileSubset'
    <3>1. IsDeclared' = IsDeclared
      BY <1>1, SameSupersets
    <3> QED BY <3>1 DEF WhileSubset
  <2>1. /\ shift = DeclaredShift
        /\ Declared \subseteq SetOf(reductions) /\ SetOf(reductions) \subseteq DeclaredAfterRR
        /\ map = {n \in {LeftOf(x) : x \in DeclaredAfterRR} : superset[n] # NoNT}
        /\ \A i \in 1..(pos - 1) : reductions[i] \in Declared
    BY <1>1 DEF OrderInv, WhileSubset
  <2>2. YieldsSuperset(p) <=> p \notin Declared
    <3>1. p \in DeclaredAfterRR /\ DeclaredAfterRR \subseteq AllOf
      BY <1>2, <2>1 DEF DeclaredAfterRR, DeclaredAfterSR
    <3>2. LeftOf(p) \in NT /\ \A q \in DeclaredAfterRR : LeftOf(q) \in NT
      BY <3>1, <1>2 DEF WellFormed
    <3>3. \A q \in DeclaredAfterRR :
              LeftOf(q) \in cell.subsets[LeftOf(p)] => superset[LeftOf(q)] # NoNT
      BY <1>2, <3>2 DEF SupersetsAreNamed
    <3>4. YieldsSuperset(p) <=> \E q \in DeclaredAfterRR : LeftOf(q) \in cell.subsets[LeftOf(p)]
      BY <2>1, <3>3 DEF YieldsSuperset
    <3> QED BY <3>1, <3>4 DEF Declared
  <2>3. Declared \subseteq SetOf(reductions') /\ \A i \in 1..(pos' - 1) : reductions'[i] \in Declared
    <3>1. CASE YieldsSuperset(p)
      <4>1. /\ SetOf(reductions) \subseteq SetOf(reductions') \cup {p}
            /\ pos' = pos /\ \A i \in 1..(pos - 1) : reductions'[i] = reductions[i]
        BY <1>1, <3>1, RemoveLeaves DEF p
      <4> QED BY <2>1, <2>2, <3>1, <4>1
    <3>2. CASE ~YieldsSuperset(p)
      <4>1. /\ reductions' = reductions
            /\ \A i \in 1..(pos' - 1) : i \in 1..(pos - 1) \/ reductions[i] = p
        BY <1>1, <3>2, KeepLeaves DEF p
      <4> QED BY <2>1, <2>2, <3>2, <4>1
    <3> QED BY <3>1, <3>2
  <2>4. /\ DeclaredShift' = DeclaredShift /\ DeclaredAfterRR' = DeclaredAfterRR
        /\ Declared' = Declared /\ \A x : LeftOf(x)' = LeftOf(x)
        /\ SetOf(reductions)' = SetOf(reductions')
    BY <1>1, SameCell DEF LeftOf, SetOf
  <2>5. map' = {n \in {LeftOf(x)' : x \in DeclaredAfterRR'} : superset'[n] # NoNT}
    BY <1>1, <2>1, <2>4
  <2> QED BY <1>1, <1>4, <2>1, <2>3, <2>4, <2>5 DEF WhileSubset
<1>6. SetOf(reductions') \subseteq AllOf'
  BY <1>2, <1>3, <1>4
<1> QED BY <1>1, <1>3, <1>5, <1>6
     DEF OrderInv, Untouched, WhileSR, WhileWalking, WhileRR, OrderIndependent

LEMMA NextSROrderInv == Inv /\ OrderInv /\ NextSR => OrderInv'
<1> SUFFICES ASSUME Inv, OrderInv, NextSR PROVE OrderInv'
  OBVIOUS
<1>1. pc = "sr" /\ UNCHANGED <<cell, superset, shift, reductions>>
  BY DEF NextSR
<1>2. /\ WellFormed /\ SetOf(reductions) \subseteq AllOf /\ reductions \in Seq(Prods)
      /\ SupersetsAreNamed
  BY <1>1 DEF OrderInv, Inv
<1>3. /\ WellFormed' /\ SupersetsAreNamed' /\ IsDeclared' = IsDeclared
      /\ SetOf(reductions') \subseteq AllOf'
  BY <1>1, <1>2, SameCell, SameSupersets
<1>4. CASE pos <= Len(reductions) /\ shift
  <2>1. pc' = "maximal" /\ super' = LeftOf(At(reductions)) /\ pos' = pos
    BY <1>4 DEF NextSR
  <2>2. WhileSR'
    BY <1>1, <1>3, <2>1, SameCell DEF OrderInv, WhileSR
  <2> DEFINE n == LeftOf(At(reductions))
  <2>3. n \in NT
    <3>1. pos \in 1..Len(reductions)
      BY <1>4 DEF Inv
    <3> QED BY <1>2, <3>1 DEF WellFormed, At, SetOf
  <2>4. n' = n
    BY <1>1, <2>1 DEF At, LeftOf
  <2> HIDE DEF n
  <2>5. n \in Supersets(n)
    BY <1>2, <2>3, SupersetsOfSuperset
  <2>6. WhileWalking'
    <3>1. Supersets(n)' = Supersets(n) /\ Supersets(super)' = Supersets(n)
      BY <1>1, <2>1, <2>4 DEF Supersets, n
    <3> QED BY <1>1, <2>1, <2>4, <2>5, <3>1 DEF WhileWalking, n
  <2> QED BY <1>3, <2>1, <2>2, <2>6 DEF OrderInv, Untouched, WhileRR, WhileSubset, OrderIndependent
<1>5. CASE ~(pos <= Len(reductions) /\ shift)
  <2>1. pos' = 1 /\ pc' = IF Len(reductions) > 1 THEN "rr" ELSE "count"
    BY <1>5 DEF NextSR
  <2>2. IsDeclared => CompetesAsDeclared
    BY <1>5, EndOfSR
  <2>3. CASE Len(reductions) > 1
    <3>1. pc' = "rr"
      BY <2>1, <2>3
    <3>2. \A i \in 1..(pos' - 1) : FALSE
      BY <2>1
    <3>3. CompetesAsDeclared' = CompetesAsDeclared
      <4>1. /\ DeclaredShift' = DeclaredShift /\ DeclaredAfterSR' = DeclaredAfterSR
            /\ DeclaredAfterRR' = DeclaredAfterRR
        BY <1>1, SameCell
      <4> QED BY <1>1, <4>1 DEF CompetesAsDeclared, SetOf, PrecOf, LosesToHighest, HighestPrec
    <3>4. WhileRR'
      BY <1>3, <2>2, <3>2, <3>3 DEF WhileRR
    <3> QED BY <1>3, <3>1, <3>4
         DEF OrderInv, Untouched, WhileSR, WhileWalking, WhileSubset, OrderIndependent
  <2>4. CASE ~(Len(reductions) > 1)
    <3>1. pc' = "count" /\ Len(reductions) <= 1
      BY <1>2, <2>1, <2>4
    <3>2. ASSUME IsDeclared PROVE shift = DeclaredShift /\ SetOf(reductions) = Declared
      BY <1>2, <2>2, <3>1, <3>2, SingleDoesNotLose, SingleIsDeclared DEF CompetesAsDeclared
    <3>3. OrderIndependent'
      BY <1>1, <1>3, <3>2, SameCell DEF OrderIndependent, SetOf
    <3> QED BY <1>3, <3>1, <3>3
         DEF OrderInv, Untouched, WhileSR, WhileWalking, WhileRR, WhileSubset
  <2> QED BY <2>3, <2>4
<1> QED BY <1>4, <1>5

LEMMA EndReduceReduceOrderInv == Inv /\ OrderInv /\ EndReduceReduce => OrderInv'
<1> SUFFICES ASSUME Inv, OrderInv, EndReduceReduce PROVE OrderInv'
  OBVIOUS
<1>1. pc = "rr" /\ pos > Len(reductions) /\ pos' = 1 /\ UNCHANGED <<cell, superset, shift, reductions>>
  BY DEF EndReduceReduce
<1>2. /\ WellFormed /\ SetOf(reductions) \subseteq AllOf /\ reductions \in Seq(Prods)
      /\ SupersetsAreNamed
  BY <1>1 DEF OrderInv, Inv
<1>3. /\ WellFormed' /\ SupersetsAreNamed' /\ IsDeclared' = IsDeclared
      /\ SetOf(reductions') \subseteq AllOf'
  BY <1>1, <1>2, SameCell, SameSupersets
<1>4. ASSUME IsDeclared
      PROVE  shift = DeclaredShift /\ SetOf(reductions) = DeclaredAfterRR
  <2>1. CompetesAsDeclared /\ \A i \in 1..(pos - 1) : ~LosesToHighest(reductions[i])
    BY <1>1, <1>4 DEF OrderInv, WhileRR
  <2>2. \A x \in SetOf(reductions) : ~LosesToHighest(x)
    BY <1>1, <1>2, <2>1 DEF SetOf, Inv
  <2> QED BY <2>1, <2>2 DEF CompetesAsDeclared
<1>5. Declared \subseteq DeclaredAfterRR
  BY DEF Declared
<1>6. CASE Len(reductions) > 1 /\ WithSuperset(reductions) # {}
  <2>1. pc' = "subset" /\ map' = WithSuperset(reductions)
    BY <1>6 DEF EndReduceReduce
  <2>2. {LeftOf(reductions[i]) : i \in DOMAIN reductions} = {LeftOf(p) : p \in SetOf(reductions)}
    BY DEF SetOf
  <2>3. map' = {n \in {LeftOf(p) : p \in SetOf(reductions)} : superset[n] # NoNT}
    BY <2>1, <2>2 DEF WithSuperset
  <2>4. /\ DeclaredShift' = DeclaredShift /\ DeclaredAfterRR' = DeclaredAfterRR
        /\ Declared' = Declared /\ \A x : LeftOf(x)' = LeftOf(x)
        /\ SetOf(reductions)' = SetOf(reductions)
    BY <1>1, SameCell DEF LeftOf, SetOf
  <2>5. \A i \in 1..(pos' - 1) : FALSE
    BY <1>1
  <2>6. IsDeclared => map' = {n \in {LeftOf(x)' : x \in DeclaredAfterRR'} : superset'[n] # NoNT}
    BY <1>1, <1>4, <2>3, <2>4
  <2>7. WhileSubset'
    BY <1>1, <1>3, <1>4, <1>5, <2>4, <2>5, <2>6 DEF WhileSubset
  <2> QED BY <1>3, <2>1, <2>7
       DEF OrderInv, Untouched, WhileSR, WhileWalking, WhileRR, OrderIndependent
<1>7. CASE ~(Len(reductions) > 1 /\ WithSuperset(reductions) # {})
  <2>1. pc' = "count"
    BY <1>7 DEF EndReduceReduce
  <2>2. ASSUME IsDeclared PROVE SetOf(reductions) = Declared
    <3>1. CASE Len(reductions) <= 1
      BY <1>2, <1>4, <2>2, <3>1, SingleIsDeclared
    <3>2. CASE WithSuperset(reductions) = {}
      <4>1. \A q \in SetOf(reductions) : superset[LeftOf(q)] = NoNT /\ LeftOf(q) \in NT
        BY <1>2, <3>2 DEF WithSuperset, SetOf, WellFormed
      <4>2. \A p, q \in SetOf(reductions) : LeftOf(q) \notin cell.subsets[LeftOf(p)]
        BY <1>2, <4>1 DEF SupersetsAreNamed
      <4> QED BY <1>4, <2>2, <4>2 DEF Declared
    <3>3. Len(reductions) \in Nat
      BY <1>2
    <3> QED BY <1>7, <3>1, <3>2, <3>3
  <2>3. OrderIndependent'
    BY <1>1, <1>3, <1>4, <2>2, SameCell DEF OrderIndependent, SetOf
  <2> QED BY <1>3, <2>1, <2>3 DEF OrderInv, Untouched, WhileSR, WhileWalking, WhileRR, WhileSubset
<1> QED BY <1>6, <1>7

LEMMA EndSubsetOrderInv == Inv /\ OrderInv /\ EndSubset => OrderInv'
<1> SUFFICES ASSUME Inv, OrderInv, EndSubset PROVE OrderInv'
  OBVIOUS
<1>1. /\ pc = "subset" /\ pos > Len(reductions) /\ pc' = "count"
      /\ UNCHANGED <<cell, superset, shift, reductions>>
  BY DEF EndSubset
<1>2. SetOf(reductions) \subseteq AllOf /\ reductions \in Seq(Prods)
  BY <1>1 DEF OrderInv, Inv
<1>3. /\ WellFormed' /\ SupersetsAreNamed' /\ IsDeclared' = IsDeclared
      /\ SetOf(reductions') \subseteq AllOf'
  BY <1>1, <1>2, SameCell, SameSupersets DEF OrderInv
<1>4. ASSUME IsDeclared PROVE shift = DeclaredShift /\ SetOf(reductions) = Declared
  <2>1. shift = DeclaredShift /\ Declared \subseteq SetOf(reductions)
        /\ \A i \in 1..(pos - 1) : reductions[i] \in Declared
    BY <1>1, <1>4 DEF OrderInv, WhileSubset
  <2>2. \A x \in SetOf(reductions) : x \in Declared
    BY <1>1, <1>2, <2>1 DEF SetOf, Inv
  <2> QED BY <2>1, <2>2
<1>5. OrderIndependent'
  BY <1>1, <1>3, <1>4, SameCell DEF OrderIndependent, SetOf
<1> QED BY <1>1, <1>3, <1>5 DEF OrderInv, Untouched, WhileSR, WhileWalking, WhileRR, WhileSubset

LEMMA NextOrderInv == Inv /\ OrderInv /\ [Next]_vars => OrderInv'
<1> SUFFICES ASSUME Inv, OrderInv, [Next]_vars PROVE OrderInv'
  OBVIOUS
<1>0. WellFormed /\ SetOf(reductions) \subseteq AllOf
  BY DEF OrderInv
<1>1. CASE ComputeSupersets
  <2>1. /\ pc = "supersets" /\ UNCHANGED <<cell, shift, reductions, pos>> /\ pc' \in {"failure", "begin"}
    BY <1>1 DEF ComputeSupersets
  <2>2. WellFormed' /\ SetOf(reductions') \subseteq AllOf'
    BY <1>0, <2>1, SameCell
  <2>3. pc' = "begin" => SupersetsAreNamed'
    <3> SUFFICES ASSUME pc' = "begin" PROVE SupersetsAreNamed'
      OBVIOUS
    <3>1. superset' = [n \in NT |-> IF \E m \in NT : n \in cell.subsets[m]
                                    THEN CHOOSE m \in NT : n \in cell.subsets[m] ELSE NoNT]
      BY <1>1 DEF ComputeSupersets
    <3>2. ASSUME NEW n \in NT
          PROVE  /\ superset'[n] \in NT \cup {NoNT}
                 /\ superset'[n] # NoNT <=> \E m \in NT : n \in cell.subsets[m]
      BY <1>0, <3>1 DEF WellFormed
    <3> QED BY <2>1, <3>2 DEF SupersetsAreNamed
  <2>4. Untouched'
    BY <2>1 DEF OrderInv, Untouched
  <2> QED BY <2>1, <2>2, <2>3, <2>4
       DEF OrderInv, WhileSR, WhileWalking, WhileRR, WhileSubset, OrderIndependent
<1>2. CASE Begin
  <2>1. /\ pc = "begin" /\ UNCHANGED <<cell, superset, shift, reductions, pos>>
        /\ pc' = IF actions <= 1 THEN "done" ELSE IF shift THEN "sr" ELSE "rr"
    BY <1>2 DEF Begin
  <2>2. shift = cell.shift /\ reductions = cell.reductions /\ pos = 1 /\ SupersetsAreNamed
    BY <2>1 DEF OrderInv, Untouched
  <2>3. WellFormed' /\ SupersetsAreNamed' /\ SetOf(reductions') \subseteq AllOf' /\ IsDeclared' = IsDeclared
    BY <1>0, <2>1, <2>2, SameCell, SameSupersets
  <2>4. \A i \in 1..(pos' - 1) : FALSE
    BY <2>1, <2>2
  <2>5. SetOf(reductions) = AllOf /\ DeclaredAfterSR \subseteq AllOf /\ shift \in BOOLEAN
        /\ reductions \in Seq(Prods)
    BY <2>2 DEF AllOf, DeclaredAfterSR, Inv
  <2>6. CASE pc' = "sr"
    <3>1. WhileSR'
      BY <2>1, <2>2, <2>4, <2>5, <2>6, SameCell DEF WhileSR, SetOf
    <3> QED BY <2>3, <2>6, <3>1
         DEF OrderInv, Untouched, WhileWalking, WhileRR, WhileSubset, OrderIndependent
  <2>7. CASE pc' = "rr"
    <3>1. ~cell.shift
      BY <2>1, <2>2, <2>7
    <3>2. DeclaredAfterSR = AllOf /\ shift = DeclaredShift
      BY <2>2, <2>5, <3>1 DEF DeclaredAfterSR, DeclaredShift
    <3>3. CompetesAsDeclared
      BY <1>0, <2>5, <3>2, ThenCompetes
    <3>4. CompetesAsDeclared' = CompetesAsDeclared
      <4>1. /\ DeclaredShift' = DeclaredShift /\ DeclaredAfterSR' = DeclaredAfterSR
            /\ DeclaredAfterRR' = DeclaredAfterRR
        BY <2>1, SameCell
      <4> QED BY <2>1, <4>1 DEF CompetesAsDeclared, SetOf, PrecOf, LosesToHighest, HighestPrec
    <3>5. WhileRR'
      BY <2>4, <3>3, <3>4 DEF WhileRR
    <3> QED BY <2>3, <2>7, <3>5
         DEF OrderInv, Untouched, WhileSR, WhileWalking, WhileSubset, OrderIndependent
  <2>8. CASE pc' = "done"
    BY <2>3, <2>8
       DEF OrderInv, Untouched, WhileSR, WhileWalking, WhileRR, WhileSubset, OrderIndependent
  <2> QED BY <2>1, <2>6, <2>7, <2>8
<1>3. CASE NextSR
  BY <1>3, NextSROrderInv
<1>4. CASE WalkUp
  BY <1>4, WalkUpOrderInv
<1>5. CASE ShiftReduce
  BY <1>5, ShiftReduceOrderInv
<1>6. CASE ReduceReduce
  BY <1>6, ReduceReduceOrderInv
<1>7. CASE EndReduceReduce
  BY <1>7, EndReduceReduceOrderInv
<1>8. CASE SubsetDirective
  BY <1>8, SubsetDirectiveOrderInv
<1>9. CASE EndSubset
  BY <1>9, EndSubsetOrderInv
<1>10. CASE Count
  <2>1. /\ pc = "count" /\ UNCHANGED <<cell, superset>> /\ pc' \in {"done", "force"}
        /\ reductions' = reductions \/ reductions' = << >>
    BY <1>10 DEF Count
  <2>2. SetOf(reductions') \subseteq SetOf(reductions)
    BY <2>1 DEF SetOf
  <2>3. WellFormed' /\ SupersetsAreNamed' /\ SetOf(reductions') \subseteq AllOf'
    BY <1>0, <2>1, <2>2, SameCell, SameSupersets DEF OrderInv
  <2> QED BY <2>1, <2>3
       DEF OrderInv, Untouched, WhileSR, WhileWalking, WhileRR, WhileSubset, OrderIndependent
<1>11. CASE ForceOne
  <2>1. /\ pc = "force" /\ UNCHANGED <<cell, superset>> /\ pc' \in {"done", "force"}
    BY <1>11 DEF ForceOne
  <2>2. SetOf(reductions') \subseteq SetOf(reductions)
    <3>1. CASE Len(reductions) >= 2
      <4>1. Later(reductions) \in 1..Len(reductions) /\ reductions \in Seq(Prods)
        BY <3>1 DEF Later, Inv
      <4> QED BY <1>11, <3>1, <4>1, WithoutLeaves DEF ForceOne
    <3>2. CASE ~(Len(reductions) >= 2)
      BY <1>11, <3>2 DEF ForceOne
    <3> QED BY <3>1, <3>2
  <2>3. WellFormed' /\ SupersetsAreNamed' /\ SetOf(reductions') \subseteq AllOf'
    BY <1>0, <2>1, <2>2, SameCell, SameSupersets DEF OrderInv
  <2> QED BY <2>1, <2>3
       DEF OrderInv, Untouched, WhileSR, WhileWalking, WhileRR, WhileSubset, OrderIndependent
<1>12. CASE UNCHANGED vars
  <2>1. UNCHANGED <<cell, superset, shift, reductions, pos, super, map, pc>>
    BY <1>12 DEF vars
  <2>2. /\ WellFormed' = WellFormed /\ SupersetsAreNamed' = SupersetsAreNamed
        /\ SetOf(reductions)' = SetOf(reductions) /\ AllOf' = AllOf
        /\ IsDeclared' = IsDeclared
    BY <2>1, SameCell, SameSupersets DEF SetOf
  <2>3. Untouched' = Untouched /\ WhileWalking' = WhileWalking
    BY <2>1 DEF Untouched, WhileWalking, Supersets, LeftOf, At
  <2>4. WhileSR' = WhileSR
    BY <2>1, <2>2, SameCell DEF WhileSR
  <2>5. WhileRR' = WhileRR
    <3>1. /\ DeclaredShift' = DeclaredShift /\ DeclaredAfterSR' = DeclaredAfterSR
          /\ DeclaredAfterRR' = DeclaredAfterRR
      BY <2>1, SameCell
    <3> QED BY <2>1, <2>2, <3>1 DEF WhileRR, CompetesAsDeclared, PrecOf, LosesToHighest, HighestPrec
  <2>6. WhileSubset' = WhileSubset
    <3>1. /\ DeclaredShift' = DeclaredShift /\ Declared' = Declared
          /\ DeclaredAfterRR' = DeclaredAfterRR
      BY <2>1, SameCell
    <3> QED BY <2>1, <2>2, <3>1 DEF WhileSubset, LeftOf
  <2>7. OrderIndependent' = OrderIndependent
    BY <2>1, <2>2, SameCell DEF OrderIndependent, Conflicting, B2N
  <2> QED BY <2>1, <2>2, <2>3, <2>4, <2>5, <2>6, <2>7 DEF OrderInv
<1> QED
  BY <1>1, <1>2, <1>3, <1>4, <1>5, <1>6, <1>7, <1>8, <1>9, <1>10, <1>11, <1>12 DEF Next, Finished

-----------------------------------------------------------------------------
(* No cell becomes an error entry that nobody asked for *)

\* what is below a subset is below
LEMMA BelowSubset ==
    ASSUME WellFormed, NEW n \in NT, NEW m \in cell.subsets[n]
    PROVE  m \in NT /\ n \in Below(n) /\ Below(m) \subseteq Below(n)
<1>1. m \in NT
  BY DEF WellFormed
<1>2. n \in Below(n)
  BY DEF Below
<1>3. ASSUME NEW k \in Below(m), NEW S \in SUBSET NT, n \in S, \A x \in S : cell.subsets[x] \subseteq S
      PROVE  k \in S
  <2>1. m \in S
    BY <1>3
  <2> QED BY <1>3, <2>1 DEF Below
<1>4. Below(m) \subseteq Below(n)
  BY <1>3 DEF Below
<1> QED BY <1>1, <1>2, <1>4

\* Of reductions to nonterminals whose subsets do not form a cycle, there is one to a
\* nonterminal that has none of the others' as a subset.
LEMMA LowestSurvives ==
    ASSUME WellFormed, Acyclic, NEW s \in Seq(Prods), SetOf(s) \subseteq AllOf, SetOf(s) # {}
    PROVE  \E p \in SetOf(s) : \A q \in SetOf(s) : LeftOf(q) \notin cell.subsets[LeftOf(p)]
<1> DEFINE I == 1..Len(s)
           W(i) == {j \in I : LeftOf(s[j]) \in Below(LeftOf(s[i]))}
           C == {Cardinality(W(i)) : i \in I}
<1>1. IsFiniteSet(I)
  BY FS_Interval
<1>2. \A i \in I : IsFiniteSet(W(i)) /\ Cardinality(W(i)) \in Nat
  <2> TAKE i \in I
  <2>1. W(i) \subseteq I
    OBVIOUS
  <2> HIDE DEF I, W
  <2> QED BY <1>1, <2>1, FS_Subset, FS_CardinalityType
<1>3. C \subseteq Nat /\ C # {}
  <2>1. I # {}
    BY DEF SetOf
  <2> HIDE DEF I, W
  <2> QED BY <1>2, <2>1
<1>4. PICK c \in C : \A d \in C : c <= d
  <2> HIDE DEF C
  <2> QED BY <1>3, Least
<1>5. PICK i \in I : c = Cardinality(W(i))
  BY <1>4
<1>6. \A j \in I : Cardinality(W(i)) <= Cardinality(W(j))
  BY <1>4, <1>5
<1>7. \A j \in I : LeftOf(s[j]) \in NT
  BY DEF SetOf, WellFormed
<1>8. ASSUME NEW j \in I, LeftOf(s[j]) \in cell.subsets[LeftOf(s[i])]
      PROVE  FALSE
  <2>1. LeftOf(s[i]) \in Below(LeftOf(s[i])) /\ Below(LeftOf(s[j])) \subseteq Below(LeftOf(s[i]))
    BY <1>7, <1>8, BelowSubset
  <2>2. LeftOf(s[i]) \notin Below(LeftOf(s[j]))
    BY <1>7, <1>8 DEF Acyclic
  <2>3. W(j) \subseteq W(i) /\ i \in W(i) /\ i \notin W(j)
    BY <2>1, <2>2
  <2> HIDE DEF W, I
  <2>4. Cardinality(W(j)) <= Cardinality(W(i)) /\ Cardinality(W(i)) # Cardinality(W(j))
    BY <1>2, <2>3, FS_Subset
  <2> QED BY <1>2, <1>6, <2>4
<1>9. s[i] \in SetOf(s)
  BY DEF SetOf
<1>10. \A q \in SetOf(s) : LeftOf(q) \notin cell.subsets[LeftOf(s[i])]
  BY <1>8 DEF SetOf
<1> QED BY <1>9, <1>10

LEMMA InitSilentInv == WellFormed /\ Init => SilentInv
<1> SUFFICES ASSUME WellFormed, Init PROVE SilentInv
  OBVIOUS
<1>1. shift = cell.shift /\ reductions = cell.reductions /\ pc = "supersets"
  BY DEF Init
<1>2. SetOf(reductions) = AllOf
  BY <1>1 DEF AllOf
<1>3. NotAsked => shift \/ SetOf(reductions) # {}
  BY <1>1, <1>2 DEF NotAsked
<1> QED BY <1>1, <1>2, <1>3 DEF SilentInv

\* one shift is not dropped together with the reduction it was compared with
LEMMA DropsOne ==
    ASSUME WellFormed, NotAsked, cell.shift, NEW p \in AllOf, DropsShift(Verdict(p))
    PROVE  ~DropsReduce(Verdict(p))
<1>1. ~(cell.assoc = "NONASSOC" /\ Level(p))
  BY DEF NotAsked
<1>2. PrecOf(p) \in Nat /\ cell.symPrec \in Nat /\ cell.assoc \in AssocKind
  BY DEF WellFormed
<1> DEFINE k == PrecOf(p)
           byAssoc == CASE cell.assoc = "LEFT"       -> "dropShift"
                        [] cell.assoc = "RIGHT"      -> "dropReduce"
                        [] cell.assoc = "NONASSOC"   -> "dropBoth"
                        [] cell.assoc = "NEVERASSOC" -> "error"
                        [] cell.assoc = "SPLIT"      -> "split"
<1>3. Verdict(p) = IF super \in cell.maximal /\ super \in cell.extending THEN "dropReduce"
                   ELSE IF k = 0 \/ cell.symPrec = 0 THEN "keep"
                   ELSE IF k > cell.symPrec THEN "dropShift"
                   ELSE IF k < cell.symPrec THEN "dropReduce"
                   ELSE byAssoc
  BY DEF Verdict
<1>4. Level(p) => byAssoc # "dropBoth"
  BY <1>1, <1>2 DEF AssocKind
<1> HIDE DEF byAssoc
<1>5. Verdict(p) # "dropBoth"
  BY <1>2, <1>3, <1>4 DEF Level
<1> QED BY <1>5 DEF DropsShift, DropsReduce

\* a reduction that was removed leaves those that were not
LEMMA OthersAreLeft ==
    ASSUME Inv, pos <= Len(reductions), RemoveHere, NEW q \in SetOf(reductions), q # At(reductions)
    PROVE  q \in SetOf(reductions')
BY RemoveLeaves

LEMMA NextSilentInv == Inv /\ SilentInv /\ [Next]_vars => SilentInv'
<1> SUFFICES ASSUME Inv, SilentInv, [Next]_vars PROVE SilentInv'
  OBVIOUS
<1>0. WellFormed /\ SetOf(reductions) \subseteq AllOf /\ (shift => cell.shift)
  BY DEF SilentInv
<1>a. cell' = cell
  BY DEF Next, vars, ComputeSupersets, Begin, NextSR, WalkUp, ShiftReduce, ReduceReduce,
         EndReduceReduce, SubsetDirective, EndSubset, Count, ForceOne, Finished
<1>b. WellFormed' /\ AllOf' = AllOf /\ NotAsked' = NotAsked
  BY <1>0, <1>a, SameCell
<1>1. CASE ComputeSupersets \/ Begin \/ NextSR \/ WalkUp \/ EndSubset
  <2>1. UNCHANGED <<shift, reductions>> /\ pc' # "subset"
        /\ (pc' \in {"supersets", "begin"} => pc \in {"supersets", "begin"})
    BY <1>1 DEF ComputeSupersets, Begin, NextSR, WalkUp, EndSubset
  <2>2. SetOf(reductions)' = SetOf(reductions)
    BY <2>1 DEF SetOf
  <2> QED BY <1>0, <1>a, <1>b, <2>1, <2>2 DEF SilentInv
<1>2. CASE ShiftReduce
  <2> DEFINE p == At(reductions)
             v == Verdict(p)
  <2>1. /\ pos <= Len(reductions) /\ shift = TRUE /\ pc' = "sr" /\ p \in SetOf(reductions)
        /\ shift' = (shift /\ ~DropsShift(v))
        /\ IF DropsReduce(v) THEN RemoveHere ELSE KeepHere
    BY <1>2 DEF ShiftReduce, Inv, At, SetOf
  <2>2. SetOf(reductions') \subseteq SetOf(reductions)
    BY <2>1, RemoveLeaves, KeepLeaves
  <2>3. ASSUME NotAsked PROVE shift' \/ SetOf(reductions') # {}
    <3>1. DropsShift(v) => ~DropsReduce(v)
      BY <1>0, <2>1, <2>3, DropsOne
    <3>2. CASE DropsShift(v)
      BY <2>1, <3>1, <3>2, KeepLeaves
    <3>3. CASE ~DropsShift(v)
      BY <2>1, <3>3
    <3> QED BY <3>2, <3>3
  <2> QED BY <1>0, <1>a, <1>b, <2>1, <2>2, <2>3 DEF SilentInv
<1>3. CASE ReduceReduce
  <2> DEFINE p == At(reductions)
  <2>1. /\ pc = "rr" /\ pc' = "rr" /\ shift' = shift /\ pos <= Len(reductions)
        /\ IF LosesToHighest(p) THEN RemoveHere ELSE KeepHere
    BY <1>3 DEF ReduceReduce
  <2>2. p \in SetOf(reductions) /\ reductions \in Seq(Prods)
    BY <2>1 DEF Inv, At, SetOf
  <2> HIDE DEF p
  <2>3. SetOf(reductions') \subseteq SetOf(reductions)
    BY <2>1, RemoveLeaves, KeepLeaves
  <2>4. SetOf(reductions') # {}
    <3>1. CASE LosesToHighest(p)
      <4>1. PICK q \in SetOf(reductions) : PrecOf(q) > PrecOf(p)
        BY <1>0, <2>2, <3>1, LosingMeans
      <4>2. q # p
        <5>1. PrecOf(p) \in Nat
          BY <1>0, <2>2 DEF WellFormed
        <5> QED BY <4>1, <5>1
      <4> QED BY <2>1, <3>1, <4>2, OthersAreLeft DEF p
    <3>2. CASE ~LosesToHighest(p)
      BY <2>1, <2>2, <3>2, KeepLeaves
    <3> QED BY <3>1, <3>2
  <2> QED BY <1>0, <1>a, <1>b, <2>1, <2>3, <2>4 DEF SilentInv
<1>4. CASE EndReduceReduce
  <2>1. /\ pc = "rr" /\ pc' \in {"subset", "count"} /\ UNCHANGED <<superset, shift, reductions>>
        /\ pc' = "subset" => map' = WithSuperset(reductions)
    BY <1>4 DEF EndReduceReduce
  <2>2. SetOf(reductions)' = SetOf(reductions)
    BY <2>1 DEF SetOf
  <2>3. ASSUME NotAsked, pc' = "subset", ~shift
        PROVE  \E p \in SetOf(reductions') : ~YieldsSuperset(p)'
    <3>1. SetOf(reductions) # {} /\ reductions \in Seq(Prods) /\ Acyclic
      BY <2>3 DEF SilentInv, Inv, NotAsked
    <3>2. PICK p \in SetOf(reductions) :
              \A q \in SetOf(reductions) : LeftOf(q) \notin cell.subsets[LeftOf(p)]
      BY <1>0, <3>1, LowestSurvives
    <3>3. map' \subseteq {LeftOf(q) : q \in SetOf(reductions)}
      BY <2>1, <2>3 DEF WithSuperset, SetOf
    <3>4. cell.subsets[LeftOf(p)] \cap map' = {}
      BY <3>2, <3>3
    <3>5. ~YieldsSuperset(p)'
      BY <1>a, <3>4 DEF YieldsSuperset, LeftOf
    <3> QED BY <2>2, <3>5
  <2> QED BY <1>0, <1>a, <1>b, <2>1, <2>2, <2>3 DEF SilentInv
<1>5. CASE SubsetDirective
  <2> DEFINE p == At(reductions)
  <2>1. /\ pc = "subset" /\ pc' = "subset" /\ UNCHANGED <<shift, map>> /\ pos <= Len(reductions)
        /\ IF YieldsSuperset(p) THEN RemoveHere ELSE KeepHere
    BY <1>5 DEF SubsetDirective
  <2> HIDE DEF p
  <2>2. SetOf(reductions') \subseteq SetOf(reductions)
    BY <2>1, RemoveLeaves, KeepLeaves
  <2>3. ASSUME NotAsked, ~shift
        PROVE  \E q \in SetOf(reductions') : ~YieldsSuperset(q)'
    <3>1. PICK q \in SetOf(reductions) : ~YieldsSuperset(q)
      BY <2>1, <2>3 DEF SilentInv
    <3>2. q \in SetOf(reductions')
      <4>1. CASE YieldsSuperset(p)
        BY <2>1, <3>1, <4>1, OthersAreLeft DEF p
      <4>2. CASE ~YieldsSuperset(p)
        BY <2>1, <4>2 DEF KeepHere
      <4> QED BY <4>1, <4>2
    <3>3. ~YieldsSuperset(q)'
      BY <1>a, <2>1, <3>1 DEF YieldsSuperset, LeftOf
    <3> QED BY <3>2, <3>3
  <2> QED BY <1>0, <1>a, <1>b, <2>1, <2>2, <2>3 DEF SilentInv
<1>6. CASE Count
  <2>1. /\ pc' \in {"done", "force"} /\ shift' = shift
        /\ reductions' = reductions \/ (shift /\ reductions' = << >>)
    BY <1>6 DEF Count
  <2>2. SetOf(reductions') \subseteq SetOf(reductions)
        /\ (~shift => SetOf(reductions') = SetOf(reductions))
    BY <2>1 DEF SetOf
  <2> QED BY <1>0, <1>a, <1>b, <2>1, <2>2 DEF SilentInv
<1>7. CASE ForceOne
  <2>1. pc' \in {"done", "force"} /\ shift' = shift
    BY <1>7 DEF ForceOne
  <2>2. SetOf(reductions') \subseteq SetOf(reductions)
        /\ (SetOf(reductions) # {} => SetOf(reductions') # {})
    <3>1. CASE Len(reductions) >= 2
      <4> DEFINE i == Later(reductions)
      <4>1. i \in 1..Len(reductions) /\ reductions \in Seq(Prods)
        BY <3>1 DEF Later, Inv
      <4>2. reductions' = Without(reductions, i)
        BY <1>7, <3>1 DEF ForceOne
      <4> HIDE DEF i
      <4>3. /\ SetOf(reductions') \subseteq SetOf(reductions)
            /\ reductions' \in Seq(Prods) /\ Len(reductions') >= 1
        BY <3>1, <4>1, <4>2, WithoutLeaves, WithoutShortens
      <4>4. reductions'[1] \in SetOf(reductions')
        BY <4>3 DEF SetOf
      <4> QED BY <4>3, <4>4
    <3>2. CASE ~(Len(reductions) >= 2)
      BY <1>7, <3>2 DEF ForceOne
    <3> QED BY <3>1, <3>2
  <2> QED BY <1>0, <1>a, <1>b, <2>1, <2>2 DEF SilentInv
<1>8. CASE UNCHANGED vars
  <2>1. UNCHANGED <<cell, shift, reductions, map, pc>>
    BY <1>8 DEF vars
  <2>2. SetOf(reductions)' = SetOf(reductions) /\ \A p : YieldsSuperset(p)' = YieldsSuperset(p)
    BY <2>1 DEF SetOf, YieldsSuperset, LeftOf
  <2> QED BY <1>0, <1>b, <2>1, <2>2 DEF SilentInv
<1> QED BY <1>1, <1>2, <1>3, <1>4, <1>5, <1>6, <1>7, <1>8 DEF Next, Finished

LEMMA SilentInvSuffices == SilentInv => NoSilentError
<1> SUFFICES ASSUME SilentInv, pc = "done", ~shift, reductions = << >>, cell.shift \/ AllOf # {},
                    ~(cell.assoc = "NONASSOC" /\ cell.shift /\ \E p \in AllOf : Level(p)), Acyclic
             PROVE  FALSE
  BY DEF NoSilentError
<1>1. SetOf(reductions) = {}
  BY DEF SetOf
<1> QED BY <1>1 DEF SilentInv, NotAsked

\* every input is well-formed
CellsOK == NoNT \notin NT /\ Cells \subseteq Cell

LEMMA CellsAreWellFormed == CellsOK /\ Init => WellFormed
<1> SUFFICES ASSUME CellsOK, Init PROVE WellFormed
  OBVIOUS
<1>1. cell \in Cell /\ NoNT \notin NT
  BY DEF CellsOK, Init
<1>2. AllOf \subseteq Prods
  BY <1>1 DEF AllOf, SetOf, Cell
<1> QED BY <1>1, <1>2 DEF WellFormed, Cell, PrecOf, LeftOf

\* Whatever the cell, what is left of it does not depend on the order in which the
\* directives looked at its actions.
THEOREM OrderDoesNotMatter == CellsOK /\ Spec => []OrderIndependent
<1>1. CellsOK /\ Init => Inv /\ OrderInv
  BY CellsAreWellFormed, InitInv, InitOrderInv DEF CellsOK
<1>2. OrderInv => OrderIndependent
  BY DEF OrderInv
<1> QED BY <1>1, <1>2, NextInv, NextOrderInv, PTL DEF Spec

\* Whatever the cell, it becomes an error entry only if that was asked for, or
\* nonterminals are declared subsets of each other.
THEOREM ErrorsAreAskedFor == CellsOK /\ Spec => []NoSilentError
<1>1. CellsOK /\ Init => Inv /\ SilentInv
  BY CellsAreWellFormed, InitInv, InitSilentInv DEF CellsOK
<1> QED BY <1>1, NextInv, NextSilentInv, SilentInvSuffices, PTL DEF Spec

-----------------------------------------------------------------------------
(* The order of what is left *)

\* r is what is left of list when some of its elements are removed
Sublist(r, list) ==
    \E f \in [1..Len(r) -> 1..Len(list)] :
        /\ \A a, b \in 1..Len(r) : a < b => f[a] < f[b]
        /\ \A a \in 1..Len(r) : r[a] = list[f[a]]

LEMMA WithoutIsSublist ==
    ASSUME NEW S, NEW s \in Seq(S), NEW i \in 1..Len(s), NEW list, Sublist(s, list), Len(list) \in Nat
    PROVE  Sublist(Without(s, i), list)
<1>1. PICK f \in [1..Len(s) -> 1..Len(list)] :
        /\ \A a, b \in 1..Len(s) : a < b => f[a] < f[b]
        /\ \A a \in 1..Len(s) : s[a] = list[f[a]]
  BY DEF Sublist
<1> DEFINE w == Without(s, i)
           n == Len(s) - 1
           g == [k \in 1..n |-> IF k < i THEN f[k] ELSE f[k + 1]]
<1>2. Len(w) = n /\ n \in Nat /\ Len(s) = n + 1
  BY WithoutShortens
<1>3. \A k \in 1..n : w[k] = IF k < i THEN s[k] ELSE s[k + 1]
  BY DEF Without
<1>4. \A k \in 1..n : g[k] = IF k < i THEN f[k] ELSE f[k + 1]
  OBVIOUS
<1>5. g \in [1..n -> 1..Len(list)]
  BY <1>1, <1>2
<1> HIDE DEF g, w, n
<1>6. \A a, b \in 1..n : a < b => g[a] < g[b]
  <2> SUFFICES ASSUME NEW a \in 1..n, NEW b \in 1..n, a < b PROVE g[a] < g[b]
    OBVIOUS
  <2>1. a \in 1..Len(s) /\ a + 1 \in 1..Len(s) /\ b \in 1..Len(s) /\ b + 1 \in 1..Len(s) /\ a + 1 < b + 1 /\ a < b + 1
    BY <1>2
  <2>2. f[a] < f[b] /\ f[a + 1] < f[b + 1] /\ f[a] < f[b + 1]
    BY <1>1, <2>1
  <2>3. ~(b < i /\ ~(a < i))
    BY <1>2
  <2> QED BY <1>4, <2>2, <2>3
<1>7. \A a \in 1..n : w[a] = list[g[a]]
  <2> SUFFICES ASSUME NEW a \in 1..n PROVE w[a] = list[g[a]]
    OBVIOUS
  <2>1. a \in 1..Len(s) /\ a + 1 \in 1..Len(s)
    BY <1>2
  <2> QED BY <1>1, <1>3, <1>4, <2>1
<1> QED BY <1>2, <1>5, <1>6, <1>7 DEF Sublist, w

LEMMA SublistOfItself ==
    ASSUME NEW S, NEW s \in Seq(S)
    PROVE  Sublist(s, s)
<1> DEFINE f == [k \in 1..Len(s) |-> k]
<1>1. f \in [1..Len(s) -> 1..Len(s)] /\ \A k \in 1..Len(s) : f[k] = k
  OBVIOUS
<1> HIDE DEF f
<1> QED BY <1>1 DEF Sublist

LEMMA NothingIsSublist == \A list : Sublist(<<>>, list)
<1> TAKE list
<1> DEFINE n == Len(<<>>)
           f == [k \in 1..n |-> 0]
<1>1. n = 0
  OBVIOUS
<1> HIDE DEF n
<1>2. \A k \in 1..n : FALSE
  BY <1>1
<1>3. f \in [1..n -> 1..Len(list)]
  BY <1>2
<1> HIDE DEF f
<1>4. /\ \A a, b \in 1..n : a < b => f[a] < f[b]
      /\ \A a \in 1..n : <<>>[a] = list[f[a]]
  BY <1>2
<1> QED BY <1>3, <1>4 DEF Sublist, n

\* reductions are only ever removed from the list
KeptInOrder == cell.reductions \in Seq(Prods) /\ Sublist(reductions, cell.reductions)

LEMMA InitKeptInOrder ==
    ASSUME Init, cell.reductions \in Seq(Prods)
    PROVE  KeptInOrder
BY SublistOfItself DEF KeptInOrder, Init

LEMMA RemovedInOrder ==
    ASSUME KeptInOrder, reductions \in Seq(Prods), UNCHANGED cell, NEW i \in 1..Len(reductions),
           reductions' = Without(reductions, i)
    PROVE  KeptInOrder'
BY WithoutIsSublist DEF KeptInOrder

LEMMA NextKeptInOrder == Inv /\ KeptInOrder /\ [Next]_vars => KeptInOrder'
<1> SUFFICES ASSUME Inv, KeptInOrder, [Next]_vars PROVE KeptInOrder'
  OBVIOUS
<1>0. reductions \in Seq(Prods) /\ pos \in Nat \ {0} /\ (pc = "maximal" => pos <= Len(reductions))
  BY DEF Inv
<1>1. ASSUME UNCHANGED <<cell, reductions>> PROVE KeptInOrder'
  BY <1>1 DEF KeptInOrder
<1>2. ASSUME UNCHANGED cell, RemoveHere, pos <= Len(reductions) PROVE KeptInOrder'
  <2>1. pos \in 1..Len(reductions) /\ reductions' = Without(reductions, pos)
    BY <1>0, <1>2 DEF RemoveHere
  <2> QED BY <1>0, <1>2, <2>1, RemovedInOrder
<1>3. CASE ComputeSupersets \/ Begin \/ NextSR \/ WalkUp \/ EndReduceReduce \/ EndSubset
           \/ Finished \/ UNCHANGED vars
  BY <1>1, <1>3 DEF ComputeSupersets, Begin, NextSR, WalkUp, EndReduceReduce, EndSubset, Finished, vars
<1>4. CASE ShiftReduce
  BY <1>0, <1>1, <1>2, <1>4 DEF ShiftReduce, KeepHere
<1>5. CASE ReduceReduce
  BY <1>1, <1>2, <1>5 DEF ReduceReduce, KeepHere
<1>6. CASE SubsetDirective
  BY <1>1, <1>2, <1>6 DEF SubsetDirective, KeepHere
<1>7. CASE Count
  <2>1. UNCHANGED cell /\ (reductions' = reductions \/ reductions' = <<>>)
    BY <1>7 DEF Count
  <2>2. ASSUME reductions' = <<>> PROVE KeptInOrder'
    <3>2. Sublist(<<>>, cell.reductions)
      BY NothingIsSublist
    <3> QED BY <2>1, <2>2, <3>2 DEF KeptInOrder
  <2> QED BY <1>1, <2>1, <2>2
<1>8. CASE ForceOne
  <2>1. CASE Len(reductions) >= 2
    <3>1. Later(reductions) \in 1..Len(reductions)
      BY <1>0, <2>1 DEF Later
    <3>2. UNCHANGED cell /\ reductions' = Without(reductions, Later(reductions))
      BY <1>8, <2>1 DEF ForceOne
    <3> QED BY <1>0, <3>1, <3>2, RemovedInOrder
  <2>2. CASE ~(Len(reductions) >= 2)
    BY <1>1, <1>8, <2>2 DEF ForceOne
  <2> QED BY <2>1, <2>2
<1> QED BY <1>3, <1>4, <1>5, <1>6, <1>7, <1>8 DEF Next

-----------------------------------------------------------------------------
(* What is left in the end *)

\* a conflict is a reason to look at the actions one by one
Entered == pc \notin {"supersets", "begin", "done", "failure"} => Conflicting

\* once conflicts are counted, what is left is what the declarations say, or, without
\* allowAmbig, the first of it
Left ==
    /\ shift = DeclaredShift
    /\ SetOf(reductions) \subseteq Declared
    /\ IF cell.allowAmbig
       THEN pc = "done" /\ SetOf(reductions) = Declared
       ELSE IF shift THEN pc = "done" /\ reductions = <<>>
       ELSE /\ \A p \in Declared : \E q \in SetOf(reductions) : q <= p
            /\ pc = "done" => Len(reductions) <= 1

LeftAsDeclared == Entered /\ (pc \in {"force", "done"} /\ IsDeclared => Left)

\* a cell without a conflict is what the declarations say
LEMMA NoConflictIsDeclared ==
    ASSUME WellFormed, IsDeclared, B2N(cell.shift) + Len(cell.reductions) <= 1
    PROVE  /\ DeclaredShift = cell.shift /\ Declared = AllOf
           /\ cell.shift => cell.reductions = <<>>
           /\ Len(cell.reductions) <= 1
<1>1. cell.reductions \in Seq(Prods) /\ cell.shift \in BOOLEAN
  BY DEF WellFormed
<1>2. PICK list : list = cell.reductions
  OBVIOUS
<1>3. list \in Seq(Prods) /\ Len(list) \in Nat
  BY <1>1, <1>2
<1>4. B2N(cell.shift) \in {0, 1} /\ (cell.shift => B2N(cell.shift) = 1) /\ (~cell.shift => B2N(cell.shift) = 0)
  BY TruthCounts
<1>5. Len(list) <= 1 /\ (cell.shift => Len(list) = 0)
  BY <1>2, <1>3, <1>4
<1>6. Len(list) = 0 => list = <<>>
  BY <1>3
<1>7. cell.shift => list = <<>> /\ AllOf = {}
  BY <1>2, <1>5, <1>6 DEF AllOf, SetOf
<1>8. \A p, q \in AllOf : p = q
  BY <1>2, <1>3, <1>5 DEF AllOf, SetOf
<1>9. DeclaredShift = cell.shift
  BY <1>1, <1>7 DEF DeclaredShift
<1>10. DeclaredAfterSR = AllOf
  BY <1>7 DEF DeclaredAfterSR
<1>11. DeclaredAfterRR = AllOf
  <2>1. \A p, q \in AllOf : PrecOf(q) <= PrecOf(p)
    <3>1. \A p \in AllOf : PrecOf(p) \in Nat
      BY DEF WellFormed
    <3> QED BY <1>8, <3>1
  <2> QED BY <1>10, <2>1 DEF DeclaredAfterRR
<1>12. Declared = AllOf
  BY <1>8, <1>11 DEF Declared, IsDeclared
<1> QED BY <1>2, <1>5, <1>7, <1>9, <1>12

\* the productions of a list are numbers
LEMMA ListOfNumbers ==
    ASSUME Prods \subseteq Nat, NEW q \in Seq(Prods)
    PROVE  /\ \A i \in 1..Len(q) : q[i] \in Nat
           /\ \A p \in SetOf(q) : p \in Nat /\ p <= p
<1>1. \A i \in 1..Len(q) : q[i] \in Prods
  OBVIOUS
<1>2. \A i \in 1..Len(q) : q[i] \in Nat
  BY <1>1
<1>3. \A p \in SetOf(q) : p \in Nat
  BY <1>2 DEF SetOf
<1> QED BY <1>2, <1>3

\* of two, the one that is removed is not the first in the file
LEMMA FirstStays ==
    ASSUME Prods \subseteq Nat, reductions \in Seq(Prods), Len(reductions) >= 2,
           reductions' = Without(reductions, Later(reductions))
    PROVE  /\ SetOf(reductions') \subseteq SetOf(reductions)
           /\ \A q \in SetOf(reductions) : \E r \in SetOf(reductions') : r <= q
<1>1. PICK s1, i, w : s1 = reductions /\ i = Later(reductions) /\ w = reductions'
  OBVIOUS
<1>2. s1 \in Seq(Prods) /\ Len(s1) \in Nat /\ Len(s1) >= 2 /\ w = Without(s1, i)
  BY <1>1
<1>3. s1[1] \in Nat /\ s1[2] \in Nat
  BY <1>2, ListOfNumbers
<1>4. i \in {1, 2} /\ s1[3 - i] <= s1[i]
  BY <1>1, <1>3 DEF Later
<1>5. i \in 1..Len(s1)
  BY <1>2, <1>4
<1>6. /\ SetOf(w) \subseteq SetOf(s1)
      /\ SetOf(s1) \subseteq SetOf(w) \cup {s1[i]}
  BY <1>2, <1>5, WithoutLeaves
<1>7. \A q \in SetOf(s1) : q \in Nat
  BY <1>2, ListOfNumbers
<1>8. s1[3 - i] \in SetOf(w)
  <2>1. Len(w) = Len(s1) - 1
    BY <1>2, <1>5, WithoutShortens
  <2>2. w[1] = s1[3 - i] /\ 1 \in DOMAIN w
    BY <1>2, <1>4 DEF Without
  <2> QED BY <2>2 DEF SetOf
<1> QED BY <1>1, <1>4, <1>6, <1>7, <1>8

LEMMA InitLeftAsDeclared == Init => LeftAsDeclared
BY DEF Init, LeftAsDeclared, Entered

LEMMA SameDeclared ==
    ASSUME UNCHANGED <<cell, superset>>
    PROVE  /\ IsDeclared' = IsDeclared /\ DeclaredShift' = DeclaredShift /\ Declared' = Declared
           /\ Conflicting' = Conflicting
<1>1. IsDeclared' = IsDeclared
  BY SameSupersets
<1>2. Conflicting' = Conflicting
  BY DEF Conflicting, B2N
<1> QED BY <1>1, <1>2, SameCell

LEMMA NextLeftAsDeclared ==
    ASSUME Prods \subseteq Nat, Inv, OrderInv, LeftAsDeclared, [Next]_vars
    PROVE  LeftAsDeclared'
<1>0. WellFormed /\ reductions \in Seq(Prods) /\ Len(reductions) \in Nat /\ shift \in BOOLEAN
  BY DEF Inv, OrderInv
<1>1. CASE ComputeSupersets
  BY <1>1 DEF ComputeSupersets, LeftAsDeclared, Entered
<1>2. CASE Begin
  <2>1. /\ pc = "begin" /\ UNCHANGED <<cell, superset, shift, reductions>>
        /\ pc' = IF actions <= 1 THEN "done" ELSE IF shift THEN "sr" ELSE "rr"
    BY <1>2 DEF Begin
  <2>2. /\ shift = cell.shift /\ reductions = cell.reductions
        /\ actions = B2N(cell.shift) + Len(cell.reductions) /\ actions \in Int
    BY <2>1 DEF Inv, ActionsExact, OrderInv, Untouched
  <2>3. Entered'
    <3>1. CASE actions <= 1
      BY <2>1, <3>1 DEF Entered
    <3>2. CASE ~(actions <= 1)
      BY <2>1, <2>2, <3>2, SameDeclared DEF Entered, Conflicting
    <3> QED BY <3>1, <3>2
  <2>4. ASSUME pc' \in {"force", "done"}, IsDeclared' PROVE Left'
    <3>1. pc' = "done" /\ actions <= 1 /\ IsDeclared
      BY <2>1, <2>4, SameDeclared
    <3>2. /\ DeclaredShift = cell.shift /\ Declared = AllOf
          /\ cell.shift => reductions = <<>>
          /\ Len(reductions) <= 1
      BY <1>0, <2>2, <3>1, NoConflictIsDeclared
    <3>3. SetOf(reductions) = AllOf /\ SetOf(reductions') = SetOf(reductions)
      BY <2>1, <2>2 DEF AllOf
    <3>4. \A p \in SetOf(reductions) : p <= p
      BY <1>0, ListOfNumbers
    <3>5. shift' = DeclaredShift' /\ SetOf(reductions') = Declared' /\ cell' = cell /\ reductions' = reductions
      BY <2>1, <2>2, <3>2, <3>3, SameDeclared
    <3>6. SetOf(reductions)' = SetOf(reductions')
      BY DEF SetOf
    <3> QED BY <2>1, <2>2, <3>1, <3>2, <3>3, <3>4, <3>5, <3>6 DEF Left
  <2> QED BY <2>3, <2>4 DEF LeftAsDeclared
<1>3. CASE NextSR \/ WalkUp \/ ShiftReduce \/ ReduceReduce \/ EndReduceReduce \/ SubsetDirective \/ EndSubset
  <2>1. /\ UNCHANGED <<cell, superset>> /\ pc' \notin {"force", "done"}
        /\ pc \notin {"supersets", "begin", "done", "failure"}
    BY <1>3 DEF NextSR, WalkUp, ShiftReduce, ReduceReduce, EndReduceReduce, SubsetDirective, EndSubset
  <2> QED BY <2>1, SameDeclared DEF LeftAsDeclared, Entered
<1>4. CASE Count
  <2>1. /\ pc = "count" /\ UNCHANGED <<cell, superset, shift>>
        /\ IF cell.allowAmbig \/ actions <= 1
           THEN pc' = "done" /\ UNCHANGED reductions
           ELSE IF shift THEN reductions' = <<>> /\ pc' = "done"
           ELSE pc' = "force" /\ UNCHANGED reductions
    BY <1>4 DEF Count
  <2>2. Entered'
    BY <2>1, SameDeclared DEF LeftAsDeclared, Entered
  <2>3. ASSUME IsDeclared' PROVE Left'
    <3>1. Conflicting /\ IsDeclared
      BY <2>1, <2>3, SameDeclared DEF LeftAsDeclared, Entered
    <3>2. shift = DeclaredShift /\ SetOf(reductions) = Declared
      BY <2>1, <3>1 DEF OrderInv, OrderIndependent
    <3>3. actions = B2N(shift) + Len(reductions)
      BY <2>1 DEF Inv, ActionsExact
    <3>4. actions <= 1 => (shift => reductions = <<>>) /\ (~shift => Len(reductions) <= 1)
      BY <1>0, <3>3, TruthCounts
    <3>5. \A p \in SetOf(reductions) : p <= p
      BY <1>0, ListOfNumbers
    <3>6. SetOf(<<>>) = {}
      BY DEF SetOf
    <3>7. SetOf(reductions)' = SetOf(reductions')
      BY DEF SetOf
    <3>8. shift' = DeclaredShift' /\ Declared' = Declared
      BY <2>1, <3>2, SameDeclared
    <3>9. CASE reductions' = reductions /\ (cell.allowAmbig \/ actions <= 1) /\ pc' = "done"
      <4>1. /\ shift' = DeclaredShift' /\ SetOf(reductions)' = Declared' /\ cell' = cell /\ shift' = shift
            /\ pc' = "done" /\ reductions' = reductions
        BY <2>1, <3>2, <3>7, <3>8, <3>9
      <4>2. CASE cell.allowAmbig
        BY <4>1, <4>2 DEF Left
      <4>3. CASE ~cell.allowAmbig /\ shift
        BY <3>4, <3>9, <4>1, <4>3 DEF Left
      <4>4. CASE ~cell.allowAmbig /\ ~shift
        <5>1. Len(reductions') <= 1
          BY <3>4, <3>9, <4>4
        <5>2. \A p \in Declared' : \E q \in SetOf(reductions)' : q <= p
          BY <3>5, <3>7, <4>1
        <5> QED BY <4>1, <4>4, <5>1, <5>2 DEF Left
      <4> QED BY <4>2, <4>3, <4>4
    <3>10. CASE reductions' = <<>> /\ ~cell.allowAmbig /\ pc' = "done" /\ shift
      <4>1. shift' = DeclaredShift' /\ SetOf(reductions)' = {} /\ ~cell'.allowAmbig /\ shift'
        <5>1. cell' = cell /\ shift' = shift /\ SetOf(reductions') = {}
          BY <2>1, <3>6, <3>10
        <5> QED BY <3>7, <3>8, <3>10, <5>1
      <4> QED BY <3>10, <4>1 DEF Left
    <3>11. CASE reductions' = reductions /\ ~cell.allowAmbig /\ pc' = "force" /\ ~shift
      BY <2>1, <3>2, <3>5, <3>7, <3>8, <3>11 DEF Left
    <3> QED BY <2>1, <3>9, <3>10, <3>11
  <2> QED BY <2>2, <2>3 DEF LeftAsDeclared
<1>5. CASE ForceOne
  <2>1. /\ pc = "force" /\ UNCHANGED <<cell, superset, shift>>
        /\ IF Len(reductions) >= 2
           THEN reductions' = Without(reductions, Later(reductions)) /\ UNCHANGED pc
           ELSE pc' = "done" /\ UNCHANGED reductions
    BY <1>5 DEF ForceOne
  <2>2. Entered'
    BY <2>1, SameDeclared DEF LeftAsDeclared, Entered
  <2>3. ASSUME IsDeclared' PROVE Left'
    <3>1. Left /\ ~cell.allowAmbig /\ ~shift
      BY <2>1, <2>3, SameDeclared DEF LeftAsDeclared, Left
    <3>2. SetOf(reductions)' = SetOf(reductions')
      BY DEF SetOf
    <3>3. shift' = DeclaredShift' /\ Declared' = Declared /\ cell' = cell
      BY <2>1, <3>1, SameDeclared DEF Left
    <3>4. /\ SetOf(reductions') \subseteq SetOf(reductions)
          /\ \A q \in SetOf(reductions) : \E r \in SetOf(reductions') : r <= q
      <4>1. CASE Len(reductions) >= 2
        BY <1>0, <2>1, <4>1, FirstStays
      <4>2. CASE ~(Len(reductions) >= 2)
        <5>1. \A p \in SetOf(reductions) : p <= p
          BY <1>0, ListOfNumbers
        <5> QED BY <2>1, <4>2, <5>1
      <4> QED BY <4>1, <4>2
    <3>5. pc' = "done" => Len(reductions') <= 1
      BY <1>0, <2>1
    <3>6. \A p \in Declared : \E r \in SetOf(reductions') : r <= p
      <4> SUFFICES ASSUME NEW p \in Declared PROVE \E r \in SetOf(reductions') : r <= p
        OBVIOUS
      <4>1. PICK q \in SetOf(reductions) : q <= p
        BY <3>1 DEF Left
      <4>2. PICK r \in SetOf(reductions') : r <= q
        BY <3>4
      <4>3. p \in Prods /\ q \in Prods /\ r \in Prods
        <5>1. AllOf \subseteq Prods
          BY <1>0 DEF WellFormed, AllOf, SetOf
        <5>2. Declared \subseteq AllOf
          BY DEF Declared, DeclaredAfterRR, DeclaredAfterSR
        <5>3. SetOf(reductions) \subseteq Prods
          BY <1>0 DEF SetOf
        <5> QED BY <3>4, <5>1, <5>2, <5>3
      <4>4. p \in Nat /\ q \in Nat /\ r \in Nat
        BY <4>3
      <4> QED BY <4>1, <4>2, <4>4
    <3> QED BY <2>1, <3>1, <3>2, <3>3, <3>4, <3>5, <3>6 DEF Left
  <2> QED BY <2>2, <2>3 DEF LeftAsDeclared
<1>6. CASE Finished \/ UNCHANGED vars
  <2>1. UNCHANGED <<cell, superset, shift, reductions, pc>>
    BY <1>6 DEF Finished, vars
  <2>2. Left' <=> Left
    BY <2>1, SameDeclared DEF Left, SetOf
  <2> QED BY <2>1, <2>2, SameDeclared DEF LeftAsDeclared, Entered
<1> QED BY <1>1, <1>2, <1>3, <1>4, <1>5, <1>6 DEF Next

\* what the declarations leave of the reductions of a cell
Wanted == IF cell.allowAmbig THEN Declared
          ELSE IF DeclaredShift THEN {} ELSE {p \in Declared : \A q \in Declared : p <= q}

LEMMA DoneAsDeclared ==
    ASSUME Prods \subseteq Nat, Inv, OrderInv, LeftAsDeclared, pc = "done", IsDeclared
    PROVE  shift = DeclaredShift /\ SetOf(reductions) = Wanted
<1>1. Left
  BY DEF LeftAsDeclared
<1>2. reductions \in Seq(Prods) /\ Len(reductions) \in Nat
  BY DEF Inv
<1>3. CASE cell.allowAmbig
  BY <1>1, <1>3 DEF Left, Wanted
<1>4. CASE ~cell.allowAmbig /\ shift
  <2>1. SetOf(<<>>) = {}
    BY DEF SetOf
  <2> QED BY <1>1, <1>4, <2>1 DEF Left, Wanted
<1>5. CASE ~cell.allowAmbig /\ ~shift
  <2>1. /\ SetOf(reductions) \subseteq Declared /\ Len(reductions) <= 1 /\ shift = DeclaredShift
        /\ \A p \in Declared : \E q \in SetOf(reductions) : q <= p
    BY <1>1, <1>5 DEF Left
  <2>2. \A p, q \in SetOf(reductions) : p = q
    BY <1>2, <2>1 DEF SetOf
  <2>3. \A p \in Declared : p \in Nat
    <3>1. AllOf \subseteq Prods
      BY DEF OrderInv, WellFormed, AllOf, SetOf
    <3>2. Declared \subseteq AllOf
      BY DEF Declared, DeclaredAfterRR, DeclaredAfterSR
    <3> QED BY <3>1, <3>2
  <2> DEFINE first == {p \in Declared : \A q \in Declared : p <= q}
  <2>4. SetOf(reductions) \subseteq first
    BY <2>1, <2>2
  <2>5. first \subseteq SetOf(reductions)
    <3> SUFFICES ASSUME NEW p \in first PROVE p \in SetOf(reductions)
      OBVIOUS
    <3>1. PICK q \in SetOf(reductions) : q <= p
      BY <2>1
    <3>2. p <= q /\ p \in Nat /\ q \in Nat
      BY <2>1, <2>3
    <3> QED BY <3>1, <3>2
  <2> QED BY <1>5, <2>1, <2>4, <2>5 DEF Wanted
<1> QED BY <1>3, <1>4, <1>5
=============================================================================
