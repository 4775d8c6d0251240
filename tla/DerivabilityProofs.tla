------------------------- MODULE DerivabilityProofs -------------------------
(***************************************************************************)
(* For every grammar: the derivability analysis keeps its type, and never  *)
(* sets a bit that the grammar does not force (Sound).                     *)
(***************************************************************************)
EXTENDS Derivability, TLAPS

\* emptyString is one of the nonterminals.
LEMMA EmptyInNT == Empty \in NT
  BY NumNontermsAssumption DEF Empty, NT

\* What a production of a grammar is: its left side is a nonterminal other than
\* emptyString, and so is every symbol of its right side that is no terminal.
LEMMA ProductionShape ==
  ASSUME NEW g \in Grammars, NEW i \in DOMAIN g
  PROVE  /\ g[i].lhs \in NT /\ g[i].lhs # Empty
         /\ \A k \in DOMAIN g[i].rhs :
               ~IsTerm(g[i].rhs[k]) => g[i].rhs[k] \in NT
<1>1. g \in Seq(Production)
  BY GrammarsAssumption
<1>2. g[i] \in Production
  BY <1>1
<1> QED
  BY <1>2, GrammarsAssumption DEF Production

\* The symbols a production derives alone are nonterminals.
LEMMA ByProductionType ==
  ASSUME NEW g \in Grammars, NEW i \in DOMAIN g, NEW R
  PROVE  ByProduction(g[i], R) \subseteq NT
BY ProductionShape DEF ByProduction

\* A larger relation lets a production derive no fewer symbols.
LEMMA ByProductionMonotone ==
  ASSUME NEW p, NEW R, NEW S, R \subseteq S
  PROVE  ByProduction(p, R) \subseteq ByProduction(p, S)
BY DEF ByProduction, VanishIn

\* A symbol index of the closure pass stands for a nonterminal.
LEMMA IndexInNT ==
  ASSUME NEW n \in Nat, n < NumNonterms
  PROVE  -n - 1 \in NT
<1>1. n + 1 \in 1..NumNonterms
  BY NumNontermsAssumption
<1>2. -n - 1 = -(n + 1)
  OBVIOUS
<1> QED
  BY <1>1, <1>2 DEF NT

\* A closure step adds pairs of nonterminals.
LEMMA ThroughType ==
  ASSUME NEW a \in NT, NEW b
  PROVE  Through(a, b) \subseteq NT \X NT
<1> SUFFICES ASSUME NEW p \in Through(a, b) PROVE p \in NT \X NT
  OBVIOUS
<1>1. PICK w \in NT : p = <<a, w>>
  BY DEF Through
<1> QED
  BY <1>1

-----------------------------------------------------------------------------
\* The analysis keeps its type: the matrix stays a relation on nonterminals and
\* the closure pass never leaves it.
THEOREM TypeCorrect == Spec => []TypeOK
<1>1. Init => TypeOK
  <2> SUFFICES ASSUME Init PROVE TypeOK
    OBVIOUS
  <2>1. 0 \in 0..NumNonterms-1
    BY NumNontermsAssumption
  <2> QED
    BY <2>1 DEF Init, TypeOK
<1>2. TypeOK /\ [Next]_vars => TypeOK'
  <2> SUFFICES ASSUME TypeOK, [Next]_vars PROVE TypeOK'
    OBVIOUS
  <2> USE DEF TypeOK
  <2>1. CASE EmptyProduction
    <3>1. pi \in DOMAIN prods
      BY <2>1, GrammarsAssumption DEF EmptyProduction
    <3>2. <<prods[pi].lhs, Empty>> \in NT \X NT
      BY <3>1, ProductionShape, EmptyInNT
    <3>3. derivable' \subseteq NT \X NT /\ cyclic' \subseteq NT
      BY <2>1, <3>2 DEF EmptyProduction, AddDerivable
    <3> QED
      BY <2>1, <3>3 DEF EmptyProduction
  <2>2. CASE NonemptyProduction
    <3> DEFINE new == {<<prods[pi].lhs, r>> : r \in ByProduction(prods[pi], derivable)}
                          \ derivable
    <3>1. pi \in DOMAIN prods
      BY <2>2, GrammarsAssumption DEF NonemptyProduction
    <3>2. new \subseteq NT \X NT
      BY <3>1, ProductionShape, ByProductionType
    <3>3. AddDerivable(new) /\ changes' \in Nat
      BY <2>2 DEF NonemptyProduction
    <3>4. derivable' \subseteq NT \X NT /\ cyclic' \subseteq NT
      BY <3>2, <3>3 DEF AddDerivable
    <3> QED
      BY <2>2, <3>3, <3>4 DEF NonemptyProduction
  <2>3. CASE ProductionsDone
    BY <2>3, NumNontermsAssumption DEF ProductionsDone
  <2>4. CASE ClosureEdge
    <3> DEFINE a   == -u - 1
               b   == -v - 1
               new == IF a = b \/ <<a, b>> \notin derivable THEN {} ELSE Through(a, b)
    <3>1. a \in NT
      BY <2>4, IndexInNT DEF ClosureEdge
    <3>2. new \subseteq NT \X NT
      BY <3>1, ThroughType
    <3>3. AddDerivable(new) /\ changes' \in Nat
      BY <2>4 DEF ClosureEdge
    <3>4. derivable' \subseteq NT \X NT /\ cyclic' \subseteq NT
      BY <3>2, <3>3 DEF AddDerivable
    <3>5. u' \in Nat \ {0} /\ v' \in 0..NumNonterms-1
      BY <2>4, NumNontermsAssumption DEF ClosureEdge
    <3> QED
      BY <2>4, <3>3, <3>4, <3>5 DEF ClosureEdge
  <2>5. CASE ClosureDone
    BY <2>5 DEF ClosureDone
  <2>6. CASE UNCHANGED vars
    BY <2>6 DEF vars
  <2> QED
    BY <2>1, <2>2, <2>3, <2>4, <2>5, <2>6 DEF Next
<1> QED
  BY <1>1, <1>2, PTL DEF Spec

-----------------------------------------------------------------------------
\* The bits set so far are forced: for a relation R that agrees with the grammar,
\* each action keeps derivable within R, productions because R has what they
\* derive, closure steps because R is transitive.
LEMMA StepStaysWithin ==
  ASSUME TypeOK, [Next]_vars, NEW R \in Relations,
         ClosedUnder(prods, R), derivable \subseteq R
  PROVE  derivable' \subseteq R
<1> USE DEF TypeOK
<1>1. CASE EmptyProduction
  <2>1. pi \in DOMAIN prods /\ prods[pi].rhs = <<>>
    BY <1>1, GrammarsAssumption DEF EmptyProduction
  <2>2. <<prods[pi].lhs, Empty>> \in R
    BY <2>1 DEF ClosedUnder
  <2> QED
    BY <1>1, <2>2 DEF EmptyProduction, AddDerivable
<1>2. CASE NonemptyProduction
  <2>1. pi \in DOMAIN prods /\ prods[pi].rhs # <<>>
    BY <1>2, GrammarsAssumption DEF NonemptyProduction
  <2>2. \A r \in ByProduction(prods[pi], R) : <<prods[pi].lhs, r>> \in R
    BY <2>1, ProductionShape DEF ClosedUnder, ByProduction, VanishIn
  <2>3. \A r \in ByProduction(prods[pi], derivable) : <<prods[pi].lhs, r>> \in R
    BY <2>2, ByProductionMonotone
  <2> QED
    BY <1>2, <2>3 DEF NonemptyProduction, AddDerivable
<1>3. CASE ProductionsDone
  BY <1>3 DEF ProductionsDone
<1>4. CASE ClosureEdge
  <2> DEFINE a   == -u - 1
             b   == -v - 1
             new == IF a = b \/ <<a, b>> \notin derivable THEN {} ELSE Through(a, b)
  <2>1. a \in NT /\ b \in NT
    BY <1>4, IndexInNT, NumNontermsAssumption DEF ClosureEdge
  <2>2. \A w \in NT : <<a, b>> \in R /\ <<b, w>> \in R => <<a, w>> \in R
    BY <2>1 DEF ClosedUnder
  <2>3. new \subseteq R
    BY <2>2 DEF Through
  <2>4. AddDerivable(new)
    BY <1>4 DEF ClosureEdge
  <2> QED
    BY <2>3, <2>4 DEF AddDerivable
<1>5. CASE ClosureDone
  BY <1>5 DEF ClosureDone
<1>6. CASE UNCHANGED vars
  BY <1>6 DEF vars
<1> QED
  BY <1>1, <1>2, <1>3, <1>4, <1>5, <1>6 DEF Next

\* Whatever the grammar, the analysis claims no derivation that the grammar does
\* not force: at every moment the matrix is within every relation that agrees
\* with the productions and is closed.
THEOREM DerivableSound == Spec => []Sound
<1>1. Init => Sound
  BY DEF Init, Sound, ClosedUnder
<1>2. TypeOK /\ Sound /\ [Next]_vars => Sound'
  <2> SUFFICES ASSUME TypeOK, Sound, [Next]_vars,
                      NEW R \in Relations, ClosedUnder(prods', R)
               PROVE  derivable' \subseteq R
    BY DEF Sound
  <2>1. prods' = prods
    BY DEF Next, EmptyProduction, NonemptyProduction, ProductionsDone,
           ClosureEdge, ClosureDone, vars
  <2>2. ClosedUnder(prods, R) /\ derivable \subseteq R
    BY <2>1 DEF Sound
  <2> QED
    BY <2>2, StepStaysWithin
<1> QED
  BY <1>1, <1>2, TypeCorrect, PTL DEF Spec

-----------------------------------------------------------------------------
(* Why the comment at the end of the loop is right when nothing was set:   *)
(* whatever the iteration has been through is closed, if the matrix is     *)
(* still the one it began with.                                            *)

\* the relation agrees with production i
Agrees(i, R) ==
    IF prods[i].rhs = <<>>
    THEN <<prods[i].lhs, Empty>> \in R
    ELSE \A k \in DOMAIN prods[i].rhs :
            /\ prods[i].rhs[k] \in NT
            /\ \A j \in DOMAIN prods[i].rhs \ {k} : <<prods[i].rhs[j], Empty>> \in R
            => <<prods[i].lhs, prods[i].rhs[k]>> \in R

\* what the closure pass sees to at the edge from m to n: the successors of n, and the
\* flag of m if the edge leads back
EdgeDone(m, n) ==
    -m - 1 # -n - 1 /\ <<-m - 1, -n - 1>> \in derivable =>
        /\ \A x \in NT : <<-n - 1, x>> \in derivable => <<-m - 1, x>> \in derivable
        /\ <<-n - 1, -m - 1>> \in derivable => -m - 1 \in cyclic

\* the edges that the closure pass has been at
Passed(m, n) == m < u \/ (m = u /\ n < v)

SettlingInv ==
    /\ atStart \subseteq derivable
    /\ \A n \in NT : <<n, n>> \in derivable
    /\ \A n \in NT : <<Empty, n>> \in derivable => n = Empty
    /\ \A a \in cyclic : \E b \in NT \ {a} : <<a, b>> \in derivable /\ <<b, a>> \in derivable
    /\ pc = "done" => u >= NumNonterms
    /\ pc = "closure" => pi > Len(prods)
    /\ derivable = atStart =>
          /\ \A i \in DOMAIN prods : i < pi => Agrees(i, derivable)
          /\ pc = "done" => \A i \in DOMAIN prods : Agrees(i, derivable)
          /\ pc \in {"closure", "done"} =>
                \A m \in 1..(NumNonterms - 1), n \in 0..(NumNonterms - 1) : Passed(m, n) => EdgeDone(m, n)


\* Symbols of the relation are no terminals.
LEMMA NotTerm ==
  ASSUME NEW n \in NT
  PROVE  ~IsTerm(n)
BY DEF NT, IsTerm

\* A production agrees with the relation if it adds nothing to it.
LEMMA NothingNewAgrees ==
  ASSUME TypeOK, NEW i \in DOMAIN prods,
         \A r \in ByProduction(prods[i], derivable) : <<prods[i].lhs, r>> \in derivable,
         prods[i].rhs # <<>>
  PROVE  Agrees(i, derivable)
<1> SUFFICES ASSUME NEW k \in DOMAIN prods[i].rhs, prods[i].rhs[k] \in NT,
                    \A j \in DOMAIN prods[i].rhs \ {k} : <<prods[i].rhs[j], Empty>> \in derivable
             PROVE  <<prods[i].lhs, prods[i].rhs[k]>> \in derivable
  BY DEF Agrees
<1>1. ~IsTerm(prods[i].rhs[k])
  BY NotTerm
<1>2. VanishIn(prods[i].rhs, derivable, DOMAIN prods[i].rhs \ {k})
  BY NotTerm DEF VanishIn, TypeOK
<1>3. prods[i].rhs[k] \in ByProduction(prods[i], derivable)
  BY <1>1, <1>2 DEF ByProduction
<1> QED
  BY <1>3

\* A step of the first part, over production pi, whatever it adds.
LEMMA ProductionKeepsSettling ==
  ASSUME TypeOK, SettlingInv, EmptyProduction \/ NonemptyProduction
  PROVE  SettlingInv'
<1> DEFINE lhs == prods[pi].lhs
<1>1. /\ pc = "prods" /\ pi \in DOMAIN prods /\ pi' = pi + 1 /\ pi \in Nat
      /\ UNCHANGED <<prods, pc, u, v, atStart>>
  BY GrammarsAssumption DEF EmptyProduction, NonemptyProduction, TypeOK
<1>2. lhs \in NT /\ lhs # Empty
  BY <1>1, ProductionShape DEF TypeOK
<1>3. PICK rs : /\ derivable' = derivable \cup {<<lhs, r>> : r \in rs}
                /\ cyclic' = cyclic
                /\ {<<lhs, r>> : r \in rs} \subseteq derivable => Agrees(pi, derivable)
  <2>1. CASE EmptyProduction
    <3>1. AddDerivable({<<lhs, Empty>>}) /\ prods[pi].rhs = <<>>
      BY <2>1 DEF EmptyProduction
    <3>2. {<<lhs, r>> : r \in {Empty}} = {<<lhs, Empty>>}
      OBVIOUS
    <3>3. cyclic' = cyclic
      BY <1>2, <3>1 DEF AddDerivable
    <3>4. <<lhs, Empty>> \in derivable => Agrees(pi, derivable)
      BY <3>1 DEF Agrees
    <3> QED
      BY <3>1, <3>2, <3>3, <3>4 DEF AddDerivable
  <2>2. CASE NonemptyProduction
    <3> DEFINE B   == ByProduction(prods[pi], derivable)
               new == {<<lhs, r>> : r \in B} \ derivable
    <3>1. AddDerivable(new) /\ prods[pi].rhs # <<>>
      BY <2>2 DEF NonemptyProduction
    <3>2. new = {<<lhs, r>> : r \in {x \in B : <<lhs, x>> \notin derivable}}
      OBVIOUS
    <3>3. \A p \in new : p[1] # p[2]
      <4> SUFFICES ASSUME NEW r \in B, <<lhs, r>> \notin derivable PROVE lhs # r
        OBVIOUS
      <4> QED
        BY <1>2 DEF SettlingInv
    <3>4. cyclic' = cyclic
      BY <3>1, <3>3 DEF AddDerivable
    <3>5. ASSUME {<<lhs, r>> : r \in {x \in B : <<lhs, x>> \notin derivable}} \subseteq derivable
          PROVE  Agrees(pi, derivable)
      <4>1. \A r \in B : <<lhs, r>> \in derivable
        BY <3>5
      <4> QED
        BY <1>1, <3>1, <4>1, NothingNewAgrees
    <3> QED
      BY <3>1, <3>2, <3>4, <3>5 DEF AddDerivable
  <2> QED
    BY <2>1, <2>2
<1>4. ASSUME derivable' = atStart'
      PROVE  \A i \in DOMAIN prods : i < pi + 1 => Agrees(i, derivable)
  <2>1. derivable' = derivable /\ derivable = atStart
    BY <1>1, <1>3, <1>4 DEF SettlingInv
  <2>2. Agrees(pi, derivable)
    BY <1>3, <2>1
  <2>3. \A i \in DOMAIN prods : i < pi => Agrees(i, derivable)
    BY <2>1 DEF SettlingInv
  <2>4. \A i \in DOMAIN prods : i \in Nat
    BY GrammarsAssumption DEF TypeOK
  <2> QED
    BY <1>1, <2>2, <2>3, <2>4
<1>5. /\ atStart' \subseteq derivable'
      /\ \A n \in NT : <<n, n>> \in derivable'
      /\ \A n \in NT : <<Empty, n>> \in derivable' => n = Empty
      /\ \A a \in cyclic' : \E b \in NT \ {a} : <<a, b>> \in derivable' /\ <<b, a>> \in derivable'
  BY <1>1, <1>2, <1>3 DEF SettlingInv
<1>6. derivable' = atStart' => derivable' = derivable
  BY <1>1, <1>3 DEF SettlingInv
<1>7. \A i : Agrees(i, derivable)' <=> Agrees(i, derivable')
  BY <1>1 DEF Agrees
<1> QED
  BY <1>1, <1>4, <1>5, <1>6, <1>7 DEF SettlingInv

\* A step of the closure pass, over the edge (u,v).
LEMMA EdgeKeepsSettling ==
  ASSUME TypeOK, SettlingInv, ClosureEdge
  PROVE  SettlingInv'
<1> DEFINE a   == -u - 1
           b   == -v - 1
           new == IF a = b \/ <<a, b>> \notin derivable THEN {} ELSE Through(a, b)
<1>1. /\ pc = "closure" /\ u \in Nat \ {0} /\ u < NumNonterms /\ v \in 0..(NumNonterms - 1)
      /\ AddDerivable(new) /\ UNCHANGED <<prods, pc, pi, atStart>>
      /\ IF v + 1 < NumNonterms THEN v' = v + 1 /\ u' = u ELSE v' = 0 /\ u' = u + 1
  BY DEF ClosureEdge, TypeOK
<1>2. a \in NT /\ b \in NT /\ a # Empty
  BY <1>1, IndexInNT, NumNontermsAssumption DEF Empty
<1>3. derivable' = derivable \cup new /\ cyclic' = cyclic \cup {p[1] : p \in {q \in new : q[1] = q[2]}}
  BY <1>1 DEF AddDerivable
<1>4. /\ new # {} => a # b /\ <<a, b>> \in derivable
      /\ \A p \in new : \E x \in NT \ {b} : p = <<a, x>> /\ <<b, x>> \in derivable
  BY DEF Through
<1>5. a # b /\ <<a, b>> \in derivable => \A x \in NT \ {b} : <<b, x>> \in derivable => <<a, x>> \in new
  BY DEF Through
<1> HIDE DEF a, b, new
<1>6. \A n \in NT : <<Empty, n>> \in derivable' => n = Empty
  BY <1>2, <1>3, <1>4 DEF SettlingInv
<1>7. \A c \in cyclic' : \E x \in NT \ {c} : <<c, x>> \in derivable' /\ <<x, c>> \in derivable'
  <2> SUFFICES ASSUME NEW c \in cyclic'
               PROVE  \E x \in NT \ {c} : <<c, x>> \in derivable' /\ <<x, c>> \in derivable'
    OBVIOUS
  <2>1. CASE c \in cyclic
    BY <1>3, <2>1 DEF SettlingInv
  <2>2. CASE c \notin cyclic
    <3>1. <<a, a>> \in new /\ c = a
      <4>1. PICK q \in new : q[1] = q[2] /\ c = q[1]
        BY <1>3, <2>2
      <4>2. PICK x \in NT : q = <<a, x>>
        BY <1>4
      <4> QED
        BY <4>1, <4>2
    <3>2. <<a, b>> \in derivable /\ <<b, a>> \in derivable /\ a # b
      BY <1>4, <3>1
    <3> QED
      BY <1>2, <1>3, <3>1, <3>2
  <2> QED
    BY <2>1, <2>2
<1>8. ASSUME derivable' = atStart'
      PROVE  derivable = atStart /\ new \subseteq derivable /\ derivable' = derivable
  BY <1>1, <1>3, <1>8 DEF SettlingInv
<1>9. ASSUME derivable' = atStart', NEW m \in 1..(NumNonterms - 1), NEW n \in 0..(NumNonterms - 1),
             Passed(m, n)'
      PROVE  EdgeDone(m, n)'
  <2>1. Passed(m, n) \/ (m = u /\ n = v)
    BY <1>1, <1>9, NumNontermsAssumption DEF Passed
  <2>2. CASE Passed(m, n)
    <3>1. EdgeDone(m, n)
      BY <1>1, <1>8, <1>9, <2>2 DEF SettlingInv
    <3> QED
      BY <1>3, <1>8, <1>9, <3>1 DEF EdgeDone
  <2>3. CASE m = u /\ n = v
    <3>1. ASSUME a # b, <<a, b>> \in derivable
          PROVE  /\ \A x \in NT : <<b, x>> \in derivable => <<a, x>> \in derivable
                 /\ <<b, a>> \in derivable => a \in cyclic'
      <4>1. \A x \in NT : <<b, x>> \in derivable => <<a, x>> \in derivable
        BY <1>5, <1>8, <1>9, <3>1
      <4>2. ASSUME <<b, a>> \in derivable PROVE a \in cyclic'
        <5>1. <<a, a>> \in new
          BY <1>2, <1>5, <3>1, <4>2
        <5> QED
          BY <1>3, <5>1
      <4> QED
        BY <4>1, <4>2
    <3> QED
      BY <1>8, <1>9, <2>3, <3>1 DEF EdgeDone, a, b
  <2> QED
    BY <2>1, <2>2, <2>3
<1>10. \A i : Agrees(i, derivable)' <=> Agrees(i, derivable')
  BY <1>1 DEF Agrees
<1>11. atStart' \subseteq derivable' /\ \A n \in NT : <<n, n>> \in derivable'
  BY <1>1, <1>3 DEF SettlingInv
<1>12. derivable' = atStart' => \A i \in DOMAIN prods' : i < pi' => Agrees(i, derivable)'
  BY <1>1, <1>8, <1>10 DEF SettlingInv
<1> QED
  BY <1>1, <1>6, <1>7, <1>9, <1>11, <1>12 DEF SettlingInv

LEMMA SettlingInvariant == Spec => []SettlingInv
<1>1. Init => SettlingInv
  <2> SUFFICES ASSUME Init PROVE SettlingInv
    OBVIOUS
  <2>1. \A i \in DOMAIN prods : ~(i < pi)
    BY GrammarsAssumption DEF Init
  <2> QED
    BY <2>1 DEF Init, SettlingInv
<1>2. TypeOK /\ SettlingInv /\ [Next]_vars => SettlingInv'
  <2> SUFFICES ASSUME TypeOK, SettlingInv, [Next]_vars PROVE SettlingInv'
    OBVIOUS
  <2>1. CASE EmptyProduction \/ NonemptyProduction
    BY <2>1, ProductionKeepsSettling
  <2>2. CASE ClosureEdge
    BY <2>2, EdgeKeepsSettling
  <2>3. CASE ProductionsDone
    <3>1. /\ pi > Len(prods) /\ pc' = "closure" /\ u' = 1 /\ v' = 0
          /\ UNCHANGED <<prods, derivable, cyclic, pi, atStart>>
      BY <2>3 DEF ProductionsDone
    <3>2. \A m \in 1..(NumNonterms - 1), n \in 0..(NumNonterms - 1) : ~Passed(m, n)'
      BY <3>1, NumNontermsAssumption DEF Passed
    <3>3. \A i : Agrees(i, derivable)' <=> Agrees(i, derivable)
      BY <3>1 DEF Agrees
    <3> QED
      BY <3>1, <3>2, <3>3 DEF SettlingInv
  <2>4. CASE ClosureDone
    <3>1. /\ pc = "closure" /\ u >= NumNonterms /\ UNCHANGED <<prods, derivable, cyclic, u, v>>
          /\ \/ pc' = "done" /\ UNCHANGED <<pi, atStart>>
             \/ pc' = "prods" /\ pi' = 1 /\ atStart' = derivable
      BY <2>4 DEF ClosureDone
    <3>2. \A i : Agrees(i, derivable)' <=> Agrees(i, derivable)
      BY <3>1 DEF Agrees
    <3>3. \A m, n : (Passed(m, n)' <=> Passed(m, n)) /\ (EdgeDone(m, n)' <=> EdgeDone(m, n))
      BY <3>1 DEF Passed, EdgeDone
    <3>4. \A i \in DOMAIN prods : i < pi /\ ~(i < 1)
      BY <3>1, GrammarsAssumption DEF TypeOK, SettlingInv
    <3>5. CASE pc' = "done" /\ UNCHANGED <<pi, atStart>>
      BY <3>1, <3>2, <3>3, <3>4, <3>5 DEF SettlingInv
    <3>6. CASE pc' = "prods" /\ pi' = 1 /\ atStart' = derivable
      <4>1. \A i \in DOMAIN prods' : i < pi' => Agrees(i, derivable)'
        BY <3>1, <3>4, <3>6
      <4> QED
        BY <3>1, <3>6, <4>1 DEF SettlingInv
    <3> QED
      BY <3>1, <3>5, <3>6
  <2>5. CASE UNCHANGED vars
    BY <2>5 DEF vars, SettlingInv, Agrees, Passed, EdgeDone
  <2> QED
    BY <2>1, <2>2, <2>3, <2>4, <2>5 DEF Next
<1> QED
  BY <1>1, <1>2, TypeCorrect, PTL DEF Spec

\* When the loop is done after an iteration that set no bit, all edges are done.
LEMMA EdgesDone ==
  ASSUME TypeOK, SettlingInv, Done, derivable = atStart, NEW a \in NT, NEW b \in NT
  PROVE  a # b /\ <<a, b>> \in derivable =>
            /\ \A x \in NT : <<b, x>> \in derivable => <<a, x>> \in derivable
            /\ <<b, a>> \in derivable => a \in cyclic
<1>1. CASE a = Empty
  BY <1>1 DEF SettlingInv
<1>2. CASE a # Empty
  <2>1. PICK m \in 1..(NumNonterms - 1) : a = -m - 1
    <3>1. PICK k \in 1..NumNonterms : a = -k
      BY DEF NT
    <3>2. k - 1 \in 1..(NumNonterms - 1) /\ a = -(k - 1) - 1
      BY <1>2, <3>1, NumNontermsAssumption DEF Empty
    <3> QED
      BY <3>2
  <2>2. PICK n \in 0..(NumNonterms - 1) : b = -n - 1
    <3>1. PICK k \in 1..NumNonterms : b = -k
      BY DEF NT
    <3>2. k - 1 \in 0..(NumNonterms - 1) /\ b = -(k - 1) - 1
      BY <3>1, NumNontermsAssumption
    <3> QED
      BY <3>2
  <2>3. Passed(m, n)
    BY NumNontermsAssumption DEF Passed, SettlingInv, Done, TypeOK
  <2>4. EdgeDone(m, n)
    BY <2>3 DEF SettlingInv, Done
  <2> QED
    BY <2>1, <2>2, <2>4 DEF EdgeDone
<1> QED
  BY <1>1, <1>2

\* The comment at the end of the loop, read of the matrix itself: an iteration that
\* sets no bit leaves a fixed point of the productions and of closure, though both
\* parts worked in place and the productions were judged by a matrix that was not
\* closed yet.
THEOREM QuietMeansSettled == Spec => []QuietIsSettled
<1>1. TypeOK /\ SettlingInv => QuietIsSettled
  <2> SUFFICES ASSUME TypeOK, SettlingInv, Done, derivable = atStart
               PROVE  ClosedUnder(prods, derivable)
    BY DEF QuietIsSettled
  <2>1. \A n \in NT : <<n, n>> \in derivable
    BY DEF SettlingInv
  <2>2. \A a, b, c \in NT : <<a, b>> \in derivable /\ <<b, c>> \in derivable => <<a, c>> \in derivable
    BY EdgesDone
  <2>3. \A i \in DOMAIN prods : Agrees(i, derivable)
    BY DEF SettlingInv, Done
  <2> QED
    BY <2>1, <2>2, <2>3 DEF ClosedUnder, Agrees
<1> QED
  BY <1>1, SettlingInvariant, TypeCorrect, PTL

\* The flags that addDerivable sets as an aside: when the matrix has settled, exactly
\* the nonterminals that derive another one that derives them are flagged.
THEOREM CyclicMeansThroughOthers == Spec => []CyclicThroughOthers
<1>1. TypeOK /\ SettlingInv => CyclicThroughOthers
  <2> SUFFICES ASSUME TypeOK, SettlingInv, Done, derivable = atStart
               PROVE  cyclic = {a \in NT : \E b \in NT \ {a} :
                                  <<a, b>> \in derivable /\ <<b, a>> \in derivable}
    BY DEF CyclicThroughOthers
  <2>1. cyclic \subseteq NT
    BY DEF TypeOK
  <2>2. \A a \in cyclic : \E b \in NT \ {a} : <<a, b>> \in derivable /\ <<b, a>> \in derivable
    BY DEF SettlingInv
  <2>3. \A a \in NT : (\E b \in NT \ {a} : <<a, b>> \in derivable /\ <<b, a>> \in derivable)
                      => a \in cyclic
    BY EdgesDone
  <2> QED
    BY <2>1, <2>2, <2>3
<1> QED
  BY <1>1, SettlingInvariant, TypeCorrect, PTL
=============================================================================
