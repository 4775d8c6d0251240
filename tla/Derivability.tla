---------------------------- MODULE Derivability ----------------------------
(***************************************************************************)
(* GrammarAnalysis::computeWhatCanDeriveWhat (elkhound/gramanl.cc): the    *)
(* relation "left ->* right" on nonterminals, computed in place by         *)
(* alternating a pass over the productions with one R + R^2 closure pass,  *)
(* until a pass reports no change.                                         *)
(*                                                                         *)
(* Symbols are the code's SymbolIds (encodeSymbolId): terminal index t is  *)
(* t + 1, nonterminal index n is -n - 1.  Nonterminal 0 is emptyString.    *)
(* A step of the model is one iteration of an inner loop of the code: one  *)
(* production, or one edge (u,v) of the closure pass.                      *)
(***************************************************************************)
EXTENDS Integers, Sequences

CONSTANTS
    NumNonterms,    \* emptyString and the nonterminals of the grammar
    Grammars        \* the grammars analysed: sequences of [lhs, rhs]

NT        == {-n : n \in 1..NumNonterms}
Empty     == -1
IsTerm(s) == s > 0

Production == [lhs : NT \ {Empty}, rhs : Seq(Int)]

ASSUME NumNontermsAssumption == NumNonterms \in Nat \ {0}

ASSUME GrammarsAssumption ==
    \A g \in Grammars :
        /\ g \in Seq(Production)
        /\ \A i \in DOMAIN g : \A k \in DOMAIN g[i].rhs :
              ~IsTerm(g[i].rhs[k]) => g[i].rhs[k] \in NT \ {Empty}

VARIABLES
    prods,      \* the grammar, fixed by Init
    derivable,  \* the bit matrix: the pairs <<left, right>> whose bit is set
    cyclic,     \* the nonterminals whose 'cyclic' flag is set
    changes,    \* steps of this outer iteration that reported a change
    pc,         \* "prods", "closure" or "done"
    pi,         \* the production the first part is at
    u, v,       \* the edge the closure pass is at (nonterminal indices)
    atStart     \* history: derivable when this outer iteration began

vars == <<prods, derivable, cyclic, changes, pc, pi, u, v, atStart>>

-----------------------------------------------------------------------------
\* the nonterminals the LHS of p derives alone, judging by R which symbols
\* before and after each position can vanish
VanishIn(rhs, R, I) ==
    \A k \in I : ~IsTerm(rhs[k]) /\ <<rhs[k], Empty>> \in R

\* (variation: only the symbols before the position need vanish)
ByProduction_prefixOnly(p, R) ==
    {p.rhs[i] : i \in {j \in DOMAIN p.rhs :
        ~IsTerm(p.rhs[j]) /\ VanishIn(p.rhs, R, 1..(j-1))}}

ByProduction(p, R) ==
    {p.rhs[i] : i \in {j \in DOMAIN p.rhs :
        ~IsTerm(p.rhs[j]) /\ VanishIn(p.rhs, R, DOMAIN p.rhs \ {j})}}

\* (variation: the flag is considered only for a bit that was 0)
AddDerivable_newBitsOnly(new) ==
    /\ derivable' = derivable \cup new
    /\ cyclic' = cyclic \cup {p[1] : p \in {q \in new \ derivable : q[1] = q[2]}}

\* addDerivable for every pair of new: the bits, and the flags of the pairs
\* that lead back to their origin
AddDerivable(new) ==
    /\ derivable' = derivable \cup new
    /\ cyclic'    = cyclic \cup {p[1] : p \in {q \in new : q[1] = q[2]}}

\* initDerivableRelation: reflexivity is recorded without addDerivable
Init ==
    /\ prods \in Grammars
    /\ derivable = {<<n, n>> : n \in NT}
    /\ cyclic = {}
    /\ changes = 0
    /\ pc = "prods" /\ pi = 1 /\ u = 1 /\ v = 0
    /\ atStart = derivable

\* an empty production: recorded, and not counted as a change
EmptyProduction ==
    /\ pc = "prods" /\ pi <= Len(prods)
    /\ prods[pi].rhs = <<>>
    /\ AddDerivable({<<prods[pi].lhs, Empty>>})
    /\ pi' = pi + 1
    /\ UNCHANGED <<prods, changes, pc, u, v, atStart>>

\* any other: each derivation not known yet is added and counted
NonemptyProduction ==
    /\ pc = "prods" /\ pi <= Len(prods)
    /\ prods[pi].rhs # <<>>
    /\ LET lhs == prods[pi].lhs
           new == {<<lhs, r>> : r \in ByProduction(prods[pi], derivable)} \ derivable
       IN  /\ AddDerivable(new)
           /\ changes' = changes + (IF new = {} THEN 0 ELSE 1)
    /\ pi' = pi + 1
    /\ UNCHANGED <<prods, pc, u, v, atStart>>

ProductionsDone ==
    /\ pc = "prods" /\ pi > Len(prods)
    /\ pc' = "closure" /\ u' = 1 /\ v' = 0
    /\ UNCHANGED <<prods, derivable, cyclic, changes, pi, atStart>>

\* (variation: only the nonterminals after v)
Through_later(a, b) ==
    {<<a, w>> : w \in {x \in NT \ {b} : x < b /\ <<b, x>> \in derivable}}

\* the successors of the edge (u,v) other than v itself
Through(a, b) == {<<a, w>> : w \in {x \in NT \ {b} : <<b, x>> \in derivable}}

\* (variation: an edge that was there already counts as a change)
ClosureEdge_recount ==
    /\ pc = "closure" /\ u < NumNonterms
    /\ LET a   == -u - 1
           b   == -v - 1
           new == IF a = b \/ <<a, b>> \notin derivable THEN {} ELSE Through(a, b)
       IN  /\ AddDerivable(new)
           /\ changes' = changes + (IF new = {} THEN 0 ELSE 1)
    /\ IF v + 1 < NumNonterms THEN v' = v + 1 /\ u' = u
                              ELSE v' = 0     /\ u' = u + 1
    /\ UNCHANGED <<prods, pc, pi, atStart>>

\* the closure step at (u,v), u # empty; u = v and absent edges are skipped
ClosureEdge ==
    /\ pc = "closure" /\ u < NumNonterms
    /\ LET a   == -u - 1
           b   == -v - 1
           new == IF a = b \/ <<a, b>> \notin derivable THEN {} ELSE Through(a, b)
       IN  /\ AddDerivable(new)
           /\ changes' = changes + (IF new \subseteq derivable THEN 0 ELSE 1)
    /\ IF v + 1 < NumNonterms THEN v' = v + 1 /\ u' = u
                              ELSE v' = 0     /\ u' = u + 1
    /\ UNCHANGED <<prods, pc, pi, atStart>>

ClosureDone ==
    /\ pc = "closure" /\ u >= NumNonterms
    /\ IF changes = 0
       THEN pc' = "done" /\ UNCHANGED <<changes, pi, atStart>>
       ELSE pc' = "prods" /\ changes' = 0 /\ pi' = 1 /\ atStart' = derivable
    /\ UNCHANGED <<prods, derivable, cyclic, u, v>>

Next == EmptyProduction \/ NonemptyProduction \/ ProductionsDone
            \/ ClosureEdge \/ ClosureDone

Spec == Init /\ [][Next]_vars /\ WF_vars(Next)

-----------------------------------------------------------------------------
TypeOK ==
    /\ prods \in Grammars
    /\ derivable \subseteq NT \X NT
    /\ cyclic \subseteq NT
    /\ changes \in Nat
    /\ pc \in {"prods", "closure", "done"}
    /\ pi \in Nat \ {0} /\ u \in Nat \ {0} /\ v \in 0..NumNonterms-1
    /\ atStart \subseteq NT \X NT

\* R is reflexive, transitive, and agrees with every production of g
ClosedUnder(g, R) ==
    /\ \A n \in NT : <<n, n>> \in R
    /\ \A a, b, c \in NT : <<a, b>> \in R /\ <<b, c>> \in R => <<a, c>> \in R
    /\ \A i \in DOMAIN g :
          IF g[i].rhs = <<>>
          THEN <<g[i].lhs, Empty>> \in R
          ELSE \A k \in DOMAIN g[i].rhs :
                  /\ g[i].rhs[k] \in NT
                  /\ \A j \in DOMAIN g[i].rhs \ {k} : <<g[i].rhs[j], Empty>> \in R
                  => <<g[i].lhs, g[i].rhs[k]>> \in R

Done == pc = "done"

\* the reflexive relations in which emptyString derives only itself
Relations ==
    {{<<n, n>> : n \in NT} \cup S : S \in SUBSET {p \in NT \X NT : p[1] # Empty}}

\* Soundness of the relation: every bit that gets set is in every relation that
\* the grammar forces, so nothing is "derivable" that the grammar cannot derive.
Sound ==
    \A R \in Relations : ClosedUnder(prods, R) => derivable \subseteq R

\* "didn't make any changes during the last iter, so everything has settled"
\* (gramanl.cc:1517), read of the matrix itself: when the last iteration set no
\* bit, the result is a fixed point of productions and of closure.
QuietIsSettled ==
    Done /\ derivable = atStart => ClosedUnder(prods, derivable)

\* The cyclicity that addDerivable tracks "as an aside": when the matrix has
\* settled, a nonterminal is flagged exactly if it derives another one alone that
\* derives it back.
CyclicThroughOthers ==
    Done /\ derivable = atStart =>
        cyclic = {a \in NT : \E b \in NT \ {a} :
                      <<a, b>> \in derivable /\ <<b, a>> \in derivable}

\* The comment as the code has it: when the loop stops, everything has settled.
Settled == Done => ClosedUnder(prods, derivable)

\* "true if this can derive itself in 1 or more steps" (grammar.h:308): the first
\* of the steps is a production, the others are in the settled matrix.
CyclicAsDocumented ==
    Done /\ derivable = atStart =>
        \A i \in DOMAIN prods : \A r \in ByProduction(prods[i], derivable) :
            <<r, prods[i].lhs>> \in derivable => prods[i].lhs \in cyclic

\* The loop stops.
Terminates == <>Done
=============================================================================
