-------------------------------- MODULE LALR --------------------------------
(***************************************************************************)
(* What Elkhound's grammar analysis computes from a grammar                *)
(* (elkhound/gramanl.cc): First sets, closures of item sets, the LALR(1)   *)
(* states, the action and goto tables and the reduction order on           *)
(* nonterminals.  Pure operators on grammars and items as in LRItems.      *)
(***************************************************************************)
EXTENDS LRItems

-----------------------------------------------------------------------------
(* computeWhatCanDeriveWhat, run to its end: the pairs <<A, B>>, A # B, that it  *)
(* finds with A ->* B, B a nonterminal or Empty.  Module Derivability has its    *)
(* loop step by step, and what is wrong with the test that ends it.              *)

\* the first part: the pairs each production gives, in turn
ByProductions(g, R) ==
    LET alone(p, Q) == {p.rhs[i] : i \in {j \in DOMAIN p.rhs :
                            /\ ~IsTerminal(p.rhs[j])
                            /\ \A k \in DOMAIN p.rhs \ {j} : <<p.rhs[k], Empty>> \in Q}}
        add(Q, p)   == Q \cup {<<p.lhs, X>> : X \in (IF p.rhs = <<>> THEN {Empty}
                                                     ELSE alone(p, Q)) \ {p.lhs}}
    IN  FoldLeft(add, R, g.prods)

\* the second part: R + R^2, in place, edge by edge
ClosurePass(g, R) ==
    LET nts == Reverse(Ascending(g.nonterms))
        extend(Q, A) ==
            LET through(Q2, B) ==
                    IF <<A, B>> \notin Q2 THEN Q2
                    ELSE Q2 \cup {<<A, p[2]>> : p \in {q \in Q2 : q[1] = B /\ q[2] # A}}
            IN  FoldLeft(through, Q, nts)
    IN  FoldLeft(extend, R, nts)

\* the changes that are counted, when R becomes P and then C: a pair that an empty
\* production gives is none
Counted(R, P, C) == (C \ P) \cup {p \in P \ R : p[2] # Empty}

\* The loop, at relation C, when the iteration before took R to P and then to C
RECURSIVE DerivableFrom(_, _, _, _)
DerivableFrom(g, R, P, C) ==
    IF Counted(R, P, C) = {} THEN C
    ELSE LET Q == ByProductions(g, C) IN DerivableFrom(g, C, Q, ClosurePass(g, Q))

Derivable(g) == LET P == ByProductions(g, {})
                IN  DerivableFrom(g, {}, P, ClosurePass(g, P))

CanDeriveEmpty(g) == {p[1] : p \in {q \in Derivable(g) : q[2] = Empty}}

-----------------------------------------------------------------------------
\* one pass over the productions
FirstPass(g, N, F) ==
    [A \in g.nonterms |->
        F[A] \cup UNION {FirstOfSeq(N, F, g.prods[p].rhs) : p \in ProdsOf(g, A)}]

RECURSIVE FirstFrom(_, _, _, _)
FirstFrom(g, N, F, G) == IF G = F THEN F ELSE FirstFrom(g, N, G, FirstPass(g, N, G))

FirstSets(g, N) ==
    LET none == [A \in g.nonterms |-> {}]
    IN  FirstFrom(g, N, none, FirstPass(g, N, none))

-----------------------------------------------------------------------------
\* a table of what the closure asks of the grammar again and again
FactsFrom(g, N) == [null |-> N, first |-> FirstSets(g, N)]
Facts(g) == FactsFrom(g, CanDeriveEmpty(g))

\* itemSetClosure: until no item brings in anything new
ClosureStep(g, f, I) ==
    FoldSet(LAMBDA item, K : MergeItems(K, ItemsBroughtIn(g, f, item, I[item])),
            I, DOMAIN I)

RECURSIVE ClosureFrom(_, _, _, _)
ClosureFrom(g, f, I, J) ==
    IF J = I THEN I ELSE ClosureFrom(g, f, J, ClosureStep(g, f, J))

Closure(g, f, I) == ClosureFrom(g, f, I, ClosureStep(g, f, I))

\* constructLRItemSets, as what it converges to: the kernels (by their items, with
\* merged lookaheads) reachable from the start kernel by moving dots over closures
MovesFrom(g, C) == {MoveDot(g, C, s) : s \in SymbolsAfterDots(g, C)}

\* kernels with the same items are one, with the lookaheads of all
Merged(K) ==
    {FoldSet(MergeItems, <<>>, {k \in K : DOMAIN k = c}) : c \in {DOMAIN k : k \in K}}

RECURSIVE KernelsFrom(_, _, _, _)
KernelsFrom(g, f, K, M) ==
    IF M = K THEN K
    ELSE KernelsFrom(g, f, M,
                     Merged(M \cup UNION {MovesFrom(g, Closure(g, f, k)) : k \in M}))

LALRKernels(g, f) == KernelsFrom(g, f, {}, {StartKernel})

-----------------------------------------------------------------------------
\* topologicalSort: nonterminals are numbered from the last ordinal down, after
\* all those that derive them (derivable is reflexive: the self pair is 'seen')
RECURSIVE SortFrom(_, _, _)
SortFrom(g, D, s) ==   \* s: [order, next, todo], todo a stack of visits and entries
    IF s.todo = <<>> THEN s.order
    ELSE LET top  == Head(s.todo)
             rest == Tail(s.todo)
         IN  IF top.enter
             THEN SortFrom(g, D, [order |-> (top.nt :> s.next) @@ s.order,
                                  next |-> s.next - 1, seen |-> s.seen, todo |-> rest])
             ELSE IF top.nt \in s.seen
             THEN SortFrom(g, D, [s EXCEPT !.todo = rest])
             ELSE LET above == Reverse(Ascending({A \in g.nonterms : <<A, top.nt>> \in D}))
                  IN  SortFrom(g, D,
                        [s EXCEPT !.seen = @ \cup {top.nt},
                                  !.todo = [i \in DOMAIN above |->
                                               [enter |-> FALSE, nt |-> above[i]]]
                                           \o <<[enter |-> TRUE, nt |-> top.nt]>> \o rest])

\* computeParseTables: the sort is started at each nonterminal in turn
NontermOrder(g) ==
    LET nts == Reverse(Ascending(g.nonterms))
    IN  SortFrom(g, Derivable(g),
                 [order |-> <<>>, next |-> Cardinality(g.nonterms), seen |-> {},
                  todo |-> [i \in DOMAIN nts |-> [enter |-> FALSE, nt |-> nts[i]]]])

-----------------------------------------------------------------------------
\* getPossibleReductions: the complete items whose lookahead has the terminal
PossibleReductions(g, C, t) ==
    Ascending({i[1] : i \in {j \in DOMAIN C : DotAtEnd(g, j) /\ t \in C[j]}})

\* the state that the dot moved across sym leads to: states are numbered from 0
Target(g, seq, C, sym) ==
    (CHOOSE j \in DOMAIN seq : DOMAIN seq[j] = DOMAIN MoveDot(g, C, sym)) - 1

\* a cell, with ambiguity allowed and no precedence given: the shift, if there is
\* one, then the reductions.  An entry is the sequence of its actions: shift to
\* state s is s + 1, reduce by production p is -p - 1.
Cell(g, seq, C, t) ==
    (IF t \in SymbolsAfterDots(g, C) THEN <<Target(g, seq, C, t) + 1>> ELSE <<>>)
    \o LET r == PossibleReductions(g, C, t) IN [k \in DOMAIN r |-> -r[k] - 1]

GotoCell(g, seq, C, A) ==
    IF A \in SymbolsAfterDots(g, C) THEN Target(g, seq, C, A) ELSE -1

\* computeParseTables, given the kernels and the closures of the states in order
TablesOf(g, seq, closed) ==
    [start  |-> 0,
     final  |-> 1,
     action |-> [s \in 0..Len(seq)-1 |->
                    [t \in g.terms |-> Cell(g, seq, closed[s + 1], t)]],
     goto   |-> [s \in 0..Len(seq)-1 |->
                    [A \in g.nonterms |-> GotoCell(g, seq, closed[s + 1], A)]],
     prods  |-> [p \in DOMAIN g.prods |->
                    [lhs |-> g.prods[p].lhs, len |-> Len(g.prods[p].rhs)]],
     order  |-> NontermOrder(g)]

Closed(g, f, seq) == [i \in DOMAIN seq |-> Closure(g, f, seq[i])]

\* the start state comes first
InOrder(kernels) ==
    LET start == CHOOSE k \in kernels : <<1, 0>> \in DOMAIN k
    IN  <<start>> \o Listed(kernels \ {start})

TablesFrom(g, f, seq) == TablesOf(g, seq, Closed(g, f, seq))
TablesWith(g, f) == TablesFrom(g, f, InOrder(LALRKernels(g, f)))
ParseTables(g) == TablesWith(g, Facts(g))
=============================================================================
