---------------------------- MODULE MCLRItemSets ----------------------------
(***************************************************************************)
(* The construction of the LR states on small grammars, compared with the  *)
(* states that the parser's tables are built from and with the canonical   *)
(* LR(1) collection.                                                       *)
(***************************************************************************)
EXTENDS LRItemSets

L == INSTANCE LALR

Start == -2
S == -3
A == -4
B == -5
x == 2
y == 3
z == 4
v == 5

P(l, r) == [lhs |-> l, rhs |-> r, forbid |-> {}]
Grammar(prods) ==
    LET all  == <<P(Start, <<S, EOF>>)>> \o prods
        syms == UNION {{all[p].lhs} \cup ToSet(all[p].rhs) : p \in DOMAIN all}
    IN  [prods |-> all, nonterms |-> {s \in syms : s < 0}, terms |-> {s \in syms : s > 0}]

Grammars == {
    \* a state that leads to itself, with a new lookahead that its closure passes on
    Grammar(<<P(S, <<x, S, y>>), P(S, <<A>>), P(A, <<x, B>>), P(B, <<z>>)>>),
    \* assignments: lookaheads reach a state that was done before
    Grammar(<<P(S, <<A, y, B>>), P(S, <<B>>), P(A, <<z, B>>), P(A, <<x>>), P(B, <<A>>)>>),
    \* LR(1) but not LALR(1): two states with one core
    Grammar(<<P(S, <<x, A, x>>), P(S, <<y, B, x>>), P(S, <<x, B, y>>), P(S, <<y, A, y>>),
              P(A, <<z>>), P(B, <<z>>)>>),
    \* symbols that vanish, and a production that must not be reduced before x
    Grammar(<<P(S, <<A, B>>), P(A, <<>>), P(A, <<B, A, x>>), P(B, <<y>>),
              [lhs |-> B, rhs |-> <<>>, forbid |-> {x}]>>),
    \* expressions: many ways from one state to another and back
    Grammar(<<P(S, <<A>>), P(S, <<S, y, A>>), P(A, <<z, S, v>>), P(A, <<x>>)>>),
    \* a lookahead that reaches S -> A when its closure has been taken already
    Grammar(<<P(S, <<S, y, A>>), P(S, <<A>>), P(A, <<x>>)>>) }

MCAnalyses == {[grammar |-> h, facts |-> L!Facts(h)] : h \in Grammars}

\* The canonical LR(1) collection: kernels with other lookaheads are other kernels
RECURSIVE Canonical(_, _, _)
Canonical(h, K, M) ==
    IF M = K THEN K
    ELSE Canonical(h, M, M \cup UNION {L!MovesFrom(h, L!Closure(h, f, k)) : k \in M \ K})

StatesMade == {[kernel |-> sets[id].kernel, all |-> Items(sets[id])] : id \in Ids}
StatesOf(kernels) == {[kernel |-> k, all |-> L!Closure(g, f, k)] : k \in kernels}

\* What the worklist ends with are the LALR(1) states, lookaheads and closures
\* included: the canonical LR(1) sets, those with the same core made one.
IsMergedLR1 == Finished => StatesMade = StatesOf(L!Merged(Canonical(g, {}, {StartKernel})))

\* They are also the states that the tables of the parser models are built from.
GivesTheTables == Finished => StatesMade = StatesOf(L!LALRKernels(g, f))
=============================================================================
