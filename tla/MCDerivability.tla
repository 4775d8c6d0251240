--------------------------- MODULE MCDerivability ---------------------------
\* Small grammars for the derivability analysis: two terminals are one too many
\* (the analysis tells no terminals apart), so t stands for any of them.
EXTENDS Derivability

t == 2
A == -2
B == -3
C == -4
D == -5      \* the top-level symbol
Eof == 1

P(l, r) == [lhs |-> l, rhs |-> r]

\* every grammar of at most two productions over A, B with short right sides
ShortRhs == {<<>>, <<t>>, <<A>>, <<B>>, <<A, A>>, <<A, B>>, <<B, A>>, <<t, A>>, <<B, t>>}
SmallProd == {P(l, r) : l \in {A, B}, r \in ShortRhs}
SmallGrammars == {<<p>> : p \in SmallProd} \cup {<<p, q>> : p, q \in SmallProd}

\* with C: chains and cycles through several nonterminals, right sides that
\* vanish, in the orders of productions that need several iterations
ChainGrammars == {
    <<P(A, <<B, C>>), P(B, <<C>>), P(C, <<>>), P(C, <<t>>)>>,
    <<P(A, <<B>>), P(B, <<C>>), P(C, <<A>>), P(C, <<t>>)>>,
    <<P(C, <<A, B>>), P(A, <<B, B>>), P(B, <<>>), P(B, <<t>>), P(A, <<C>>)>>,
    <<P(A, <<B, C, B>>), P(C, <<>>), P(B, <<C, C>>), P(B, <<t, A>>)>>,
    <<P(A, <<t, B>>), P(B, <<A, C>>), P(C, <<>>)>>,
    <<P(A, <<C, B, C>>), P(B, <<A, C>>), P(B, <<t>>), P(C, <<>>)>> }

\* grammars whose first iteration finds nothing but empty right sides: the
\* top-level production, then A -> B C with B and C declared after it
LateEmptyGrammars == {
    <<P(D, <<A, Eof>>), P(A, <<B, C>>), P(B, <<>>), P(C, <<>>)>>,
    <<P(D, <<A, Eof>>), P(A, <<t, A>>), P(A, <<B>>), P(B, <<t>>)>> }

\* a nonterminal that is its own right side
SelfGrammars == {
    <<P(D, <<A, Eof>>), P(A, <<B>>), P(B, <<A>>), P(B, <<t>>)>>,
    <<P(D, <<A, Eof>>), P(A, <<t>>), P(A, <<A>>)>> }

MCGrammars == SmallGrammars \cup ChainGrammars
=============================================================================
