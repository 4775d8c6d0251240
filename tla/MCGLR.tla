-------------------------------- MODULE MCGLR --------------------------------
(***************************************************************************)
(* The parser core on small grammars, with the tables that the grammar     *)
(* analysis computes for them, and compared with the parse trees that the  *)
(* grammar has for the input.                                              *)
(***************************************************************************)
EXTENDS GLR

G == INSTANCE LALR

CONSTANTS
    MaxLen,         \* tokens before EOF
    MaxLenCyclic    \* the same where the stack gets cycles

Start == -2
S == -3
A == -4
B == -5
T == -6
x == 2
y == 3
z == 4
v == 5

P(l, r) == [lhs |-> l, rhs |-> r, forbid |-> {}]
Grammar(prods) ==
    LET all  == <<P(Start, <<S, EOF>>)>> \o prods
        syms == UNION {{all[p].lhs} \cup ToSet(all[p].rhs) : p \in DOMAIN all}
    IN  [prods |-> all, nonterms |-> {s \in syms : s < 0}, terms |-> {s \in syms : s > 0}]

MCGrammars == [
    \* "E -> x | E + E" (glr.cc:84): one production, many derivations
    sum |-> Grammar(<<P(S, <<S, y, S>>), P(S, <<x>>)>>),
    \* links added to nodes that others already point at, at every token: B, which
    \* vanishes, is there before all the S before it are
    pairs |-> Grammar(<<P(S, <<S, S, B>>), P(S, <<x>>), P(B, <<>>)>>),
    \* nondeterministic but unambiguous: even palindromes
    palindrome |-> Grammar(<<P(S, <<x, S, x>>), P(S, <<y, S, y>>), P(S, <<>>)>>),
    \* a chain of nonterminals over the same tokens, which must be reduced bottom up
    chain |-> Grammar(<<P(S, <<T, y>>), P(S, <<B, y>>), P(T, <<A>>), P(A, <<x>>),
                        P(A, <<B>>), P(B, <<x>>), P(B, <<x, B>>)>>),
    \* alternatives that meet in a parser that is dead: the LALR lookaheads of A
    \* are those of both contexts
    dead |-> Grammar(<<P(S, <<x, A, y>>), P(S, <<y, A, x>>), P(A, <<B>>), P(A, <<z>>),
                       P(B, <<z>>)>>),
    \* symbols that vanish, on the right and in the middle
    vanish |-> Grammar(<<P(S, <<A, B, A>>), P(A, <<x>>), P(A, <<>>), P(B, <<y, B>>),
                         P(B, <<>>)>>),
    \* hidden left recursion: the stack gets a cycle, and a new link opens paths for
    \* parsers further up
    hidden |-> Grammar(<<P(S, <<T, S, x>>), P(S, <<y>>), P(T, <<A, B>>), P(A, <<>>),
                         P(A, <<z>>), P(B, <<>>)>>),
    \* the same below a symbol that another alternative begins with, too
    cycle |-> Grammar(<<P(S, <<B, T>>), P(S, <<B, y, x>>), P(T, <<A, T, z>>),
                        P(T, <<x>>), P(T, <<y, z>>), P(A, <<>>), P(B, <<v>>)>>),
    \* acyclic, but the analysis stops before it finds that A derives S: B, which
    \* vanishes, comes last, and an empty production is no change
    unsettled |-> Grammar(<<P(S, <<y, x>>), P(S, <<y, A>>), P(A, <<x>>),
                            P(A, <<S, B>>), P(B, <<>>)>>) ]

MCTables    == [l \in DOMAIN MCGrammars |-> G!ParseTables(MCGrammars[l])]
Sentences(g, max) == {Append(w, EOF) : w \in UNION {[1..n -> g.terms \ {EOF}] : n \in 0..max}}
MCInputs == [l \in DOMAIN MCGrammars |->
               Sentences(MCGrammars[l], IF l \in {"hidden", "cycle"} THEN MaxLenCyclic ELSE MaxLen)]

-----------------------------------------------------------------------------
\* Reference: the parse trees of the symbols s over tokens i+1..j of w.  A symbol
\* is given no tokens, or all of them, only if it, or what follows it, can vanish.
RECURSIVE NullableFrom(_, _)
NullableFrom(g, N) ==
    LET M == {g.prods[p].lhs : p \in {q \in DOMAIN g.prods :
                                          ToSet(g.prods[q].rhs) \subseteq N}}
    IN  IF M \subseteq N THEN N ELSE NullableFrom(g, N \cup M)

RECURSIVE SeqTrees(_, _, _, _, _, _), SymTrees(_, _, _, _, _, _)
SeqTrees(g, N, s, w, i, j) ==
    IF s = <<>> THEN IF i = j THEN {<<>>} ELSE {}
    ELSE UNION {LET rest == SeqTrees(g, N, Tail(s), w, k, j)
                IN  IF rest = {} THEN {}
                    ELSE {<<t>> \o r : t \in SymTrees(g, N, Head(s), w, i, k), r \in rest} :
                k \in {m \in i..j : /\ m = i => Head(s) \in N
                                    /\ m = j => ToSet(Tail(s)) \subseteq N}}
SymTrees(g, N, X, w, i, j) ==
    IF X > 0 THEN IF j = i + 1 /\ w[j] = X THEN {Leaf(X)} ELSE {}
    ELSE UNION {{<<-p - 1, kids>> : kids \in SeqTrees(g, N, g.prods[p].rhs, w, i, j)} :
                p \in G!ProdsOf(g, X)}

Trees(g, w) == SymTrees(g, NullableFrom(g, {}), Start, w, 0, Len(w))

\* Unless the user cancels reductions, the parser accepts exactly the sentences of
\* the grammar, and what it builds is all of their parse trees: no alternative is
\* lost by merging, by the order of the reductions or by the mini-LR shortcut.  What
\* it builds in spite of cancelled reductions are parse trees still.
ForestComplete ==
    Returned => LET trees == Trees(MCGrammars[lang], toks)
                IN  /\ pc = "accepted" => result # {} /\ result \subseteq trees
                    /\ keep = {TRUE} => result = trees
=============================================================================
