------------------------------- MODULE LRItems -------------------------------
(***************************************************************************)
(* Dotted productions, items with lookaheads and what one step of the      *)
(* item-set construction does to them (elkhound/gramanl.cc).  Pure         *)
(* operators, none of them recursive; g is always a grammar                *)
(*     [prods : sequence of [lhs, rhs, forbid], nonterms, terms]           *)
(* whose first production is Start -> Something EOF.  Symbols are          *)
(* SymbolIds: terminal t is t + 1 (EOF is 1), nonterminal n is -n - 1.     *)
(*                                                                         *)
(* An item is <<production, dot>>; an item set is a function from its      *)
(* items to their lookahead sets.                                          *)
(***************************************************************************)
EXTENDS Integers, Sequences, FiniteSets, SequencesExt, FiniteSetsExt

EOF    == 1
Empty  == -1
IsTerminal(s) == s > 0

\* the elements of a set, one by one (SetToSeq searches all sequences of its size)
Listed(T) == FoldSet(LAMBDA e, s : Append(s, e), <<>>, T)
Ascending(T) == SortSeq(Listed(T), <)

ProdsOf(g, B) == {p \in DOMAIN g.prods : g.prods[p].lhs = B}

\* computeFirst and firstOfIterSeq: scan the sequence until a symbol cannot vanish
FirstOfSeq(N, F, s) ==
    UNION {IF IsTerminal(s[i]) THEN {s[i]} ELSE F[s[i]] :
              i \in {k \in DOMAIN s : \A j \in 1..k-1 : s[j] \in N}}

-----------------------------------------------------------------------------
AfterDot(g, item) == LET rhs == g.prods[item[1]].rhs
                     IN  SubSeq(rhs, item[2] + 1, Len(rhs))
DotAtEnd(g, item) == AfterDot(g, item) = <<>>

\* what can follow B in A -> alpha . B beta, LA
LookaheadBehind(f, beta, la) ==
    FirstOfSeq(f.null, f.first, beta)
        \cup (IF ToSet(beta) \subseteq f.null THEN la ELSE {})

\* singleItemClosure: the items B -> . gamma, First(beta LA) that the item
\* A -> alpha . B beta, LA brings in, less the terminals B -> gamma forbids
ItemsBroughtIn(g, f, item, la) ==
    LET rest == AfterDot(g, item)
    IN  IF rest = <<>> \/ IsTerminal(Head(rest)) THEN <<>>
        ELSE [i \in {<<p, 0>> : p \in ProdsOf(g, Head(rest))} |->
                 LookaheadBehind(f, Tail(rest), la) \ g.prods[i[1]].forbid]

LookaheadIn(I, item) == IF item \in DOMAIN I THEN I[item] ELSE {}

\* the items of both, lookaheads merged
MergeItems(I, J) ==
    [item \in DOMAIN I \cup DOMAIN J |-> LookaheadIn(I, item) \cup LookaheadIn(J, item)]

\* moveDotNoClosure: the kernel reached by moving the dot across sym
MoveDot(g, I, sym) ==
    LET movable == {i \in DOMAIN I : ~DotAtEnd(g, i) /\ Head(AfterDot(g, i)) = sym}
    IN  [k \in {<<i[1], i[2] + 1>> : i \in movable} |-> I[<<k[1], k[2] - 1>>]]

SymbolsAfterDots(g, I) == {Head(AfterDot(g, i)) : i \in {j \in DOMAIN I : ~DotAtEnd(g, j)}}

\* the start kernel: no lookahead, the first production mentions EOF itself
StartKernel == [i \in {<<1, 0>>} |-> {}]
=============================================================================
