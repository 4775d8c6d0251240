------------------------- MODULE MCTableConstruction -------------------------
(***************************************************************************)
(* Automata of three states, three terminals and three nonterminals: some  *)
(* whose rows are taken from a list in which codes repeat, differ and run  *)
(* out, in every build configuration; and one full of conflicts, with      *)
(* declarations of every kind.  Cells and graphs of their own.             *)
(***************************************************************************)
EXTENDS TableConstruction

Err == [to |-> STATE_INVALID, by |-> <<>>]
By(l) == [to |-> STATE_INVALID, by |-> l]
Sh(st, l) == [to |-> st, by |-> l]

\* rows that only reduce, and rows that may shift terminal 0 to states x and y
PlainRows ==
    { <<Err, By(<<0>>), By(<<0>>)>>, <<By(<<3>>), Err, By(<<3, 1>>)>>,
      <<By(<<0, 1>>), By(<<1, 2>>), By(<<0, 1>>)>> }
ShiftRows(x, y) ==
    { <<Sh(x, <<>>), Err, Err>>, <<Sh(y, <<0>>), By(<<1, 2>>), By(<<1, 2>>)>>,
      <<Sh(x, <<3>>), By(<<3>>), By(<<2, 1, 0>>)>> }

X == STATE_INVALID
None3 == <<X, X, X>>
\* states 1 and 2 both over terminal 0; over terminal 0 and nonterminal 0; both over
\* nonterminal 0; over nonterminals 0 and 1.  And the second and fourth with the numbers
\* of states 1 and 2 exchanged
Shapes ==
    { [sym |-> <<0, 1, 1>>, rows |-> ShiftRows(1, 2), gotos |-> {<<None3, None3, None3>>}],
      [sym |-> <<0, 1, -1>>, rows |-> ShiftRows(1, 1), gotos |-> {<<<<2, X, X>>, None3, <<2, X, X>>>>}],
      [sym |-> <<0, -1, -1>>, rows |-> {}, gotos |-> {<<<<1, X, X>>, <<2, X, X>>, None3>>}],
      [sym |-> <<0, -1, -2>>, rows |-> {},
       gotos |-> {<<<<1, 2, X>>, <<X, 2, X>>, None3>>, <<<<1, X, X>>, <<X, 2, X>>, <<1, X, X>>>>}],
      [sym |-> <<0, -1, 1>>, rows |-> ShiftRows(2, 2), gotos |-> {<<<<1, X, X>>, <<1, X, X>>, None3>>}],
      [sym |-> <<0, -2, -1>>, rows |-> {}, gotos |-> {<<<<2, 1, X>>, <<X, 1, X>>, None3>>}] }

\* the lengths of the right sides, and the left sides, of productions 0 to 3
Productions4 == <<[rhsLen |-> 3, lhsIndex |-> 0], [rhsLen |-> 1, lhsIndex |-> 1],
                  [rhsLen |-> 0, lhsIndex |-> 2], [rhsLen |-> 2, lhsIndex |-> 0]>>

Automata3(rows, sym, gotos) ==
    {[shift |-> [st \in State |-> [k \in Term |-> r[st][k + 1].to]],
      reduce |-> [st \in State |-> [k \in Term |-> r[st][k + 1].by]],
      goto |-> [st \in State |-> [n \in Nonterm |-> g[st + 1][n + 1]]],
      stateSymbol |-> [st \in State |-> sym[st + 1]],
      prodInfo |-> Productions4] : r \in [State -> rows], g \in gotos}

\* without the rows that make two automata alike, and with a shift in the first state
Sample(x) == {a \in Automata3(PlainRows \cup x.rows, x.sym, x.gotos) :
                x.rows # {} => a.shift[0][0] # X}

Flags(crs, eef, gcs, gcsc) == [crs |-> crs, eef |-> eef, gcs |-> gcs, gcsc |-> gcsc]
Widths(index, action, goto, len) ==
    [maxIndex |-> index, actionMax |-> action, gotoMax |-> goto, prodMax |-> 9, lenMax |-> len,
     termMax |-> 9, ntMax |-> 9, symMax |-> 9]
\* the build's choices, each with widths that suffice and with widths that run out
MCConfigs ==
    { Flags(FALSE, FALSE, FALSE, FALSE) @@ Widths(0, 99, 99, 3),
      Flags(FALSE, FALSE, FALSE, FALSE) @@ Widths(0, 8, 2, 3),
      Flags(FALSE, TRUE, FALSE, FALSE) @@ Widths(0, 99, 99, 3),
      Flags(TRUE, FALSE, FALSE, FALSE) @@ Widths(9, 0, 99, 3),
      Flags(TRUE, TRUE, FALSE, FALSE) @@ Widths(3, 0, 1, 3),
      Flags(TRUE, TRUE, TRUE, FALSE) @@ Widths(9, 0, 2, 2),
      Flags(FALSE, TRUE, TRUE, FALSE) @@ Widths(0, 99, 9, 3),
      Flags(TRUE, TRUE, TRUE, TRUE) @@ Widths(9, 0, 9, 3),
      [termMax |-> 1] @@ Flags(FALSE, TRUE, TRUE, TRUE) @@ Widths(0, 99, 9, 3),
      [ntMax |-> 1] @@ Flags(FALSE, FALSE, FALSE, FALSE) @@ Widths(0, 99, 99, 3),
      [symMax |-> 0] @@ Flags(FALSE, FALSE, FALSE, FALSE) @@ Widths(0, 99, 99, 3) }
Full == Flags(TRUE, TRUE, TRUE, TRUE) @@ Widths(9, 0, 9, 3)

MCProds == 0..3
Lefts == (0 :> 0) @@ (1 :> 1) @@ (2 :> 2) @@ (3 :> 0)
NoSubsets == [n \in Nonterm |-> {}]
Plain == [prec |-> [p \in MCProds |-> 0], left |-> Lefts, symPrec |-> [k \in Term |-> 0],
          assoc |-> [k \in Term |-> "NONASSOC"], subsets |-> NoSubsets, allowAmbig |-> TRUE]

\* every kind of associativity in three columns, at a level in the middle
Declared3 ==
    [prec : {<<a, b, c, d>> : a \in 0..3, b \in {0, 2, 3}, c \in {1, 2}, d \in {0, 2}},
     left : {Lefts}, symPrec : {[k \in Term |-> 2]},
     assoc : {<<"LEFT", "RIGHT", "SPLIT">>, <<"RIGHT", "NONASSOC", "NEVERASSOC">>},
     subsets : {NoSubsets, [NoSubsets EXCEPT ![1] = {0}], [NoSubsets EXCEPT ![2] = {1}, ![1] = {0}]},
     allowAmbig : BOOLEAN]
From0(f) == [i \in {k - 1 : k \in DOMAIN f} |-> f[i + 1]]
MCGrammars == {[g EXCEPT !.prec = From0(@), !.assoc = From0(@)] : g \in Declared3}

Conflicting ==
    Automata3({<<Sh(1, <<0, 1>>), Sh(1, <<2, 1, 0>>), Sh(2, <<3, 2>>)>>}, <<0, 1, 1>>, {<<None3, None3, None3>>})

MCInputs == UNION {{<<a, Plain, MCConfigs>> : a \in Sample(x)} : x \in Shapes}
            \cup {<<a, g, {Full}>> : a \in Conflicting, g \in MCGrammars}

-----------------------------------------------------------------------------
(* Cells: three reductions and a shift, with every combination of precedences and *)
(* every associativity, and the scannerless directives with few precedences       *)

CellProds == 1..3
Distinct == [p \in CellProds |-> p - 1]
Orders == {<<1, 2, 3>>, <<3, 2, 1>>, <<2, 3, 1>>, <<2, 1>>, <<1, 3>>, <<2>>, <<>>}

PrecedenceCells ==
    [prec : [CellProds -> 0..3], left : {Distinct}, reductions : Orders \ {<<2>>, <<>>},
     shift : BOOLEAN, symPrec : {0, 2}, assoc : {"LEFT", "RIGHT", "NONASSOC", "NEVERASSOC", "SPLIT"},
     subsets : {NoSubsets}, maximal : {{}}, extending : {{}}, allowAmbig : BOOLEAN]

\* subset relations without cycles; one gives 0 two supersets
SubsetDecls ==
    {NoSubsets,
     [NoSubsets EXCEPT ![1] = {0}],
     [NoSubsets EXCEPT ![1] = {0}, ![2] = {1}],
     [NoSubsets EXCEPT ![2] = {0, 1}],
     [NoSubsets EXCEPT ![0] = {1}, ![1] = {2}],
     [NoSubsets EXCEPT ![1] = {0}, ![2] = {0}]}

ScannerlessCells ==
    [prec : {<<0, 0, 0>>, <<1, 0, 2>>, <<3, 2, 1>>},
     left : {Distinct, [Distinct EXCEPT ![2] = 0], [Distinct EXCEPT ![2] = 2]},
     reductions : Orders, shift : BOOLEAN, symPrec : {2}, assoc : {"RIGHT", "NONASSOC"},
     subsets : SubsetDecls, maximal : {{}, {1}, {0, 2}},
     extending : {{0}, {1, 2}}, allowAmbig : {TRUE}]

\* 1 is a subset of 0 and 0 of 1, or 1 of itself, which nothing refuses
CyclicCells ==
    [prec : {<<0, 0, 0>>}, left : {Distinct}, reductions : Orders,
     shift : BOOLEAN, symPrec : {0, 2}, assoc : {"RIGHT"},
     subsets : {[NoSubsets EXCEPT ![0] = {1}, ![1] = {0}], [NoSubsets EXCEPT ![1] = {1}]}, maximal : {{}, {1}},
     extending : {{}, {1}}, allowAmbig : BOOLEAN]

MCCells == PrecedenceCells \cup ScannerlessCells \cup CyclicCells

-----------------------------------------------------------------------------
\* every graph of up to MaxN nodes
CONSTANT MaxN
Pairs(n) == {<<a, b>> \in (0..(n - 1)) \X (0..(n - 1)) : a < b}
MCGraphs == UNION {{[n |-> n, edges |-> e \cup {<<p[2], p[1]>> : p \in e}] :
                       e \in SUBSET Pairs(n)} : n \in 0..MaxN}
=============================================================================
