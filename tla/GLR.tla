--------------------------------- MODULE GLR ---------------------------------
(***************************************************************************)
(* The GLR parser core (elkhound/glr.cc): the graph-structured stack, the  *)
(* mini-LR core that runs while the stack is deterministic, and the        *)
(* reduction worklist (RWL) algorithm that takes over when it is not.      *)
(*                                                                         *)
(* A node is its index in gss.  Indices are never reused: where the code   *)
(* puts a node back into its object pool, the model clears its live flag,  *)
(* so a use of a freed node shows as a use of a node that is not live.     *)
(* Link 1 of a node is the code's embedded firstSib, the others are        *)
(* leftSiblings in the order they were added (the code prepends).          *)
(*                                                                         *)
(* The user's actions build parse trees: a semantic value is a set of      *)
(* trees, the merge of two values is their union, and every value carries  *)
(* an id, because a value has one owner: it is given to one action.        *)
(***************************************************************************)
EXTENDS Integers, Sequences, FiniteSets, SequencesExt, FiniteSetsExt, Functions

CONSTANTS
    Languages,  \* names of the grammars the parser is built for
    Tables,     \* for each, its parse tables
    Inputs,     \* for each, the token sequences to parse; each ends in EOF
    MiniLR,     \* subset of BOOLEAN: builds with and without USE_MINI_LR
    Keep        \* sets of answers: what keepNontermValue may say during a parse

EOF == 1

\* Action entries: the sequence of a cell's actions (parsetables.h).  Shift to state s
\* is s + 1, reduce by production p is -p - 1.
IsShift(a)   == a > 0
IsReduce(a)  == a < 0

ShiftDest(a) == a - 1
ReduceBy(a)  == -a - 1

\* What the parser takes for granted of the tables T that a grammar analysis makes.
\* Before(T, D): the states with a transition into D.  Behind(T, s, len)[k]: those that
\* lie k symbols under s on a stack.
States(T) == DOMAIN T.action
LeadsTo(T, q, s) ==
    \/ \E t \in DOMAIN T.action[q] : s + 1 \in ToSet(T.action[q][t])
    \/ \E nt \in DOMAIN T.goto[q] : T.goto[q][nt] = s
Before(T, D) == {q \in States(T) : \E s \in D : LeadsTo(T, q, s)}
Behind(T, s, len) ==
    LET at[k \in 0..len] == IF k = 0 THEN {s} ELSE Before(T, at[k-1])
    IN  at

\* Nothing leads to the start state, and all transitions lead to states.  The symbols
\* of a right-hand side lie on the stack when its production is reduced, and what is
\* under them has a transition on its left-hand side.  EOF is shifted after a symbol.
Automaton(T) ==
    /\ States(T) \subseteq Nat /\ T.start \in States(T)
    /\ \A q \in States(T) : T.start \notin {T.goto[q][nt] : nt \in DOMAIN T.goto[q]}
    /\ \A s \in States(T) : \A t \in DOMAIN T.action[s] :
          /\ T.action[s][t] \in Seq(Int)
          /\ \A a \in ToSet(T.action[s][t]) :
                /\ a # 0
                /\ IsShift(a) => /\ ShiftDest(a) \in States(T) \ {T.start}
                                 /\ t = EOF => s # T.start
                /\ IsReduce(a) =>
                      LET p == T.prods[ReduceBy(a)]
                      IN  /\ ReduceBy(a) \in DOMAIN T.prods /\ p.len \in Nat
                          /\ \A k \in 0..(p.len - 1) : T.start \notin Behind(T, s, p.len)[k]
                          /\ \A q \in Behind(T, s, p.len)[p.len] :
                                p.lhs \in DOMAIN T.goto[q] /\ T.goto[q][p.lhs] \in States(T)

ASSUME TablesAssumption ==
    \A l \in Languages :
        /\ Automaton(Tables[l])
        /\ \A w \in Inputs[l], s \in States(Tables[l]) : ToSet(w) \subseteq DOMAIN Tables[l].action[s]

ASSUME InputsAssumption ==
    \A l \in Languages : \A w \in Inputs[l] :
        /\ w \in Seq(Nat)
        /\ w # <<>> /\ w[Len(w)] = EOF
        /\ \A i \in 1..Len(w)-1 : w[i] # EOF

\* A cell has each of its actions once: it is made of the transition on a token and of the
\* items of a state that are complete, each for a production of its own.
ASSUME CellsAssumption ==
    \A l \in Languages : \A s \in States(Tables[l]) : \A t \in DOMAIN Tables[l].action[s] :
        IsInjective(Tables[l].action[s][t])

VARIABLES
    lang,       \* the grammar, fixed by Init
    tables,     \* its parse tables
    toks,       \* the token sequence, fixed by Init
    mini,       \* is the mini-LR core compiled in?  fixed by Init
    keep,       \* what keepNontermValue may answer, fixed by Init
    pos,        \* the token being processed
    pc,         \* "token", "reduce", "shift", "cleanup", "accepted", "rejected"
    gss,        \* the stack nodes
    topmostParsers, \* the tops of the live parses
    prevTopmost,    \* during a shift, the parsers still to be shifted
    pathQueue,      \* the reduction paths to process
    column,     \* globalNodeColumn
    nextVal,    \* the next semantic value id
    spent,      \* ids of values given to an action, merged away or deallocated
    yieldThenMergeCt,   \* merges into a value that had been yielded
    result,     \* treeTop: {} until accepted
    considered, \* history: the paths enqueued for this token, in order
    sharedPops  \* history: has the mini-LR core popped, or pushed on, a shared node?

given == <<lang, tables, toks, mini, keep>>
vars  == <<lang, tables, toks, mini, keep, pos, pc, gss, topmostParsers,
           prevTopmost, pathQueue, column, nextVal, spent, yieldThenMergeCt,
           result, considered, sharedPops>>
ghosts == <<considered, sharedPops>>

-----------------------------------------------------------------------------
(* The parse tables *)

Token        == toks[pos]
Entry(state) == tables.action[state][Token]
Goto(state, nt) == tables.goto[state][nt]

\* (variation: only shifts count as progress)
CanMakeProgress_byShift(state) == \E a \in ToSet(Entry(state)) : IsShift(a)

\* canMakeProgress: the cell is no error
CanMakeProgress(state) == Entry(state) # <<>>

\* the shifts of the cell; the states being an automaton's, there is at most one
Shifts(state) == {a \in ToSet(Entry(state)) : IsShift(a)}
TheOne(S)     == CHOOSE x \in S : TRUE

-----------------------------------------------------------------------------
(* Stack nodes *)

Node(state, col) == [state |-> state, column |-> col, depth |-> 1, refct |-> 0,
                     live |-> TRUE, links |-> <<>>]

Link(sib, val) == [sib |-> sib, val |-> val, yields |-> 0]

Leaf(t)  == <<t, <<>>>>
Value(id, trees) == [id |-> id, trees |-> trees]

\* (variation: a first link borrows the caller's reference, as the mini-LR core's do)
AddLink_noRefCt(h, n, sib, val) ==
    LET first == h[n].links = <<>>
        h1 == [h EXCEPT ![n].depth = IF first THEN h[sib].depth + 1 ELSE 0,
                        ![n].links = Append(@, Link(sib, val))]
    IN  IF first THEN h1 ELSE [h1 EXCEPT ![sib].refct = @ + 1]

\* addSiblingLink: the first link extends the deterministic stretch of its
\* sibling, a further one ends it; the sibling gains a reference
AddLink(h, n, sib, val) ==
    LET first == h[n].links = <<>>
        h1 == [h EXCEPT ![n].depth = IF first THEN h[sib].depth + 1 ELSE 0,
                        ![n].links = Append(@, Link(sib, val))]
    IN  [h1 EXCEPT ![sib].refct = @ + 1]

\* getLinkTo: the index of the link from n to sib, or 0
LinkTo(h, n, sib) ==
    IF \E k \in DOMAIN h[n].links : h[n].links[k].sib = sib
    THEN CHOOSE k \in DOMAIN h[n].links : h[n].links[k].sib = sib ELSE 0

\* computeDeterminDepth, from the depths d of the siblings
DeterminDepth(h, d, n) ==
    CASE Len(h[n].links) = 0 -> 1
      [] Len(h[n].links) = 1 -> d[h[n].links[1].sib] + 1
      [] OTHER -> 0

Depths(h) == [n \in DOMAIN h |-> h[n].depth]

\* the links to m from nodes of S, and their number
LinksTo(h, S, m) ==
    UNION {{n} \X {k \in DOMAIN h[n].links : h[n].links[k].sib = m} : n \in S}
LinksInto(h, S, m) == Cardinality(LinksTo(h, S, m))

\* decRefCt: a node that loses its last reference is freed, which releases its
\* links, which may free their siblings in turn
FreedBy(h, n) ==
    LET grow[k \in 0..Len(h)] ==
            IF k = 0 THEN {n}
            ELSE LET F == grow[k-1]
                 IN  F \cup {m \in DOMAIN h \ {n} :
                              h[m].live /\ LinksInto(h, F, m) = h[m].refct}
    IN  grow[Len(h)]

\* (variation: a node is freed with the parser that lets go of it)
DecRefCt_frees(h, n) ==
    [h EXCEPT ![n].live = FALSE, ![n].refct = 0, ![n].links = <<>>]

DecRefCt(h, n) ==
    IF h[n].refct > 1 THEN [h EXCEPT ![n].refct = @ - 1]
    ELSE LET F == FreedBy(h, n)
         IN  [m \in DOMAIN h |->
                 [h[m] EXCEPT !.live = @ /\ m \notin F,
                              !.refct = IF m \in F THEN 0 ELSE @ - LinksInto(h, F, m),
                              !.links = IF m \in F THEN <<>> ELSE @]]

\* (variation: of the links of a freed node, only firstSib gives up its value)
DroppedBy_firstSib(h, n) ==
    IF h[n].refct > 1 THEN {}
    ELSE UNION {{h[m].links[k].val.id : k \in {1} \cap DOMAIN h[m].links} :
                m \in FreedBy(h, n)}

\* the value ids that DecRefCt(h, n) deallocates
DroppedBy(h, n) ==
    IF h[n].refct > 1 THEN {}
    ELSE UNION {{h[m].links[k].val.id : k \in DOMAIN h[m].links} : m \in FreedBy(h, n)}

-----------------------------------------------------------------------------
(* Reduction paths *)

FlatMap(Op(_), s) == FlattenSeq([i \in DOMAIN s |-> Op(s[i])])

\* the order in which the links of a node are explored: firstSib, then the
\* leftSiblings, the last one added first
LinkOrder(h, n) ==
    [k \in DOMAIN h[n].links |-> IF k = 1 THEN 1 ELSE Len(h[n].links) + 2 - k]

\* rwlRecursiveEnqueue: the paths of len links that end at n, leftmost link first,
\* in the order of a depth-first search from n
PathsTo(h, n, len) ==
    LET longer(p) ==
            [i \in DOMAIN h[p.left].links |->
                LET l == LinkOrder(h, p.left)[i]
                IN  [left  |-> h[p.left].links[l].sib,
                     links |-> <<<<p.left, l>>>> \o p.links]]
        paths[k \in 0..len] ==
            IF k = 0 THEN << [left |-> n, links |-> <<>>] >>
            ELSE LET ps == paths[k-1]
                 IN  FlatMap(longer, ps)
    IN  paths[len]

\* (variation: mustUseLink is not asked for)
NewPaths_anyLink(h, n, entry, must) ==
    LET byProd(p) ==
            LET path(q) == << [prod |-> p, right |-> n, left |-> q.left, links |-> q.links,
                               column |-> h[q.left].column] >>
            IN  FlatMap(path, PathsTo(h, n, tables.prods[p].len))
        byAction(a) == IF IsReduce(a) THEN byProd(ReduceBy(a)) ELSE <<>>
    IN  FlatMap(byAction, entry)

\* the paths of the reductions that entry allows at n; with a link in must, only
\* those that use it
NewPaths(h, n, entry, must) ==
    LET byProd(p) ==
            LET path(q) == [prod |-> p, right |-> n, left |-> q.left, links |-> q.links,
                            column |-> h[q.left].column]
                wanted(q) == IF must \subseteq ToSet(q.links) THEN <<path(q)>> ELSE <<>>
            IN  FlatMap(wanted, PathsTo(h, n, tables.prods[p].len))
        byAction(a) == IF IsReduce(a) THEN byProd(ReduceBy(a)) ELSE <<>>
    IN  FlatMap(byAction, entry)

\* (variation: only the spans are compared)
GoesBefore_spanOnly(p, q) == p.column > q.column

\* goesBefore: fewer tokens spanned first, then the order on nonterminals
GoesBefore(p, q) ==
    \/ p.column > q.column
    \/ /\ p.column = q.column
       /\ tables.order[tables.prods[p.prod].lhs]
            < tables.order[tables.prods[q.prod].lhs]

\* insertPathCopy: before the first path it goes before
InsertPath(q, p) ==
    LET at == {i \in DOMAIN q : GoesBefore(p, q[i])}
    IN  IF at = {} THEN Append(q, p) ELSE InsertAt(q, Min(at), p)

InsertAll(q, ps) ==
    LET after[i \in 0..Len(ps)] == IF i = 0 THEN q ELSE InsertPath(after[i-1], ps[i])
    IN  after[Len(ps)]

\* the new paths of each parser of the list, in list order
PathsOfAll(h, list, must) ==
    FlatMap(LAMBDA n : NewPaths(h, n, Entry(h[n].state), must), list)

-----------------------------------------------------------------------------
(* Semantic values *)

\* the trees an action builds from the values of the right-hand side
Build(p, args) ==
    LET more(S, v) == {Append(s, t) : s \in S, t \in v.trees}
    IN  {<<-p - 1, kids>> : kids \in FoldLeft(more, {<<>>}, args)}

\* the value the lexer has for the token, or a duplicate of it
TokenValue == Value(nextVal, {Leaf(Token)})

Ids(args) == {args[i].id : i \in DOMAIN args}

\* (variation: the link keeps the value it yields)
Yield_noDup(h, links, next) ==
    [h |-> h, args |-> [i \in DOMAIN links |-> h[links[i][1]].links[links[i][2]].val],
     next |-> next + Len(links)]

\* rwlProcessWorklist, before the action: from right to left, each link yields its
\* value to the action and keeps a duplicate.  A link the path uses twice yields
\* first its value, then the duplicate.
Yield(h, links, next) ==
    LET uses(n, k) == {i \in DOMAIN links : links[i] = <<n, k>>}
        copy(i)    == next + Len(links) - i
        value(n, k, later) ==
            LET v == h[n].links[k].val
            IN  IF later = {} THEN v ELSE [v EXCEPT !.id = copy(Min(later))]
        after(n, k) == [h[n].links[k] EXCEPT !.val = value(n, k, uses(n, k)),
                                             !.yields = @ + Cardinality(uses(n, k))]
    IN  [h    |-> [n \in DOMAIN h |->
                      [h[n] EXCEPT !.links = [k \in DOMAIN h[n].links |-> after(n, k)]]],
         args |-> [i \in DOMAIN links |-> LET n == links[i][1]
                                             k == links[i][2]
                                         IN  value(n, k, {j \in uses(n, k) : j > i})],
         next |-> next + Len(links)]

\* (variation: the search looks at the first parser only)
InState_first(h, list, state) ==
    {n \in {list[i] : i \in {1} \cap DOMAIN list} : h[n].state = state}

\* findTopmostParser: the parsers in this state; the unique-state property makes
\* them at most one
InState(h, list, state) == {n \in ToSet(list) : h[n].state = state}

-----------------------------------------------------------------------------
Init ==
    /\ lang \in Languages /\ tables = Tables[lang]
    /\ toks \in Inputs[lang] /\ mini \in MiniLR /\ keep \in Keep
    /\ pos = 1 /\ pc = "token"
    /\ gss = <<[Node(tables.start, 0) EXCEPT !.refct = 1]>>
    /\ topmostParsers = <<1>> /\ prevTopmost = <<>> 
    /\ pathQueue = <<>> /\ column = 0
    /\ nextVal = 1 /\ spent = {} /\ yieldThenMergeCt = 0 /\ result = {}
    /\ considered = <<>> /\ sharedPops = FALSE

\* the token is consumed: stop after EOF, else get the next one
TokenDone == IF Token = EOF THEN pc' = "cleanup" /\ UNCHANGED pos
                            ELSE pc' = "token" /\ pos' = pos + 1

(* ------------------------------- mini-LR ------------------------------- *)
\* one parser, with one action for the token
Parser == topmostParsers[1]
Action == Entry(gss[Parser].state)[1]

Deterministic == mini /\ Len(topmostParsers) = 1 /\ Len(Entry(gss[Parser].state)) = 1
CanMiniShift  == Deterministic /\ IsShift(Action)
\* (variation: the depth is not compared with the length of the right-hand side)
CanMiniReduce_anyDepth == Deterministic /\ IsReduce(Action)

CanMiniReduce == /\ Deterministic /\ IsReduce(Action)
                 /\ tables.prods[ReduceBy(Action)].len <= gss[Parser].depth

\* the nodes a mini-LR reduction of len symbols pops, and the one it uncovers,
\* following first links from n
Chain(h, n, len) ==
    LET at[k \in 0..len] == IF k = 0 THEN n ELSE h[at[k-1]].links[1].sib
    IN  [k \in 1..len+1 |-> at[k-1]]

\* the popped nodes go straight back to the pool: no reference counts change, for
\* each of them is taken to have the one reference that is going away
Pop(h, popped) ==
    [n \in DOMAIN h |-> IF n \in popped
        THEN [h[n] EXCEPT !.live = FALSE, !.links = <<>>] ELSE h[n]]

\* MAKE_STACK_NODE and addFirstSiblingLink_noRefCt: the new parser on top of left
Pushed(h, state, col, left, val) ==
    [state |-> state, column |-> col, depth |-> h[left].depth + 1, refct |-> 1,
     live |-> TRUE, links |-> <<Link(left, val)>>]

\* The assertions at it (glr.cc:1123): every node that is popped, and the one that is
\* uncovered, is referred to once.
PopsUnshared ==
    LET ch == Chain(gss, Parser, tables.prods[ReduceBy(Action)].len)
    IN  \A k \in DOMAIN ch : gss[ch[k]].refct = 1

MiniReduce ==
    /\ pc = "token" /\ CanMiniReduce
    /\ LET p    == ReduceBy(Action)
           lhs  == tables.prods[p].lhs
           len  == tables.prods[p].len
           ch   == Chain(gss, Parser, len)
           left == ch[len + 1]
           popped == {ch[k] : k \in 1..len}
           args == [k \in 1..len |-> gss[ch[len + 1 - k]].links[1].val]
           val  == Value(nextVal, Build(p, args))
       IN  /\ gss' = Append(Pop(gss, popped),
                            Pushed(gss, Goto(gss[left].state, lhs), column, left, val))
           /\ spent' = spent \cup Ids(args)
    /\ topmostParsers' = <<Len(gss) + 1>>
    /\ sharedPops' = (sharedPops \/ ~PopsUnshared)
    /\ nextVal' = nextVal + 1
    /\ \E kept \in keep : pc' = IF kept THEN "token" ELSE "rejected"
    /\ UNCHANGED <<given, pos, prevTopmost, pathQueue, column, yieldThenMergeCt,
                   result, considered>>

\* the topmost parser's reference becomes the new link's
MiniShift ==
    /\ pc = "token" /\ CanMiniShift
    /\ gss' = Append(gss, Pushed(gss, ShiftDest(Action), column + 1, Parser, TokenValue))
    /\ topmostParsers' = <<Len(gss) + 1>>
    /\ column' = column + 1 /\ nextVal' = nextVal + 1
    /\ TokenDone
    /\ UNCHANGED <<given, prevTopmost, pathQueue, spent, yieldThenMergeCt,
                   result, ghosts>>

(* ----------------------- nondeterministicParseToken -------------------- *)
\* enqueue the reductions of every topmost parser
StartReductions ==
    /\ pc = "token" /\ ~CanMiniShift /\ ~CanMiniReduce
    /\ pc' = "reduce"
    /\ LET ps == PathsOfAll(gss, topmostParsers, {})
       IN  pathQueue' = InsertAll(pathQueue, ps) /\ considered' = ps
    /\ UNCHANGED <<given, pos, gss, topmostParsers, prevTopmost, column, nextVal,
                   spent, yieldThenMergeCt, result, sharedPops>>

\* passes over the topmost parsers, in place, until nothing changes
SettledDepths(h, list) ==
    LET at(i) == list[((i - 1) % Len(list)) + 1]
        revised(d, n) == [d EXCEPT ![n] = DeterminDepth(h, d, n)]
        after[i \in 0..(Len(list) * (Len(list) + 1))] ==
            IF i = 0 THEN Depths(h) ELSE revised(after[i-1], at(i))
    IN  after[Len(list) * (Len(list) + 1)]

\* (variation: the depths stay as they were)
RecomputeDepths_skip(h, list) == h

\* rwlShiftNonterminal's recomputation after a new link
RecomputeDepths(h, list) ==
    LET depth == SettledDepths(h, list)
    IN  [n \in DOMAIN h |-> [h[n] EXCEPT !.depth = depth[n]]]

\* the reduction at the front of the queue, once its links have yielded and the
\* action has run: the graph, the values consumed, the new value, the node it is
\* pushed on, the state it leads to and the topmost parser in that state, if any
Reduced ==
    LET path == Head(pathQueue)
        y    == Yield(gss, path.links, nextVal)
        dest == Goto(gss[path.left].state, tables.prods[path.prod].lhs)
    IN  [h     |-> y.h,
         used  |-> Ids(y.args),
         val   |-> Value(y.next, Build(path.prod, y.args)),
         left  |-> path.left,
         state |-> dest,
         found |-> InState(gss, topmostParsers, dest)]

\* what every way of handling it has in common: ids is what is used up besides the
\* arguments, ps what is enqueued
Handled(r, h, ids, ps) ==
    /\ gss' = h
    /\ spent' = spent \cup r.used \cup ids
    /\ pathQueue' = InsertAll(Tail(pathQueue), ps)
    /\ considered' = considered \o ps
    /\ UNCHANGED <<given, pos, pc, prevTopmost, column, result, sharedPops>>

ProcessPath == pc = "reduce" /\ pathQueue # <<>>

\* the link of the topmost parser in the destination state to the left node, or 0
Existing(r) == IF r.found = {} THEN 0 ELSE LinkTo(r.h, TheOne(r.found), r.left)

\* keepNontermValue says no
CancelReduction ==
    /\ ProcessPath /\ FALSE \in keep
    /\ LET r == Reduced IN
          /\ Handled(r, r.h, {r.val.id}, <<>>)
          /\ nextVal' = r.val.id + 1
    /\ UNCHANGED <<topmostParsers, yieldThenMergeCt>>

\* "we already have a sibling link", to a parser that cannot make progress
DropDeadMerge ==
    /\ ProcessPath /\ TRUE \in keep
    /\ LET r == Reduced IN
          /\ Existing(r) # 0 /\ ~CanMakeProgress(r.state)
          /\ Handled(r, r.h, {r.val.id}, <<>>)
          /\ nextVal' = r.val.id + 1
    /\ UNCHANGED <<topmostParsers, yieldThenMergeCt>>

\* "we are bringing the tops of two alternative parses together"
MergeParses ==
    /\ ProcessPath /\ TRUE \in keep
    /\ LET r   == Reduced
           n   == TheOne(r.found)
           k   == Existing(r)
           old == r.h[n].links[k]
       IN  /\ k # 0 /\ CanMakeProgress(r.state)
           /\ Handled(r, [r.h EXCEPT ![n].links[k].val =
                             Value(r.val.id + 1, old.val.trees \cup r.val.trees)],
                      {old.val.id, r.val.id}, <<>>)
           /\ nextVal' = r.val.id + 2
           /\ yieldThenMergeCt' = yieldThenMergeCt + (IF old.yields > 0 THEN 1 ELSE 0)
    /\ UNCHANGED topmostParsers

\* a new link between existing nodes: the depths that may have counted on the old
\* links are recomputed, and every topmost parser looks for paths through the link
AddNewLink ==
    /\ ProcessPath /\ TRUE \in keep
    /\ LET r  == Reduced
           n  == TheOne(r.found)
           h1 == AddLink(r.h, n, r.left, r.val)
           h2 == IF h1[n].refct > 1 THEN RecomputeDepths(h1, topmostParsers) ELSE h1
       IN  /\ r.found # {} /\ Existing(r) = 0
           /\ Handled(r, h2, {},
                      PathsOfAll(h2, topmostParsers, {<<n, Len(h2[n].links)>>}))
           /\ nextVal' = r.val.id + 1
    /\ UNCHANGED <<topmostParsers, yieldThenMergeCt>>

\* a new node with the reference of the list it is put on
NewTop(state) == [Node(state, column) EXCEPT !.refct = 1]

\* no parser is in the state yet: a new node, whose reductions are enqueued
AddNewParser ==
    /\ ProcessPath /\ TRUE \in keep
    /\ LET r == Reduced
           n == Len(r.h) + 1
           h == AddLink(Append(r.h, NewTop(r.state)), n, r.left, r.val)
       IN  /\ r.found = {}
           /\ topmostParsers' = Append(topmostParsers, n)
           /\ Handled(r, h, {}, NewPaths(h, n, Entry(r.state), {}))
           /\ nextVal' = r.val.id + 1
    /\ UNCHANGED yieldThenMergeCt

\* rwlShiftTerminals begins: the topmost parsers become the ones to shift
StartShifts ==
    /\ pc = "reduce" /\ pathQueue = <<>>
    /\ pc' = "shift"
    /\ column' = column + 1
    /\ prevTopmost' = topmostParsers /\ topmostParsers' = <<>>
    /\ UNCHANGED <<given, pos, gss, pathQueue, nextVal, spent, yieldThenMergeCt,
                   result, ghosts>>

ShiftStep == pc = "shift" /\ prevTopmost # <<>>

\* the last of them can shift: it hands its worklist reference to the new link; the
\* first link claims the token's value, the others get duplicates
ShiftParser ==
    /\ ShiftStep
    /\ LET left  == Last(prevTopmost)
           shift == Shifts(gss[left].state)
           dest  == ShiftDest(TheOne(shift))
           found == InState(gss, topmostParsers, dest)
           n     == IF found = {} THEN Len(gss) + 1 ELSE TheOne(found)
           h     == IF found # {} THEN gss ELSE Append(gss, NewTop(dest))
           linked == AddLink(h, n, left, TokenValue)
       IN  /\ shift # {}
           /\ topmostParsers' =
                  IF found = {} THEN Append(topmostParsers, n) ELSE topmostParsers
           /\ gss' = [linked EXCEPT ![left].refct = @ - 1]
    /\ prevTopmost' = Front(prevTopmost)
    /\ nextVal' = nextVal + 1
    /\ UNCHANGED <<given, pos, pc, pathQueue, column, spent, yieldThenMergeCt,
                   result, ghosts>>

\* it cannot: its reference goes, and with it perhaps a stretch of stack
DropParser ==
    /\ ShiftStep /\ Shifts(gss[Last(prevTopmost)].state) = {}
    /\ gss' = DecRefCt(gss, Last(prevTopmost))
    /\ spent' = spent \cup DroppedBy(gss, Last(prevTopmost))
    /\ prevTopmost' = Front(prevTopmost)
    /\ UNCHANGED <<given, pos, pc, topmostParsers, pathQueue, column, nextVal,
                   yieldThenMergeCt, result, ghosts>>

\* "if all active parsers have died, there was an error"
FinishShifts ==
    /\ pc = "shift" /\ prevTopmost = <<>>
    /\ IF topmostParsers = <<>> THEN pc' = "rejected" /\ UNCHANGED pos ELSE TokenDone
    /\ considered' = <<>>
    /\ UNCHANGED <<given, gss, topmostParsers, prevTopmost, pathQueue, column,
                   nextVal, spent, yieldThenMergeCt, result, sharedPops>>

(* ---------------------------- cleanupAfterParse ------------------------ *)
\* the final reduction: the values of the last two links are given to the action,
\* the links keep duplicates, and the last parser is let go
CleanupAfterParse ==
    /\ pc = "cleanup"
    /\ LET last == topmostParsers[1]
           y    == Yield(gss, << <<gss[last].links[1].sib, 1>>, <<last, 1>> >>, nextVal)
       IN  IF Len(topmostParsers) # 1  \* "more than one active parser!"
           THEN pc' = "rejected" /\ UNCHANGED <<gss, topmostParsers, nextVal, spent, result>>
           ELSE /\ pc' = "accepted"
                /\ result' = Build(tables.final, y.args)
                /\ gss' = DecRefCt(y.h, last)
                /\ topmostParsers' = <<>>
                /\ spent' = spent \cup Ids(y.args) \cup DroppedBy(y.h, last)
                /\ nextVal' = y.next
    /\ UNCHANGED <<given, pos, prevTopmost, pathQueue, column, yieldThenMergeCt,
                   ghosts>>

Returned == pc \in {"accepted", "rejected"}

\* glrParse has returned: nothing more happens
Done == Returned /\ UNCHANGED vars

Next ==
    \/ MiniReduce \/ MiniShift
    \/ StartReductions
    \/ CancelReduction \/ DropDeadMerge \/ MergeParses \/ AddNewLink \/ AddNewParser
    \/ StartShifts \/ ShiftParser \/ DropParser \/ FinishShifts
    \/ CleanupAfterParse
    \/ Done

Spec == Init /\ [][Next]_vars

-----------------------------------------------------------------------------
(* Properties *)

LiveNodes == {n \in DOMAIN gss : gss[n].live}
Occurs(n, list) == Cardinality({i \in DOMAIN list : list[i] = n})

\* topmostParsers "*never* contains more than one stack node with a given parse
\* state; I call this the unique-state property (USP)" (glr.cc:34).
UniqueState ==
    \A i, j \in DOMAIN topmostParsers :
        gss[topmostParsers[i]].state = gss[topmostParsers[j]].state => i = j

\* "number of sibling links pointing at 'this', plus the number of worklists on
\* which 'this' appears" (glr.h:132), between the steps of the mini-LR core too.
RefCountExact ==
    \A n \in LiveNodes :
        gss[n].refct = LinksInto(gss, LiveNodes, n)
                           + Occurs(n, topmostParsers) + Occurs(n, prevTopmost)

\* There is a node that reaches itself: "creation of cycles, which I currently just
\* ignore and allow to leak" (glr.cc:627).
Linked(S) ==
    {m \in LiveNodes : \E n \in S : \E k \in DOMAIN gss[n].links : gss[n].links[k].sib = m}
CycleLeaks ==
    \E n \in LiveNodes :
        LET from[k \in 0..Cardinality(LiveNodes)] ==
                IF k = 0 THEN Linked({n})
                         ELSE LET S == from[k - 1] IN S \cup Linked(S)
        IN  n \in from[Cardinality(LiveNodes)]

\* Nothing that will be looked at again has been freed: the parsers, the links of
\* the live nodes, and the nodes and links of the queued paths.  It is so until the
\* mini-LR core pops a node that others refer to.
NothingDangles ==
    \/ /\ ToSet(topmostParsers) \cup ToSet(prevTopmost) \subseteq LiveNodes
       /\ \A n \in LiveNodes : \A l \in ToSet(gss[n].links) : l.sib \in LiveNodes
       /\ \A i \in DOMAIN pathQueue :
             /\ pathQueue[i].left \in LiveNodes
             /\ \A j \in DOMAIN pathQueue[i].links : pathQueue[i].links[j][1] \in LiveNodes
    \/ sharedPops

\* determinDepth, which licenses the mini-LR core to pop without looking, is what
\* computeDeterminDepth would say (checkLocalInvariants, glr.cc:516), at every
\* node and not only where it is checked; and a node has one link per sibling.
DepthExact ==
    \A n \in LiveNodes :
        /\ gss[n].depth = DeterminDepth(gss, Depths(gss), n)
        /\ \A j, k \in DOMAIN gss[n].links :
              gss[n].links[j].sib = gss[n].links[k].sib => j = k

\* The mini-LR core's assertions, where it reduces.
MiniPopsUnshared == pc = "token" /\ CanMiniReduce => PopsUnshared

\* They hold until a cycle leaks: the cached depth, computed before links were added
\* and nodes freed, is enough to go by.
PopsUnsharedUnlessCycle == MiniPopsUnshared \/ CycleLeaks \/ sharedPops

\* What the RWL algorithm is for: no value is merged after it was yielded to an
\* action ("can be implemented to always avoid the yield-then-merge problem for
\* acyclic grammars", glr.cc:100).
NoYieldThenMerge == yieldThenMergeCt = 0

\* "It's easy to see that every path is considered exactly once" (glr.cc:94): of
\* the reductions possible in the final graph for a token, none has been enqueued
\* twice, and when the worklist is empty none has been missed.
EveryPathOnce ==
    /\ Len(considered) = Cardinality(ToSet(considered))
    /\ pc = "reduce" /\ pathQueue = <<>> =>
          ToSet(considered) = ToSet(PathsOfAll(gss, topmostParsers, {}))

\* A semantic value has one owner: no two links hold the same one, and none holds
\* one that was given to an action, merged into another or deallocated.
OneOwner ==
    LET held == {l \in LiveNodes \X (1..Len(gss)) : l[2] \in DOMAIN gss[l[1]].links}
        id(l) == gss[l[1]].links[l[2]].val.id
    IN  /\ \A l \in held : id(l) \notin spent
        /\ \A l, m \in held : id(l) = id(m) => l = m

\* Every value is released: once the input is accepted, all of them are spent but
\* those on a cycle that leaks.
NoValueLeaks == pc = "accepted" => spent = 1..nextVal-1 \/ CycleLeaks
=============================================================================
