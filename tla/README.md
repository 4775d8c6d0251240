# Elkhound, smbase and Elsa in TLA+

This directory is a verification development for the olmar tree: smbase (a
utility library), ast (an AST class generator), elkhound (a GLR parser
generator), elsa (a C++ parser and type checker built with them) and asttools
(OCaml tools over Elsa's AST). The modules model the program's core logic step
by step; TLC checks them on small instances; TLAPS proves some of the
properties for every instance.

Contents

1. The system
2. The modules, and how they correspond to the code
3. The runs: what each checks, its bounds, what it shows
4. Fairness and termination
5. What is proved
6. Disagreements between the code and what is said of it
7. What is only model-checked, and what is not modelled
8. The plan
9. Running it

## 1. The system

`astgen` (ast) writes AST classes. `elkhound` reads a grammar (`.gr`), analyses
it and writes parse tables and a class of user actions. A generated parser links
with the parser core in `elkhound/glr.cc`. Elsa is one: its grammar is ambiguous
in the way C++ is, its actions build the AST with the alternatives that the
parser could not tell apart, and its type checker picks one of them. All of it
uses smbase's strings, containers, pools and source locations. The programs are
single-threaded and persist nothing; what is hard in them is order, ownership
and staleness, not concurrency or crashes.

| Component | State | Operations | Interacts with | What makes it correct |
|---|---|---|---|---|
| GLR parser core (`elkhound/glr.cc`, `glr.h`) | graph-structured stack: nodes with reference counts, deterministic depths and links that own semantic values; `topmostParsers`; the reduction worklist; the value of the token | `glrParse`: mini-LR shift and reduce, enqueue reductions, process a path (yield, reduce, keep or cancel, shift the nonterminal, merge), shift the terminals, clean up | parse tables (reads), user actions (callbacks `reductionAction`, `duplicate…`, `deallocate…`, `merge…`, `keepNontermValue`), lexer (token method), object pools | one parser per state; exact counts; nothing freed is used; each value given away once and released; every reduction path taken exactly once; all parse trees, and only those |
| Derivability (`gramanl.cc`) | bit matrix "left ->* right", `cyclic` flags, `changes` | `initDerivableRelation`, `addDerivable`, `computeWhatCanDeriveWhat` | First sets and the nonterminal order read the matrix | sound; a fixed point when the loop stops; the loop stops |
| LR states (`gramanl.cc`) | `itemSetsPending`, `itemSetsDone`, item sets with kernels, nonkernels, transitions; the closure's worklist | `constructLRItemSets`, `itemSetClosure`, `singleItemClosure`, `moveDotNoClosure`, `mergeLookaheadsInto` | item sets are found through smbase hash tables; the tables are filled from them | every set owned once; one set per core; the LALR(1) states; stops |
| First, Follow, tables, nonterminal order (`gramanl.cc`) | First/Follow sets, action and goto rows, `nontermOrder` | `computeFirst`, `computeFollow`, `computeParseTables`, `topologicalSort`, `renumberStates` | all of the above; the parser core | right for the grammar; order puts reachable nonterminals first |
| Conflict resolution (`gramanl.cc`) | the actions of one cell, precedence and associativity of productions and tokens, subset and maximal directives | `resolveConflicts`, `handleShiftReduceConflict`, `subsetDirectiveResolution`, `computeSupersets` | called by `computeParseTables` for each cell | the count of actions is exact; the outcome does not depend on the order of the items; no cell loses all of its actions by accident |
| Parse tables (`parsetables.h/.cc`) | `ActionEntry`, `GotoEntry` arrays of a fixed width, lists of productions and ambiguous actions, error bits, row and column maps, the coloring that merges them | encode, decode, `computeErrorBits`, `mergeActionColumns` and its like, `colorTheGraph`, `emitConstructionCode` | written by the analysis, read by the core | decoding inverts encoding; a compressed table answers as the plain one |
| Grammar input (`grampar.cc`, `grammar.cc`, `gramast.ast`) | `Grammar`: symbols, productions | parse, `astParseGrammar`, extension modules | analysis | sequential translation of text |
| Embedded code, emission (`mlsstr.cc`, `emitcode.cc`, `genml.cc`, `ccsstr.cc`) | nesting depth, output file | scan, print | generator | text in, text out |
| OCaml port (`elkhound/ocaml`) | as the C++ core | as the C++ core | OCaml users | a port of the core |
| Hash tables (`smbase/hashtbl.*`) | slot array, size, count, `enableShrink` | `add`, `remove`, `get`, `empty`, resize | item sets, dotted productions, string tables, everything in Elsa | a map: nothing lost, searches end |
| Pools, arrays, string tables (`objpool.h`, `array.h`, `arrayqueue.h`, `strtable.cc`) | free lists, ring buffers | `alloc`, `dealloc`, `enqueue`, … | the parser core allocates its nodes from a pool | an object is handed out once at a time; a queue keeps its order as it grows |
| Source locations (`srcloc.cc`, `hashline.cc`) | the files, each with a range of locations, line lengths, an index of markers, one marker that lookups move, a `#line` map | `encodeOffset`, `encodeLineCol`, `decodeLineCol`, `decodeOffset`, `addHashLine`, `loadFile`, `reset` | tokens and AST nodes carry locations; the lexer adds `#line` directives | decode inverts encode whatever was looked up before; a location keeps its meaning |
| Flattening, strings, boxes (`flatten.cc`, …) | buffers | transfer, print | everything | |
| malloc (`malloc.c`) | | | | vendored |
| astgen (`ast/`) | | reads `.ast`, writes classes | elkhound, elsa | generator of text |
| Elsa ambiguity resolution and error lists (`generic_amb.h`, `cc_err.cc`, parts of `cc_env.cc`, `cc_tcheck.cc`, `template.cc`) | ambiguity links, the error list, the lists that attempts set aside, nesting level, `hiddenErrors` | `resolveAmbiguity` and its variants, the error trapper, the instantiation isolator, the call-or-constructor case | called from `tcheck` of every kind of node that can be ambiguous | no error lost, repeated or reordered; a rejected alternative leaves nothing behind |
| Elsa type checker, the rest (`cc_tcheck.cc`, `cc_env.cc`, `overload.cc`, `template.cc`) | environments, scopes, types | `tcheck` of each AST node, overload resolution, instantiation | the parser's ambiguous AST | the rules of C++ |
| Elsa control flow, elaboration, interval trees (`cfg.cc`, `cc_elaborate.cc`, `iptree.cc`) | AST annotations | passes over the checked AST | type checker | successor edges cover what a statement can do |
| Elsa XML, printing, mangling | | AST out and in | | I/O |
| asttools (OCaml) | AST in OCaml, indices, uplinks | analyses | the AST that Elsa writes | |

Which behaviours are hard to test:

- **Interleavings inside one thread.** While the parser's worklist runs, links are
  added to nodes whose paths have been collected already; while the items of an
  item set are iterated, the same set's lookaheads grow; while a removal walks a
  hash table, it adds to it.
- **Order.** Which reduction is taken first decides whether a value is given to
  an action before its alternatives are merged into it; the order of productions
  decides when the derivability loop stops; item sets are processed and hash
  tables iterated in an order that nothing specifies.
- **Stale caches.** `determinDepth` is cached in every stack node and licenses the
  mini-LR core to pop nodes with no look at their counts; a closed item set is
  stale once its lookaheads grow.
- **Ownership.** Semantic values are yielded, duplicated, merged and deallocated by
  callbacks; an item set belongs to one of two owning tables at a time.
- **Partial failure.** `keepNontermValue` cancels one reduction after its arguments
  are consumed; an assertion of the hash table throws after a resize; an alternative
  that fails to check may have changed the environment, and an assertion may fail in
  the middle of nested attempts that all hold errors.
- **Limits.** A search in a full table never ends; table entries have fixed widths,
  and one value of them stands for an error.

`PROJECT.json` lists each hazard at its line with the properties that watch it,
or the reason that none does.

## 2. The modules, and how they correspond to the code

| Module | Models | Kind |
|---|---|---|
| `GLR` | `glr.cc`, the whole of `glrParse` | state machine |
| `MCGLR` | grammars, inputs, the reference parse trees | for TLC |
| `GLRProofs` | | proofs about `GLR` |
| `Derivability` | `initDerivableRelation`, `addDerivable`, `computeWhatCanDeriveWhat` | state machine |
| `MCDerivability`, `DerivabilityProofs` | | for TLC; proofs |
| `LRItems` | items, one closure step, moving the dot, merging lookaheads | operators, not recursive |
| `LRItemSets` | `constructLRItemSets` and `itemSetClosure` | state machine |
| `MCLRItemSets`, `LRItemSetsProofs` | | for TLC; proofs |
| `LALR` | First sets, closures, states, tables, nonterminal order, as functions of the grammar | operators, recursive |
| `ConflictResolution` | `resolveConflicts` on one cell | state machine |
| `GraphColoring` | `colorTheGraph` | state machine |
| `ParseTables` | encoding, compression, emission and decoding of the tables | operators and actions |
| `TableConstruction` | `renumberStates`, `computeParseTables`: composes the three | state machine |
| `MCTableConstruction` | | for TLC |
| `ConflictResolutionProofs`, `GraphColoringProofs`, `TableConstructionProofs` | | proofs |
| `Ambiguity` | `resolveAmbiguity`, the error trapper, the isolator, the special case of `Expression::tcheck` | state machine |
| `MCAmbiguity`, `AmbiguityProofs` | | for TLC; proofs |
| `SourceLoc` | `srcloc.cc`, `hashline.cc` | state machine |
| `MCSourceLoc` | | for TLC |
| `HashTable` | `hashtbl.cc` | state machine |
| `KeyedMap` | what `hashtbl.h` promises | abstract specification |
| `MCHashTable`, `HashTableProofs` | | for TLC; proofs |

How they compose: `MCGLR` runs `GLR` on the tables that `LALR` computes from a
grammar, the way a generated parser runs on the generator's output, so a fault in
the analysis shows as a fault of the parser. `LALR` computes the states as a
function; `LRItemSets` is the code's worklist, and the property `GivesTheTables`
ties the two together. `Derivability` is the code's loop for what `LALR` takes as
the result of that loop (with the way in which it stops too early). `HashTable`
implements `KeyedMap`. `TableConstruction` instantiates `ConflictResolution` and
`GraphColoring` and runs them step by step where `computeParseTables` calls them,
between the actions of `ParseTables`; their properties are checked in that context.

### GLR

A node is its index in `gss`; indices are not reused. Where the code returns a
node to its pool the model clears `live`, so a use after a free is a use of a node
that is not live. Link 1 is the embedded `firstSib`; the others are
`leftSiblings`, in the order in which they were added (the code prepends, and
`LinkOrder` explores them that way). User actions build parse trees: a value is a
set of trees, a merge is a union, and each value has an id, which stands for the
ownership of a pointer.

| Action | Code |
|---|---|
| `MiniReduce`, `MiniShift` | the mini-LR loop in `innerGlrParse`, with `USE_MINI_LR` |
| `StartReductions` | the beginning of `nondeterministicParseToken`: `rwlEnqueueReductions` for every parser |
| `CancelReduction`, `DropDeadMerge`, `MergeParses`, `AddNewLink`, `AddNewParser` | `rwlProcessWorklist` for one path, with the outcomes of `rwlShiftNonterminal`; each includes the yields before and the enqueueing after |
| `StartShifts`, `ShiftParser`, `DropParser` | `rwlShiftTerminals`, parser by parser |
| `FinishShifts` | the end of `nondeterministicParseToken` |
| `CleanupAfterParse` | `cleanupAfterParse` |

The queue is kept as the code keeps it, sorted by `goesBefore` at insertion. Two
history variables: `considered` records what was enqueued for the token, and
`sharedPops` whether the mini-LR core has popped, or pushed on, a node that something
else refers to, which its assertions deny (`PopsUnshared`, glr.cc:1123). What the core
takes for granted of the tables is stated as `Automaton`: transitions lead to states and
none to the start state, the symbols of a right-hand side lie on the stack when its
production is reduced, there is a transition on its left-hand side under them, and EOF
is not shifted on an empty stack; and as `CellsAssumption`: a cell has no action twice, as
it is made of one transition and of the complete items of a state
(`getPossibleReductions`, gramanl.cc:643). TLC finds both true of the tables that `LALR`
makes.

### Derivability

A step is one production of the first pass or one edge of the closure pass; the
bit matrix is a set of pairs, updated in place, and `changes` counts what the code
counts. `atStart` is a history variable.

### LRItemSets

A step is one item of the iteration over a set or one item of a closure. An item
set is a record of `kernel` and `nonkernel` (functions from items to lookahead
sets) and `go`. The stack of pending sets and the order of kernel items are the
code's; the order of nonkernel items comes from a hash table, and the model takes
any. The closure is a variable of its own with the reason why it was begun, since
the code continues differently after each (`FinishStart`, `FinishNewSet`,
`FinishChange`, `FinishMyself`).

### TableConstruction

`RenumberStates` puts the states in an order that `renumberStatesDiff` allows (the
merge sort is not stable) and asserts that the start state is first; the offsets of
CRS build on that order, and `FirstStates` asserts it. `pc` is the phase of
`computeParseTables`; `resolving` and `coloring` are the program
counters of the two parts, "idle" between calls. `ResolveCell` calls
`resolveConflicts`, `EncodeCell` takes what it left (a shift, a list of reductions)
and stores a code, or fails an assertion because the code does not fit. `Color` calls
`colorTheGraph` with one of the four conflict graphs, `Merge` makes the smaller
table. `TableStep` stands for the phases that call neither; the last of them,
`EmitConstructionCode`, is the C++ that sets the tables up again in another program,
where a table of pointers that are all null is a null pointer itself: the properties
of finished tables are checked before it and after it. In `ConflictResolution` a
step is one iteration of one of the loops, and one step up the supersets of the inner
one; in `GraphColoring` the choice of a node, one step of the scan, and the
assignment. A build's switches (CRS, EEF, GCS, column merging) and the widths of all
entries, lengths and indices are part of the state that `Init` chooses. Whatever does
not fit is refused where the code asserts that it does: codes of actions and gotos,
offsets into lists, the symbol of a state (`SymbolFits`), the length and the left side
of a production (`ProdInfoFits`), the nonterminals while they are ordered (`OrderFits`,
which stands for the assertions of the sort and not for the order), and the columns
that are left after merging (`TermIndex`, `NtIndex`). Both parts may also start alone, on
cells and graphs that automata of three states do not lead to.

### Ambiguity

What checking a node does is a script of steps: declare a name, look one up, report
an error, instantiate a template, check a subtree, fail an assertion. The stack has a
frame per activation of a checker, a resolver, the special case or an instantiation,
each with the error list that it has set aside.

| Action | Code |
|---|---|
| `Declare`, `Lookup` | `Env::addVariable` and its like; `Env::error` |
| `Check`, `EndBody` | `tcheck` of a node, which begins a resolver if it is ambiguous |
| `EndAlternative`, `EndResolve` | the loop of `resolveAmbiguity` and what follows it |
| `EndSpecial` | the call-or-constructor case of `Expression::tcheck` |
| `BeginInstantiate`, `EndInstantiate` | `InstantiationContextIsolator` |
| `Fail`, `Unwind` | an `x_assert`; the handler in `resolveAmbiguity` and the destructors, frame by frame |

`blame` and `diagnosed` are history variables. `Program` says what the scripts of a
program may be: a step names what it declares, looks up or visits, and a node that
can be a call or a constructor has a part to check first, so its script is not empty.
`Lists` is the list of errors with all that are set aside, from the outermost in.

### SourceLoc

A file is the sequence of the lengths of its lines. `lineToChar` and `charToLineCol`
return the file with its marker moved, as the code does by side effect. Both ways in
which the code builds the index of markers are there (`IndexRead` from the text,
`IndexLoaded` from the array of line lengths). The length of a fragment (255 in the
code) and the distance of markers (100) are constants.

### HashTable

A step is one entry that `resizeTable` moves or `remove` inserts again. Loop
variables are reset on return, as they are locals. The hash function is chosen by
`Init` among given functions. An `xassert` that fails is an action that returns
with what the call has done so far (`RefuseAdd`, `RefuseRemove`: the resize stays
done). The add inside the loop of `remove` is part of `Reinsert`; that it never
resizes is not assumed: one that would has no step, and deadlock is checked.

## 3. The runs

| Run | Instance | What it shows |
|---|---|---|
| `derivability` | every grammar of at most two productions over two nonterminals, with nine right sides each, and six longer ones with chains, cycles and vanishing symbols over three | the loop stops (`Terminates`); every bit is forced by the grammar (`Sound`); when the last pass set no bit the result is a fixed point (`QuietIsSettled`) and the `cyclic` flags are right for cycles through two or more nonterminals (`CyclicThroughOthers`) |
| `derivability_settled`, `derivability_cyclic` | two grammars each | section 6 |
| `item_sets` | six grammars chosen so that a state changes itself, a state is changed after it was done, two LR(1) states share a core, symbols vanish, a lookahead is forbidden, and a lookahead reaches an item whose closure was taken already; every order of nonkernel items | ownership (`OneOwner`), one set per core (`UniqueCores`), propagation complete for every set that counts as done (`DoneIsPropagated`); the end result is the canonical LR(1) collection merged by core (`IsMergedLR1`) and what the parser's tables are built from (`GivesTheTables`); the construction stops |
| `hash_table` | keys 1..5 with a sixth datum that shares a key; three hash functions: all keys in one slot, a run that goes around the end into another, runs that grow at both ends; sizes 1, 3, 7, 15, default size 3; shrinking switched on and off at any time | the table is the map (`ImplementsMap`); the count is exact through resizes; every search ends; every entry is found between calls |
| `glr` | eight grammars, all inputs of up to four tokens (three for the two whose stack becomes cyclic), with and without the mini-LR core, with and without cancelled reductions | all safety properties of the core, and `ForestComplete`: the result is exactly the set of parse trees, computed independently from the grammar |
| `mini_pops_unshared`, `yield_then_merge` | one grammar each, three tokens | section 6 |
| `table_construction` | automata of three states, three tokens and three nonterminals, numbered in and out of order, in eight builds, with widths that suffice and widths that run out (of action and goto entries, of production lengths, of merged action columns, of nonterminals, of symbols); one full of conflicts with 576 sets of declarations; 22000 cells and all graphs of up to five nodes on their own | a cell's count is exact (`ActionsExact`), what is left is a function of the declarations (`OrderIndependent`), no silent error cell; colorings are proper and frugal; a finished or emitted table read back through all compressions has the actions that went in (`DecodesBack`), which are those that the declarations leave of the automaton's (`TablesAsDeclared`); an automaton is refused only if an entry, a symbol or a production has no number of its type, or one column clashes with as many others as there are indices, and the assertions on the order of its states hold (`RefusedOnlyIfTooBig`) |
| `ambiguity` | an ambiguous node with two alternatives over a shared ambiguous subtree of two or three, in all five ways to resolve; instantiations and failing assertions at every depth | the errors of what is left are reported (`NothingSwept`), those of an instantiation exactly once (`IsolatedOnce`), all in the order of the steps of the root's script (`InOrder`); an assertion that fails is blamed on the input exactly if an error had been diagnosed (`ConfusedIffDiagnosed`) |
| `ambiguity_trace` | the programs without instantiations | section 6 |
| `source_loc` | two files of up to four lines of 0 to 5 characters with fragments of 2 and markers every 2 lines; up to two directives; the original file may be missing; every order of calls | decoding and encoding are exact wherever the marker is (`LookupsExact`), encoded locations lie in the file even after tolerated errors (`StaysInFile`), each location has one file (`OneFilePerLoc`) and keeps its meaning (`EarlierKeepMeaning`) |

Why the bounds are enough. For the parser: four tokens let an ambiguous grammar
build a node with three links, a link below an existing node, a merge, a path that
uses one link twice and a shift of several parsers into one state; each mutated
definition in `PROJECT.json` is caught within them. The grammars were chosen for
one phenomenon each (the comment at each in `MCGLR` says which). For the hash
table: five keys reach three sizes upwards and two downwards, with a table that is
exactly at its threshold, and runs that wrap. The code's default size, 33, is
replaced by 3 so that tables above it can fill up and shrink. For derivability
terminals are all alike, so one is enough. For the tables: three states and three
tokens are enough for two states over one symbol, for a list of ambiguous actions to
match in the middle of another, for rows that merge and rows that must not; what they
do not reach, longer lists of conflicting reductions and denser graphs, the cells and
graphs that start alone add. For ambiguity resolution: two levels, because every
mechanism looks at most one list further out or at the outermost. For source
locations: a line longer than two fragments and a file longer than two markers give
each search a middle. Deadlock is checked in all runs (with a step that does nothing
when the work is done) but `derivability` and `item_sets`, which stop when their work
is done and say `CHECK_DEADLOCK FALSE`.

## 4. Fairness and termination

Each modelled program part is one thread that runs its loops to their end.
`Derivability` and `LRItemSets` therefore assume `WF_vars(Next)`: nothing else
could hold up the next step. Theirs are the loops of which termination is in
question, since they run until nothing changes. The other modules state no fairness
and check no liveness: their loops count down or walk a list, and TLC finds no state
but a finished one without a successor. One of them could run forever, and does in the
model: `handleShiftReduceConflict` if subset declarations form a cycle (`WalkUp`),
which nothing in the code refuses. `GLR` ends because every step but those of a phase change
makes `nextVal`, `spent`, the queue or the list of parsers to shift move in one
direction, and TLC finds finitely many states for each input.

## 5. What is proved

TLAPS proves these for all values of the constants.

`DerivabilityProofs`, for every grammar (from `NumNontermsAssumption` and
`GrammarsAssumption`):
- `TypeCorrect`: the type invariant, which is inductive as it stands.
- `DerivableSound`: `Sound`. The argument fixes a relation `R` that the grammar
  forces and shows that no step takes the matrix out of `R`: a production pass
  because derivation by one production is monotone in the relation
  (`ByProductionMonotone`), a closure step because `R` is transitive.
- `QuietMeansSettled`, `CyclicMeansThroughOthers`: from `SettlingInv`, which says of an
  iteration that has set no bit so far what it has seen to: the productions before
  `pi` agree with the matrix (`Agrees`), and each edge that the closure pass has been at
  leads nowhere new (`EdgeDone`). The matrix only grows, so the two parts can be put
  together at the end although they ran one after the other.

`LRItemSetsProofs`, for every set of grammars with First sets (no assumption):
- `SetsHaveOneOwner`, `CoresAreUnique`: from the inductive invariant `TablesInv`,
  which adds to the two properties that the pending list and the done set only
  name existing sets and that a set just made is in neither. What it rests on:
  no step changes a core (`SameCores`). Merging lookaheads keeps the domain of a
  kernel, closures touch nonkernel items only, transitions neither. So a set is
  new only where `Lookup` found none with its core, and a set moves from one table
  to the other in one step.
- `DoneMeansPropagated`: from `PropagationInv`, about the sets that are done (but the
  one whose closure is being taken) and the part of the current set that has been
  iterated: each transition goes to the set with the core that moving the dot gives
  (`Aimed`), which has all the lookaheads that arrive (`AllArrived`). Merging twice is
  merging once (`MergeTwice`), and a set whose lookaheads grow is taken off the done
  sets in the same step, also when it is the current one (`mustCloseMyself`).

`GLRProofs`, for every grammar, table, input and behaviour of the user's keep
function:
- `OneParserPerState`: `UniqueState`. The invariant `ParsersInv` adds that the
  parsers are nodes of the graph. No step changes the state of a node
  (`SameStates`), with a lemma for each operation on the graph, so only the two
  steps that put a node on the list matter, and both look for the state first.
- `ReferencesCounted`, `NoDanglingNodes`, `CachedDepthsAreRight`, `ValuesHaveOneOwner`,
  `ValuesAreReleased`: from `GraphInv`, for all tables that are an automaton's
  (`TablesAssumption`) and inputs that end with EOF (`InputsAssumption`). It is one
  invariant, since none of the five is inductive without the others: a node may be freed
  because its count is exact, the count stays exact because nothing linked is freed,
  and the mini-LR core frees by the cached depth and not by the count. Its parts:
  - the graph (`GraphOK`): a freed node has no links; every link is a transition of the
    automaton (`StatesOK`); a first link leads to a node made before (`Downward`), so a stack
    ends; the cached depths are right; no node links to another twice;
  - the counts (`CountedBy`): each is the number of links to the node and of its places on
    the two lists of parsers, and no live node has none (`Held`);
  - the values (`ValuesOK`): each id is held by one link at most, none that was spent is
    held (`Owned`), and all made so far are held or spent (`Accounted`);
  - the phase (`PhaseOK`): the queued paths go over links of live nodes to a node that has a
    transition on the left side of their production (`Fits`); while parsers shift, nothing links
    to a new parser, and new ones link to none that is still to shift (`Shifting`).
  `DecRefCtReleases` is the lemma about freeing: a set of nodes that nothing else refers to
  goes, with the counts of what they link to lowered by as much. `StretchFalls` and
  `SoleLink` are about popping: behind a node with a positive depth lie that many nodes with
  one link each. `SettledIs` says that the depths have settled when `rwlShiftNonterminal` stops
  recomputing them: parsers come in the order in which they were made, and first links go
  down. Counts are cardinalities of sets of links (`LinksTo`), not sums, so that adding
  a link is adding an element.
- `EveryPathIsConsideredOnce`: `EveryPathOnce`. Its invariant `PathsInv` says, while
  reductions run, that what was enqueued for the token is exactly the paths of the graph
  as it is now (`IsPathOfAll`: trails of links of the length of a right-hand side, down
  from a parser whose cell reduces by it), and no path twice. `PathsToExact` says that the
  recursive search lists each trail once, by induction on its length; `PathsOfAllExact`
  takes it to all the actions of all the parsers, and there rests on `CellsAssumption`.
  A step then adds what it opens: through a new link go the paths that use it and the others
  were there before (`PathsThroughLink`), which is what `mustUseLink` is for; from a new
  parser no old path starts, and no old parser reaches it yet (`PathsBesideNode`); yielding
  values, merging and recomputing depths change no path (`SamePaths`).
- `PopsAreUnshared`: where the one parser's depth allows a reduction in place and some
  node of the stretch is referred to twice, the second reference comes from a live node;
  following what refers to it, and to that, never ends at a parser, so it
  runs into a circle (`SharedMeansCycle`, `CycleFound`): a cycle has leaked.

The five and the paths hold until `sharedPops`, and `PopsAreUnshared` says what it takes to get there:
a leaked cycle. That is as far as they go (section 6, item 3).

`HashTableProofs`, for every set of data and keys, every hash function and every
sequence of calls:
- `CountIsExact`, `EverySearchEnds`, `EveryEntryIsFound`, `TableIsMap`: from `HashInv`.
  Between calls no slot on the way to an entry is free (`NoGap`) and no key is stored
  twice. While a removal inserts entries again, only entries from `index` to the next
  free slot may have a gap on their way, and it is one that the removal has left
  (`Repairing`); while a table is resized, what is still in the old one has keys of its
  own (`Moving`). There is a free slot because fewer entries than slots are
  stored (`Room`, a count of the slots), and the thresholds of growing and shrinking
  keep it so through the calls. What the recursive search returns is the first slot on the way
  that is free or has the key, by a least counterexample. The assertion of the
  removal's loop that it has not come back to where it began (hashtbl.cc:161) is no step of the model;
  `Repairing` includes that it never fails, since a free slot is ahead.

`ConflictResolutionProofs`, for every cell whose reductions are a list:
- `CountIsExact`: from an invariant that adds that the iterator is on an element, and
  the shift still there, while a reduction is compared with the shift.
- `OrderDoesNotMatter`: for each loop, what the part of the list that it has passed has
  come to is what the declarations say of a set (`OrderInv`, with a part for each phase:
  `WhileSR`, `WhileRR`, `WhileSubset`...). It holds if the cell is declared
  consistently (`IsDeclared`). The proof needs a condition that the run did not
  show: a nonterminal that is declared a subset of itself is its own superset, and
  which of its reductions stays depends on the order.
- `ErrorsAreAskedFor`: from `SilentInv`: at each moment an action is left that the
  phases to come will not remove. During the subsets it is a reduction to a nonterminal
  none of whose supersets is there (`LowestSurvives`, by induction along
  the declarations, which are acyclic).

`GraphColoringProofs`, for every symmetric graph without loops:
- `ColoringIsProper`, `ColorIsLowest`. The scan looks at one neighbor at a time; the
  invariant says that all before its place is below the color it has come to
  (`ScanInv`) and that the array has exactly the neighbors' colors, in order
  (`AdjInv`). That no array overflows is not part of it: the model's array has the
  size that the count gives, and the step that would not fit is absent.

`TableConstructionProofs`, for every automaton, declarations and build. `ConstantsOK`: at
least one state and one token, automata of the declared type. From there on
`DeclarationsOK`: precedences are numbers, subsets and left sides are nonterminals.
`TablesOK`: each build is one of the builds, and no production has an index above
`prodMax`, which is the width of the unsigned shorts that the code stores it in without a
check. `EachOnce`: a state reduces by a production at most once over a token, since an
item set has each item once. TLC finds all four true of the run's constants.
- `CountsStayExact`, `MergesAreProper`, `ColorsAreLowest`,
- `CellsOrderIndependent`, `CellsNotSilent`: the same where
  `computeParseTables` calls the two, the former where the cell is declared consistently
  (`IsDeclared`). The instances with proofs take the same steps
  as those of `TableConstruction` (`SameResolution`, `SameColoring`), each call starts
  in their invariant (a cell has a list of productions, also after the states are
  renumbered, `RenumberedIsOK`; conflict graphs are symmetric, `GraphOfIsOK`), and no other step touches their variables while they run.
- `TablesDecodeBack`: `DecodesBack`. Its invariant `DecodeInv` says, from the first cell
  to the emitted program, that each cell filled so far has an entry that stands for its
  actions (`EncodesAll`) and each row of gotos filled so far its states (`GotosInv`):
  - an entry is read through lists that other cells go on adding to, so `Encodes` speaks
    of places in the lists, and every step makes a list one that it has grown into
    (`Grown`), with the base that offsets of a state are taken from unchanged once it is
    set (`ListsGrow`, `StillEncodesAll`);
  - the codes of one cell come from a loop that adds productions as it goes: after n
    rounds the first n actions have codes (`BuildInv`, `EncodesNext`), and the search for
    an equal list of ambiguous actions ends at a place where that list is, wherever its
    match began (`AmbigPlaceHolds`, `Holds`);
  - what is left of a cell can be written because it is a part of what the cell had
    (`CellKept`);
  - once errors are factored out, an entry that is an error may be anything, as long as
    the bit is set, and the bit says so although states share rows of bits
    (`RowsOfErrors`, with the rank of a leader as the number of its row);
  - a merge keeps each entry that is not an error: those of one color have no other
    (`ColumnsMerge`, `RowsMerge`), since the coloring is proper and finished, and
    the graph is that of the table as it is (`ColoringInv`);
  - an emitted table of offsets is null only if no state has one (`EmitKeeps`).
  Codes of different kinds are told apart by arithmetic on a byte or by sign and
  size (`KindsApart`, `DecodesOne`), which is where the checks of the widths are used.
- `TablesSayWhatIsDeclared`: `TablesAsDeclared`, which puts the resolution and the tables
  together. `ConflictResolutionProofs` says what is left when the resolution of a cell is
  done: `LeftAsDeclared` extends `OrderInv` past the counting, where without `allowAmbig`
  pairs of reductions compete until one is left, and that is the first in the
  file; `KeptInOrder` says that the reductions are always a part of the items in their
  order. A part of a list without repetitions is known from its members (`OnlyIsKept`), so
  each filled cell has exactly what is declared (`DeclaredInv`), and the finished
  tables are read back.

`AmbiguityProofs`, for every program and nesting of attempts:
- `ErrorsComeInOrder`: `InOrder`. It is about the order of the steps of the root's
  script that errors belong to; within one such step, which may be a tree of attempts,
  their order is not constrained. What matters is which errors a list that is put aside
  may have, given the frames that it will be put back on (`ListsFor`): under an attempt
  all of them are of the step of the root's script that the attempt is part of; outside
  of attempts they are in order and not of a later step. `OrderInv` says this of each
  list that a frame holds (`FrameGood`), of the current one, and that `hidden` names the
  outermost resolver, whose saved list is the one that the isolator appends to. While
  an exception unwinds, a handler adds what an attempt found to what was before it, so the
  same must hold frame by frame (`StackGood`).
- `BlameIsRight`: `ConfusedIffDiagnosed`. `BlameInv` says, from the throw to the end,
  that an error was diagnosed outside of attempts exactly if one is still on a list
  outside of attempts (`Counts`). The handlers mark the errors of attempts
  (`fromDisamb`), and nothing marks the others or loses them. Programs with the
  special case are exempt, as section 6 says.

TLC finds no violation of the strengthened invariants on the instances of section 3
either (`GraphInv` with inputs of up to three tokens).

## 6. Disagreements between the code and what is said of it

Each is a run that TLC ends with a counterexample.

1. **The derivability loop can stop too early** (`derivability_settled`,
   gramanl.cc:1410). An empty production sets a bit that is not counted as a
   change. With `A -> B B; B -> empty` in that order the loop ends without
   `A ->* B`, although the comment at 1517 says that everything has settled.
2. **A nonterminal that derives itself in one step is not flagged cyclic**
   (`derivability_cyclic`, gramanl.cc:1424). The reflexive pairs are set in
   advance and known pairs are skipped; grammar.h:308 says "1 or more steps".
3. **The mini-LR core pops nodes that are still referred to**
   (`mini_pops_unshared`, glr.cc:1123). A node that links to itself is never freed
   and keeps its count on its left sibling, which the mini-LR core pops later.
   The assertion there is compiled in debug builds only. Without it a node is freed that
   something still refers to. With `S -> A T x | y; T -> B S z; A -> empty; B -> empty`
   and input `y z x` the freed node breaks the cycle, and a live node is left that links to
   it. The pool would hand it out again, which the model does not do (indices are not
   reused), so what the model says after such a pop need not be true of the code, and
   the theorems of section 5 end where `sharedPops` is set.
4. **A value is yielded and then merged for an acyclic grammar**
   (`yield_then_merge`, gramanl.cc:1410, as a consequence of 1). The nonterminal
   order misses that one nonterminal derives another; glr.cc:99 says that the
   problem can be avoided for acyclic grammars.

5. **A rejected alternative stays in scope** (`ambiguity_trace`,
   generic_amb.h:175). The extra error that is to keep a corrupted environment out of
   a successful parse goes away with the alternative it is put with.

Observed while modelling, and not run as counterexamples: the copy of the resolver in
`Expression::tcheck` sets errors aside in locals without telling the isolator or the
handlers, so that errors of an instantiation done for the call are dropped when the
constructor is chosen, and an assertion from there loses the errors reported before
(`UsesSpecial` exempts its programs from `ConfusedIffDiagnosed` and `IsolatedOnce`,
and `NothingSwept` names what it lets go); a nested attempt sets aside the list that
`disambErrorsSuppressChanges` looks at, so a doomed alternative can still declare
names; the ambiguity link of a shared subtree is broken in the first context even if
none of its alternatives fits there; a decoded `#line 1` line maps to line 0 of the
original file, which an assertion refuses; production indices are stored in unsigned
shorts without a check.

## 7. What is only model-checked, and what is not modelled

Only model-checked:

- All liveness (`Terminates`), which is beyond TLAPS.
- What recursive definitions compute: `LALR`, the reference trees of `MCGLR`
  (`ForestComplete`) and the canonical collection (`IsMergedLR1`, `GivesTheTables`).
  TLAPS proves nothing in a module that reaches a recursive operator.
- Of the parser, the order of reductions (`NoYieldThenMerge`), which depends on what the
  analysis says of the grammar, and the resulting trees (`ForestComplete`); and that the
  counts, depths, owners and paths stay right on the run's grammars even after a shared
  node was popped.
- Of the tables, when an automaton is refused (`RefusedOnlyIfTooBig`): it compares offsets
  with sums over the lists of earlier cells, and sums are folds whose value for every input
  is out of the provers' reach. The proofs of the other properties do take in that each
  of these assertions may fail (`MergeFails`, `FillGotosKeeps`).
- Of ambiguity resolution, `NothingSwept` and `IsolatedOnce`. Their truth depends on what
  the alternatives of a program declare, beyond what the scripts' types say. Of the
  special case for calls `NothingSwept` covers the normal course only, not an assertion
  that fails in it or an instantiation done for it. The order of errors within one step
  of the root's script is not checked at all.
- Source locations (`LookupsExact`, `StaysInFile`, `OneFilePerLoc`,
  `EarlierKeepMeaning`): sums over the lengths of lines.

Left out of modelled parts: in the parser, `lrParse`, the hook that reclassifies
tokens, source locations of values, diagnostics and the early error return of
compressed tables; in the analysis, the LR(0), SLR and LR(1) modes that no build
switches on, and Follow sets; of the tables, the OCaml form of the emitted program
and the report of unexpected conflicts; nonterminals declared maximal reach conflict resolution from
single cells only; in ambiguity resolution, implicit int, the resolver for
qualifiers, the severities of errors in template bodies; of source locations, static
ones and the self-check; in the hash table, iterators, and overflow of the size (the
model's integers are unbounded).

Not modelled: the components that section 1 marks as text in and out or as ports;
the C++ type checker as a whole, whose rules range over the full AST and would make
a model as long as the code. Most of the tree's lines are there (the type checker,
templates, types, the AST's XML and OCaml forms) and in malloc, which is vendored.

## 8. The plan

Done, in this order: `Derivability`, `LALR`, `GLR`, `LRItems`/`LRItemSets`,
`KeyedMap`/`HashTable` and the first three proof modules; then `ConflictResolution`,
`GraphColoring`, `ParseTables`, `TableConstruction`, `Ambiguity`, `SourceLoc` and
three more proof modules; then the proofs about hash tables, ambiguity resolution and
the parser's graph and reduction paths, of what the item sets, the matrix and the cells end up with, and of
what finished tables say.

What is left, most important first:

1. **Proofs**: `NothingSwept` and `IsolatedOnce`, from what scripts can declare.
2. **A recognizer as an abstract specification** of the parser (which prefixes are
   viable, which trees are built), implemented by `GLR`; `lrParse` implementing the
   same.
3. **The overload tournament** against "better than all others", and the successor
   edges of `cfg.cc`.
4. **The nonterminal order** as a step machine; First and Follow likewise.

## 9. Running it

    tlc -workers 2 -config MCGLR.cfg MCGLR
    tlapm GLRProofs.tla

Each run of `PROJECT.json` names its module and its configuration. The longest
takes about a minute. A definition whose comment says "variation" is not part of
the model: it is a plausible mistake in the definition it is named after, and
`PROJECT.json` lists which property catches it.
