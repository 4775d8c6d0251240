------------------------------ MODULE GLRProofs ------------------------------
(***************************************************************************)
(* What the parser core never gets wrong, for every grammar, table, input  *)
(* and answer of keepNontermValue.                                         *)
(*                                                                         *)
(* First, that no two parsers are in the same state: a node never changes  *)
(* its state, whatever a step does to its links, depth and count, so it is *)
(* enough to look at the steps that add a parser to the list.              *)
(*                                                                         *)
(* Then, the graph. The inductive invariant is GraphInv: until the mini-LR *)
(* core pops, or pushes on, a node that others refer to, the graph is      *)
(* Sound.                                                                  *)
(*  - StackOK: links are transitions of the automaton, first links lead    *)
(*    to nodes made earlier; a node that was freed has no links; the       *)
(*    reference count of a node is the number of links and of places on    *)
(*    the worklists that refer to it; the cached depths are right; no      *)
(*    node links to another twice;                                         *)
(*  - ValuesOK: each value is held by one link, or was given away or       *)
(*    freed;                                                               *)
(*  - PhaseOK: what the queue refers to is live, and during the shifts     *)
(*    nothing links to a new parser.                                       *)
(* The steps that need it all are the mini-LR reduction, whose pops are    *)
(* right because of the depths and the counts, and DecRefCt, which frees   *)
(* what only the freed held. For each of the handlers a lemma says that it *)
(* keeps Sound (MiniReduceKeeps, ShiftParserKeeps, AddNewParserKeeps,      *)
(* ...).                                                                   *)
(*                                                                         *)
(* From the counts: a node popped by the mini-LR core is referred to once, *)
(* or a cycle of the graph has leaked; and at acceptance every value has   *)
(* been given away or freed, or a cycle has leaked.                        *)
(*                                                                         *)
(* Last, the reduction paths. What the recursive search lists is exactly   *)
(* the trails of links of its length, each once; so what is enqueued for a *)
(* token is exactly the paths of the graph as it is now (PathsInv): what a *)
(* new link or a new parser opens is what is enqueued with it.             *)
(***************************************************************************)
EXTENDS GLR, TLAPS, FiniteSetTheorems, SequenceTheorems

\* A graph: a sequence of nodes, each of which has a state.
Graph(h) == /\ h \in Seq(Range(h))
            /\ \A n \in DOMAIN h : "state" \in DOMAIN h[n]

\* h2 has the nodes of h, in the same states.
SameStates(h, h2) ==
    /\ Graph(h2)
    /\ DOMAIN h2 = DOMAIN h
    /\ \A n \in DOMAIN h : h2[n].state = h[n].state

\* The nodes on list are in h, and no two of them are in the same state.
OnePerState(h, list) ==
    /\ Graph(h)
    /\ list \in Seq(DOMAIN h)
    /\ \A i, j \in DOMAIN list : h[list[i]].state = h[list[j]].state => i = j

\* The inductive invariant.
ParsersInv == OnePerState(gss, topmostParsers)

------------------------
\* A graph's nodes are numbered from 1.
LEMMA GraphShape ==
  ASSUME NEW h, Graph(h)
  PROVE  Len(h) \in Nat /\ DOMAIN h = 1..Len(h) /\ h = [n \in DOMAIN h |-> h[n]]
BY DEF Graph

\* A function on 1..len is a graph if its values have states.
LEMMA GraphByIndex ==
  ASSUME NEW len \in Nat, NEW h,
         h = [n \in 1..len |-> h[n]],
         \A n \in 1..len : "state" \in DOMAIN h[n]
  PROVE  Graph(h)
<1>1. h \in [1..len -> Range(h)]
  BY DEF Range
<1>2. h \in Seq(Range(h))
  BY <1>1
<1> QED
  BY <1>2 DEF Graph

\* A graph made anew node by node has the same states if each node has.
LEMMA SameByIndex ==
  ASSUME NEW h, Graph(h), NEW h2,
         h2 = [n \in DOMAIN h |-> h2[n]],
         \A n \in DOMAIN h : "state" \in DOMAIN h2[n] /\ h2[n].state = h[n].state
  PROVE  SameStates(h, h2)
<1>1. Graph(h2)
  BY GraphShape, GraphByIndex
<1>2. DOMAIN h2 = DOMAIN h
  OBVIOUS
<1> QED
  BY <1>1, <1>2 DEF SameStates

\* Steps that keep the states can be taken one after the other.
LEMMA SameStatesTransitive ==
  ASSUME NEW h1, NEW h2, NEW h3, SameStates(h1, h2), SameStates(h2, h3)
  PROVE  SameStates(h1, h3)
BY DEF SameStates

\* A graph has the states it has.
LEMMA SameStatesReflexive ==
  ASSUME NEW h, Graph(h)
  PROVE  SameStates(h, h)
BY DEF SameStates

\* addSiblingLink changes links, a depth and a reference count.
LEMMA AddLinkKeepsStates ==
  ASSUME NEW h, Graph(h), NEW n, NEW sib, NEW val
  PROVE  SameStates(h, AddLink(h, n, sib, val))
<1> DEFINE first == h[n].links = <<>>
           h1 == [h EXCEPT ![n].depth = IF first THEN h[sib].depth + 1 ELSE 0,
                           ![n].links = Append(@, Link(sib, val))]
           h2 == [h1 EXCEPT ![sib].refct = @ + 1]
<1>1. h1 = [m \in DOMAIN h |-> h1[m]]
  OBVIOUS
<1>2. \A m \in DOMAIN h : "state" \in DOMAIN h1[m] /\ h1[m].state = h[m].state
  BY DEF Graph
<1>3. h2 = [m \in DOMAIN h |-> h2[m]]
  OBVIOUS
<1>4. \A m \in DOMAIN h : "state" \in DOMAIN h2[m] /\ h2[m].state = h[m].state
  BY <1>1, <1>2
<1>5. AddLink(h, n, sib, val) = h2
  BY DEF AddLink
<1> HIDE DEF h2
<1>6. SameStates(h, h2)
  BY <1>3, <1>4, SameByIndex
<1> QED
  BY <1>5, <1>6

\* Yielding changes the values and yield counts of links.
LEMMA YieldKeepsStates ==
  ASSUME NEW h, Graph(h), NEW links, NEW next
  PROVE  SameStates(h, Yield(h, links, next).h)
<1> DEFINE h2 == Yield(h, links, next).h
<1>1. h2 = [m \in DOMAIN h |-> h2[m]]
  BY DEF Yield
<1>2. \A m \in DOMAIN h : "state" \in DOMAIN h2[m] /\ h2[m].state = h[m].state
  BY DEF Yield, Graph
<1> HIDE DEF h2
<1>3. SameStates(h, h2)
  BY <1>1, <1>2, SameByIndex
<1> QED
  BY <1>3 DEF h2

\* Releasing a reference clears nodes and counts down; a freed node keeps its state.
LEMMA DecRefCtKeepsStates ==
  ASSUME NEW h, Graph(h), NEW n
  PROVE  SameStates(h, DecRefCt(h, n))
<1> DEFINE h2 == DecRefCt(h, n)
<1>1. h2 = [m \in DOMAIN h |-> h2[m]]
  BY DEF DecRefCt
<1>2. \A m \in DOMAIN h : "state" \in DOMAIN h2[m] /\ h2[m].state = h[m].state
  BY DEF DecRefCt, Graph
<1> HIDE DEF h2
<1>3. SameStates(h, h2)
  BY <1>1, <1>2, SameByIndex
<1> QED
  BY <1>3 DEF h2

\* Recomputing the depths changes depths.
LEMMA RecomputeKeepsStates ==
  ASSUME NEW h, Graph(h), NEW list
  PROVE  SameStates(h, RecomputeDepths(h, list))
<1> DEFINE h2 == RecomputeDepths(h, list)
<1>1. h2 = [m \in DOMAIN h |-> h2[m]]
  BY DEF RecomputeDepths
<1>2. \A m \in DOMAIN h : "state" \in DOMAIN h2[m] /\ h2[m].state = h[m].state
  BY DEF RecomputeDepths, Graph
<1> HIDE DEF h2
<1>3. SameStates(h, h2)
  BY <1>1, <1>2, SameByIndex
<1> QED
  BY <1>3 DEF h2

\* A new node is numbered after the others, which it leaves alone.
LEMMA NewNode ==
  ASSUME NEW h, Graph(h), NEW node, "state" \in DOMAIN node
  PROVE  LET h2 == Append(h, node)
         IN  /\ Graph(h2)
             /\ Len(h) + 1 \notin DOMAIN h
             /\ DOMAIN h2 = DOMAIN h \cup {Len(h) + 1}
             /\ h2[Len(h) + 1] = node
             /\ \A n \in DOMAIN h : h2[n] = h[n]
<1> DEFINE h2 == Append(h, node)
           S == Range(h) \cup {node}
<1>1. h \in Seq(S)
  BY DEF Graph
<1>2. /\ h2 \in Seq(S) /\ Len(h2) = Len(h) + 1
      /\ \A n \in 1..Len(h) : h2[n] = h[n]
      /\ h2[Len(h) + 1] = node
  BY <1>1
<1>3. Len(h) \in Nat /\ DOMAIN h = 1..Len(h) /\ DOMAIN h2 = 1..Len(h) + 1
  BY <1>1, <1>2
<1>4. \A n \in DOMAIN h2 : "state" \in DOMAIN h2[n]
  BY <1>2, <1>3 DEF Graph
<1> HIDE DEF h2
<1>5. h2 = [n \in 1..(Len(h) + 1) |-> h2[n]]
  BY <1>2, <1>3
<1>6. Graph(h2)
  BY <1>3, <1>4, <1>5, GraphByIndex
<1> QED
  BY <1>2, <1>3, <1>6 DEF h2

\* If the nodes keep their states, the parsers stay as they should be.
LEMMA KeptParsers ==
  ASSUME NEW h, NEW h2, NEW list, OnePerState(h, list), SameStates(h, h2)
  PROVE  OnePerState(h2, list)
<1>1. list \in Seq(DOMAIN h2)
  BY DEF OnePerState, SameStates
<1>2. \A i \in DOMAIN list : h2[list[i]].state = h[list[i]].state
  BY DEF OnePerState, SameStates
<1> QED
  BY <1>1, <1>2 DEF OnePerState, SameStates

\* A new parser may be put on the list when none that is on it is in its state.
LEMMA NewParser ==
  ASSUME NEW h, NEW list, OnePerState(h, list),
         NEW node, "state" \in DOMAIN node, InState(h, list, node.state) = {}
  PROVE  OnePerState(Append(h, node), Append(list, Len(h) + 1))
<1> DEFINE h2    == Append(h, node)
           list2 == Append(list, Len(h) + 1)
<1>1. /\ Graph(h2) /\ DOMAIN h2 = DOMAIN h \cup {Len(h) + 1}
      /\ h2[Len(h) + 1] = node
      /\ \A n \in DOMAIN h : h2[n] = h[n]
  BY NewNode DEF OnePerState
<1>2. list \in Seq(DOMAIN h2)
  BY <1>1 DEF OnePerState
<1>3. list2 \in Seq(DOMAIN h2)
  BY <1>1, <1>2
<1>4. /\ Len(list) \in Nat /\ DOMAIN list = 1..Len(list)
      /\ DOMAIN list2 = DOMAIN list \cup {Len(list) + 1}
      /\ list2[Len(list) + 1] = Len(h) + 1
      /\ \A i \in DOMAIN list : list2[i] = list[i]
  BY <1>2
<1> HIDE DEF h2, list2
<1>5. \A i \in DOMAIN list : h2[list2[i]].state = h[list[i]].state
  BY <1>1, <1>4 DEF OnePerState
<1>6. \A i \in DOMAIN list : h[list[i]].state # node.state
  BY <1>4 DEF OnePerState, InState, ToSet
<1>7. h2[list2[Len(list) + 1]].state = node.state
  BY <1>1, <1>4
<1>8. \A i, j \in DOMAIN list2 : h2[list2[i]].state = h2[list2[j]].state => i = j
  BY <1>4, <1>5, <1>6, <1>7 DEF OnePerState
<1> QED
  BY <1>1, <1>3, <1>8 DEF OnePerState, h2, list2

\* A list of one parser, or of none.
LEMMA SoleParser ==
  ASSUME NEW h, Graph(h), NEW node, "state" \in DOMAIN node
  PROVE  OnePerState(Append(h, node), <<Len(h) + 1>>)
<1>1. Graph(Append(h, node)) /\ Len(h) + 1 \in DOMAIN Append(h, node)
  BY NewNode
<1> QED
  BY <1>1 DEF OnePerState

\* The empty list names no state twice.
LEMMA NoParsers ==
  ASSUME NEW h, Graph(h)
  PROVE  OnePerState(h, <<>>)
BY DEF OnePerState

\* Graphs with the same states have the same length, and the same parsers in a state.
LEMMA SameLook ==
  ASSUME NEW h, NEW h2, NEW list, OnePerState(h, list), SameStates(h, h2), NEW s
  PROVE  Len(h2) = Len(h) /\ InState(h2, list, s) = InState(h, list, s)
<1>1. Len(h2) = Len(h)
  BY GraphShape DEF OnePerState, SameStates
<1>2. \A n \in ToSet(list) : h2[n].state = h[n].state
  BY DEF OnePerState, SameStates, ToSet
<1> QED
  BY <1>1, <1>2 DEF InState

------------------------
\* What the reduction at the front of the queue leaves of the graph.
LEMMA ReducedKeepsStates ==
  ASSUME ParsersInv
  PROVE  /\ SameStates(gss, Reduced.h)
         /\ OnePerState(Reduced.h, topmostParsers)
         /\ Reduced.found = InState(Reduced.h, topmostParsers, Reduced.state)
         /\ Len(Reduced.h) = Len(gss)
<1>1. Reduced.h = Yield(gss, Head(pathQueue).links, nextVal).h
  BY DEF Reduced
<1>2. SameStates(gss, Reduced.h)
  BY <1>1, YieldKeepsStates DEF ParsersInv, OnePerState
<1>3. Reduced.found = InState(gss, topmostParsers, Reduced.state)
  BY DEF Reduced
<1> QED
  BY <1>2, <1>3, KeptParsers, SameLook DEF ParsersInv

\* Nodes that are popped keep their states.
LEMMA PopKeepsStates ==
  ASSUME NEW h, Graph(h), NEW popped
  PROVE  SameStates(h, Pop(h, popped))
<1> DEFINE h2 == Pop(h, popped)
<1>1. h2 = [n \in DOMAIN h |-> h2[n]]
  BY DEF Pop
<1>2. \A n \in DOMAIN h : "state" \in DOMAIN h2[n] /\ h2[n].state = h[n].state
  BY DEF Pop, Graph
<1> HIDE DEF h2
<1>3. SameStates(h, h2)
  BY <1>1, <1>2, SameByIndex
<1> QED
  BY <1>3 DEF h2

\* A mini-LR reduction leaves one parser, the new one.
LEMMA MiniReduceKeepsInv ==
  ASSUME ParsersInv, MiniReduce
  PROVE  ParsersInv'
<1>1. PICK popped, s, c, left, val :
         gss' = Append(Pop(gss, popped), Pushed(gss, s, c, left, val))
  BY Zenon DEF MiniReduce
<1> DEFINE h    == Pop(gss, popped)
           node == Pushed(gss, s, c, left, val)
<1>2. SameStates(gss, h)
  BY PopKeepsStates DEF ParsersInv, OnePerState
<1>3. Graph(h) /\ Len(h) = Len(gss)
  BY <1>2, SameLook DEF SameStates, ParsersInv
<1>4. "state" \in DOMAIN node
  BY DEF Pushed
<1>5. OnePerState(Append(h, node), <<Len(h) + 1>>)
  BY <1>3, <1>4, SoleParser
<1>6. topmostParsers' = <<Len(gss) + 1>>
  BY Zenon DEF MiniReduce
<1> QED
  BY <1>1, <1>3, <1>5, <1>6 DEF ParsersInv

\* So does a mini-LR shift.
LEMMA MiniShiftKeepsInv ==
  ASSUME ParsersInv, MiniShift
  PROVE  ParsersInv'
<1> DEFINE node == Pushed(gss, ShiftDest(Action), column + 1, Parser, TokenValue)
<1>1. gss' = Append(gss, node) /\ topmostParsers' = <<Len(gss) + 1>>
  BY DEF MiniShift
<1>2. "state" \in DOMAIN node
  BY DEF Pushed
<1>3. OnePerState(Append(gss, node), <<Len(gss) + 1>>)
  BY <1>2, SoleParser DEF ParsersInv, OnePerState
<1> QED
  BY <1>1, <1>3 DEF ParsersInv

\* Steps that leave the list alone and the nodes in their states.
LEMMA SameParsersKeepInv ==
  ASSUME ParsersInv, SameStates(gss, gss'),
         topmostParsers' = topmostParsers \/ topmostParsers' = <<>>
  PROVE  ParsersInv'
<1>1. OnePerState(gss', topmostParsers)
  BY KeptParsers DEF ParsersInv
<1>2. OnePerState(gss', <<>>)
  BY NoParsers DEF SameStates
<1> QED
  BY <1>1, <1>2 DEF ParsersInv

\* A cancelled reduction, and one that is dropped at a dead parser, change no links.
LEMMA DropKeepsInv ==
  ASSUME ParsersInv, CancelReduction \/ DropDeadMerge
  PROVE  ParsersInv'
<1>1. gss' = Reduced.h /\ topmostParsers' = topmostParsers
  BY Zenon DEF CancelReduction, DropDeadMerge, Handled
<1> QED
  BY <1>1, ReducedKeepsStates, SameParsersKeepInv

\* A merge replaces the value of a link.
LEMMA MergeKeepsInv ==
  ASSUME ParsersInv, MergeParses
  PROVE  ParsersInv'
<1> DEFINE h == Reduced.h
           n == TheOne(Reduced.found)
           k == Existing(Reduced)
           v == Value(Reduced.val.id + 1, h[n].links[k].val.trees \cup Reduced.val.trees)
           h2 == [h EXCEPT ![n].links[k].val = v]
<1>1. gss' = h2 /\ topmostParsers' = topmostParsers
  BY DEF MergeParses, Handled
<1>2. SameStates(gss, h) /\ Graph(h)
  BY ReducedKeepsStates DEF SameStates
<1> HIDE DEF h, n, k, v
<1>3. h2 = [m \in DOMAIN h |-> h2[m]]
  OBVIOUS
<1>4. \A m \in DOMAIN h : "state" \in DOMAIN h2[m] /\ h2[m].state = h[m].state
  BY <1>2 DEF Graph
<1> HIDE DEF h2
<1>5. SameStates(h, h2)
  BY <1>2, <1>3, <1>4, SameByIndex
<1> QED
  BY <1>1, <1>2, <1>5, SameStatesTransitive, SameParsersKeepInv, SMTT(30)

\* A new link between existing nodes, with or without new depths.
LEMMA AddNewLinkKeepsInv ==
  ASSUME ParsersInv, AddNewLink
  PROVE  ParsersInv'
<1> DEFINE r  == Reduced
           h1 == AddLink(r.h, TheOne(r.found), r.left, r.val)
           h2 == RecomputeDepths(h1, topmostParsers)
<1>1. (gss' = h1 \/ gss' = h2) /\ topmostParsers' = topmostParsers
  BY Zenon DEF AddNewLink, Handled
<1>2. SameStates(gss, r.h) /\ Graph(r.h)
  BY ReducedKeepsStates DEF SameStates
<1>3. SameStates(r.h, h1)
  BY <1>2, AddLinkKeepsStates
<1>4. SameStates(h1, h2)
  BY <1>3, RecomputeKeepsStates DEF SameStates
<1> HIDE DEF r, h1, h2
<1>5. SameStates(gss, h1) /\ SameStates(gss, h2)
  BY <1>2, <1>3, <1>4, SameStatesTransitive
<1> QED
  BY <1>1, <1>5, SameParsersKeepInv

\* A reduction makes a new parser only in a state that no parser is in.
LEMMA AddNewParserKeepsInv ==
  ASSUME ParsersInv, AddNewParser
  PROVE  ParsersInv'
<1> DEFINE r    == Reduced
           node == NewTop(r.state)
           h1   == Append(r.h, node)
           h2   == AddLink(h1, Len(r.h) + 1, r.left, r.val)
           list == Append(topmostParsers, Len(r.h) + 1)
<1>1. gss' = h2 /\ topmostParsers' = list /\ r.found = {}
  BY DEF AddNewParser, Handled
<1>2. "state" \in DOMAIN node /\ node.state = r.state
  BY DEF NewTop, Node
<1>3. OnePerState(h1, list)
  BY <1>1, <1>2, ReducedKeepsStates, NewParser
<1>4. SameStates(h1, h2)
  BY <1>3, AddLinkKeepsStates DEF OnePerState
<1>5. OnePerState(h2, list)
  BY <1>3, <1>4, KeptParsers
<1> QED
  BY <1>1, <1>5 DEF ParsersInv

\* A shift goes to the parser that is in the destination state, or makes one.
LEMMA ShiftParserKeepsInv ==
  ASSUME ParsersInv, ShiftParser
  PROVE  ParsersInv'
<1> DEFINE left  == Last(prevTopmost)
           dest  == ShiftDest(TheOne(Shifts(gss[left].state)))
           found == InState(gss, topmostParsers, dest)
           n     == IF found = {} THEN Len(gss) + 1 ELSE TheOne(found)
           h     == IF found # {} THEN gss ELSE Append(gss, NewTop(dest))
           list  == IF found = {} THEN Append(topmostParsers, n) ELSE topmostParsers
           linked == AddLink(h, n, left, TokenValue)
           h2    == [linked EXCEPT ![left].refct = @ - 1]
<1>1. gss' = h2 /\ topmostParsers' = list
  BY DEF ShiftParser
<1>2. "state" \in DOMAIN NewTop(dest) /\ NewTop(dest).state = dest
  BY DEF NewTop, Node
<1>3. OnePerState(h, list)
  <2>1. CASE found = {}
    BY <1>2, <2>1, NewParser DEF ParsersInv
  <2>2. CASE found # {}
    BY <2>2 DEF ParsersInv
  <2> QED
    BY <2>1, <2>2
<1> HIDE DEF h, n, list, found, dest, left
<1>4. SameStates(h, linked)
  BY <1>3, AddLinkKeepsStates DEF OnePerState
<1> HIDE DEF linked
<1>5. h2 = [m \in DOMAIN linked |-> h2[m]]
  OBVIOUS
<1>6. \A m \in DOMAIN linked :
         "state" \in DOMAIN h2[m] /\ h2[m].state = linked[m].state
  BY <1>4 DEF SameStates, Graph
<1> HIDE DEF h2
<1>7. SameStates(linked, h2)
  BY <1>4, <1>5, <1>6, SameByIndex DEF SameStates
<1>8. OnePerState(h2, list)
  BY <1>3, <1>4, <1>7, SameStatesTransitive, KeptParsers
<1> QED
  BY <1>1, <1>8 DEF ParsersInv

\* A parser that cannot shift lets go of its stretch of stack.
LEMMA DropParserKeepsInv ==
  ASSUME ParsersInv, DropParser
  PROVE  ParsersInv'
<1>1. gss' = DecRefCt(gss, Last(prevTopmost)) /\ topmostParsers' = topmostParsers
  BY DEF DropParser
<1>2. SameStates(gss, gss')
  BY <1>1, DecRefCtKeepsStates DEF ParsersInv, OnePerState
<1> QED
  BY <1>1, <1>2, SameParsersKeepInv

\* The end of the parse leaves no parser, or everything as it is.
LEMMA CleanupKeepsInv ==
  ASSUME ParsersInv, CleanupAfterParse
  PROVE  ParsersInv'
<1> DEFINE last  == topmostParsers[1]
           links == << <<gss[last].links[1].sib, 1>>, <<last, 1>> >>
           h1    == Yield(gss, links, nextVal).h
           h2    == DecRefCt(h1, last)
<1>1. \/ gss' = gss /\ topmostParsers' = topmostParsers
      \/ gss' = h2 /\ topmostParsers' = <<>>
  BY Zenon DEF CleanupAfterParse
<1>2. Graph(gss)
  BY DEF ParsersInv, OnePerState
<1>3. SameStates(gss, h1)
  BY <1>2, YieldKeepsStates
<1>4. SameStates(h1, h2)
  BY <1>3, DecRefCtKeepsStates, Zenon DEF SameStates
<1> HIDE DEF h1, h2
<1>5. SameStates(gss, h2) /\ SameStates(gss, gss)
  BY <1>2, <1>3, <1>4, SameStatesTransitive, SameStatesReflexive
<1> QED
  BY <1>1, <1>5, SameParsersKeepInv

------------------------
\* The unique-state property, for every grammar and every input: at no moment are
\* two of the topmost parsers in the same state.
THEOREM OneParserPerState == Spec => []UniqueState
<1>1. Init => ParsersInv
  <2> SUFFICES ASSUME Init PROVE ParsersInv
    OBVIOUS
  <2> DEFINE node == [Node(tables.start, 0) EXCEPT !.refct = 1]
  <2>1. gss = Append(<<>>, node) /\ topmostParsers = <<Len(<<>>) + 1>>
    BY DEF Init
  <2>2. "state" \in DOMAIN node
    BY DEF Node
  <2>3. Graph(<<>>)
    BY DEF Graph
  <2> HIDE DEF node
  <2>4. OnePerState(Append(<<>>, node), <<Len(<<>>) + 1>>)
    BY <2>2, <2>3, SoleParser, Zenon
  <2> QED
    BY <2>1, <2>4 DEF ParsersInv
<1>2. ParsersInv /\ [Next]_vars => ParsersInv'
  <2> SUFFICES ASSUME ParsersInv, [Next]_vars PROVE ParsersInv'
    OBVIOUS
  <2>1. CASE MiniReduce
    BY <2>1, MiniReduceKeepsInv
  <2>2. CASE MiniShift
    BY <2>2, MiniShiftKeepsInv
  <2>3. CASE CancelReduction \/ DropDeadMerge
    BY <2>3, DropKeepsInv
  <2>4. CASE MergeParses
    BY <2>4, MergeKeepsInv
  <2>5. CASE AddNewLink
    BY <2>5, AddNewLinkKeepsInv
  <2>6. CASE AddNewParser
    BY <2>6, AddNewParserKeepsInv
  <2>7. CASE ShiftParser
    BY <2>7, ShiftParserKeepsInv
  <2>8. CASE DropParser
    BY <2>8, DropParserKeepsInv
  <2>9. CASE CleanupAfterParse
    BY <2>9, CleanupKeepsInv
  <2>10. CASE StartReductions \/ StartShifts \/ FinishShifts \/ Done \/ UNCHANGED vars
    <3>1. gss' = gss
      BY <2>10 DEF StartReductions, StartShifts, FinishShifts, Done, vars
    <3>2. topmostParsers' = topmostParsers \/ topmostParsers' = <<>>
      BY <2>10 DEF StartReductions, StartShifts, FinishShifts, Done, vars
    <3> QED
      BY <3>1, <3>2, SameStatesReflexive, SameParsersKeepInv DEF ParsersInv, OnePerState
  <2> QED
    BY <2>1, <2>2, <2>3, <2>4, <2>5, <2>6, <2>7, <2>8, <2>9, <2>10 DEF Next
<1>3. ParsersInv => UniqueState
  BY DEF ParsersInv, OnePerState, UniqueState
<1> QED
  BY <1>1, <1>2, <1>3, PTL DEF Spec

------------------------
(* The shape of a graph *)

LinkCt(h, n) == Len(h[n].links)
Sib(h, n, k) == h[n].links[k].sib
IdOf(h, n, k) == h[n].links[k].val.id
RefOf(h, n) == h[n].refct
DepthOf(h, n) == h[n].depth
StateOf(h, n) == h[n].state
IsLive(h, n) == h[n].live

\* a value, a link, a node, a graph
IsValue(v) == "id" \in DOMAIN v /\ v.id \in Nat
IsLink(l) == /\ "sib" \in DOMAIN l /\ "val" \in DOMAIN l /\ "yields" \in DOMAIN l
             /\ l.sib \in Nat /\ IsValue(l.val)
IsLinks(s) == s \in Seq(Range(s)) /\ \A k \in 1..Len(s) : IsLink(s[k])
IsNode(r) == /\ "state" \in DOMAIN r /\ "column" \in DOMAIN r /\ "depth" \in DOMAIN r
             /\ "refct" \in DOMAIN r /\ "live" \in DOMAIN r /\ "links" \in DOMAIN r
             /\ r.state \in Int /\ r.column \in Int /\ r.depth \in Int
             /\ r.refct \in Int /\ r.live \in BOOLEAN /\ IsLinks(r.links)
Shape(h) == h \in Seq(Range(h)) /\ \A n \in 1..Len(h) : IsNode(h[n])
Nodes(h) == 1..Len(h)

\* A function on 1..len whose values are nodes is a graph.
LEMMA ShapeByIndex ==
  ASSUME NEW len \in Nat, NEW h, h = [n \in 1..len |-> h[n]], \A n \in 1..len : IsNode(h[n])
  PROVE  Shape(h) /\ Len(h) = len
<1>1. h \in [1..len -> Range(h)]
  BY DEF Range
<1>2. h \in Seq(Range(h)) /\ Len(h) = len
  BY <1>1
<1> QED BY <1>2 DEF Shape

\* What a graph is, by index.
LEMMA ShapeIs ==
  ASSUME NEW h, Shape(h)
  PROVE  /\ Len(h) \in Nat /\ DOMAIN h = Nodes(h) /\ h = [n \in Nodes(h) |-> h[n]]
         /\ \A n \in Nodes(h) : IsNode(h[n]) /\ IsLinks(h[n].links)
BY DEF Shape, IsNode, Nodes

\* What a list of links is, by index.
LEMMA LinksAre ==
  ASSUME NEW s, IsLinks(s)
  PROVE  Len(s) \in Nat /\ DOMAIN s = 1..Len(s) /\ s = [k \in 1..Len(s) |-> s[k]]
BY DEF IsLinks

\* A function on 1..len whose values are links is a list of links.
LEMMA LinksByIndex ==
  ASSUME NEW len \in Nat, NEW s, s = [k \in 1..len |-> s[k]], \A k \in 1..len : IsLink(s[k])
  PROVE  IsLinks(s) /\ Len(s) = len
<1>1. s \in [1..len -> Range(s)]
  BY DEF Range
<1>2. s \in Seq(Range(s)) /\ Len(s) = len
  BY <1>1
<1> QED BY <1>2 DEF IsLinks

\* The views of a node have the types of what they look at.
LEMMA ViewsAre ==
  ASSUME NEW h, Shape(h), NEW n \in Nodes(h)
  PROVE  /\ LinkCt(h, n) \in Nat /\ RefOf(h, n) \in Int /\ DepthOf(h, n) \in Int
         /\ StateOf(h, n) \in Int /\ IsLive(h, n) \in BOOLEAN
         /\ \A k \in 1..LinkCt(h, n) : Sib(h, n, k) \in Nat /\ IdOf(h, n, k) \in Nat
<1>1. IsNode(h[n]) /\ IsLinks(h[n].links)
  BY ShapeIs
<1>2. Len(h[n].links) \in Nat /\ \A k \in 1..Len(h[n].links) : IsLink(h[n].links[k])
  BY <1>1, LinksAre DEF IsLinks
<1>3. \A k \in 1..LinkCt(h, n) : Sib(h, n, k) \in Nat /\ IdOf(h, n, k) \in Nat
  BY <1>2 DEF LinkCt, Sib, IdOf, IsLink, IsValue
<1> QED
  BY <1>1, <1>2, <1>3 DEF IsNode, LinkCt, RefOf, DepthOf, StateOf, IsLive

------------------------
\* One more link at a node.
LEMMA LinksGrow ==
  ASSUME NEW s, IsLinks(s), NEW l, IsLink(l)
  PROVE  /\ IsLinks(Append(s, l)) /\ Len(Append(s, l)) = Len(s) + 1
         /\ \A k \in 1..Len(s) : Append(s, l)[k] = s[k]
         /\ Append(s, l)[Len(s) + 1] = l
<1> DEFINE t == Append(s, l)
           S == Range(s) \cup {l}
<1>1. s \in Seq(S) /\ l \in S
  BY DEF IsLinks
<1>2. /\ t \in Seq(S) /\ Len(t) = Len(s) + 1 /\ Len(s) \in Nat
      /\ \A k \in 1..Len(s) : t[k] = s[k]
      /\ t[Len(s) + 1] = l
  BY <1>1
<1>3. ASSUME NEW k \in 1..Len(t) PROVE IsLink(t[k])
  <2>1. CASE k \in 1..Len(s)
    BY <2>1, <1>2 DEF IsLinks
  <2>2. CASE k = Len(s) + 1
    BY <2>2, <1>2
  <2> QED BY <2>1, <2>2, <1>2
<1> HIDE DEF t
<1>4. t = [k \in 1..(Len(s) + 1) |-> t[k]] /\ Len(s) + 1 \in Nat
  BY <1>2
<1>5. IsLinks(t)
  BY <1>2, <1>3, <1>4, LinksByIndex
<1> QED BY <1>2, <1>5 DEF t

\* what addSiblingLink does, seen from outside
LinkAdded(h, g, n, sib, id) ==
    /\ Shape(g) /\ Len(g) = Len(h)
    /\ \A m \in Nodes(h) :
          /\ StateOf(g, m) = StateOf(h, m) /\ (IsLive(g, m) <=> IsLive(h, m))
          /\ RefOf(g, m) = RefOf(h, m) + (IF m = sib THEN 1 ELSE 0)
          /\ LinkCt(g, m) = LinkCt(h, m) + (IF m = n THEN 1 ELSE 0)
          /\ \A k \in 1..LinkCt(h, m) :
                Sib(g, m, k) = Sib(h, m, k) /\ IdOf(g, m, k) = IdOf(h, m, k)
          /\ m # n => DepthOf(g, m) = DepthOf(h, m)
    /\ Sib(g, n, LinkCt(h, n) + 1) = sib /\ IdOf(g, n, LinkCt(h, n) + 1) = id
    /\ DepthOf(g, n) = IF LinkCt(h, n) = 0 THEN DepthOf(h, sib) + 1 ELSE 0

\* A list of no links is the empty sequence.
LEMMA EmptyLinks ==
  ASSUME NEW s, IsLinks(s)
  PROVE  s = <<>> <=> Len(s) = 0
BY DEF IsLinks

\* The link that is made has the sibling and the value it is given.
LEMMA NewLink ==
  ASSUME NEW sib \in Nat, NEW val, IsValue(val)
  PROVE  IsLink(Link(sib, val)) /\ Link(sib, val).sib = sib /\ Link(sib, val).val = val
BY DEF Link, IsLink

\* addSiblingLink adds a link, counts it, and sets the depth.
LEMMA AddLinkAdds ==
  ASSUME NEW h, Shape(h), NEW n \in Nodes(h), NEW sib \in Nodes(h), NEW val, IsValue(val)
  PROVE  LinkAdded(h, AddLink(h, n, sib, val), n, sib, val.id)
<1> DEFINE l == Link(sib, val)
           s == h[n].links
           t == Append(s, l)
           d == IF s = <<>> THEN h[sib].depth + 1 ELSE 0
           r == [h[n] EXCEPT !.depth = d, !.links = t]
           h1 == [h EXCEPT ![n] = r]
           q == [h1[sib] EXCEPT !.refct = h1[sib].refct + 1]
           g == [h1 EXCEPT ![sib] = q]
<1>1. /\ Len(h) \in Nat /\ DOMAIN h = Nodes(h)
      /\ \A m \in Nodes(h) : IsNode(h[m]) /\ IsLinks(h[m].links)
  BY ShapeIs
<1>2. sib \in Nat /\ IsLink(l) /\ l.sib = sib /\ l.val = val
  BY <1>1, NewLink DEF Nodes
<1>3. /\ IsLinks(t) /\ Len(t) = Len(s) + 1
      /\ \A k \in 1..Len(s) : t[k] = s[k]
      /\ t[Len(s) + 1] = l
  BY <1>1, <1>2, LinksGrow
<1>4. d \in Int
  BY <1>1 DEF IsNode
<1>5. s = <<>> <=> Len(s) = 0
  BY <1>1, EmptyLinks
<1>6. AddLink(h, n, sib, val) = g
  BY DEF AddLink
<1> HIDE DEF l, s, t, d
<1>7. /\ IsNode(r) /\ r.state = h[n].state /\ r.live = h[n].live /\ r.refct = h[n].refct
      /\ r.links = t /\ r.depth = d
  BY <1>1, <1>3, <1>4 DEF IsNode
<1> HIDE DEF r
<1>8. /\ DOMAIN h1 = Nodes(h) /\ h1[n] = r /\ \A m \in Nodes(h) \ {n} : h1[m] = h[m]
  BY <1>1
<1>9. \A m \in Nodes(h) : IsNode(h1[m])
  BY <1>1, <1>7, <1>8
<1> HIDE DEF h1
<1>10. /\ IsNode(q) /\ q.state = h1[sib].state /\ q.live = h1[sib].live
       /\ q.refct = h1[sib].refct + 1 /\ q.links = h1[sib].links /\ q.depth = h1[sib].depth
  BY <1>9 DEF IsNode
<1> HIDE DEF q
<1>11. /\ g = [m \in Nodes(h) |-> g[m]] /\ g[sib] = q /\ \A m \in Nodes(h) \ {sib} : g[m] = h1[m]
  BY <1>8
<1>12. \A m \in Nodes(h) : IsNode(g[m])
  BY <1>9, <1>10, <1>11
<1> HIDE DEF g
<1>13. Shape(g) /\ Len(g) = Len(h)
  BY <1>1, <1>11, <1>12, ShapeByIndex DEF Nodes
<1>14. ASSUME NEW m \in Nodes(h)
       PROVE  /\ g[m].state = h1[m].state /\ g[m].live = h1[m].live /\ g[m].links = h1[m].links
              /\ g[m].depth = h1[m].depth
              /\ g[m].refct = h1[m].refct + (IF m = sib THEN 1 ELSE 0)
  <2>1. h1[m].refct \in Int
    BY <1>9 DEF IsNode
  <2>2. CASE m = sib
    BY <2>2, <1>10, <1>11
  <2>3. CASE m # sib
    BY <2>1, <2>3, <1>11
  <2> QED BY <2>2, <2>3
<1>15. \A m \in Nodes(h) :
          /\ h1[m].state = h[m].state /\ h1[m].live = h[m].live /\ h1[m].refct = h[m].refct
          /\ m # n => h1[m].links = h[m].links /\ h1[m].depth = h[m].depth
  BY <1>7, <1>8
<1>16. h1[n].links = t /\ h1[n].depth = d
  BY <1>7, <1>8
<1>17. \A m \in Nodes(h) :
          /\ StateOf(g, m) = StateOf(h, m) /\ (IsLive(g, m) <=> IsLive(h, m))
          /\ RefOf(g, m) = RefOf(h, m) + (IF m = sib THEN 1 ELSE 0)
          /\ m # n => DepthOf(g, m) = DepthOf(h, m)
  BY <1>14, <1>15 DEF StateOf, IsLive, RefOf, DepthOf
<1>18. ASSUME NEW m \in Nodes(h) \ {n}
       PROVE  /\ LinkCt(g, m) = LinkCt(h, m) + 0
              /\ \A k \in 1..LinkCt(h, m) :
                    Sib(g, m, k) = Sib(h, m, k) /\ IdOf(g, m, k) = IdOf(h, m, k)
  <2>1. g[m].links = h[m].links /\ Len(h[m].links) \in Nat
    BY <1>1, <1>14, <1>15, LinksAre
  <2> QED BY <2>1 DEF LinkCt, Sib, IdOf
<1>19. /\ LinkCt(g, n) = LinkCt(h, n) + 1
       /\ \A k \in 1..LinkCt(h, n) :
             Sib(g, n, k) = Sib(h, n, k) /\ IdOf(g, n, k) = IdOf(h, n, k)
       /\ Sib(g, n, LinkCt(h, n) + 1) = sib /\ IdOf(g, n, LinkCt(h, n) + 1) = val.id
       /\ DepthOf(g, n) = IF LinkCt(h, n) = 0 THEN DepthOf(h, sib) + 1 ELSE 0
  <2>1. g[n].links = t /\ g[n].depth = d
    BY <1>14, <1>16
  <2>2. Len(s) = LinkCt(h, n)
    BY DEF LinkCt, s
  <2>3. LinkCt(g, n) = LinkCt(h, n) + 1
    BY <2>1, <2>2, <1>3 DEF LinkCt
  <2>4. \A k \in 1..LinkCt(h, n) :
             Sib(g, n, k) = Sib(h, n, k) /\ IdOf(g, n, k) = IdOf(h, n, k)
    BY <2>1, <2>2, <1>3 DEF Sib, IdOf, s
  <2>5. Sib(g, n, LinkCt(h, n) + 1) = sib /\ IdOf(g, n, LinkCt(h, n) + 1) = val.id
    BY <2>1, <2>2, <1>2, <1>3 DEF Sib, IdOf
  <2>6. DepthOf(g, n) = IF LinkCt(h, n) = 0 THEN DepthOf(h, sib) + 1 ELSE 0
    BY <2>1, <2>2, <1>5 DEF d, DepthOf
  <2> QED BY <2>3, <2>4, <2>5, <2>6
<1> HIDE DEF l
<1>20. \A m \in Nodes(h) :
          /\ LinkCt(g, m) = LinkCt(h, m) + (IF m = n THEN 1 ELSE 0)
          /\ \A k \in 1..LinkCt(h, m) :
                Sib(g, m, k) = Sib(h, m, k) /\ IdOf(g, m, k) = IdOf(h, m, k)
  BY <1>18, <1>19
<1>21. LinkAdded(h, g, n, sib, val.id)
  BY <1>13, <1>17, <1>19, <1>20 DEF LinkAdded
<1> QED BY <1>6, <1>21

------------------------
(* A node more, a reference less, depths set *)

\* a new node on its own
NodeAdded(h, g, state) ==
    /\ Shape(g) /\ Len(g) = Len(h) + 1
    /\ \A m \in Nodes(h) : g[m] = h[m]
    /\ StateOf(g, Len(h) + 1) = state /\ IsLive(g, Len(h) + 1)
    /\ RefOf(g, Len(h) + 1) = 1 /\ DepthOf(g, Len(h) + 1) = 1 /\ LinkCt(g, Len(h) + 1) = 0

\* the node that makeStackNode makes, with the reference of the list it is put on
TopNode(state, col) == [Node(state, col) EXCEPT !.refct = 1]

\* A node put at the end of the graph leaves the others alone.
LEMMA NewNodeAdds ==
  ASSUME NEW h, Shape(h), NEW state \in Int, NEW col \in Int
  PROVE  NodeAdded(h, Append(h, TopNode(state, col)), state)
<1> DEFINE r == TopNode(state, col)
           g == Append(h, r)
           S == Range(h) \cup {r}
<1>1. /\ IsNode(r) /\ r.state = state /\ r.live = TRUE /\ r.refct = 1 /\ r.depth = 1
      /\ r.links = <<>>
  BY DEF TopNode, Node, IsNode, IsLinks
<1>2. h \in Seq(S) /\ r \in S
  BY DEF Shape
<1> HIDE DEF r
<1>3. /\ g \in Seq(S) /\ Len(g) = Len(h) + 1 /\ Len(h) \in Nat
      /\ \A k \in 1..Len(h) : g[k] = h[k]
      /\ g[Len(h) + 1] = r
  BY <1>2
<1>4. ASSUME NEW n \in 1..(Len(h) + 1) PROVE IsNode(g[n])
  <2>1. CASE n \in 1..Len(h)
    BY <2>1, <1>3 DEF Shape
  <2>2. CASE n = Len(h) + 1
    BY <2>2, <1>1, <1>3
  <2> QED BY <2>1, <2>2, <1>3
<1> HIDE DEF g
<1>5. g = [n \in 1..(Len(h) + 1) |-> g[n]] /\ Len(h) + 1 \in Nat
  BY <1>3
<1>6. Shape(g)
  BY <1>4, <1>5, ShapeByIndex
<1>7. /\ StateOf(g, Len(h) + 1) = state /\ IsLive(g, Len(h) + 1)
      /\ RefOf(g, Len(h) + 1) = 1 /\ DepthOf(g, Len(h) + 1) = 1 /\ LinkCt(g, Len(h) + 1) = 0
  BY <1>1, <1>3 DEF StateOf, IsLive, RefOf, DepthOf, LinkCt
<1>8. NodeAdded(h, g, state)
  BY <1>3, <1>6, <1>7 DEF NodeAdded, Nodes
<1> QED BY <1>8 DEF g, r

------------------------
\* Graphs with the same nodes and links; reference counts, depths and values may differ.
SameLinks(h, g) ==
    /\ Shape(g) /\ Len(g) = Len(h)
    /\ \A m \in Nodes(h) :
          /\ StateOf(g, m) = StateOf(h, m) /\ (IsLive(g, m) <=> IsLive(h, m))
          /\ LinkCt(g, m) = LinkCt(h, m)
          /\ \A k \in 1..LinkCt(h, m) : Sib(g, m, k) = Sib(h, m, k)
SameRefs(h, g) == \A m \in Nodes(h) : RefOf(g, m) = RefOf(h, m)
SameDepths(h, g) == \A m \in Nodes(h) : DepthOf(g, m) = DepthOf(h, m)
SameIds(h, g) == \A m \in Nodes(h) : \A k \in 1..LinkCt(h, m) : IdOf(g, m, k) = IdOf(h, m, k)

\* a reference to n is given up
LetGo(h, n) == [h EXCEPT ![n].refct = @ - 1]

\* Giving up a reference changes that count only.
LEMMA LetGoLowers ==
  ASSUME NEW h, Shape(h), NEW n \in Nodes(h)
  PROVE  /\ SameLinks(h, LetGo(h, n)) /\ SameDepths(h, LetGo(h, n)) /\ SameIds(h, LetGo(h, n))
         /\ \A m \in Nodes(h) : RefOf(LetGo(h, n), m) = RefOf(h, m) - (IF m = n THEN 1 ELSE 0)
<1> DEFINE r == [h[n] EXCEPT !.refct = h[n].refct - 1]
           g == [h EXCEPT ![n] = r]
<1>1. /\ Len(h) \in Nat /\ DOMAIN h = Nodes(h) /\ \A m \in Nodes(h) : IsNode(h[m])
  BY ShapeIs
<1>2. LetGo(h, n) = g
  BY DEF LetGo
<1>3. /\ IsNode(r) /\ r.state = h[n].state /\ r.live = h[n].live /\ r.refct = h[n].refct - 1
      /\ r.links = h[n].links /\ r.depth = h[n].depth
  BY <1>1 DEF IsNode
<1> HIDE DEF r
<1>4. /\ g = [m \in Nodes(h) |-> g[m]] /\ g[n] = r /\ \A m \in Nodes(h) \ {n} : g[m] = h[m]
  BY <1>1
<1> HIDE DEF g
<1>5. Shape(g) /\ Len(g) = Len(h)
  BY <1>1, <1>3, <1>4, ShapeByIndex DEF Nodes
<1>6. \A m \in Nodes(h) :
          /\ g[m].state = h[m].state /\ g[m].live = h[m].live /\ g[m].links = h[m].links
          /\ g[m].depth = h[m].depth
  BY <1>3, <1>4
<1>7. SameLinks(h, g) /\ SameDepths(h, g) /\ SameIds(h, g)
  BY <1>5, <1>6 DEF SameLinks, SameDepths, SameIds, StateOf, IsLive, LinkCt, Sib, IdOf, DepthOf
<1>8. ASSUME NEW m \in Nodes(h) PROVE RefOf(g, m) = RefOf(h, m) - (IF m = n THEN 1 ELSE 0)
  <2>1. h[m].refct \in Int
    BY <1>1 DEF IsNode
  <2>2. CASE m = n
    BY <2>2, <1>3, <1>4 DEF RefOf
  <2>3. CASE m # n
    BY <2>1, <2>3, <1>4 DEF RefOf
  <2> QED BY <2>2, <2>3
<1> QED BY <1>2, <1>7, <1>8

\* the depths are set
LEMMA DepthsSet ==
  ASSUME NEW h, Shape(h), NEW d, \A n \in Nodes(h) : d[n] \in Int,
         NEW g, g = [n \in DOMAIN h |-> [h[n] EXCEPT !.depth = d[n]]]
  PROVE  /\ SameLinks(h, g) /\ SameRefs(h, g) /\ SameIds(h, g)
         /\ \A n \in Nodes(h) : DepthOf(g, n) = d[n]
<1>1. /\ Len(h) \in Nat /\ DOMAIN h = Nodes(h) /\ \A m \in Nodes(h) : IsNode(h[m])
  BY ShapeIs
<1>2. ASSUME NEW m \in Nodes(h)
      PROVE  /\ IsNode(g[m])
             /\ g[m].state = h[m].state /\ g[m].live = h[m].live /\ g[m].links = h[m].links
             /\ g[m].depth = d[m] /\ g[m].refct = h[m].refct
  <2> DEFINE x == d[m]
             r == h[m]
             q == [r EXCEPT !.depth = x]
  <2>1. IsNode(r) /\ x \in Int /\ g[m] = q
    BY <1>1
  <2> HIDE DEF x, r
  <2>2. /\ IsNode(q)
        /\ q.state = r.state /\ q.live = r.live /\ q.links = r.links
        /\ q.depth = x /\ q.refct = r.refct
    BY <2>1 DEF IsNode
  <2> QED BY <2>1, <2>2 DEF x, r
<1>3. g = [m \in Nodes(h) |-> g[m]]
  BY <1>1
<1>4. Shape(g) /\ Len(g) = Len(h)
  BY <1>1, <1>2, <1>3, ShapeByIndex DEF Nodes
<1> QED
  BY <1>2, <1>4, ZenonT(60) DEF SameLinks, SameRefs, SameIds, StateOf, IsLive, LinkCt, Sib, IdOf, DepthOf, RefOf

------------------------
(* A push of the mini-LR core *)

\* A new node with one link, on top of left, which gets b more references.
NodePushed(h, g, state, left, id, b) ==
    /\ Shape(g) /\ Len(g) = Len(h) + 1
    /\ \A m \in Nodes(h) :
          /\ StateOf(g, m) = StateOf(h, m) /\ (IsLive(g, m) <=> IsLive(h, m))
          /\ RefOf(g, m) = RefOf(h, m) + (IF m = left THEN b ELSE 0)
          /\ DepthOf(g, m) = DepthOf(h, m)
          /\ LinkCt(g, m) = LinkCt(h, m)
          /\ \A k \in 1..LinkCt(h, m) :
                Sib(g, m, k) = Sib(h, m, k) /\ IdOf(g, m, k) = IdOf(h, m, k)
    /\ StateOf(g, Len(h) + 1) = state /\ IsLive(g, Len(h) + 1) /\ RefOf(g, Len(h) + 1) = 1
    /\ DepthOf(g, Len(h) + 1) = DepthOf(h, left) + 1
    /\ LinkCt(g, Len(h) + 1) = 1
    /\ Sib(g, Len(h) + 1, 1) = left /\ IdOf(g, Len(h) + 1, 1) = id

\* the mini-LR core's
LEMMA PushedPushes ==
  ASSUME NEW h, Shape(h), NEW state \in Int, NEW col \in Int, NEW left \in Nodes(h),
         NEW val, IsValue(val)
  PROVE  NodePushed(h, Append(h, Pushed(h, state, col, left, val)), state, left, val.id, 0)
<1> DEFINE l == Link(left, val)
           t == <<l>>
           r == Pushed(h, state, col, left, val)
           g == Append(h, r)
           S == Range(h) \cup {r}
<1>1. Len(h) \in Nat /\ \A m \in Nodes(h) : IsNode(h[m])
  BY ShapeIs
<1>2. left \in Nat /\ IsLink(l) /\ l.sib = left /\ l.val = val
  BY <1>1, NewLink DEF Nodes
<1>3. h[left].depth \in Int
  BY <1>1 DEF IsNode
<1>4. r = [state |-> state, column |-> col, depth |-> h[left].depth + 1, refct |-> 1,
           live |-> TRUE, links |-> t]
  BY DEF Pushed
<1> HIDE DEF l
<1>5. IsLinks(t) /\ Len(t) = 1 /\ t[1] = l
  <2>1. t \in Seq({l}) /\ Len(t) = 1 /\ t[1] = l
    OBVIOUS
  <2> HIDE DEF t
  <2>2. t = [k \in 1..1 |-> t[k]] /\ \A k \in 1..1 : IsLink(t[k])
    BY <2>1, <1>2
  <2> QED BY <2>1, <2>2, LinksByIndex
<1> HIDE DEF t, r
<1>6. IsNode(r)
  BY <1>3, <1>4, <1>5 DEF IsNode
<1>7. h \in Seq(S) /\ r \in S
  BY DEF Shape
<1>8. /\ g \in Seq(S) /\ Len(g) = Len(h) + 1
      /\ \A k \in 1..Len(h) : g[k] = h[k]
      /\ g[Len(h) + 1] = r
  BY <1>7
<1>9. ASSUME NEW n \in 1..(Len(h) + 1) PROVE IsNode(g[n])
  <2>1. CASE n \in 1..Len(h)
    BY <2>1, <1>1, <1>8 DEF Nodes
  <2>2. CASE n = Len(h) + 1
    BY <2>2, <1>6, <1>8
  <2> QED BY <2>1, <2>2, <1>1
<1> HIDE DEF g
<1>10. g = [n \in 1..(Len(h) + 1) |-> g[n]] /\ Len(h) + 1 \in Nat
  BY <1>1, <1>8
<1>11. Shape(g)
  BY <1>9, <1>10, ShapeByIndex
<1>12. \A m \in Nodes(h) :
          /\ StateOf(g, m) = StateOf(h, m) /\ (IsLive(g, m) <=> IsLive(h, m))
          /\ RefOf(g, m) = RefOf(h, m) + (IF m = left THEN 0 ELSE 0)
          /\ DepthOf(g, m) = DepthOf(h, m)
          /\ LinkCt(g, m) = LinkCt(h, m)
          /\ \A k \in 1..LinkCt(h, m) :
                Sib(g, m, k) = Sib(h, m, k) /\ IdOf(g, m, k) = IdOf(h, m, k)
  <2> SUFFICES ASSUME NEW m \in Nodes(h)
      PROVE /\ StateOf(g, m) = StateOf(h, m) /\ (IsLive(g, m) <=> IsLive(h, m))
            /\ RefOf(g, m) = RefOf(h, m)
            /\ DepthOf(g, m) = DepthOf(h, m)
            /\ LinkCt(g, m) = LinkCt(h, m)
            /\ \A k \in 1..LinkCt(h, m) :
                  Sib(g, m, k) = Sib(h, m, k) /\ IdOf(g, m, k) = IdOf(h, m, k)
    BY ViewsAre
  <2>1. g[m] = h[m]
    BY <1>8 DEF Nodes
  <2> QED
    BY <2>1 DEF StateOf, IsLive, RefOf, DepthOf, LinkCt, Sib, IdOf
<1>13. /\ StateOf(g, Len(h) + 1) = state /\ IsLive(g, Len(h) + 1) /\ RefOf(g, Len(h) + 1) = 1
       /\ DepthOf(g, Len(h) + 1) = DepthOf(h, left) + 1
  BY <1>4, <1>8 DEF StateOf, IsLive, RefOf, DepthOf
<1>14. g[Len(h) + 1].links = t
  BY <1>4, <1>8
<1>15. /\ LinkCt(g, Len(h) + 1) = 1
       /\ Sib(g, Len(h) + 1, 1) = left /\ IdOf(g, Len(h) + 1, 1) = val.id
  BY <1>2, <1>5, <1>14 DEF LinkCt, Sib, IdOf
<1>16. NodePushed(h, g, state, left, val.id, 0)
  BY <1>8, <1>11, <1>12, <1>13, <1>15 DEF NodePushed
<1> QED BY <1>16 DEF g, r

\* the others': first the node, then the link
LEMMA LinkedPushes ==
  ASSUME NEW h, Shape(h), NEW state \in Int, NEW col \in Int, NEW left \in Nodes(h),
         NEW val, IsValue(val)
  PROVE  NodePushed(h, AddLink(Append(h, TopNode(state, col)), Len(h) + 1, left, val),
                    state, left, val.id, 1)
<1> DEFINE h1 == Append(h, TopNode(state, col))
           n == Len(h) + 1
           g == AddLink(h1, n, left, val)
           id == val.id
<1>1. NodeAdded(h, h1, state)
  BY NewNodeAdds
<1> HIDE DEF h1
<1>2. Len(h) \in Nat /\ \A m \in Nodes(h) : m # n /\ m \in Nodes(h1)
  BY <1>1, ShapeIs DEF Nodes, NodeAdded
<1>3. n \in Nodes(h1)
  BY <1>1, <1>2 DEF Nodes, NodeAdded
<1>4. LinkAdded(h1, g, n, left, id)
  BY <1>1, <1>2, <1>3, AddLinkAdds DEF NodeAdded
<1> HIDE DEF g, id
<1>5. ASSUME NEW m \in Nodes(h)
      PROVE  /\ StateOf(h1, m) = StateOf(h, m) /\ (IsLive(h1, m) <=> IsLive(h, m))
             /\ RefOf(h1, m) = RefOf(h, m)
             /\ DepthOf(h1, m) = DepthOf(h, m)
             /\ LinkCt(h1, m) = LinkCt(h, m) /\ LinkCt(h, m) \in Nat
             /\ \A k \in 1..LinkCt(h, m) :
                   Sib(h1, m, k) = Sib(h, m, k) /\ IdOf(h1, m, k) = IdOf(h, m, k)
  <2>1. h1[m] = h[m]
    BY <1>1 DEF NodeAdded
  <2>2. LinkCt(h, m) \in Nat
    BY ViewsAre
  <2> QED
    BY <2>1, <2>2 DEF StateOf, IsLive, RefOf, DepthOf, LinkCt, Sib, IdOf
<1>6. /\ Shape(g) /\ Len(g) = Len(h) + 1
      /\ \A m \in Nodes(h) :
          /\ StateOf(g, m) = StateOf(h1, m) /\ (IsLive(g, m) <=> IsLive(h1, m))
          /\ RefOf(g, m) = RefOf(h1, m) + (IF m = left THEN 1 ELSE 0)
          /\ DepthOf(g, m) = DepthOf(h1, m)
          /\ LinkCt(g, m) = LinkCt(h1, m) + 0
          /\ \A k \in 1..LinkCt(h1, m) :
                Sib(g, m, k) = Sib(h1, m, k) /\ IdOf(g, m, k) = IdOf(h1, m, k)
  BY <1>1, <1>2, <1>4 DEF NodeAdded, LinkAdded
<1>7. /\ StateOf(g, n) = state /\ IsLive(g, n) /\ RefOf(g, n) = 1
      /\ DepthOf(g, n) = DepthOf(h1, left) + 1
      /\ LinkCt(g, n) = 1 /\ Sib(g, n, 1) = left /\ IdOf(g, n, 1) = id
  <2>1. /\ StateOf(h1, n) = state /\ IsLive(h1, n) /\ RefOf(h1, n) = 1 /\ LinkCt(h1, n) = 0
    BY <1>1 DEF NodeAdded
  <2>2. n # left
    BY <1>2
  <2>3. /\ StateOf(g, n) = StateOf(h1, n) /\ (IsLive(g, n) <=> IsLive(h1, n))
        /\ RefOf(g, n) = RefOf(h1, n) + 0 /\ LinkCt(g, n) = LinkCt(h1, n) + 1
        /\ Sib(g, n, LinkCt(h1, n) + 1) = left /\ IdOf(g, n, LinkCt(h1, n) + 1) = id
        /\ DepthOf(g, n) = IF LinkCt(h1, n) = 0 THEN DepthOf(h1, left) + 1 ELSE 0
    BY <1>3, <1>4, <2>2 DEF LinkAdded
  <2> QED BY <2>1, <2>3
<1>8. NodePushed(h, g, state, left, id, 1)
  BY <1>5, <1>6, <1>7 DEF NodePushed
<1> QED BY <1>8 DEF g, h1, id

\* ... and the reference of a list is the link's from then on
LEMMA LetGoPushes ==
  ASSUME NEW h, Shape(h), NEW g, NEW state, NEW left \in Nodes(h), NEW id,
         NodePushed(h, g, state, left, id, 1)
  PROVE  NodePushed(h, LetGo(g, left), state, left, id, 0)
<1> DEFINE g2 == LetGo(g, left)
           n == Len(h) + 1
<1>1. Shape(g) /\ Len(g) = Len(h) + 1 /\ Len(h) \in Nat
  BY ShapeIs DEF NodePushed
<1>2. left \in Nodes(g) /\ left # n /\ n \in Nodes(g) /\ \A m \in Nodes(h) : m \in Nodes(g)
  BY <1>1 DEF Nodes
<1>3. /\ SameLinks(g, g2) /\ SameDepths(g, g2) /\ SameIds(g, g2)
      /\ \A m \in Nodes(g) : RefOf(g2, m) = RefOf(g, m) - (IF m = left THEN 1 ELSE 0)
  BY <1>1, <1>2, LetGoLowers
<1> HIDE DEF g2
<1>4. \A m \in Nodes(h) : RefOf(g2, m) = RefOf(h, m) + (IF m = left THEN 0 ELSE 0)
  <2> SUFFICES ASSUME NEW m \in Nodes(h) PROVE RefOf(g2, m) = RefOf(h, m)
    BY ViewsAre
  <2>1. RefOf(g, m) = RefOf(h, m) + (IF m = left THEN 1 ELSE 0) /\ RefOf(h, m) \in Int
    BY ViewsAre DEF NodePushed
  <2>2. RefOf(g2, m) = RefOf(g, m) - (IF m = left THEN 1 ELSE 0)
    BY <1>2, <1>3
  <2> QED BY <2>1, <2>2
<1>5. RefOf(g2, n) = 1
  BY <1>2, <1>3 DEF NodePushed
<1>6. \A m \in Nodes(h) :
          /\ StateOf(g2, m) = StateOf(h, m) /\ (IsLive(g2, m) <=> IsLive(h, m))
          /\ DepthOf(g2, m) = DepthOf(h, m)
          /\ LinkCt(g2, m) = LinkCt(h, m)
          /\ \A k \in 1..LinkCt(h, m) :
                Sib(g2, m, k) = Sib(h, m, k) /\ IdOf(g2, m, k) = IdOf(h, m, k)
  BY <1>2, <1>3 DEF NodePushed, SameLinks, SameDepths, SameIds
<1>7. /\ StateOf(g2, n) = state /\ IsLive(g2, n)
      /\ DepthOf(g2, n) = DepthOf(h, left) + 1
      /\ LinkCt(g2, n) = 1 /\ Sib(g2, n, 1) = left /\ IdOf(g2, n, 1) = id
  BY <1>2, <1>3 DEF NodePushed, SameLinks, SameDepths, SameIds
<1>8. Shape(g2) /\ Len(g2) = Len(h) + 1
  BY <1>1, <1>3 DEF SameLinks
<1>9. NodePushed(h, g2, state, left, id, 0)
  BY <1>4, <1>5, <1>6, <1>7, <1>8 DEF NodePushed
<1> QED BY <1>9 DEF g2

------------------------
(* Numbers; the values that a path hands out *)

\* A set of naturals has a least element, and a bounded one a greatest.
LEMMA Least ==
  ASSUME NEW S \in SUBSET Nat, S # {}
  PROVE  \E m \in S : \A n \in S : m <= n
<1> DEFINE R == OpToRel(<, Nat)
<1>1. IsWellFoundedOn(R, Nat)
  BY NatLessThanWellFounded
<1>2. PICK m \in S : \A n \in S : <<n, m>> \notin R
  <2> HIDE DEF R
  <2> QED BY <1>1, WFMin
<1>3. \A n \in S : ~(n < m)
  BY <1>2 DEF OpToRel
<1> QED BY <1>3

\* Min is the least member.
LEMMA MinIs ==
  ASSUME NEW S \in SUBSET Nat, S # {}
  PROVE  Min(S) \in S /\ \A n \in S : Min(S) <= n
<1>1. \E m \in S : \A n \in S : m <= n
  BY Least
<1>2. Min(S) = CHOOSE m \in S : \A n \in S : m <= n
  BY Zenon DEF Min
<1> QED BY <1>1, <1>2

\* A set of numbers with a bound has a greatest member.
LEMMA Greatest ==
  ASSUME NEW b \in Nat, NEW S \in SUBSET (0..b), S # {}
  PROVE  \E m \in S : \A n \in S : n <= m
<1> DEFINE T == {i \in 0..b : b - i \in S}
<1>1. T \in SUBSET Nat /\ T # {}
  <2>1. PICK x \in S : TRUE
    OBVIOUS
  <2>2. b - x \in T
    BY <2>1
  <2> QED BY <2>2
<1>2. PICK i \in T : \A j \in T : i <= j
  <2> HIDE DEF T
  <2> QED BY <1>1, Least
<1>3. b - i \in S /\ \A n \in S : b - n \in T
  OBVIOUS
<1>4. \A n \in S : n <= b - i
  BY <1>2, <1>3
<1> QED BY <1>3, <1>4

------------------------
\* A graph made of another, node by node, with other links' values.
LEMMA ValuesSet ==
  ASSUME NEW h, Shape(h), NEW g, NEW s, g = [n \in DOMAIN h |-> [h[n] EXCEPT !.links = s[n]]],
         \A n \in Nodes(h) : /\ IsLinks(s[n]) /\ Len(s[n]) = LinkCt(h, n)
                             /\ \A k \in 1..LinkCt(h, n) : s[n][k].sib = Sib(h, n, k)
  PROVE  /\ SameLinks(h, g) /\ SameRefs(h, g) /\ SameDepths(h, g)
         /\ \A n \in Nodes(h) : g[n].links = s[n]
<1>1. /\ Len(h) \in Nat /\ DOMAIN h = Nodes(h) /\ \A m \in Nodes(h) : IsNode(h[m])
  BY ShapeIs
<1>2. ASSUME NEW m \in Nodes(h)
      PROVE  /\ IsNode(g[m])
             /\ g[m].state = h[m].state /\ g[m].live = h[m].live /\ g[m].links = s[m]
             /\ g[m].depth = h[m].depth /\ g[m].refct = h[m].refct
  <2> DEFINE x == s[m]
             r == h[m]
             q == [r EXCEPT !.links = x]
  <2>1. IsNode(r) /\ IsLinks(x) /\ g[m] = q
    BY <1>1
  <2> HIDE DEF x, r
  <2>2. /\ IsNode(q)
        /\ q.state = r.state /\ q.live = r.live /\ q.links = x
        /\ q.depth = r.depth /\ q.refct = r.refct
    BY <2>1 DEF IsNode
  <2> QED BY <2>1, <2>2 DEF x, r
<1>3. g = [m \in Nodes(h) |-> g[m]]
  BY <1>1
<1>4. Shape(g) /\ Len(g) = Len(h)
  BY <1>1, <1>2, <1>3, ShapeByIndex DEF Nodes
<1>5. \A m \in Nodes(h) : LinkCt(g, m) = LinkCt(h, m)
  BY <1>2 DEF LinkCt
<1>6. \A m \in Nodes(h) : \A k \in 1..LinkCt(h, m) : Sib(g, m, k) = Sib(h, m, k)
  BY <1>2 DEF Sib
<1>7. \A m \in Nodes(h) :
          /\ StateOf(g, m) = StateOf(h, m) /\ (IsLive(g, m) <=> IsLive(h, m))
          /\ DepthOf(g, m) = DepthOf(h, m) /\ RefOf(g, m) = RefOf(h, m)
  BY <1>2 DEF StateOf, IsLive, DepthOf, RefOf
<1> QED
  BY <1>2, <1>4, <1>5, <1>6, <1>7 DEF SameLinks, SameRefs, SameDepths

\* the value of one link is replaced
ValuePut(h, n, k, v) == [h EXCEPT ![n].links[k].val = v]

\* Giving a link another value changes nothing but the id it holds.
LEMMA ValueSet ==
  ASSUME NEW h, Shape(h), NEW n \in Nodes(h), NEW k \in 1..LinkCt(h, n), NEW v, IsValue(v)
  PROVE  LET g == ValuePut(h, n, k, v)
         IN  /\ SameLinks(h, g) /\ SameRefs(h, g) /\ SameDepths(h, g)
             /\ \A m \in Nodes(h) : \A j \in 1..LinkCt(h, m) :
                   IdOf(g, m, j) = IF m = n /\ j = k THEN v.id ELSE IdOf(h, m, j)
<1> DEFINE g == ValuePut(h, n, k, v)
           s == h[n].links
           l == [s[k] EXCEPT !.val = v]
           t == [s EXCEPT ![k] = l]
           r == [h[n] EXCEPT !.links = t]
<1>1. /\ Len(h) \in Nat /\ DOMAIN h = Nodes(h)
      /\ \A m \in Nodes(h) : IsNode(h[m]) /\ IsLinks(h[m].links)
  BY ShapeIs
<1>2. Len(s) \in Nat /\ DOMAIN s = 1..Len(s) /\ k \in 1..Len(s) /\ IsLinks(s)
  BY <1>1, LinksAre DEF LinkCt
<1>3. g = [h EXCEPT ![n] = r]
  BY DEF ValuePut
<1>4. IsLink(s[k])
  BY <1>2 DEF IsLinks
<1> HIDE DEF s
<1>5. IsLink(l) /\ l.val = v /\ l.sib = s[k].sib
  BY <1>4 DEF IsLink
<1> HIDE DEF l
<1>6. /\ IsLinks(t) /\ Len(t) = Len(s) /\ t[k] = l /\ \A j \in 1..Len(s) \ {k} : t[j] = s[j]
  <2>1. t = [j \in 1..Len(s) |-> t[j]] /\ t[k] = l /\ \A j \in 1..Len(s) \ {k} : t[j] = s[j]
    BY <1>2
  <2>2. \A j \in 1..Len(s) : IsLink(t[j])
    BY <1>2, <1>5, <2>1 DEF IsLinks
  <2> HIDE DEF t
  <2> QED BY <1>2, <2>1, <2>2, LinksByIndex
<1> HIDE DEF t
<1>7. /\ IsNode(r) /\ r.state = h[n].state /\ r.live = h[n].live /\ r.links = t
      /\ r.depth = h[n].depth /\ r.refct = h[n].refct
  BY <1>1, <1>6 DEF IsNode
<1> HIDE DEF r
<1> HIDE DEF g
<1>8. g = [m \in Nodes(h) |-> g[m]] /\ g[n] = r /\ \A m \in Nodes(h) \ {n} : g[m] = h[m]
  BY <1>1, <1>3
<1>9. \A m \in Nodes(h) : IsNode(g[m])
  BY <1>1, <1>7, <1>8
<1>10. Shape(g) /\ Len(g) = Len(h)
  <2>1. /\ \A m \in 1..Len(h) : IsNode(g[m])
        /\ g = [m \in 1..Len(h) |-> g[m]]
    BY <1>8, <1>9 DEF Nodes
  <2> QED BY <1>1, <2>1, ShapeByIndex
<1>11. \A m \in Nodes(h) :
          /\ StateOf(g, m) = StateOf(h, m) /\ (IsLive(g, m) <=> IsLive(h, m))
          /\ DepthOf(g, m) = DepthOf(h, m) /\ RefOf(g, m) = RefOf(h, m)
  BY <1>7, <1>8 DEF StateOf, IsLive, DepthOf, RefOf
<1>12. \A m \in Nodes(h) \ {n} :
          /\ LinkCt(g, m) = LinkCt(h, m)
          /\ \A j \in 1..LinkCt(h, m) : Sib(g, m, j) = Sib(h, m, j) /\ IdOf(g, m, j) = IdOf(h, m, j)
  BY <1>8 DEF LinkCt, Sib, IdOf
<1>13. LinkCt(g, n) = LinkCt(h, n) /\ LinkCt(h, n) = Len(s)
  BY <1>6, <1>7, <1>8 DEF LinkCt, s
<1>14. g[n].links = t /\ h[n].links = s
  BY <1>7, <1>8 DEF s
<1>15. \A j \in 1..LinkCt(h, n) : Sib(g, n, j) = Sib(h, n, j)
  BY <1>5, <1>6, <1>13, <1>14 DEF Sib
<1>16. \A j \in 1..LinkCt(h, n) \ {k} : IdOf(g, n, j) = IdOf(h, n, j)
  BY <1>6, <1>13, <1>14 DEF IdOf
<1>17. IdOf(g, n, k) = v.id
  BY <1>5, <1>6, <1>14 DEF IdOf
<1>18. SameLinks(h, g) /\ SameRefs(h, g) /\ SameDepths(h, g)
  BY <1>10, <1>11, <1>12, <1>13, <1>15 DEF SameLinks, SameRefs, SameDepths
<1>19. \A m \in Nodes(h) : \A j \in 1..LinkCt(h, m) :
               IdOf(g, m, j) = IF m = n /\ j = k THEN v.id ELSE IdOf(h, m, j)
  BY <1>12, <1>16, <1>17
<1> QED BY <1>18, <1>19 DEF g

------------------------
(* Yielding *)

Uses(links, n, k) == {i \in DOMAIN links : links[i] = <<n, k>>}
Later(links, i) == {j \in DOMAIN links : links[j] = links[i] /\ j > i}

\* links of h
PathLinks(h, links) ==
    /\ links \in Seq(Nat \X Nat)
    /\ \A i \in 1..Len(links) : /\ links[i][1] \in Nodes(h)
                                /\ links[i][2] \in 1..LinkCt(h, links[i][1])

\* Links that yield keep duplicates.
YieldsFrom(h, y, links, next) ==
    /\ SameLinks(h, y.h) /\ SameRefs(h, y.h) /\ SameDepths(h, y.h)
    /\ y.next = next + Len(links)
    /\ DOMAIN y.args = 1..Len(links)
    /\ \A n \in Nodes(h) : \A k \in 1..LinkCt(h, n) :
          IdOf(y.h, n, k) = IF Uses(links, n, k) = {} THEN IdOf(h, n, k)
                            ELSE next + Len(links) - Min(Uses(links, n, k))
    /\ \A i \in 1..Len(links) :
          y.args[i].id = IF Later(links, i) = {} THEN IdOf(h, links[i][1], links[i][2])
                         ELSE next + Len(links) - Min(Later(links, i))

\* Yield is what YieldsFrom says.
LEMMA YieldYields ==
  ASSUME NEW h, Shape(h), NEW links, PathLinks(h, links), NEW next \in Nat
  PROVE  YieldsFrom(h, Yield(h, links, next), links, next)
<1> DEFINE y == Yield(h, links, next)
           copy(i) == next + Len(links) - i
           value(n, k, later) ==
               IF later = {} THEN h[n].links[k].val ELSE [h[n].links[k].val EXCEPT !.id = copy(Min(later))]
           after(n, k) == [h[n].links[k] EXCEPT !.val = value(n, k, Uses(links, n, k)),
                              !.yields = h[n].links[k].yields + Cardinality(Uses(links, n, k))]
           s == [n \in Nodes(h) |-> [k \in DOMAIN h[n].links |-> after(n, k)]]
<1>1. /\ Len(h) \in Nat /\ DOMAIN h = Nodes(h)
      /\ \A m \in Nodes(h) : IsNode(h[m]) /\ IsLinks(h[m].links)
  BY ShapeIs
<1>0. /\ links \in Seq(Nat \X Nat)
      /\ \A i \in 1..Len(links) : /\ links[i][1] \in Nodes(h)
                                  /\ links[i][2] \in 1..LinkCt(h, links[i][1])
  BY DEF PathLinks
<1>2. DOMAIN links = 1..Len(links) /\ Len(links) \in Nat
  BY <1>0
<1>3. \A n \in Nodes(h) : DOMAIN h[n].links = 1..LinkCt(h, n) /\ LinkCt(h, n) \in Nat
  BY <1>1, LinksAre DEF LinkCt
<1>4. \A n \in Nodes(h) : \A k \in 1..LinkCt(h, n) : IsLink(h[n].links[k])
  BY <1>1 DEF IsLinks, LinkCt
<1>5. \A n \in Nodes(h) : \A k \in 1..LinkCt(h, n) : \A S \in SUBSET (1..Len(links)) :
         IsValue(value(n, k, S)) /\ value(n, k, S).id = IF S = {} THEN IdOf(h, n, k) ELSE copy(Min(S))
  <2> SUFFICES ASSUME NEW n \in Nodes(h), NEW k \in 1..LinkCt(h, n), NEW S \in SUBSET (1..Len(links))
               PROVE  /\ IsValue(value(n, k, S))
                      /\ value(n, k, S).id = IF S = {} THEN IdOf(h, n, k) ELSE copy(Min(S))
    OBVIOUS
  <2> DEFINE v == h[n].links[k].val
             x == copy(Min(S))
  <2>1. IsValue(v) /\ v.id = IdOf(h, n, k)
    BY <1>4 DEF IsLink, IdOf
  <2>2. S # {} => x \in Nat
    <3>1. S # {} => Min(S) \in S
      BY MinIs
    <3> HIDE DEF x
    <3>2. S # {} => Min(S) \in 1..Len(links)
      BY <3>1
    <3> QED BY <1>2, <3>2 DEF x
  <2>3. value(n, k, S) = IF S = {} THEN v ELSE [v EXCEPT !.id = x]
    OBVIOUS
  <2> HIDE DEF v, x, value
  <2>4. S # {} => IsValue([v EXCEPT !.id = x]) /\ [v EXCEPT !.id = x].id = x
    BY <2>1, <2>2 DEF IsValue
  <2>5. CASE S = {}
    BY <2>5, <2>1, <2>3
  <2>6. CASE S # {}
    BY <2>6, <2>3, <2>4, SMTT(30) DEF x
  <2> QED BY <2>5, <2>6
<1>6. \A n \in Nodes(h), k \in Nat : Uses(links, n, k) \in SUBSET (1..Len(links))
  BY <1>2 DEF Uses
<1>7. ASSUME NEW n \in Nodes(h), NEW k \in 1..LinkCt(h, n)
      PROVE  /\ IsLink(after(n, k)) /\ after(n, k).sib = Sib(h, n, k)
             /\ after(n, k).val = value(n, k, Uses(links, n, k))
  <2> DEFINE l == h[n].links[k]
             v == value(n, k, Uses(links, n, k))
             z == l.yields + Cardinality(Uses(links, n, k))
  <2>1. k \in Nat
    BY <1>3
  <2>2. IsLink(l) /\ IsValue(v) /\ l.sib = Sib(h, n, k)
    BY <2>1, <1>4, <1>5, <1>6 DEF Sib
  <2>3. after(n, k) = [l EXCEPT !.val = v, !.yields = z]
    OBVIOUS
  <2> HIDE DEF l, v, z, after, value
  <2>4. /\ IsLink([l EXCEPT !.val = v, !.yields = z]) /\ [l EXCEPT !.val = v, !.yields = z].sib = l.sib
        /\ [l EXCEPT !.val = v, !.yields = z].val = v
    BY <2>2 DEF IsLink
  <2> QED BY <2>2, <2>3, <2>4, SMTT(30) DEF v
<1>8. y.h = [n \in DOMAIN h |-> [h[n] EXCEPT !.links = s[n]]]
  BY <1>1 DEF Yield, Uses
<1>9. ASSUME NEW n \in Nodes(h)
      PROVE  /\ IsLinks(s[n]) /\ Len(s[n]) = LinkCt(h, n)
             /\ \A k \in 1..LinkCt(h, n) : s[n][k] = after(n, k)
  <2> HIDE DEF after
  <2> DEFINE t == [k \in DOMAIN h[n].links |-> after(n, k)]
  <2>1. s[n] = t
    OBVIOUS
  <2>2. t = [k \in 1..LinkCt(h, n) |-> t[k]] /\ \A k \in 1..LinkCt(h, n) : t[k] = after(n, k)
    BY <1>3
  <2>3. \A k \in 1..LinkCt(h, n) : IsLink(t[k])
    BY <2>2, <1>7
  <2> HIDE DEF t, s
  <2>4. IsLinks(t) /\ Len(t) = LinkCt(h, n)
    BY <1>3, <2>2, <2>3, LinksByIndex
  <2> QED BY <2>1, <2>2, <2>4
<1>10. \A n \in Nodes(h) : /\ IsLinks(s[n]) /\ Len(s[n]) = LinkCt(h, n)
                           /\ \A k \in 1..LinkCt(h, n) : s[n][k].sib = Sib(h, n, k)
  <2> HIDE DEF s, after
  <2> QED BY <1>7, <1>9
<1> HIDE DEF s, after
<1>11. /\ SameLinks(h, y.h) /\ SameRefs(h, y.h) /\ SameDepths(h, y.h)
       /\ \A n \in Nodes(h) : y.h[n].links = s[n]
  <2> DEFINE g == y.h
  <2>1. g = [n \in DOMAIN h |-> [h[n] EXCEPT !.links = s[n]]]
    BY <1>8
  <2> HIDE DEF g
  <2>2. /\ SameLinks(h, g) /\ SameRefs(h, g) /\ SameDepths(h, g)
        /\ \A n \in Nodes(h) : g[n].links = s[n]
    BY <1>10, <2>1, ValuesSet
  <2> QED BY <2>2 DEF g
<1>12. y.next = next + Len(links) /\ DOMAIN y.args = 1..Len(links)
  BY <1>2 DEF Yield
<1>13. ASSUME NEW n \in Nodes(h), NEW k \in 1..LinkCt(h, n)
       PROVE  IdOf(y.h, n, k) = IF Uses(links, n, k) = {} THEN IdOf(h, n, k)
                                ELSE next + Len(links) - Min(Uses(links, n, k))
  <2>1. k \in Nat
    BY <1>3
  <2>2. y.h[n].links[k].val = value(n, k, Uses(links, n, k))
    BY <1>7, <1>9, <1>11
  <2> HIDE DEF value
  <2>3. IdOf(y.h, n, k) = value(n, k, Uses(links, n, k)).id
    BY <2>2 DEF IdOf
  <2> QED BY <2>1, <2>3, <1>5, <1>6
<1>14. ASSUME NEW i \in 1..Len(links)
       PROVE  y.args[i].id = IF Later(links, i) = {} THEN IdOf(h, links[i][1], links[i][2])
                             ELSE next + Len(links) - Min(Later(links, i))
  <2> DEFINE n == links[i][1]
             k == links[i][2]
  <2>1. links[i] = <<n, k>> /\ n \in Nodes(h) /\ k \in 1..LinkCt(h, n)
    <3>1. links[i] \in Nat \X Nat
      BY <1>0, <1>2
    <3> QED BY <1>0, <3>1
  <2>2. {j \in {j \in DOMAIN links : links[j] = <<n, k>>} : j > i} = Later(links, i)
    BY <2>1 DEF Later
  <2>3. y.args[i] = value(n, k, {j \in {j \in DOMAIN links : links[j] = <<n, k>>} : j > i})
    BY <1>2 DEF Yield
  <2> HIDE DEF value, n, k
  <2>4. y.args[i] = value(n, k, Later(links, i))
    BY <2>2, <2>3
  <2>5. Later(links, i) \in SUBSET (1..Len(links))
    BY <1>2 DEF Later
  <2>6. y.args[i].id = IF Later(links, i) = {} THEN IdOf(h, n, k) ELSE copy(Min(Later(links, i)))
    BY <2>1, <2>4, <2>5, <1>5
  <2> QED BY <2>6 DEF n, k
<1> HIDE DEF y
<1>15. YieldsFrom(h, y, links, next)
  BY <1>11, <1>12, <1>13, <1>14 DEF YieldsFrom
<1> QED BY <1>15 DEF y

------------------------
(* Who owns the values *)

Owned(h, sp, nx) ==
    /\ sp \subseteq 1..(nx - 1)
    /\ \A n \in Nodes(h) : \A k \in 1..LinkCt(h, n) :
          IdOf(h, n, k) \in 1..(nx - 1) /\ IdOf(h, n, k) \notin sp
    /\ \A n, m \in Nodes(h) : \A k \in 1..LinkCt(h, n), j \in 1..LinkCt(h, m) :
          IdOf(h, n, k) = IdOf(h, m, j) => n = m /\ k = j

Accounted(h, sp, nx) ==
    \A i \in 1..(nx - 1) :
        i \in sp \/ \E n \in Nodes(h) : \E k \in 1..LinkCt(h, n) : IdOf(h, n, k) = i

\* The places where a path uses a link, and the later uses of the same link.
LEMMA UsesAre ==
  ASSUME NEW links \in Seq(Nat \X Nat)
  PROVE  /\ Len(links) \in Nat
         /\ \A n, k : /\ Uses(links, n, k) \in SUBSET (1..Len(links))
                      /\ \A i \in 1..Len(links) : i \in Uses(links, n, k) <=> links[i] = <<n, k>>
         /\ \A i \in 1..Len(links) :
               /\ Later(links, i) \in SUBSET (1..Len(links))
               /\ \A j \in 1..Len(links) : j \in Later(links, i) <=> links[j] = links[i] /\ j > i
               /\ links[i] = <<links[i][1], links[i][2]>>
<1>1. Len(links) \in Nat /\ DOMAIN links = 1..Len(links) /\ \A i \in 1..Len(links) : links[i] \in Nat \X Nat
  OBVIOUS
<1> HIDE DEF Uses, Later
<1>2. \A i \in 1..Len(links) : links[i] = <<links[i][1], links[i][2]>>
  BY <1>1
<1>3. \A n, k : /\ Uses(links, n, k) \in SUBSET (1..Len(links))
                /\ \A i \in 1..Len(links) : i \in Uses(links, n, k) <=> links[i] = <<n, k>>
  BY <1>1 DEF Uses
<1>4. \A i \in 1..Len(links) :
         /\ Later(links, i) \in SUBSET (1..Len(links))
         /\ \A j \in 1..Len(links) : j \in Later(links, i) <=> links[j] = links[i] /\ j > i
  BY <1>1 DEF Later
<1> QED BY <1>1, <1>2, <1>3, <1>4

\* The values the path's links yielded are spent, and the duplicates are theirs.
LEMMA YieldOwns ==
  ASSUME NEW h, Shape(h), NEW links, PathLinks(h, links), NEW next \in Nat \ {0}, NEW sp,
         Owned(h, sp, next), NEW y, YieldsFrom(h, y, links, next)
  PROVE  /\ y.next \in Nat \ {0} /\ next <= y.next
         /\ Owned(y.h, sp \cup Ids(y.args), y.next)
         /\ Accounted(h, sp, next) => Accounted(y.h, sp \cup Ids(y.args), y.next)
<1>27. /\ \A n \in Nodes(h) : \A k \in 1..LinkCt(h, n) :
             IdOf(y.h, n, k) = IF Uses(links, n, k) = {} THEN IdOf(h, n, k)
                               ELSE next + Len(links) - Min(Uses(links, n, k))
       /\ \A i \in 1..Len(links) :
             y.args[i].id = IF Later(links, i) = {} THEN IdOf(h, links[i][1], links[i][2])
                            ELSE next + Len(links) - Min(Later(links, i))
  BY Zenon DEF YieldsFrom
<1> DEFINE L == Len(links)
           N == Nodes(h)
           U(n, k) == Uses(links, n, k)
           old(n, k) == IdOf(h, n, k)
           new(n, k) == IdOf(y.h, n, k)
           arg(i) == y.args[i].id
           A == {arg(i) : i \in 1..L}
           top == next + L
<1>1. /\ links \in Seq(Nat \X Nat) /\ L \in Nat
      /\ \A i \in 1..L : /\ links[i][1] \in N /\ links[i][2] \in 1..LinkCt(h, links[i][1])
                         /\ links[i] = <<links[i][1], links[i][2]>>
  BY UsesAre DEF PathLinks
<1>2. \A n, k : U(n, k) \in SUBSET Nat /\ U(n, k) \in SUBSET (1..L) /\ \A i \in 1..L : i \in U(n, k) <=> links[i] = <<n, k>>
  BY <1>1, UsesAre
<1>3. \A i \in 1..L : /\ Later(links, i) \in SUBSET (1..L) /\ Later(links, i) \in SUBSET Nat
                      /\ \A j \in 1..L : j \in Later(links, i) <=> links[j] = links[i] /\ j > i
  BY <1>1, UsesAre
<1>4. \A n, k : U(n, k) # {} => Min(U(n, k)) \in U(n, k) /\ \A j \in U(n, k) : Min(U(n, k)) <= j
  BY <1>2, MinIs
<1>5. \A i \in 1..L : Later(links, i) # {} =>
         Min(Later(links, i)) \in Later(links, i) /\ \A j \in Later(links, i) : Min(Later(links, i)) <= j
  BY <1>3, MinIs
<1>6. Ids(y.args) = A
  BY DEF YieldsFrom, Ids
<1>7. y.next = top /\ Nodes(y.h) = N /\ \A n \in N : LinkCt(y.h, n) = LinkCt(h, n)
  BY DEF YieldsFrom, SameLinks, Nodes
<1>8. /\ \A n \in N : \A k \in 1..LinkCt(h, n) :
            new(n, k) = IF U(n, k) = {} THEN old(n, k) ELSE top - Min(U(n, k))
      /\ \A i \in 1..L :
            arg(i) = IF Later(links, i) = {} THEN old(links[i][1], links[i][2])
                     ELSE top - Min(Later(links, i))
  <2>1. \A i \in 1..L : next + Len(links) - i = top - i
    BY <1>1
  <2>2. \A n, k : U(n, k) # {} => Min(U(n, k)) \in 1..L
    BY <1>2, <1>4
  <2>3. \A i \in 1..L : Later(links, i) # {} => Min(Later(links, i)) \in 1..L
    BY <1>3, <1>5
  <2>4. \A n \in N : \A k \in 1..LinkCt(h, n) :
            new(n, k) = IF U(n, k) = {} THEN old(n, k) ELSE next + Len(links) - Min(U(n, k))
    BY <1>27
  <2>5. \A i \in 1..L :
            arg(i) = IF Later(links, i) = {} THEN old(links[i][1], links[i][2])
                     ELSE next + Len(links) - Min(Later(links, i))
    BY <1>27
  <2> HIDE DEF new, arg, U, top, L, N, old
  <2> QED BY <2>1, <2>2, <2>3, <2>4, <2>5
<1>9. /\ sp \subseteq 1..(next - 1)
      /\ \A n \in N : \A k \in 1..LinkCt(h, n) : old(n, k) \in 1..(next - 1) /\ old(n, k) \notin sp
      /\ \A n, m \in N : \A k \in 1..LinkCt(h, n), j \in 1..LinkCt(h, m) :
            old(n, k) = old(m, j) => n = m /\ k = j
  BY DEF Owned
<1>10. top \in Nat \ {0} /\ next <= top /\ next \in Nat \ {0}
       /\ \A i \in 1..L : top - i \in 1..(top - 1) /\ top - i >= next
  BY <1>1
<1> HIDE DEF L, N, U, old, new, top, arg
<1>22. \A i, j \in 1..L : top - i = top - j => i = j
  BY <1>1, <1>10
<1>23. \A n \in N : \A k \in 1..LinkCt(h, n) : old(n, k) < next
  BY <1>9, <1>10
<1>24. \A i \in 1..L : top - i >= next
  BY <1>10
\* each link's value
<1>11. ASSUME NEW n \in N, NEW k \in 1..LinkCt(h, n)
       PROVE  \/ U(n, k) = {} /\ new(n, k) = old(n, k) /\ new(n, k) < next
              \/ \E i \in U(n, k) : /\ i \in 1..L /\ new(n, k) = top - i /\ \A j \in U(n, k) : i <= j
                                    /\ new(n, k) >= next
  <2>1. CASE U(n, k) = {}
    BY <1>8, <1>23, <2>1
  <2>2. CASE U(n, k) # {}
    <3> DEFINE i == Min(U(n, k))
    <3>1. i \in U(n, k) /\ i \in 1..L /\ new(n, k) = top - i /\ \A j \in U(n, k) : i <= j
      BY <1>2, <1>4, <1>8, <2>2
    <3> HIDE DEF i
    <3> QED BY <1>24, <3>1
  <2> QED BY <2>1, <2>2
\* each argument
<1>12. ASSUME NEW i \in 1..L
       PROVE  \/ Later(links, i) = {} /\ arg(i) = old(links[i][1], links[i][2]) /\ arg(i) < next
              \/ \E j \in 1..L : /\ arg(i) = top - j /\ links[j] = links[i] /\ j > i
                                 /\ \A m \in 1..L : links[m] = links[i] /\ m > i => j <= m
                                 /\ arg(i) >= next
  <2>1. CASE Later(links, i) = {}
    BY <1>1, <1>8, <1>23, <2>1, SMTT(30)
  <2>2. CASE Later(links, i) # {}
    <3> DEFINE j == Min(Later(links, i))
    <3>1. j \in Later(links, i) /\ arg(i) = top - j /\ \A m \in Later(links, i) : j <= m
      BY <1>5, <1>8, <2>2
    <3> HIDE DEF j
    <3>2. j \in 1..L /\ links[j] = links[i] /\ j > i
      BY <1>3, <3>1
    <3> QED BY <1>3, <1>24, <3>1, <3>2
  <2> QED BY <2>1, <2>2
<1>13. \A n \in N : \A k \in 1..LinkCt(h, n) : new(n, k) \in 1..(top - 1)
  BY <1>9, <1>10, <1>11
<1>21. /\ \A n \in N : \A k \in 1..LinkCt(h, n) : old(n, k) \in Int /\ new(n, k) \in Int
       /\ \A i \in 1..L : arg(i) \in Int /\ i \in Int
       /\ top \in Int /\ next \in Int
  <2>1. \A n \in N : \A k \in 1..LinkCt(h, n) : old(n, k) \in Int /\ new(n, k) \in Int
    BY <1>9, <1>10, <1>13
  <2>2. ASSUME NEW i \in 1..L PROVE arg(i) \in Int
    <3>1. old(links[i][1], links[i][2]) \in Int
      BY <1>1, <2>1
    <3>2. \A j \in 1..L : top - j \in Int
      BY <1>10
    <3> QED BY <1>12, <3>1, <3>2
  <2> QED BY <1>1, <1>10, <2>1, <2>2
<1>14. \A n \in N : \A k \in 1..LinkCt(h, n) : new(n, k) \notin sp
  BY <1>9, <1>10, <1>11
<1>15. ASSUME NEW i \in 1..L PROVE arg(i) \in 1..(top - 1)
  <2>1. old(links[i][1], links[i][2]) \in 1..(next - 1)
    BY <1>1, <1>9
  <2>2. old(links[i][1], links[i][2]) \in 1..(top - 1)
    BY <1>10, <2>1
  <2> QED BY <1>10, <1>12, <2>2
<1>16. ASSUME NEW n \in N, NEW k \in 1..LinkCt(h, n), NEW i \in 1..L, new(n, k) = arg(i)
       PROVE  FALSE
  <2>1. links[i] = <<links[i][1], links[i][2]>> /\ links[i][1] \in N /\ links[i][2] \in 1..LinkCt(h, links[i][1])
    BY <1>1
  <2>2. CASE U(n, k) = {} /\ new(n, k) = old(n, k)
    <3>1. arg(i) < next
      BY <1>16, <1>23, <2>2
    <3>2. arg(i) = old(links[i][1], links[i][2])
      BY <1>12, <1>21, <3>1
    <3>4. old(n, k) = old(links[i][1], links[i][2])
      BY <1>16, <2>2, <3>2
    <3>3. links[i] = <<n, k>>
      BY <1>9, <2>1, <3>4
    <3> QED BY <1>2, <2>2, <3>3
  <2>3. CASE \E u \in U(n, k) : u \in 1..L /\ new(n, k) = top - u /\ \A j \in U(n, k) : u <= j
    <3>1. PICK u \in U(n, k) : u \in 1..L /\ new(n, k) = top - u /\ \A j \in U(n, k) : u <= j
      BY <2>3
    <3>2. links[u] = <<n, k>>
      BY <1>2, <3>1
    <3>3. arg(i) >= next
      BY <1>16, <1>24, <3>1
    <3>5. PICK j \in 1..L : arg(i) = top - j /\ links[j] = links[i] /\ j > i
      BY <1>12, <1>21, <3>3
    <3>4. top - u = top - j
      BY <1>16, <3>1, <3>5
    <3>6. j = u
      BY <1>22, <3>1, <3>4
    <3>7. i \in U(n, k)
      BY <1>2, <3>2, <3>5, <3>6
    <3> QED BY <3>1, <3>5, <3>6, <3>7
  <2> QED BY <1>11, <2>2, <2>3
<1>17. ASSUME NEW n \in N, NEW m \in N, NEW k \in 1..LinkCt(h, n), NEW j \in 1..LinkCt(h, m),
              new(n, k) = new(m, j)
       PROVE  n = m /\ k = j
  <2>1. CASE new(n, k) = old(n, k) /\ new(n, k) < next
    <3>1. new(m, j) < next
      BY <1>17, <2>1
    <3>2. new(m, j) = old(m, j)
      BY <1>11, <1>21, <3>1
    <3>3. old(n, k) = old(m, j)
      BY <1>17, <2>1, <3>2
    <3> QED BY <1>9, <3>3
  <2>2. CASE \E u \in U(n, k) : u \in 1..L /\ new(n, k) = top - u /\ new(n, k) >= next
    <3>1. PICK u \in U(n, k) : u \in 1..L /\ new(n, k) = top - u /\ new(n, k) >= next
      BY <2>2
    <3>2. new(m, j) >= next
      BY <1>17, <3>1
    <3>3. PICK v \in U(m, j) : v \in 1..L /\ new(m, j) = top - v
      BY <1>11, <1>21, <3>2
    <3>4. top - u = top - v
      BY <1>17, <3>1, <3>3
    <3>5. u = v
      BY <1>22, <3>1, <3>3, <3>4
    <3> QED BY <1>2, <3>1, <3>3, <3>5
  <2> QED BY <1>11, <2>1, <2>2
<1>18. sp \cup A \subseteq 1..(top - 1)
  <2> DEFINE T == 1..(top - 1)
  <2>1. \A i \in 1..L : arg(i) \in T
    BY <1>15
  <2>2. 1..(next - 1) \subseteq T
    BY <1>10
  <2> HIDE DEF T
  <2>3. A \subseteq T
    BY <2>1
  <2> HIDE DEF A
  <2>4. sp \cup A \subseteq T
    BY <1>9, <2>2, <2>3
  <2> QED BY <2>4 DEF T
<1>19. Owned(y.h, sp \cup A, top)
  <2>1. \A n \in N : \A k \in 1..LinkCt(h, n) : new(n, k) \notin sp \cup A
    BY <1>14, <1>16
  <2> HIDE DEF A
  <2> QED BY <1>7, <1>13, <1>17, <1>18, <2>1 DEF Owned, new
<1>20. ASSUME Accounted(h, sp, next)
       PROVE  Accounted(y.h, sp \cup A, top)
  <2>1. \A i \in 1..(next - 1) : i \in sp \/ \E n \in N : \E k \in 1..LinkCt(h, n) : old(n, k) = i
    BY <1>20 DEF Accounted, old, N
  \* what a link had goes to its last use
  <2>2. ASSUME NEW n \in N, NEW k \in 1..LinkCt(h, n)
        PROVE  old(n, k) \in A \/ new(n, k) = old(n, k)
    <3>1. CASE U(n, k) = {}
      BY <1>11, <3>1
    <3>2. CASE U(n, k) # {}
      <4>1. U(n, k) \in SUBSET (0..L)
        BY <1>21, <1>1, <1>2
      <4>2. PICK i \in U(n, k) : \A j \in U(n, k) : j <= i
        BY <1>21, <1>1, <3>2, <4>1, Greatest
      <4>3. i \in 1..L /\ links[i] = <<n, k>>
        BY <1>2, <4>2
      <4>4. Later(links, i) = {}
        BY <1>2, <1>3, <4>2, <4>3
      <4>5. arg(i) = old(links[i][1], links[i][2])
        BY <1>8, <4>3, <4>4
      <4> QED BY <4>3, <4>5
    <3> QED BY <3>1, <3>2
  \* a duplicate goes to the use before it, or is kept
  <2>3. ASSUME NEW j \in 1..L
        PROVE  top - j \in A \/ \E n \in N : \E k \in 1..LinkCt(h, n) : new(n, k) = top - j
    <3> DEFINE n == links[j][1]
               k == links[j][2]
    <3>1. n \in N /\ k \in 1..LinkCt(h, n) /\ links[j] = <<n, k>> /\ j \in U(n, k)
      BY <1>21, <1>1, <1>2
    <3> HIDE DEF n, k
    <3>2. CASE \A u \in U(n, k) : j <= u
      <4>1. Min(U(n, k)) = j
        BY <1>2, <1>4, <3>1, <3>2
      <4>2. new(n, k) = top - j
        BY <1>8, <3>1, <4>1
      <4> QED BY <3>1, <4>2
    <3>3. CASE ~\A u \in U(n, k) : j <= u
      <4> DEFINE E == {u \in U(n, k) : u < j}
      <4>1. E # {} /\ E \in SUBSET (0..L)
        <5>1. PICK u \in U(n, k) : ~(j <= u)
          BY <3>3
        <5>2. u \in 1..L /\ j \in 1..L
          BY <1>2, <5>1
        <5>3. u \in E
          BY <1>21, <5>1, <5>2
        <5>4. \A v \in U(n, k) : v \in 0..L
          BY <1>1, <1>2
        <5> QED BY <5>3, <5>4
      <4>2. PICK i \in E : \A u \in E : u <= i
        <5> HIDE DEF E
        <5> QED BY <1>21, <1>1, <4>1, Greatest
      <4>3. i \in 1..L /\ links[i] = <<n, k>> /\ i < j
        BY <1>2, <4>2
      <4>4. j \in Later(links, i)
        BY <1>3, <3>1, <4>3
      <4>5. \A u \in Later(links, i) : j <= u
        <5> SUFFICES ASSUME NEW u \in Later(links, i), ~(j <= u) PROVE FALSE
          OBVIOUS
        <5>1. u \in 1..L /\ links[u] = links[i] /\ u > i
          BY <1>3, <4>3
        <5>2. u \in E
          BY <1>2, <4>3, <5>1
        <5> QED BY <4>2, <4>3, <5>1, <5>2
      <4>6. Min(Later(links, i)) = j
        <5> DEFINE z == Min(Later(links, i))
        <5>1. z \in Later(links, i) /\ z <= j
          BY <1>5, <4>3, <4>4
        <5> HIDE DEF z
        <5>2. z \in 1..L /\ j <= z
          BY <1>3, <4>3, <4>5, <5>1
        <5>3. z = j
          BY <1>21, <5>1, <5>2
        <5> QED BY <5>3 DEF z
      <4>7. arg(i) = top - j
        BY <1>8, <4>3, <4>4, <4>6
      <4> QED BY <4>3, <4>7
    <3> QED BY <3>2, <3>3
  <2>4. \A i \in 1..(top - 1) :
           i \in sp \cup A \/ \E n \in N : \E k \in 1..LinkCt(h, n) : new(n, k) = i
    <3> SUFFICES ASSUME NEW i \in 1..(top - 1), i \notin sp \cup A
                 PROVE  \E n \in N : \E k \in 1..LinkCt(h, n) : new(n, k) = i
      OBVIOUS
    <3>1. CASE i < next
      BY <1>10, <2>1, <2>2, <3>1
    <3>2. CASE ~(i < next)
      <4> DEFINE j == top - i
      <4>1. j \in 1..L /\ top - j = i
        BY <1>21, <1>1, <1>10, <3>2 DEF top
      <4> HIDE DEF j
      <4> QED BY <2>3, <4>1
    <3> QED BY <3>1, <3>2
  <2> HIDE DEF A
  <2> QED BY <1>7, <2>4 DEF Accounted, new
<1> QED BY <1>6, <1>7, <1>10, <1>19, <1>20

------------------------
(* Counting the links to a node *)

\* The links to m from nodes of S.
LEMMA LinksToIs ==
  ASSUME NEW h, Shape(h), NEW S \in SUBSET Nodes(h), NEW m
  PROVE  /\ IsFiniteSet(LinksTo(h, S, m))
         /\ \A e : e \in LinksTo(h, S, m) <=>
               \E n \in S : \E k \in 1..LinkCt(h, n) : e = <<n, k>> /\ Sib(h, n, k) = m
         /\ LinksInto(h, S, m) = Cardinality(LinksTo(h, S, m)) /\ LinksInto(h, S, m) \in Nat
<1> DEFINE K(n) == {k \in 1..LinkCt(h, n) : Sib(h, n, k) = m}
           T == {{n} \X K(n) : n \in S}
<1>1. Len(h) \in Nat /\ \A n \in Nodes(h) : DOMAIN h[n].links = 1..LinkCt(h, n) /\ LinkCt(h, n) \in Nat
  BY ShapeIs, LinksAre DEF LinkCt
<1>2. LinksTo(h, S, m) = UNION T
  <2>1. \A n \in S : {k \in DOMAIN h[n].links : h[n].links[k].sib = m} = K(n)
    BY <1>1 DEF Sib
  <2> HIDE DEF K
  <2>2. {{n} \X {k \in DOMAIN h[n].links : h[n].links[k].sib = m} : n \in S} = T
    BY <2>1
  <2> QED BY <2>2 DEF LinksTo
<1>3. IsFiniteSet(S)
  <2>1. IsFiniteSet(1..Len(h))
    BY <1>1, FS_Interval
  <2> QED BY <2>1, FS_Subset DEF Nodes
<1>4. ASSUME NEW n \in S PROVE IsFiniteSet({n} \X K(n))
  <2>1. IsFiniteSet(1..LinkCt(h, n))
    BY <1>1, FS_Interval
  <2>2. K(n) \in SUBSET (1..LinkCt(h, n))
    OBVIOUS
  <2> HIDE DEF K
  <2>3. IsFiniteSet(K(n)) /\ IsFiniteSet({n})
    BY <2>1, <2>2, FS_Subset, FS_Singleton
  <2> QED BY <2>3, FS_Product
<1>5. IsFiniteSet(T)
  <2> DEFINE f == [n \in S |-> {n} \X K(n)]
  <2>1. f \in Surjection(S, T)
    <3>1. f \in [S -> T]
      OBVIOUS
    <3>2. \A t \in T : \E s \in S : f[s] = t
      OBVIOUS
    <3> HIDE DEF f, T
    <3> QED BY <3>1, <3>2 DEF Surjection
  <2> HIDE DEF f, T
  <2> QED BY <1>3, <2>1, FS_Surjection
<1>6. IsFiniteSet(UNION T)
  <2>1. \A t \in T : IsFiniteSet(t)
    BY <1>4
  <2> HIDE DEF T
  <2> QED BY <1>5, <2>1, FS_UNION
<1>7. \A e : e \in UNION T <=>
               \E n \in S : \E k \in 1..LinkCt(h, n) : e = <<n, k>> /\ Sib(h, n, k) = m
  <2>1. \A e : e \in UNION T <=> \E n \in S : e \in {n} \X K(n)
    OBVIOUS
  <2>2. \A n : \A k : k \in K(n) <=> k \in 1..LinkCt(h, n) /\ Sib(h, n, k) = m
    OBVIOUS
  <2> HIDE DEF T, K
  <2>3. \A e, n : e \in {n} \X K(n) <=> \E k \in K(n) : e = <<n, k>>
    OBVIOUS
  <2>4. \A e, n : e \in {n} \X K(n) <=> \E k \in 1..LinkCt(h, n) : e = <<n, k>> /\ Sib(h, n, k) = m
    BY <2>2, <2>3
  <2> QED BY <2>1, <2>4
<1>8. Cardinality(UNION T) \in Nat
  BY <1>6, FS_CardinalityType
<1> HIDE DEF T
<1> QED BY <1>2, <1>6, <1>7, <1>8 DEF LinksInto

\* Graphs with the same links have the same links to a node.
LEMMA SameLinksTo ==
  ASSUME NEW h, Shape(h), NEW g, SameLinks(h, g), NEW S \in SUBSET Nodes(h), NEW m
  PROVE  LinksTo(g, S, m) = LinksTo(h, S, m) /\ LinksInto(g, S, m) = LinksInto(h, S, m)
<1>1. Shape(g) /\ Nodes(g) = Nodes(h)
      /\ \A n \in Nodes(h) : LinkCt(g, n) = LinkCt(h, n)
                             /\ \A k \in 1..LinkCt(h, n) : Sib(g, n, k) = Sib(h, n, k)
  BY DEF SameLinks, Nodes
<1>2. \A e : e \in LinksTo(h, S, m) <=>
               \E n \in S : \E k \in 1..LinkCt(h, n) : e = <<n, k>> /\ Sib(h, n, k) = m
  BY LinksToIs
<1>3. \A e : e \in LinksTo(g, S, m) <=>
               \E n \in S : \E k \in 1..LinkCt(g, n) : e = <<n, k>> /\ Sib(g, n, k) = m
  <2>1. S \in SUBSET Nodes(g)
    BY <1>1
  <2> QED BY <1>1, <2>1, LinksToIs
<1>4. \A e : e \in LinksTo(g, S, m) <=> e \in LinksTo(h, S, m)
  BY <1>1, <1>2, <1>3
<1> QED BY <1>4 DEF LinksInto

\* One link more.
LEMMA LinkAddedCount ==
  ASSUME NEW h, Shape(h), NEW g, NEW n \in Nodes(h), NEW sib, NEW id, LinkAdded(h, g, n, sib, id), NEW m
  PROVE  LinksInto(g, Nodes(g), m) = LinksInto(h, Nodes(h), m) + (IF m = sib THEN 1 ELSE 0)
<1> DEFINE e0 == <<n, LinkCt(h, n) + 1>>
           A == LinksTo(h, Nodes(h), m)
           B == LinksTo(g, Nodes(g), m)
<1>1. /\ Shape(g) /\ Nodes(g) = Nodes(h)
      /\ \A x \in Nodes(h) : LinkCt(g, x) = LinkCt(h, x) + (IF x = n THEN 1 ELSE 0)
      /\ \A x \in Nodes(h) : \A k \in 1..LinkCt(h, x) : Sib(g, x, k) = Sib(h, x, k)
      /\ Sib(g, n, LinkCt(h, n) + 1) = sib
  BY DEF LinkAdded, Nodes
<1>2. \A x \in Nodes(h) : LinkCt(h, x) \in Nat
  BY ViewsAre
<1>3. /\ IsFiniteSet(A) /\ LinksInto(h, Nodes(h), m) = Cardinality(A) /\ LinksInto(h, Nodes(h), m) \in Nat
      /\ \A e : e \in A <=> \E x \in Nodes(h) : \E k \in 1..LinkCt(h, x) : e = <<x, k>> /\ Sib(h, x, k) = m
  BY LinksToIs
<1>4. /\ LinksInto(g, Nodes(g), m) = Cardinality(B)
      /\ \A e : e \in B <=> \E x \in Nodes(h) : \E k \in 1..LinkCt(g, x) : e = <<x, k>> /\ Sib(g, x, k) = m
  BY <1>1, LinksToIs
<1> HIDE DEF A, B
<1>5. \A x \in Nodes(h) : \A k : k \in 1..LinkCt(g, x) <=> k \in 1..LinkCt(h, x) \/ (x = n /\ k = LinkCt(h, n) + 1)
  BY <1>1, <1>2
<1>6. e0 \notin A
  <2> SUFFICES ASSUME e0 \in A PROVE FALSE
    OBVIOUS
  <2>0. PICK x \in Nodes(h) : \E k \in 1..LinkCt(h, x) : e0 = <<x, k>>
    BY <1>3
  <2>1. PICK k \in 1..LinkCt(h, x) : e0 = <<x, k>>
    BY <2>0
  <2>2. x = n /\ k = LinkCt(h, n) + 1
    BY <2>1
  <2> QED BY <1>2, <2>1, <2>2
<1>7. CASE m = sib
  <2>1. B = A \cup {e0}
    <3>1. \A e \in B : e \in A \/ e = e0
      BY <1>1, <1>3, <1>4, <1>5
    <3>2. \A e \in A : e \in B
      BY <1>1, <1>3, <1>4, <1>5
    <3>3. e0 \in B
      BY <1>1, <1>4, <1>5, <1>7
    <3> HIDE DEF e0
    <3> QED BY <3>1, <3>2, <3>3
  <2> HIDE DEF e0
  <2> QED BY <1>3, <1>4, <1>6, <1>7, <2>1, FS_AddElement
<1>8. CASE m # sib
  <2>1. B = A
    <3>1. \A e \in B : e \in A
      BY <1>1, <1>3, <1>4, <1>5, <1>8
    <3>2. \A e \in A : e \in B
      BY <1>1, <1>3, <1>4, <1>5
    <3> QED BY <3>1, <3>2
  <2> QED BY <1>3, <1>4, <1>8, <2>1
<1> QED BY <1>7, <1>8

\* A new node with one link.
LEMMA NodePushedCount ==
  ASSUME NEW h, Shape(h), NEW g, NEW state, NEW left, NEW id, NEW b, NodePushed(h, g, state, left, id, b), NEW m
  PROVE  LinksInto(g, Nodes(g), m) = LinksInto(h, Nodes(h), m) + (IF m = left THEN 1 ELSE 0)
<1> DEFINE n == Len(h) + 1
           e0 == <<n, 1>>
           A == LinksTo(h, Nodes(h), m)
           B == LinksTo(g, Nodes(g), m)
<1>1. /\ Shape(g) /\ Nodes(g) = Nodes(h) \cup {n} /\ n \notin Nodes(h)
      /\ \A x \in Nodes(h) : LinkCt(g, x) = LinkCt(h, x)
      /\ \A x \in Nodes(h) : \A k \in 1..LinkCt(h, x) : Sib(g, x, k) = Sib(h, x, k)
      /\ LinkCt(g, n) = 1 /\ Sib(g, n, 1) = left
  <2>1. Len(h) \in Nat
    BY ShapeIs
  <2>2. Len(g) = Len(h) + 1
    BY DEF NodePushed
  <2>3. Nodes(g) = Nodes(h) \cup {n} /\ n \notin Nodes(h)
    BY <2>1, <2>2 DEF Nodes
  <2> QED BY <2>3 DEF NodePushed
<1>3. /\ IsFiniteSet(A) /\ LinksInto(h, Nodes(h), m) = Cardinality(A) /\ LinksInto(h, Nodes(h), m) \in Nat
      /\ \A e : e \in A <=> \E x \in Nodes(h) : \E k \in 1..LinkCt(h, x) : e = <<x, k>> /\ Sib(h, x, k) = m
  BY LinksToIs
<1>4. /\ LinksInto(g, Nodes(g), m) = Cardinality(B)
      /\ \A e : e \in B <=> \E x \in Nodes(g) : \E k \in 1..LinkCt(g, x) : e = <<x, k>> /\ Sib(g, x, k) = m
  <2>1. Shape(g) /\ Nodes(g) \in SUBSET Nodes(g)
    BY <1>1
  <2> QED BY <2>1, LinksToIs
<1> HIDE DEF A, B, n
<1>5. \A k : k \in 1..LinkCt(g, n) <=> k = 1
  BY <1>1
<1>6. e0 \notin A
  <2> SUFFICES ASSUME e0 \in A PROVE FALSE
    OBVIOUS
  <2>0. PICK x \in Nodes(h) : \E k \in 1..LinkCt(h, x) : e0 = <<x, k>>
    BY <1>3
  <2>1. PICK k \in 1..LinkCt(h, x) : e0 = <<x, k>>
    BY <2>0
  <2> QED BY <1>1, <2>1
<1>2. \A e : e \in B <=> e \in A \/ (e = e0 /\ m = left)
  <2>1. \A e \in B : e \in A \/ (e = e0 /\ m = left)
    BY <1>1, <1>3, <1>4, <1>5
  <2>2. \A e \in A : e \in B
    BY <1>1, <1>3, <1>4
  <2>3. m = left => e0 \in B
    BY <1>1, <1>4, <1>5
  <2> HIDE DEF e0
  <2> QED BY <2>1, <2>2, <2>3
<1> HIDE DEF e0
<1>7. CASE m = left
  <2>1. B = A \cup {e0}
    BY <1>2, <1>7
  <2> QED BY <1>3, <1>4, <1>6, <1>7, <2>1, FS_AddElement
<1>8. CASE m # left
  <2>1. B = A
    BY <1>2, <1>8
  <2> QED BY <1>3, <1>4, <1>8, <2>1
<1> QED BY <1>7, <1>8

------------------------
(* How often a node is on a list *)

\* Counting on a list, and on it with one more.
LEMMA OccursIs ==
  ASSUME NEW S, NEW list \in Seq(S), NEW n
  PROVE  /\ IsFiniteSet({i \in DOMAIN list : list[i] = n}) /\ Occurs(n, list) \in Nat
         /\ Occurs(n, list) = 0 <=> n \notin ToSet(list)
         /\ \A x \in S : Occurs(n, Append(list, x)) = Occurs(n, list) + (IF n = x THEN 1 ELSE 0)
<1> DEFINE A == {i \in DOMAIN list : list[i] = n}
<1>1. Len(list) \in Nat /\ DOMAIN list = 1..Len(list)
  BY LenProperties
<1>2. IsFiniteSet(A)
  <2>1. A \in SUBSET (1..Len(list)) /\ IsFiniteSet(1..Len(list))
    BY <1>1, FS_Interval
  <2> HIDE DEF A
  <2> QED BY <2>1, FS_Subset
<1>3. Occurs(n, list) = Cardinality(A) /\ Occurs(n, list) \in Nat
  BY <1>2, FS_CardinalityType DEF Occurs
<1>4. Occurs(n, list) = 0 <=> n \notin ToSet(list)
  <2>1. A = {} <=> n \notin ToSet(list)
    BY DEF ToSet
  <2> HIDE DEF A
  <2> QED BY <1>2, <1>3, <2>1, FS_EmptySet
<1>5. ASSUME NEW x \in S
      PROVE  Occurs(n, Append(list, x)) = Occurs(n, list) + (IF n = x THEN 1 ELSE 0)
  <2> DEFINE list2 == Append(list, x)
             B == {i \in DOMAIN list2 : list2[i] = n}
             i0 == Len(list) + 1
  <2>1. /\ DOMAIN list2 = 1..(Len(list) + 1) /\ list2[Len(list) + 1] = x
        /\ \A i \in 1..Len(list) : list2[i] = list[i]
    BY <1>1
  <2>2. Occurs(n, list2) = Cardinality(B)
    BY DEF Occurs
  <2> HIDE DEF list2
  <2>3. CASE n = x
    <3>1. B = A \cup {i0} /\ i0 \notin A
      BY <1>1, <2>1, <2>3
    <3> HIDE DEF A, B, i0
    <3>2. Cardinality(A \cup {i0}) = Cardinality(A) + 1
      BY <1>2, <3>1, FS_AddElement
    <3>3. Occurs(n, list2) = Occurs(n, list) + 1
      BY <1>3, <2>2, <3>1, <3>2
    <3> QED BY <2>3, <3>3 DEF list2
  <2>4. CASE n # x
    <3>1. B = A
      BY <1>1, <2>1, <2>4
    <3> HIDE DEF A, B
    <3>2. Occurs(n, list2) = Occurs(n, list) + 0
      BY <1>3, <2>2, <3>1
    <3> QED BY <2>4, <3>2 DEF list2
  <2> QED BY <2>3, <2>4
<1> QED BY <1>2, <1>3, <1>4, <1>5

\* the last one leaves the list
LEMMA OccursFront ==
  ASSUME NEW S, NEW list \in Seq(S), list # <<>>
  PROVE  /\ Front(list) \in Seq(S) /\ Last(list) \in S /\ Len(Front(list)) = Len(list) - 1
         /\ Len(list) \in Nat \ {0}
         /\ Last(list) = list[Len(list)] /\ \A i \in 1..(Len(list) - 1) : Front(list)[i] = list[i]
         /\ list = Append(Front(list), Last(list))
         /\ \A n : Occurs(n, list) = Occurs(n, Front(list)) + (IF n = Last(list) THEN 1 ELSE 0)
<1> DEFINE f == Front(list)
           x == Last(list)
<1>1. Len(list) \in Nat \ {0} /\ \A i \in 1..Len(list) : list[i] \in S
  <2>1. Len(list) \in Nat /\ \A i \in 1..Len(list) : list[i] \in S
    BY LenProperties, ElementOfSeq
  <2>2. Len(list) # 0
    BY EmptySeq
  <2> QED BY <2>1, <2>2
<1>2. f = SubSeq(list, 1, Len(list) - 1) /\ x = list[Len(list)]
  BY DEF Front, Last
<1>3. f \in Seq(S) /\ Len(f) = Len(list) - 1 /\ \A i \in 1..(Len(list) - 1) : f[i] = list[i]
  <2>1. \A i \in 1..(Len(list) - 1) : list[i] \in S
    BY <1>1
  <2> DEFINE k == Len(list) - 1
             g == SubSeq(list, 1, k)
  <2>2. k \in Int /\ k >= 0
    BY <1>1
  <2>3. g \in Seq(S) /\ Len(g) = (IF 1 <= k THEN k - 1 + 1 ELSE 0) /\ \A i \in 1..(k - 1 + 1) : g[i] = list[1 + i - 1]
    <3> HIDE DEF k
    <3> QED BY <2>1, <2>2, SubSeqProperties DEF k
  <2>4. Len(g) = k /\ \A i \in 1..k : g[i] = list[i]
    <3> HIDE DEF k, g
    <3> QED BY <2>2, <2>3
  <2> QED BY <1>2, <2>3, <2>4
<1>4. x \in S
  BY <1>1, <1>2
<1> HIDE DEF f, x
<1>5. list = Append(f, x)
  <2> DEFINE t == Append(f, x)
  <2>1. t \in Seq(S) /\ Len(t) = Len(f) + 1 /\ t[Len(f) + 1] = x /\ \A i \in 1..Len(f) : t[i] = f[i]
    BY <1>3, <1>4
  <2> HIDE DEF t
  <2>2. Len(t) = Len(list) /\ \A i \in 1..Len(list) : t[i] = list[i]
    BY <1>1, <1>2, <1>3, <2>1
  <2>3. t = list
    BY <2>1, <2>2, SeqEqual
  <2> QED BY <2>3 DEF t
<1>6. \A n : Occurs(n, list) = Occurs(n, f) + (IF n = x THEN 1 ELSE 0)
  <2> TAKE n
  <2>1. Occurs(n, Append(f, x)) = Occurs(n, f) + (IF n = x THEN 1 ELSE 0)
    BY <1>3, <1>4, OccursIs
  <2> QED BY <1>5, <2>1
<1> QED BY <1>1, <1>2, <1>3, <1>4, <1>5, <1>6 DEF f, x

\* Counting on the empty list and on a list of one.
LEMMA OccursFew ==
  /\ \A n : Occurs(n, <<>>) = 0
  /\ \A n, x : Occurs(n, <<x>>) = IF n = x THEN 1 ELSE 0
<1>1. \A n : Occurs(n, <<>>) = 0
  <2> TAKE n
  <2>1. <<>> \in Seq({n}) /\ n \notin ToSet(<<>>)
    BY DEF ToSet
  <2> QED BY <2>1, OccursIs
<1>2. \A n, x : Occurs(n, <<x>>) = IF n = x THEN 1 ELSE 0
  <2> TAKE n, x
  <2>1. <<>> \in Seq({x}) /\ x \in {x} /\ <<x>> = Append(<<>>, x)
    OBVIOUS
  <2>2. Occurs(n, Append(<<>>, x)) = Occurs(n, <<>>) + (IF n = x THEN 1 ELSE 0)
    BY <2>1, OccursIs
  <2> QED BY <1>1, <2>1, <2>2
<1> QED BY <1>1, <1>2

------------------------
(* What decRefCt frees *)

\* A step repeated: G says what the k-th makes of an element of X.
IsStep(G, n, X) == G \in [(1..n) \X X -> X]
Iterated(f, n, X, x0, G) ==
    f \in [0..n -> X] /\ f[0] = x0 /\ \A k \in 1..n : f[k] = G[<<k, f[k - 1]>>]

\* A step function can be iterated n times.
LEMMA Iterate ==
  ASSUME NEW n \in Nat, NEW X, NEW x0 \in X, NEW G, IsStep(G, n, X)
  PROVE  \E f : Iterated(f, n, X, x0, G)
<1>5. G \in [(1..n) \X X -> X]
  BY DEF IsStep
<1> DEFINE Is(f, m) == f \in [0..m -> X] /\ f[0] = x0 /\ \A k \in 1..m : f[k] = G[<<k, f[k - 1]>>]
           Missing == {m \in 0..n : ~\E f : Is(f, m)}
<1>1. \E f : Is(f, 0)
  <2> DEFINE e == [i \in 0..0 |-> x0]
  <2>1. Is(e, 0)
    OBVIOUS
  <2> QED BY <2>1
<1>2. ASSUME NEW m \in 1..n, NEW f, Is(f, m - 1)
      PROVE  \E g : Is(g, m)
  <2> DEFINE g == [i \in 0..m |-> IF i = m THEN G[<<m, f[m - 1]>>] ELSE f[i]]
  <2>1. m \in Nat \ {0} /\ m - 1 \in 0..(m - 1) /\ f \in [0..(m - 1) -> X] /\ f[0] = x0
        /\ \A k \in 1..(m - 1) : f[k] = G[<<k, f[k - 1]>>]
    BY <1>2
  <2>2. G[<<m, f[m - 1]>>] \in X
    BY <2>1, <1>5
  <2>3. \A i \in 0..(m - 1) : g[i] = f[i]
    BY <2>1
  <2>4. g[m] = G[<<m, g[m - 1]>>]
    <3>1. g[m] = G[<<m, f[m - 1]>>]
      BY <2>1
    <3> HIDE DEF g
    <3> QED BY <2>1, <2>3, <3>1
  <2>5. g \in [0..m -> X]
    <3>1. \A i \in 0..m : (IF i = m THEN G[<<m, f[m - 1]>>] ELSE f[i]) \in X
      BY <2>1, <2>2
    <3> QED BY <3>1
  <2> HIDE DEF g
  <2>6. ASSUME NEW k \in 1..m PROVE g[k] = G[<<k, g[k - 1]>>]
    <3>1. CASE k = m
      BY <2>4, <3>1
    <3>2. CASE k # m
      <4>1. k \in 1..(m - 1) /\ k \in 0..(m - 1) /\ k - 1 \in 0..(m - 1)
        BY <2>1, <3>2
      <4> QED BY <2>1, <2>3, <4>1
    <3> QED BY <3>1, <3>2
  <2>7. g[0] = x0
    BY <2>1, <2>3
  <2> QED BY <2>5, <2>6, <2>7
<1> HIDE DEF Is
<1>3. Missing = {}
  <2> SUFFICES ASSUME Missing # {} PROVE FALSE
    OBVIOUS
  <2>1. PICK m \in Missing : \A k \in Missing : m <= k
    <3>1. Missing \in SUBSET Nat
      OBVIOUS
    <3> HIDE DEF Missing
    <3> QED BY <3>1, Least
  <2>2. m \in 1..n /\ m - 1 \in 0..n /\ m - 1 \notin Missing
    <3>1. m # 0
      BY <1>1, <2>1
    <3>2. m \in 0..n
      BY <2>1
    <3> QED BY <2>1, <3>1, <3>2
  <2>3. PICK f : Is(f, m - 1)
    BY <2>2
  <2> QED BY <1>2, <2>1, <2>2, <2>3
<1>4. PICK f : Is(f, n)
  BY <1>3
<1>6. Iterated(f, n, X, x0, G)
  BY <1>4 DEF Is, Iterated
<1> QED BY <1>6

------------------------
(* decRefCt *)

\* Each reference is a link or an entry of a list: occ says how many of the latter.
CountedBy(h, occ) ==
    \A m \in Nodes(h) : IsLive(h, m) => RefOf(h, m) = LinksInto(h, Nodes(h), m) + occ[m]

DeadBare(h) == \A n \in Nodes(h) : ~IsLive(h, n) => LinkCt(h, n) = 0
Inward(h) ==
    \A n \in Nodes(h) : \A k \in 1..LinkCt(h, n) : Sib(h, n, k) \in Nodes(h) /\ IsLive(h, Sib(h, n, k))
Held(h) == \A n \in Nodes(h) : IsLive(h, n) => RefOf(h, n) > 0

\* the nodes that have lost their references when those of F are gone
Gone(h, n, F) == {m \in Nodes(h) \ {n} : IsLive(h, m) /\ LinksInto(h, F, m) = RefOf(h, m)}

\* FreedBy is what n iterations of Gone give, from {n} on.
LEMMA FreedIs ==
  ASSUME NEW h, Shape(h), NEW n \in Nodes(h)
  PROVE  \E f \in [0..Len(h) -> SUBSET Nodes(h)] :
            /\ f[0] = {n} /\ \A k \in 1..Len(h) : f[k] = f[k - 1] \cup Gone(h, n, f[k - 1])
            /\ FreedBy(h, n) = f[Len(h)]
<1> DEFINE L == Len(h)
           N == Nodes(h)
           X == SUBSET N
           G == [p \in (1..L) \X X |-> p[2] \cup Gone(h, n, p[2])]
           Is(f) == f = [k \in 0..L |->
                           IF k = 0 THEN {n}
                           ELSE LET F == f[k - 1]
                                IN  F \cup {m \in DOMAIN h \ {n} : h[m].live /\ LinksInto(h, F, m) = h[m].refct}]
<1>1. L \in Nat /\ DOMAIN h = N
  BY ShapeIs
<1>2. FreedBy(h, n) = (CHOOSE f : Is(f))[L]
  BY Zenon DEF FreedBy
<1>3. \A F : {m \in DOMAIN h \ {n} : h[m].live /\ LinksInto(h, F, m) = h[m].refct} = Gone(h, n, F)
  BY <1>1 DEF Gone, IsLive, RefOf
<1>4. \A F : Gone(h, n, F) \in X
  BY DEF Gone
<1>5. G \in [(1..L) \X X -> X] /\ {n} \in X
  BY <1>4
<1> HIDE DEF X
<1>6. PICK f \in [0..L -> X] : f[0] = {n} /\ \A k \in 1..L : f[k] = G[<<k, f[k - 1]>>]
  <2> DEFINE x0 == {n}
  <2>1. L \in Nat /\ IsStep(G, L, X) /\ x0 \in X
    BY <1>1, <1>5 DEF IsStep
  <2> HIDE DEF G, L, x0
  <2>2. PICK f : Iterated(f, L, X, x0, G)
    BY <2>1, Iterate
  <2>3. f \in [0..L -> X] /\ f[0] = {n} /\ \A k \in 1..L : f[k] = G[<<k, f[k - 1]>>]
    BY <2>2 DEF Iterated, x0
  <2> QED BY <2>3
<1>7. ASSUME NEW k \in 1..L PROVE f[k] = f[k - 1] \cup Gone(h, n, f[k - 1])
  <2>1. <<k, f[k - 1]>> \in (1..L) \X X
    BY <1>1, <1>6
  <2> QED BY <1>6, <2>1
<1> HIDE DEF G, L, N
<1>8. Is(f)
  <2>1. f = [k \in 0..L |-> f[k]]
    BY <1>6
  <2>2. \A k \in 0..L : f[k] = IF k = 0 THEN {n}
                               ELSE f[k - 1] \cup {m \in DOMAIN h \ {n} : h[m].live /\ LinksInto(h, f[k - 1], m) = h[m].refct}
    BY <1>1, <1>3, <1>6, <1>7
  <2> QED BY <2>1, <2>2, Zenon
<1>9. \A g : Is(g) => \A k \in 0..L : g[k] = IF k = 0 THEN {n} ELSE g[k - 1] \cup Gone(h, n, g[k - 1])
  <2> SUFFICES ASSUME NEW g, Is(g), NEW k \in 0..L
               PROVE  g[k] = IF k = 0 THEN {n} ELSE g[k - 1] \cup Gone(h, n, g[k - 1])
    OBVIOUS
  <2>1. g[k] = IF k = 0 THEN {n}
               ELSE g[k - 1] \cup {m \in DOMAIN h \ {n} : h[m].live /\ LinksInto(h, g[k - 1], m) = h[m].refct}
    BY Zenon
  <2> QED BY <1>3, <2>1
<1> DEFINE c == CHOOSE g : Is(g)
<1>10. Is(c)
  BY <1>8, ZenonT(60)
<1>11. c = f
  <2>1. DOMAIN c = 0..L /\ c = [k \in 0..L |-> c[k]]
    BY <1>10, Zenon
  <2>2. \A k \in 0..L : c[k] = IF k = 0 THEN {n} ELSE c[k - 1] \cup Gone(h, n, c[k - 1])
    BY <1>9, <1>10
  <2> DEFINE Bad == {k \in 0..L : c[k] # f[k]}
  <2> HIDE DEF c, Is
  <2>3. Bad = {}
    <3> SUFFICES ASSUME Bad # {} PROVE FALSE
      OBVIOUS
    <3>1. PICK k \in Bad : \A j \in Bad : k <= j
      <4>1. Bad \in SUBSET Nat
        BY <1>1
      <4> HIDE DEF Bad
      <4> QED BY <4>1, Least
    <3>2. k \in 0..L /\ k # 0
      BY <1>6, <2>2, <3>1
    <3>3. k \in 1..L /\ k - 1 \in 0..L /\ k - 1 \notin Bad
      BY <1>1, <3>1, <3>2
    <3>4. c[k - 1] = f[k - 1]
      BY <3>3
    <3>5. c[k] = f[k]
      BY <1>7, <2>2, <3>2, <3>3, <3>4
    <3> QED BY <3>1, <3>5
  <2>4. \A k \in 0..L : c[k] = f[k]
    BY <2>3
  <2> QED BY <1>6, <2>1, <2>4
<1>12. FreedBy(h, n) = f[L]
  BY <1>2, <1>11
<1>13. f \in [0..Len(h) -> SUBSET Nodes(h)]
  BY <1>6 DEF L, X, N
<1> QED BY <1>6, <1>7, <1>12, <1>13 DEF L

------------------------
(* The links of what is freed *)

\* The links to m from a set of nodes and from a larger one.
Part(T, S) == T \subseteq S

\* The links from S are those from a part of S and those from the rest.
LEMMA LinksSplit ==
  ASSUME NEW h, Shape(h), NEW m
  PROVE  \A S : \A T : Part(S, Nodes(h)) /\ Part(T, S) =>
         /\ LinksInto(h, S, m) = LinksInto(h, T, m) + LinksInto(h, S \ T, m)
         /\ LinksInto(h, S, m) \in Nat /\ LinksInto(h, T, m) \in Nat /\ LinksInto(h, S \ T, m) \in Nat
<1> SUFFICES ASSUME NEW S, NEW T, Part(S, Nodes(h)), Part(T, S)
    PROVE /\ LinksInto(h, S, m) = LinksInto(h, T, m) + LinksInto(h, S \ T, m)
          /\ LinksInto(h, S, m) \in Nat /\ LinksInto(h, T, m) \in Nat /\ LinksInto(h, S \ T, m) \in Nat
  OBVIOUS
<1> DEFINE A == LinksTo(h, T, m)
           B == LinksTo(h, S \ T, m)
           C == LinksTo(h, S, m)
<1>1. /\ IsFiniteSet(A) /\ LinksInto(h, T, m) = Cardinality(A) /\ LinksInto(h, T, m) \in Nat
      /\ \A e : e \in A <=> \E x \in T : \E k \in 1..LinkCt(h, x) : e = <<x, k>> /\ Sib(h, x, k) = m
  <2>1. T \in SUBSET Nodes(h)
    BY DEF Part
  <2> QED BY <2>1, LinksToIs
<1>2. /\ IsFiniteSet(B) /\ LinksInto(h, S \ T, m) = Cardinality(B) /\ LinksInto(h, S \ T, m) \in Nat
      /\ \A e : e \in B <=> \E x \in S \ T : \E k \in 1..LinkCt(h, x) : e = <<x, k>> /\ Sib(h, x, k) = m
  <2>1. S \ T \in SUBSET Nodes(h)
    BY DEF Part
  <2> QED BY <2>1, LinksToIs
<1>3. /\ LinksInto(h, S, m) = Cardinality(C) /\ LinksInto(h, S, m) \in Nat
      /\ \A e : e \in C <=> \E x \in S : \E k \in 1..LinkCt(h, x) : e = <<x, k>> /\ Sib(h, x, k) = m
  <2>1. S \in SUBSET Nodes(h)
    BY DEF Part
  <2> QED BY <2>1, LinksToIs
<1> HIDE DEF A, B, C
<1>8. T \subseteq S
  BY DEF Part
<1>4. C = A \cup B
  <2>1. ASSUME NEW e \in C PROVE e \in A \cup B
    <3>1. PICK x \in S : \E k \in 1..LinkCt(h, x) : e = <<x, k>> /\ Sib(h, x, k) = m
      BY <1>3
    <3>2. CASE x \in T
      BY <1>1, <3>1, <3>2
    <3>3. CASE x \notin T
      BY <1>2, <3>1, <3>3
    <3> QED BY <3>2, <3>3
  <2>2. \A e \in A : e \in C
    BY <1>1, <1>3, <1>8
  <2>3. \A e \in B : e \in C
    BY <1>2, <1>3
  <2> QED BY <2>1, <2>2, <2>3
<1>5. A \cap B = {}
  <2> SUFFICES ASSUME NEW e, e \in A, e \in B PROVE FALSE
    OBVIOUS
  <2>1. PICK x \in T : \E k \in 1..LinkCt(h, x) : e = <<x, k>>
    BY <1>1
  <2>2. PICK y \in S \ T : \E k \in 1..LinkCt(h, y) : e = <<y, k>>
    BY <1>2
  <2>3. e[1] = x /\ e[1] = y
    BY <2>1, <2>2
  <2> QED BY <2>3
<1>6. Cardinality(A \cup B) = Cardinality(A) + Cardinality(B) - Cardinality(A \cap B)
  BY <1>1, <1>2, FS_Union
<1>7. Cardinality(A \cap B) = 0
  BY <1>5, FS_EmptySet
<1> QED BY <1>1, <1>2, <1>3, <1>4, <1>6, <1>7

\* There are none when no node of the set links to m.
LEMMA NoLinksInto ==
  ASSUME NEW h, Shape(h), NEW U, Part(U, Nodes(h)), NEW m
  PROVE  LinksInto(h, U, m) = 0 <=> \A x \in U : \A k \in 1..LinkCt(h, x) : Sib(h, x, k) # m
<1> DEFINE D == LinksTo(h, U, m)
<1>1. /\ IsFiniteSet(D) /\ LinksInto(h, U, m) = Cardinality(D)
      /\ \A e : e \in D <=> \E x \in U : \E k \in 1..LinkCt(h, x) : e = <<x, k>> /\ Sib(h, x, k) = m
  <2>1. U \in SUBSET Nodes(h)
    BY DEF Part
  <2> QED BY <2>1, LinksToIs
<1> HIDE DEF D
<1>2. Cardinality(D) = 0 <=> D = {}
  BY <1>1, FS_EmptySet
<1>3. D = {} => \A x \in U : \A k \in 1..LinkCt(h, x) : Sib(h, x, k) # m
  BY <1>1
<1>4. (\A x \in U : \A k \in 1..LinkCt(h, x) : Sib(h, x, k) # m) => D = {}
  <2> SUFFICES ASSUME \A x \in U : \A k \in 1..LinkCt(h, x) : Sib(h, x, k) # m, NEW e \in D PROVE FALSE
    OBVIOUS
  <2> QED BY <1>1
<1> QED BY <1>1, <1>2, <1>3, <1>4

\* What is freed with a node that gives up its last reference: what only freed nodes refer to,
\* and all of it.
LEMMA FreedAre ==
  ASSUME NEW h, Shape(h), NEW n \in Nodes(h), IsLive(h, n),
         NEW occ \in [Nodes(h) -> Nat], ~(RefOf(h, n) > 1),
         \A m \in Nodes(h) : IsLive(h, m) =>
            RefOf(h, m) = LinksInto(h, Nodes(h), m) + occ[m] + (IF m = n THEN 1 ELSE 0),
         NEW F, F = FreedBy(h, n)
  PROVE  /\ F \in SUBSET Nodes(h) /\ n \in F
         /\ \A m \in F : /\ IsLive(h, m) /\ occ[m] = 0
                         /\ \A x \in Nodes(h) : \A k \in 1..LinkCt(h, x) : Sib(h, x, k) = m => x \in F
         /\ \A m \in Nodes(h) \ F : IsLive(h, m) => LinksInto(h, F, m) # RefOf(h, m)
<1>20. PICK f \in [0..Len(h) -> SUBSET Nodes(h)] :
            /\ f[0] = {n} /\ \A k \in 1..Len(h) : f[k] = f[k - 1] \cup Gone(h, n, f[k - 1])
            /\ FreedBy(h, n) = f[Len(h)]
  BY FreedIs
<1> DEFINE N == Nodes(h)
           L == Len(h)
           From(m, S) == \A x \in N : \A k \in 1..LinkCt(h, x) : Sib(h, x, k) = m => x \in S
<1>1. L \in Nat /\ N = 1..L
  BY ShapeIs DEF Nodes
<1>2. /\ f \in [0..L -> SUBSET N] /\ f[0] = {n} /\ F = f[L]
      /\ \A k \in 1..L : f[k] = f[k - 1] \cup Gone(h, n, f[k - 1])
  BY <1>20
<1>3. occ[n] = 0 /\ \A x \in N : \A k \in 1..LinkCt(h, x) : Sib(h, x, k) # n
  <2>1. RefOf(h, n) = LinksInto(h, N, n) + occ[n] + 1 /\ RefOf(h, n) \in Int
    BY ViewsAre
  <2>2. LinksInto(h, N, n) \in Nat /\ occ[n] \in Nat
    BY LinksSplit DEF Part
  <2>3. LinksInto(h, N, n) = 0 /\ occ[n] = 0
    BY <2>1, <2>2
  <2>4. Part(N, Nodes(h))
    BY DEF Part
  <2> HIDE DEF N
  <2> QED BY <2>3, <2>4, NoLinksInto
<1>4. ASSUME NEW S \in SUBSET N, NEW m \in Gone(h, n, S)
      PROVE  IsLive(h, m) /\ occ[m] = 0 /\ From(m, S) /\ m \in N /\ m # n
  <2>1. m \in N /\ m # n /\ IsLive(h, m) /\ LinksInto(h, S, m) = RefOf(h, m)
    BY <1>4 DEF Gone
  <2>2. RefOf(h, m) = LinksInto(h, N, m) + occ[m]
    <3>1. RefOf(h, m) = LinksInto(h, N, m) + occ[m] + 0
      BY <2>1
    <3>2. LinksInto(h, N, m) \in Nat /\ occ[m] \in Nat
      BY <2>1, LinksSplit DEF Part
    <3> QED BY <3>1, <3>2
  <2>3. /\ LinksInto(h, N, m) = LinksInto(h, S, m) + LinksInto(h, N \ S, m)
        /\ LinksInto(h, N, m) \in Nat /\ LinksInto(h, S, m) \in Nat /\ LinksInto(h, N \ S, m) \in Nat
    <3>1. Part(N, Nodes(h)) /\ Part(S, N)
      BY DEF Part
    <3> HIDE DEF N
    <3> QED BY <3>1, LinksSplit
  <2>4. occ[m] \in Nat
    BY <2>1
  <2>5. LinksInto(h, N \ S, m) = 0 /\ occ[m] = 0
    BY <2>1, <2>2, <2>3, <2>4
  <2>6. Part(N \ S, Nodes(h))
    BY DEF Part
  <2>7. \A x \in N \ S : \A k \in 1..LinkCt(h, x) : Sib(h, x, k) # m
    <3> HIDE DEF N
    <3> QED BY <2>5, <2>6, NoLinksInto
  <2>8. From(m, S)
    BY <2>7
  <2> QED BY <2>1, <2>5, <2>8
<1> HIDE DEF N, L
<1>5. \A S, T \in SUBSET N : \A m : S \subseteq T /\ From(m, S) => From(m, T)
  OBVIOUS
<1> DEFINE Good(S) == n \in S /\ \A m \in S : m = n \/ (IsLive(h, m) /\ occ[m] = 0 /\ From(m, S))
           Bad == {k \in 0..L : ~Good(f[k])}
<1>6. Bad = {}
  <2> SUFFICES ASSUME Bad # {} PROVE FALSE
    OBVIOUS
  <2>1. PICK k \in Bad : \A j \in Bad : k <= j
    <3>1. Bad \in SUBSET Nat
      BY <1>1
    <3> HIDE DEF Bad
    <3> QED BY <3>1, Least
  <2>2. k # 0
    BY <1>2, <2>1
  <2>3. k \in 1..L /\ k - 1 \in 0..L /\ k \in 0..L /\ k - 1 \notin Bad
    BY <1>1, <2>1, <2>2
  <2> DEFINE S == f[k - 1]
             T == f[k]
  <2>4. Good(S) /\ S \in SUBSET N /\ T \in SUBSET N /\ T = S \cup Gone(h, n, S)
    BY <1>2, <2>3
  <2> HIDE DEF S, T, From
  <2>5. Good(T)
    BY <1>4, <1>5, <2>4
  <2> QED BY <2>1, <2>5 DEF T
<1>7. Good(F) /\ F \in SUBSET N
  BY <1>1, <1>2, <1>6
<1>8. \A m \in F : IsLive(h, m) /\ occ[m] = 0 /\ From(m, F)
  BY <1>3, <1>7
\* it grows until it is closed
<1> DEFINE Closed(S) == Gone(h, n, S) \subseteq S
           Short == {k \in 0..L : ~(Closed(f[k]) \/ Cardinality(f[k]) >= k + 1)}
<1>9. IsFiniteSet(N) /\ Cardinality(N) = L
  <2>1. IsFiniteSet(1..L) /\ Cardinality(1..L) = IF 1 > L THEN 0 ELSE L - 1 + 1
    BY <1>1, FS_Interval
  <2> QED BY <1>1, <2>1
<1>10. ASSUME NEW k \in 0..L
       PROVE  IsFiniteSet(f[k]) /\ Cardinality(f[k]) \in Nat /\ Cardinality(f[k]) <= L
  <2>1. f[k] \in SUBSET N
    BY <1>2
  <2> QED BY <1>9, <2>1, FS_Subset, FS_CardinalityType
<1>11. Short = {}
  <2> SUFFICES ASSUME Short # {} PROVE FALSE
    OBVIOUS
  <2>1. PICK k \in Short : \A j \in Short : k <= j
    <3>1. Short \in SUBSET Nat
      BY <1>1
    <3> HIDE DEF Short
    <3> QED BY <3>1, Least
  <2>2. k # 0
    <3>1. Cardinality({n}) = 1
      BY FS_Singleton
    <3>2. Cardinality(f[0]) >= 0 + 1
      BY <1>2, <3>1
    <3> QED BY <2>1, <3>2
  <2>3. k \in 1..L /\ k - 1 \in 0..L /\ k \in 0..L /\ k - 1 \notin Short
    BY <1>1, <2>1, <2>2, SMTT(30)
  <2> DEFINE S == f[k - 1]
             T == f[k]
  <2>4. (Closed(S) \/ Cardinality(S) >= k) /\ T = S \cup Gone(h, n, S) /\ ~(Closed(T) \/ Cardinality(T) >= k + 1)
    <3>1. Closed(S) \/ Cardinality(S) >= k - 1 + 1
      BY <2>3
    <3>2. k - 1 + 1 = k
      BY <2>3
    <3>3. Closed(S) \/ Cardinality(S) >= k
      BY <3>1, <3>2
    <3> QED BY <1>2, <2>1, <2>3, <3>3
  <2>5. /\ IsFiniteSet(S) /\ Cardinality(S) \in Nat
        /\ IsFiniteSet(T) /\ Cardinality(T) \in Nat
    BY <1>10, <2>3
  <2> HIDE DEF S, T
  <2>6. CASE Closed(S)
    <3>1. T = S
      BY <2>4, <2>6
    <3> HIDE DEF Closed
    <3> QED BY <2>4, <2>6, <3>1
  <2>7. CASE ~Closed(S) /\ Cardinality(S) >= k
    <3>1. S # T /\ S \in SUBSET T
      BY <2>4, <2>7
    <3>2. Cardinality(S) <= Cardinality(T) /\ Cardinality(S) # Cardinality(T)
      BY <2>5, <3>1, FS_Subset
    <3>3. Cardinality(T) >= k + 1
      BY <2>3, <2>5, <2>7, <3>2
    <3> QED BY <2>4, <3>3
  <2> QED BY <2>4, <2>6, <2>7
<1>12. Closed(F)
  <2>1. L \in 0..L /\ F = f[L]
    BY <1>1, <1>2
  <2>2. ~(Cardinality(F) >= L + 1)
    BY <1>1, <1>10, <2>1
  <2> HIDE DEF Closed
  <2> QED BY <1>11, <2>1, <2>2
<1>13. \A m \in N \ F : IsLive(h, m) => LinksInto(h, F, m) # RefOf(h, m)
  BY <1>7, <1>12 DEF Gone, N
<1> QED BY <1>7, <1>8, <1>13 DEF N

------------------------
(* Freeing keeps the counts *)

\* The nodes of F are freed, the others keep their links.
Released(h, g, F) ==
    /\ Shape(g) /\ Len(g) = Len(h)
    /\ \A m \in Nodes(h) :
          /\ StateOf(g, m) = StateOf(h, m) /\ DepthOf(g, m) = DepthOf(h, m)
          /\ m \in F => ~IsLive(g, m) /\ LinkCt(g, m) = 0
          /\ m \notin F => /\ IsLive(g, m) <=> IsLive(h, m)
                           /\ LinkCt(g, m) = LinkCt(h, m)
                           /\ \A k \in 1..LinkCt(h, m) :
                                 Sib(g, m, k) = Sib(h, m, k) /\ IdOf(g, m, k) = IdOf(h, m, k)

\* only nodes of F link to nodes of F, and they are on no list
Unreferenced(h, F, occ) ==
    \A m \in F : /\ IsLive(h, m) /\ occ[m] = 0
                 /\ \A x \in Nodes(h) : \A k \in 1..LinkCt(h, x) : Sib(h, x, k) = m => x \in F

\* the ids of the links of F
IdsOf(h, F) == {i \in Nat : \E m \in F : \E k \in 1..LinkCt(h, m) : i = IdOf(h, m, k)}

\* what decRefCt leaves when the nodes of F are freed
Release(h, F) ==
    [m \in DOMAIN h |-> [h[m] EXCEPT !.live = @ /\ m \notin F,
                                     !.refct = IF m \in F THEN 0 ELSE @ - LinksInto(h, F, m),
                                     !.links = IF m \in F THEN <<>> ELSE @]]

\* The empty sequence is a list of links.
LEMMA NoLinks == IsLinks(<<>>) /\ Len(<<>>) = 0
<1>1. <<>> \in Seq({}) /\ Len(<<>>) = 0
  OBVIOUS
<1>2. <<>> \in Seq(Range(<<>>))
  BY <1>1 DEF Range
<1> QED BY <1>1, <1>2 DEF IsLinks

\* Release frees the nodes of F and lowers the counts of what they linked to.
LEMMA ReleaseByIndex ==
  ASSUME NEW h, Shape(h), NEW F \in SUBSET Nodes(h),
         \A m \in Nodes(h) : LinksInto(h, F, m) \in Nat
  PROVE  /\ Released(h, Release(h, F), F)
         /\ \A m \in Nodes(h) :
               RefOf(Release(h, F), m) = IF m \in F THEN 0 ELSE RefOf(h, m) - LinksInto(h, F, m)
<1> DEFINE g == Release(h, F)
           c == [m \in Nodes(h) |-> IF m \in F THEN 0 ELSE h[m].refct - LinksInto(h, F, m)]
<1>1. /\ Len(h) \in Nat /\ DOMAIN h = Nodes(h) /\ \A m \in Nodes(h) : IsNode(h[m])
  BY ShapeIs
<1>2. ASSUME NEW m \in Nodes(h)
      PROVE  /\ IsNode(g[m]) /\ g[m].state = h[m].state /\ g[m].depth = h[m].depth
             /\ g[m].refct = c[m]
             /\ (g[m].live <=> h[m].live /\ m \notin F)
             /\ g[m].links = IF m \in F THEN <<>> ELSE h[m].links
  <2> DEFINE r == h[m]
             x == IF m \in F THEN 0 ELSE r.refct - LinksInto(h, F, m)
             v == r.live /\ m \notin F
             s == IF m \in F THEN <<>> ELSE r.links
             q == [r EXCEPT !.live = v, !.refct = x, !.links = s]
  <2>1. IsNode(r) /\ g[m] = q
    BY <1>1 DEF Release
  <2>2. v \in BOOLEAN
    OBVIOUS
  <2>3. IsLinks(s)
    <3>1. IsLinks(r.links)
      BY <2>1 DEF IsNode
    <3> QED BY <3>1, NoLinks
  <2>4. x \in Int
    <3>1. r.refct \in Int
      BY <2>1 DEF IsNode
    <3> HIDE DEF r
    <3> QED BY <3>1
  <2> HIDE DEF x, r, v, s
  <2>5. /\ IsNode(q)
        /\ q.state = r.state /\ q.depth = r.depth
        /\ q.refct = x /\ q.links = s /\ q.live = v
    BY <2>1, <2>2, <2>3, <2>4 DEF IsNode
  <2> HIDE DEF q, g
  <2>6. q.live <=> r.live /\ m \notin F
    BY <2>5 DEF v
  <2>7. q.links = IF m \in F THEN <<>> ELSE r.links
    BY <2>5 DEF s
  <2>8. q.refct = c[m]
    BY <2>5 DEF x, r
  <2> QED BY <2>1, <2>5, <2>6, <2>7, <2>8 DEF r
<1>3. g = [m \in Nodes(h) |-> g[m]]
  BY <1>1 DEF Release
<1> HIDE DEF g
<1>4. Shape(g) /\ Len(g) = Len(h)
  BY <1>1, <1>2, <1>3, ShapeByIndex DEF Nodes
<1>5. \A m \in Nodes(h) : /\ StateOf(g, m) = StateOf(h, m) /\ DepthOf(g, m) = DepthOf(h, m)
                          /\ RefOf(g, m) = c[m] /\ (IsLive(g, m) <=> IsLive(h, m) /\ m \notin F)
  BY <1>2 DEF StateOf, DepthOf, RefOf, IsLive
<1>6. \A m \in F : LinkCt(g, m) = 0
  <2>1. \A m \in F : g[m].links = <<>>
    BY <1>2
  <2> QED BY <2>1, NoLinks DEF LinkCt
<1>7. \A m \in Nodes(h) \ F : g[m].links = h[m].links
  BY <1>2
<1>8. \A m \in Nodes(h) \ F : /\ LinkCt(g, m) = LinkCt(h, m)
                              /\ \A k \in 1..LinkCt(h, m) :
                                 Sib(g, m, k) = Sib(h, m, k) /\ IdOf(g, m, k) = IdOf(h, m, k)
  BY <1>7 DEF LinkCt, Sib, IdOf
<1>9. Released(h, g, F)
  BY <1>4, <1>5, <1>6, <1>8 DEF Released
<1>10. \A m \in Nodes(h) : RefOf(g, m) = IF m \in F THEN 0 ELSE RefOf(h, m) - LinksInto(h, F, m)
  BY <1>5 DEF RefOf
<1> QED BY <1>9, <1>10 DEF g

\* the links that are left
LEMMA ReleasedCount ==
  ASSUME NEW h, Shape(h), NEW g, NEW F \in SUBSET Nodes(h), Released(h, g, F), NEW m
  PROVE  LinksInto(g, Nodes(g), m) = LinksInto(h, Nodes(h) \ F, m)
<1> DEFINE N == Nodes(h)
           S == N \ F
           A == LinksTo(h, S, m)
           B == LinksTo(g, N, m)
<1>1. /\ Shape(g) /\ Nodes(g) = N /\ S \in SUBSET Nodes(h) /\ N \in SUBSET Nodes(g)
      /\ \A x \in F : LinkCt(g, x) = 0
      /\ \A x \in S : /\ LinkCt(g, x) = LinkCt(h, x)
                      /\ \A k \in 1..LinkCt(h, x) : Sib(g, x, k) = Sib(h, x, k)
  BY DEF Released, Nodes
<1> HIDE DEF S, N
<1>2. /\ LinksInto(h, S, m) = Cardinality(A)
      /\ \A e : e \in A <=> \E x \in S : \E k \in 1..LinkCt(h, x) : e = <<x, k>> /\ Sib(h, x, k) = m
  BY <1>1, LinksToIs
<1>3. /\ LinksInto(g, N, m) = Cardinality(B)
      /\ \A e : e \in B <=> \E x \in N : \E k \in 1..LinkCt(g, x) : e = <<x, k>> /\ Sib(g, x, k) = m
  BY <1>1, LinksToIs
<1> HIDE DEF A, B
<1>4. \A x \in N : x \in S \/ x \in F
  BY DEF S
<1>5. \A x \in S : x \in N
  BY DEF S
<1>6. B = A
  <2>1. ASSUME NEW e \in B PROVE e \in A
    <3>1. PICK x \in N : \E k \in 1..LinkCt(g, x) : e = <<x, k>> /\ Sib(g, x, k) = m
      BY <1>3
    <3>2. x \notin F
      BY <1>1, <3>1
    <3> QED BY <1>1, <1>2, <1>4, <3>1, <3>2
  <2>2. \A e \in A : e \in B
    BY <1>1, <1>2, <1>3, <1>5
  <2> QED BY <2>1, <2>2
<1> QED BY <1>1, <1>2, <1>3, <1>6 DEF S, N

\* When the counts are exact but for one reference to n that goes away, decRefCt frees nodes
\* that nothing else refers to, keeps the counts exact, and reports the values they held.
LEMMA DecRefCtReleases ==
  ASSUME NEW h, Shape(h), NEW n \in Nodes(h), IsLive(h, n),
         NEW occ \in [Nodes(h) -> Nat],
         \A m \in Nodes(h) : IsLive(h, m) =>
            RefOf(h, m) = LinksInto(h, Nodes(h), m) + occ[m] + (IF m = n THEN 1 ELSE 0)
  PROVE  \E F \in SUBSET Nodes(h) :
            /\ Released(h, DecRefCt(h, n), F) /\ Unreferenced(h, F, occ)
            /\ CountedBy(DecRefCt(h, n), occ) /\ (Held(h) => Held(DecRefCt(h, n)))
            /\ DroppedBy(h, n) = IdsOf(h, F)
<1> DEFINE N == Nodes(h)
           g == DecRefCt(h, n)
<1>1. /\ Len(h) \in Nat /\ DOMAIN h = N /\ \A m \in N : IsNode(h[m]) /\ RefOf(h, m) \in Int
  BY ShapeIs, ViewsAre
<1>2. \A m \in N : LinksInto(h, N, m) \in Nat /\ occ[m] \in Nat
  <2>1. Part(N, Nodes(h))
    BY DEF Part
  <2> HIDE DEF N
  <2> QED BY <2>1, LinksSplit DEF N
<1>3. CASE RefOf(h, n) > 1
  <2> DEFINE F == {}
  <2>1. g = LetGo(h, n)
    BY <1>3 DEF DecRefCt, LetGo, RefOf
  <2>2. /\ SameLinks(h, g) /\ SameDepths(h, g) /\ SameIds(h, g)
        /\ \A m \in N : RefOf(g, m) = RefOf(h, m) - (IF m = n THEN 1 ELSE 0)
    BY <2>1, LetGoLowers
  <2> HIDE DEF g
  <2>3. Released(h, g, {})
    BY <2>2 DEF SameLinks, SameDepths, SameIds, Released
  <2>4. Unreferenced(h, {}, occ)
    BY DEF Unreferenced
  <2>5. Nodes(g) = N /\ Shape(g) /\ \A m \in N : (IsLive(g, m) <=> IsLive(h, m))
    BY <2>2 DEF SameLinks, Nodes
  <2>6. \A m : LinksInto(g, Nodes(g), m) = LinksInto(h, N, m)
    BY <2>2, <2>5, SameLinksTo
  <2>7. CountedBy(g, occ)
    <3> SUFFICES ASSUME NEW m \in N, IsLive(h, m) PROVE RefOf(g, m) = LinksInto(g, Nodes(g), m) + occ[m]
      BY <2>5 DEF CountedBy
    <3>1. RefOf(h, m) = LinksInto(h, N, m) + occ[m] + (IF m = n THEN 1 ELSE 0)
      OBVIOUS
    <3>2. RefOf(g, m) = RefOf(h, m) - (IF m = n THEN 1 ELSE 0)
      BY <2>2
    <3>3. LinksInto(g, Nodes(g), m) = LinksInto(h, N, m)
      BY <2>6
    <3> HIDE DEF N
    <3> QED BY <1>2, <3>1, <3>2, <3>3
  <2>8. Held(h) => Held(g)
    <3> SUFFICES ASSUME Held(h), NEW m \in N, IsLive(h, m) PROVE RefOf(g, m) > 0
      BY <2>5 DEF Held
    <3>1. RefOf(h, m) > 0 /\ RefOf(h, m) \in Int
      BY <1>1 DEF Held
    <3>2. RefOf(g, m) = RefOf(h, m) - (IF m = n THEN 1 ELSE 0)
      BY <2>2
    <3> QED BY <1>3, <3>1, <3>2
  <2>9. DroppedBy(h, n) = {}
    BY <1>3 DEF DroppedBy, RefOf
  <2>10. IdsOf(h, {}) = {}
    BY DEF IdsOf
  <2>11. /\ Released(h, g, {}) /\ Unreferenced(h, {}, occ)
         /\ CountedBy(g, occ) /\ (Held(h) => Held(g))
         /\ DroppedBy(h, n) = IdsOf(h, {})
    BY <2>3, <2>4, <2>7, <2>8, <2>9, <2>10
  <2> QED BY <2>11 DEF g
<1>4. CASE ~(RefOf(h, n) > 1)
  <2> DEFINE F == FreedBy(h, n)
  <2>1. /\ F \in SUBSET N /\ n \in F
        /\ \A m \in F : /\ IsLive(h, m) /\ occ[m] = 0
                        /\ \A x \in N : \A k \in 1..LinkCt(h, x) : Sib(h, x, k) = m => x \in F
        /\ \A m \in N \ F : IsLive(h, m) => LinksInto(h, F, m) # RefOf(h, m)
    <3> HIDE DEF F
    <3>1. F = FreedBy(h, n)
      BY DEF F
    <3> QED BY <1>4, <3>1, FreedAre
  <2>2. g = Release(h, F)
    <3>1. ~(h[n].refct > 1)
      BY <1>4 DEF RefOf
    <3> QED BY <3>1 DEF DecRefCt, Release
  <2> HIDE DEF F, g
  <2>3. \A m : LinksInto(h, F, m) \in Nat /\ LinksInto(h, N \ F, m) \in Nat
               /\ LinksInto(h, N, m) = LinksInto(h, F, m) + LinksInto(h, N \ F, m)
    <3>1. Part(N, Nodes(h)) /\ Part(F, N)
      BY <2>1 DEF Part
    <3> HIDE DEF N
    <3>2. ASSUME NEW m
          PROVE  /\ LinksInto(h, F, m) \in Nat /\ LinksInto(h, N \ F, m) \in Nat
                 /\ LinksInto(h, N, m) = LinksInto(h, F, m) + LinksInto(h, N \ F, m)
      BY <3>1, LinksSplit
    <3> QED BY <3>2
  <2>6. /\ Released(h, g, F)
        /\ \A m \in N : RefOf(g, m) = IF m \in F THEN 0 ELSE RefOf(h, m) - LinksInto(h, F, m)
    BY <2>1, <2>2, <2>3, ReleaseByIndex
  <2>7. Unreferenced(h, F, occ)
    BY <2>1 DEF Unreferenced
  <2>8. /\ Nodes(g) = N
        /\ \A m \in N : IsLive(g, m) => IsLive(h, m) /\ m \notin F
    BY <2>6 DEF Released, Nodes
  <2>9. \A m : LinksInto(g, Nodes(g), m) = LinksInto(h, N \ F, m)
    BY <2>1, <2>6, ReleasedCount
  <2>10. CountedBy(g, occ)
    <3> SUFFICES ASSUME NEW m \in N, IsLive(g, m) PROVE RefOf(g, m) = LinksInto(g, Nodes(g), m) + occ[m]
      BY <2>8 DEF CountedBy
    <3>1. m \notin F /\ m # n /\ IsLive(h, m)
      BY <2>1, <2>8
    <3>2. RefOf(h, m) = LinksInto(h, N, m) + occ[m] + 0
      BY <3>1
    <3>3. RefOf(g, m) = RefOf(h, m) - LinksInto(h, F, m)
      BY <2>6, <3>1
    <3>4. LinksInto(g, Nodes(g), m) = LinksInto(h, N \ F, m)
      BY <2>9
    <3>5. LinksInto(h, N, m) = LinksInto(h, F, m) + LinksInto(h, N \ F, m)
          /\ LinksInto(h, F, m) \in Nat /\ LinksInto(h, N \ F, m) \in Nat
      BY <2>3
    <3>6. occ[m] \in Nat
      BY <1>2
    <3> HIDE DEF N
    <3> QED BY <3>2, <3>3, <3>4, <3>5, <3>6
  <2>11. Held(h) => Held(g)
    <3> SUFFICES ASSUME Held(h), NEW m \in N, IsLive(g, m) PROVE RefOf(g, m) > 0
      BY <2>8 DEF Held
    <3>1. m \notin F /\ m # n /\ IsLive(h, m)
      BY <2>1, <2>8
    <3>2. RefOf(h, m) = LinksInto(h, N, m) + occ[m] + 0
      BY <3>1
    <3>3. RefOf(g, m) = RefOf(h, m) - LinksInto(h, F, m)
      BY <2>6, <3>1
    <3>4. LinksInto(h, F, m) # RefOf(h, m)
      BY <2>1, <3>1
    <3>5. LinksInto(h, N, m) = LinksInto(h, F, m) + LinksInto(h, N \ F, m)
          /\ LinksInto(h, F, m) \in Nat /\ LinksInto(h, N \ F, m) \in Nat
      BY <2>3
    <3>6. occ[m] \in Nat
      BY <1>2
    <3> HIDE DEF N
    <3> QED BY <3>2, <3>3, <3>4, <3>5, <3>6
  <2>12. DroppedBy(h, n) = IdsOf(h, F)
    <3>1. DroppedBy(h, n) = UNION {{h[m].links[k].val.id : k \in DOMAIN h[m].links} : m \in F}
      BY <1>4 DEF DroppedBy, RefOf, F
    <3>2. \A m \in N : DOMAIN h[m].links = 1..LinkCt(h, m)
      BY ShapeIs, LinksAre DEF LinkCt
    <3>3. \A m \in N : \A k \in 1..LinkCt(h, m) : IdOf(h, m, k) \in Nat /\ IdOf(h, m, k) = h[m].links[k].val.id
      BY ViewsAre DEF IdOf
    <3> DEFINE I(m) == {h[m].links[k].val.id : k \in DOMAIN h[m].links}
    <3>7. \A m : \A i : i \in I(m) <=> \E k \in DOMAIN h[m].links : i = h[m].links[k].val.id
      OBVIOUS
    <3>8. DroppedBy(h, n) = UNION {I(m) : m \in F}
      BY <3>1
    <3> HIDE DEF I
    <3>4. \A i : i \in DroppedBy(h, n) <=> \E m \in F : i \in I(m)
      BY <3>8
    <3>5. \A i : i \in IdsOf(h, F) <=> i \in Nat /\ \E m \in F : \E k \in 1..LinkCt(h, m) : i = IdOf(h, m, k)
      BY DEF IdsOf
    <3>9. ASSUME NEW m \in F, NEW i
          PROVE  i \in I(m) <=> i \in Nat /\ \E k \in 1..LinkCt(h, m) : i = IdOf(h, m, k)
      <4>3. DOMAIN h[m].links = 1..LinkCt(h, m)
        BY <2>1, <3>2
      <4>1. i \in I(m) <=> \E k \in 1..LinkCt(h, m) : i = h[m].links[k].val.id
        BY <4>3, <3>7, ZenonT(60)
      <4>2. \A k \in 1..LinkCt(h, m) : IdOf(h, m, k) \in Nat /\ IdOf(h, m, k) = h[m].links[k].val.id
        BY <2>1, <3>3
      <4> QED BY <4>1, <4>2
    <3>6. \A i : i \in DroppedBy(h, n) <=> i \in IdsOf(h, F)
      BY <3>4, <3>5, <3>9
    <3> QED BY <3>6
  <2>13. /\ Released(h, g, F) /\ Unreferenced(h, F, occ)
         /\ CountedBy(g, occ) /\ (Held(h) => Held(g))
         /\ DroppedBy(h, n) = IdsOf(h, F)
    BY <2>6, <2>7, <2>10, <2>11, <2>12
  <2> QED BY <2>1, <2>13 DEF g
<1> QED BY <1>3, <1>4

------------------------
(* The stretch of stack a mini-LR reduction pops *)

\* first links go down
Downward(h) == \A n \in Nodes(h) : LinkCt(h, n) > 0 => Sib(h, n, 1) < n
\* the cached depths are what computeDeterminDepth says
DepthRight(h) ==
    \A n \in Nodes(h) : IsLive(h, n) =>
        DepthOf(h, n) = IF LinkCt(h, n) = 0 THEN 1
                        ELSE IF LinkCt(h, n) = 1 THEN DepthOf(h, Sib(h, n, 1)) + 1 ELSE 0
\* the links are transitions of the automaton
StatesOK(h, T) ==
    \A n \in Nodes(h) : IsLive(h, n) =>
        /\ StateOf(h, n) \in States(T)
        /\ LinkCt(h, n) = 0 => StateOf(h, n) = T.start
        /\ \A k \in 1..LinkCt(h, n) : LeadsTo(T, StateOf(h, Sib(h, n, k)), StateOf(h, n))

\* the states behind s, step by step
Backward(T, s, len, b) ==
    b[0] = {s} /\ \A k \in 1..len : b[k] = Before(T, b[k - 1]) /\ b[k - 1] \in SUBSET States(T)

\* Behind, step by step.
LEMMA BehindIs ==
  ASSUME NEW T, NEW s \in States(T), NEW len \in Nat
  PROVE  Backward(T, s, len, Behind(T, s, len))
<1> DEFINE X == SUBSET States(T)
           G == [p \in (1..len) \X X |-> Before(T, p[2])]
           x0 == {s}
           Is(f) == f = [k \in 0..len |-> IF k = 0 THEN {s} ELSE Before(T, f[k - 1])]
<1>1. \A D : Before(T, D) \in X
  BY DEF Before
<1>2. IsStep(G, len, X) /\ x0 \in X
  BY <1>1 DEF IsStep
<1>3. PICK f : Iterated(f, len, X, x0, G)
  <2> HIDE DEF G, X, x0
  <2> QED BY <1>2, Iterate
<1>4. f \in [0..len -> X] /\ f[0] = {s} /\ \A k \in 1..len : f[k] = G[<<k, f[k - 1]>>]
  BY <1>3 DEF Iterated
<1>5. ASSUME NEW k \in 1..len PROVE f[k] = Before(T, f[k - 1])
  <2> HIDE DEF X
  <2>1. <<k, f[k - 1]>> \in (1..len) \X X
    BY <1>4
  <2> QED BY <1>4, <2>1
<1>6. Is(f)
  <2>1. f = [k \in 0..len |-> f[k]]
    BY <1>4
  <2>2. \A k \in 0..len : f[k] = IF k = 0 THEN {s} ELSE Before(T, f[k - 1])
    BY <1>4, <1>5
  <2> HIDE DEF G, X
  <2> QED BY <2>1, <2>2, Zenon
<1> DEFINE b == CHOOSE g : Is(g)
<1>7. Behind(T, s, len) = b
  BY Zenon DEF Behind
<1>8. Is(b)
  BY <1>6, Zenon
<1> HIDE DEF b
<1>9. \A k \in 0..len : b[k] = IF k = 0 THEN {s} ELSE Before(T, b[k - 1])
  BY <1>8, Zenon
<1>10. b[0] = {s} /\ \A k \in 1..len : b[k] = Before(T, b[k - 1])
  BY <1>9
<1>11. \A k \in 1..len : b[k - 1] \in SUBSET States(T)
  <2> SUFFICES ASSUME NEW k \in 1..len PROVE b[k - 1] \in X
    OBVIOUS
  <2>1. CASE k = 1
    <3>1. k - 1 = 0
      BY <2>1
    <3> QED BY <3>1, <1>10
  <2>2. CASE k # 1
    <3>1. k - 1 \in 1..len
      BY <2>2
    <3> HIDE DEF X
    <3> QED BY <3>1, <1>1, <1>10
  <2> QED BY <2>1, <2>2
<1> QED BY <1>7, <1>10, <1>11 DEF Backward

\* following first links from n
Climbs(h, f, n, len) ==
    f[0] = n /\ \A k \in 1..len : LinkCt(h, f[k - 1]) > 0 => f[k] = Sib(h, f[k - 1], 1)

\* a stretch of nodes with one link each, from n down
Stretch(h, T, n, len, f) ==
    /\ f[0] = n
    /\ \A k \in 0..len : f[k] \in Nodes(h) /\ IsLive(h, f[k])
                         /\ StateOf(h, f[k]) \in Behind(T, StateOf(h, n), len)[k]
    /\ \A k \in 1..len : /\ LinkCt(h, f[k - 1]) = 1
                         /\ f[k] = Sib(h, f[k - 1], 1) /\ f[k] < f[k - 1]

\* A node that has the symbols of a right-hand side under it, and the depth.
Poppable(h, T, n, len) ==
    /\ n \in Nodes(h) /\ IsLive(h, n)
    /\ len \in Nat /\ len <= DepthOf(h, n)
    /\ \A k \in 0..(len - 1) : T.start \notin Behind(T, StateOf(h, n), len)[k]

\* Following first links from a node that has the depth stays on nodes with one link each.
LEMMA ClimbIs ==
  ASSUME NEW h, Shape(h), NEW T, StatesOK(h, T), Inward(h), DepthRight(h), Downward(h),
         NEW n, NEW len, Poppable(h, T, n, len), NEW f, Climbs(h, f, n, len)
  PROVE  Stretch(h, T, n, len, f)
<1> DEFINE b == Behind(T, StateOf(h, n), len)
           Good(k) == /\ f[k] \in Nodes(h) /\ IsLive(h, f[k]) /\ StateOf(h, f[k]) \in b[k]
                      /\ DepthOf(h, f[k]) >= len - k
           Bad == {k \in 0..len : ~Good(k)}
<1>1. /\ n \in Nodes(h) /\ IsLive(h, n) /\ len \in Nat /\ len <= DepthOf(h, n)
      /\ \A k \in 0..(len - 1) : T.start \notin b[k]
  BY DEF Poppable
<1>2. StateOf(h, n) \in States(T)
  BY <1>1 DEF StatesOK
<1>3. b[0] = {StateOf(h, n)} /\ \A k \in 1..len : b[k] = Before(T, b[k - 1])
  BY <1>1, <1>2, BehindIs DEF Backward
<1>4. f[0] = n /\ \A k \in 1..len : LinkCt(h, f[k - 1]) > 0 => f[k] = Sib(h, f[k - 1], 1)
  BY DEF Climbs
<1> HIDE DEF b
<1>5. ASSUME NEW k \in 1..len, Good(k - 1)
      PROVE  /\ Good(k) /\ LinkCt(h, f[k - 1]) = 1
             /\ f[k] = Sib(h, f[k - 1], 1) /\ f[k] < f[k - 1]
  <2> DEFINE x == f[k - 1]
             y == Sib(h, x, 1)
  <2>1. /\ x \in Nodes(h) /\ IsLive(h, x) /\ StateOf(h, x) \in b[k - 1]
        /\ DepthOf(h, x) >= len - (k - 1)
        /\ LinkCt(h, x) > 0 => f[k] = y
        /\ k - 1 \in 0..(len - 1)
    BY <1>1, <1>4, <1>5
  <2>2. StateOf(h, x) # T.start
    BY <1>1, <2>1
  <2> HIDE DEF x, y
  <2>3. LinkCt(h, x) \in Nat /\ DepthOf(h, x) \in Int
    BY <2>1, ViewsAre
  <2>4. LinkCt(h, x) # 0
    BY <2>1, <2>2 DEF StatesOK
  <2>5. DepthOf(h, x) # 0
    BY <1>1, <2>1, <2>3
  <2>6. LinkCt(h, x) = 1 /\ DepthOf(h, x) = DepthOf(h, y) + 1
    <3>1. DepthOf(h, x) = IF LinkCt(h, x) = 0 THEN 1
                          ELSE IF LinkCt(h, x) = 1 THEN DepthOf(h, Sib(h, x, 1)) + 1 ELSE 0
      BY <2>1 DEF DepthRight
    <3> QED BY <3>1, <2>4, <2>5 DEF y
  <2>7. 1 \in 1..LinkCt(h, x)
    BY <2>6
  <2>8. y \in Nodes(h) /\ IsLive(h, y) /\ LeadsTo(T, StateOf(h, y), StateOf(h, x)) /\ y < x
    BY <2>1, <2>6, <2>7 DEF Inward, StatesOK, Downward, y
  <2>9. StateOf(h, y) \in States(T) /\ DepthOf(h, y) \in Int
    BY <2>8, ViewsAre DEF StatesOK
  <2>10. StateOf(h, y) \in b[k]
    BY <1>3, <2>1, <2>8, <2>9 DEF Before
  <2>11. DepthOf(h, y) >= len - k
    BY <1>1, <2>1, <2>3, <2>6, <2>9
  <2>12. f[k] = y
    BY <2>1, <2>6
  <2> QED BY <2>6, <2>8, <2>10, <2>11, <2>12 DEF x, y
<1>6. Good(0)
  <2>1. DepthOf(h, n) \in Int
    BY <1>1, ViewsAre
  <2> QED BY <1>1, <1>3, <1>4, <2>1
<1>7. Bad = {}
  <2> SUFFICES ASSUME Bad # {} PROVE FALSE
    OBVIOUS
  <2>1. PICK k \in Bad : \A j \in Bad : k <= j
    <3>1. Bad \in SUBSET Nat
      BY <1>1
    <3> HIDE DEF Bad
    <3> QED BY <3>1, Least
  <2> HIDE DEF Good
  <2>2. k \in 0..len /\ k # 0 /\ ~Good(k)
    BY <1>6, <2>1
  <2>3. k \in 1..len /\ k - 1 \in 0..len /\ k - 1 \notin Bad
    BY <1>1, <2>1, <2>2
  <2>4. Good(k - 1)
    BY <2>3
  <2> QED BY <1>5, <2>2, <2>3, <2>4
<1>8. \A k \in 0..len : Good(k)
  BY <1>7
<1>9. \A k \in 1..len : k - 1 \in 0..len
  BY <1>1
<1>10. \A k \in 1..len : LinkCt(h, f[k - 1]) = 1 /\ f[k] = Sib(h, f[k - 1], 1) /\ f[k] < f[k - 1]
  <2> HIDE DEF Good
  <2> QED BY <1>5, <1>8, <1>9
<1> QED BY <1>4, <1>8, <1>10 DEF Stretch, b

------------------------
(* A stretch whose depths are positive is a chain, and ours alone *)

\* Chain follows the first links.
LEMMA ChainIs ==
  ASSUME NEW h, Shape(h), NEW T, StatesOK(h, T), Inward(h), DepthRight(h), Downward(h),
         NEW n, NEW len, Poppable(h, T, n, len)
  PROVE  \E f : /\ Stretch(h, T, n, len, f)
                /\ Chain(h, n, len) = [k \in 1..len+1 |-> f[k-1]]
<1> DEFINE X == Nodes(h)
           G == [p \in (1..len) \X X |-> IF LinkCt(h, p[2]) > 0 THEN Sib(h, p[2], 1) ELSE p[2]]
           Is(f) == f = [k \in 0..len |-> IF k = 0 THEN n ELSE h[f[k-1]].links[1].sib]
<1>1. n \in X /\ len \in Nat
  BY DEF Poppable
<1>2. \A x \in X : LinkCt(h, x) > 0 => Sib(h, x, 1) \in X
  <2> SUFFICES ASSUME NEW x \in X, LinkCt(h, x) > 0 PROVE Sib(h, x, 1) \in X
    OBVIOUS
  <2>1. 1 \in 1..LinkCt(h, x)
    BY ViewsAre
  <2> QED BY <2>1 DEF Inward
<1>3. IsStep(G, len, X)
  BY <1>2 DEF IsStep
<1>4. PICK f : Iterated(f, len, X, n, G)
  <2> HIDE DEF G, X
  <2> QED BY <1>1, <1>3, Iterate
<1>5. f \in [0..len -> X] /\ f[0] = n /\ \A k \in 1..len : f[k] = G[<<k, f[k - 1]>>]
  BY <1>4 DEF Iterated
<1>6. \A k \in 1..len : LinkCt(h, f[k - 1]) > 0 => f[k] = Sib(h, f[k - 1], 1)
  <2> SUFFICES ASSUME NEW k \in 1..len, LinkCt(h, f[k - 1]) > 0 PROVE f[k] = Sib(h, f[k - 1], 1)
    OBVIOUS
  <2> HIDE DEF X
  <2>1. <<k, f[k - 1]>> \in (1..len) \X X
    BY <1>1, <1>5
  <2> QED BY <1>5, <2>1
<1> HIDE DEF G
<1>7. Stretch(h, T, n, len, f)
  <2>1. Climbs(h, f, n, len)
    BY <1>5, <1>6 DEF Climbs
  <2> QED BY <2>1, ClimbIs
<1>8. Is(f)
  <2>1. f = [k \in 0..len |-> f[k]]
    BY <1>5
  <2>2. \A k \in 0..len : f[k] = IF k = 0 THEN n ELSE h[f[k-1]].links[1].sib
    BY <1>1, <1>7 DEF Stretch, Sib
  <2> HIDE DEF X
  <2> QED BY <2>1, <2>2, Zenon
<1> DEFINE c == CHOOSE g : Is(g)
<1>9. Chain(h, n, len) = [k \in 1..len+1 |-> c[k-1]]
  BY Zenon DEF Chain
<1>10. Is(c)
  BY <1>8, Zenon
<1> HIDE DEF c
<1>11. \A k \in 0..len : c[k] = IF k = 0 THEN n ELSE h[c[k-1]].links[1].sib
  BY <1>10, Zenon
<1>12. Climbs(h, c, n, len)
  <2>1. c[0] = n /\ \A k \in 1..len : c[k] = Sib(h, c[k - 1], 1)
    BY <1>1, <1>11 DEF Sib
  <2> QED BY <2>1 DEF Climbs
<1>13. Stretch(h, T, n, len, c)
  BY <1>12, ClimbIs
<1> QED BY <1>9, <1>13

\* It goes down all the way.
LEMMA StretchFalls ==
  ASSUME NEW h, NEW T, NEW n, NEW len \in Nat, NEW f, Stretch(h, T, n, len, f)
  PROVE  \A i, j \in 0..len : i < j => f[j] < f[i]
<1>1. /\ \A k \in 0..len : f[k] \in Nat
      /\ \A k \in 1..len : f[k] < f[k - 1]
  BY DEF Stretch, Nodes
<1> SUFFICES ASSUME NEW i \in 0..len PROVE \A j \in 0..len : i < j => f[j] < f[i]
  OBVIOUS
<1> DEFINE Bad == {j \in 0..len : i < j /\ ~(f[j] < f[i])}
<1>2. Bad = {}
  <2> SUFFICES ASSUME Bad # {} PROVE FALSE
    OBVIOUS
  <2>1. PICK j \in Bad : \A k \in Bad : j <= k
    <3>1. Bad \in SUBSET Nat
      OBVIOUS
    <3> HIDE DEF Bad
    <3> QED BY <3>1, Least
  <2>2. j \in 1..len /\ i < j /\ ~(f[j] < f[i]) /\ j - 1 \in 0..len /\ j - 1 \notin Bad
    BY <2>1
  <2>3. i = j - 1 \/ f[j - 1] < f[i]
    BY <2>2
  <2>4. f[j] < f[j - 1] /\ f[j] \in Nat /\ f[j - 1] \in Nat /\ f[i] \in Nat
    BY <1>1, <2>2
  <2> QED BY <2>2, <2>3, <2>4
<1> QED BY <1>2

\* A node with one link to it.
LEMMA SoleLink ==
  ASSUME NEW h, Shape(h), NEW m, LinksInto(h, Nodes(h), m) = 1,
         NEW x \in Nodes(h), NEW k \in 1..LinkCt(h, x), Sib(h, x, k) = m
  PROVE  \A y \in Nodes(h) : \A j \in 1..LinkCt(h, y) : Sib(h, y, j) = m => y = x /\ j = k
<1> DEFINE A == LinksTo(h, Nodes(h), m)
<1>1. /\ IsFiniteSet(A) /\ Cardinality(A) = 1
      /\ \A e : e \in A <=> \E y \in Nodes(h) : \E j \in 1..LinkCt(h, y) : e = <<y, j>> /\ Sib(h, y, j) = m
  <2>1. Nodes(h) \in SUBSET Nodes(h)
    OBVIOUS
  <2> QED BY <2>1, LinksToIs
<1> HIDE DEF A
<1>2. PICK e : A = {e}
  BY <1>1, FS_Singleton
<1> SUFFICES ASSUME NEW y \in Nodes(h), NEW j \in 1..LinkCt(h, y), Sib(h, y, j) = m
             PROVE  y = x /\ j = k
  OBVIOUS
<1>3. <<x, k>> \in A /\ <<y, j>> \in A
  BY <1>1
<1> QED BY <1>2, <1>3

------------------------
(* Popping a stretch *)

\* Popping: the nodes are freed, no count changes.
LEMMA PopReleases ==
  ASSUME NEW h, Shape(h), NEW F, Part(F, Nodes(h))
  PROVE  Released(h, Pop(h, F), F) /\ SameRefs(h, Pop(h, F))
<1> DEFINE g == Pop(h, F)
<1>1. /\ Len(h) \in Nat /\ DOMAIN h = Nodes(h) /\ \A m \in Nodes(h) : IsNode(h[m])
  BY ShapeIs
<1>2. ASSUME NEW m \in Nodes(h)
      PROVE  /\ IsNode(g[m]) /\ g[m].state = h[m].state /\ g[m].depth = h[m].depth
             /\ g[m].refct = h[m].refct
             /\ m \in F => g[m].live = FALSE /\ g[m].links = <<>>
             /\ m \notin F => g[m] = h[m]
  <2>1. CASE m \notin F
    BY <1>1, <2>1 DEF Pop
  <2>2. CASE m \in F
    <3> DEFINE r == h[m]
               s == <<>>
               q == [r EXCEPT !.live = FALSE, !.links = s]
    <3>1. IsNode(r) /\ g[m] = q /\ IsLinks(s)
      BY <1>1, <2>2, NoLinks DEF Pop
    <3> HIDE DEF s, r
    <3>2. /\ IsNode(q) /\ q.state = r.state /\ q.depth = r.depth
          /\ q.refct = r.refct /\ q.links = s /\ q.live = FALSE
      BY <3>1 DEF IsNode
    <3> HIDE DEF q, g
    <3> QED BY <2>2, <3>1, <3>2 DEF s, r
  <2> QED BY <2>1, <2>2
<1>3. g = [m \in Nodes(h) |-> g[m]]
  BY <1>1 DEF Pop
<1> HIDE DEF g
<1>4. Shape(g) /\ Len(g) = Len(h)
  BY <1>1, <1>2, <1>3, ShapeByIndex DEF Nodes
<1>5. \A m \in Nodes(h) : /\ StateOf(g, m) = StateOf(h, m) /\ DepthOf(g, m) = DepthOf(h, m)
                          /\ RefOf(g, m) = RefOf(h, m)
  BY <1>2 DEF StateOf, DepthOf, RefOf
<1>6. \A m \in Nodes(h) : m \in F => ~IsLive(g, m) /\ LinkCt(g, m) = 0
  BY <1>2, NoLinks DEF LinkCt, IsLive
<1>7. \A m \in Nodes(h) : m \notin F =>
         /\ IsLive(g, m) <=> IsLive(h, m)
         /\ LinkCt(g, m) = LinkCt(h, m)
         /\ \A k \in 1..LinkCt(h, m) : Sib(g, m, k) = Sib(h, m, k) /\ IdOf(g, m, k) = IdOf(h, m, k)
  <2> SUFFICES ASSUME NEW m \in Nodes(h), m \notin F
      PROVE  /\ IsLive(g, m) <=> IsLive(h, m)
             /\ LinkCt(g, m) = LinkCt(h, m)
             /\ \A k \in 1..LinkCt(h, m) : Sib(g, m, k) = Sib(h, m, k) /\ IdOf(g, m, k) = IdOf(h, m, k)
    OBVIOUS
  <2>1. g[m] = h[m]
    BY <1>2
  <2> QED BY <2>1 DEF IsLive, LinkCt, Sib, IdOf
<1>8. Released(h, g, F)
  BY <1>4, <1>5, <1>6, <1>7 DEF Released
<1>9. SameRefs(h, g)
  BY <1>5 DEF SameRefs
<1> QED BY <1>8, <1>9 DEF g

\* the nodes a mini-LR reduction pops
Popped(f, len) == {f[k] : k \in 0..(len - 1)}

\* one reference to n that is not a link
Sole(h, occ, n) == \A m \in Nodes(h) : occ[m] = IF m = n THEN 1 ELSE 0

\* When every node of the stretch is referred to once, nothing else refers to the popped ones,
\* and the node that is uncovered is owed a reference.
LEMMA StretchIsOurs ==
  ASSUME NEW h, Shape(h), NEW T, NEW n, NEW len \in Nat, NEW f, Stretch(h, T, n, len, f),
         NEW occ, Sole(h, occ, n), CountedBy(h, occ),
         \A k \in 0..len : RefOf(h, f[k]) = 1
  PROVE  LET F == Popped(f, len)
         IN  /\ Part(F, Nodes(h)) /\ f[len] \in Nodes(h) \ F /\ IsLive(h, f[len])
             /\ \A m \in F : /\ IsLive(h, m)
                             /\ \A x \in Nodes(h) : \A k \in 1..LinkCt(h, x) : Sib(h, x, k) = m => x \in F
             /\ \A m \in Nodes(h) \ F : IsLive(h, m) =>
                   RefOf(h, m) = LinksInto(h, Nodes(h) \ F, m) + (IF m = f[len] THEN 1 ELSE 0)
<1> DEFINE N == Nodes(h)
           F == Popped(f, len)
<1>1. /\ f[0] = n
      /\ \A k \in 0..len : f[k] \in N /\ IsLive(h, f[k])
      /\ \A k \in 1..len : /\ LinkCt(h, f[k - 1]) = 1 /\ f[k] = Sib(h, f[k - 1], 1)
  BY DEF Stretch
<1>2. \A i, j \in 0..len : i < j => f[j] < f[i]
  BY StretchFalls
<1>3. \A k \in 0..len : f[k] \in Nat
  BY <1>1 DEF Nodes
<1>4. /\ \A m \in F : \E k \in 0..(len - 1) : m = f[k]
      /\ \A k \in 0..(len - 1) : f[k] \in F
  BY DEF Popped
<1>5. \A m \in F : m \in N /\ IsLive(h, m)
  BY <1>1, <1>4
<1>6. f[len] \in N /\ IsLive(h, f[len]) /\ f[len] \notin F
  <2>1. ASSUME f[len] \in F PROVE FALSE
    <3>1. PICK k \in 0..(len - 1) : f[len] = f[k]
      BY <1>4, <2>1
    <3>2. k \in 0..len /\ len \in 0..len /\ k < len
      OBVIOUS
    <3> QED BY <1>2, <1>3, <3>1, <3>2
  <2> QED BY <1>1, <2>1
<1>7. ASSUME NEW k \in 1..len PROVE f[k] # n
  <2>1. f[k] < f[0] /\ f[k] \in Nat /\ f[0] \in Nat
    BY <1>2, <1>3
  <2> QED BY <1>1, <2>1
<1>8. \A m \in N : LinksInto(h, N, m) \in Nat
  BY LinksSplit DEF Part
<1>9. ASSUME NEW k \in 1..len PROVE LinksInto(h, N, f[k]) = 1
  <2>1. k \in 0..len
    OBVIOUS
  <2>2. RefOf(h, f[k]) = LinksInto(h, N, f[k]) + occ[f[k]]
    BY <1>1, <2>1 DEF CountedBy
  <2>3. occ[f[k]] = 0 /\ RefOf(h, f[k]) = 1 /\ LinksInto(h, N, f[k]) \in Nat
    BY <1>1, <1>7, <1>8, <2>1 DEF Sole
  <2> QED BY <2>2, <2>3
<1>10. LinksInto(h, N, n) = 0
  <2>1. 0 \in 0..len /\ n \in N
    BY <1>1
  <2>2. RefOf(h, n) = LinksInto(h, N, n) + occ[n] /\ RefOf(h, n) = 1 /\ occ[n] = 1
    BY <1>1, <2>1 DEF CountedBy, Sole
  <2> QED BY <1>8, <2>1, <2>2
<1>11. \A k \in 1..len : \A x \in N : \A j \in 1..LinkCt(h, x) : Sib(h, x, j) = f[k] => x \in F
  <2> SUFFICES ASSUME NEW k \in 1..len, NEW x \in N, NEW j \in 1..LinkCt(h, x), Sib(h, x, j) = f[k]
      PROVE  x \in F
    OBVIOUS
  <2>1. k - 1 \in 0..(len - 1) /\ k - 1 \in 0..len
    OBVIOUS
  <2> DEFINE y == f[k - 1]
  <2>2. y \in N /\ y \in F /\ 1 \in 1..LinkCt(h, y) /\ Sib(h, y, 1) = f[k]
    BY <1>1, <1>4, <2>1
  <2>3. LinksInto(h, Nodes(h), f[k]) = 1
    BY <1>9
  <2> HIDE DEF y, F
  <2>4. x = y
    BY <2>2, <2>3, SoleLink
  <2> QED BY <2>2, <2>4
<1>12. \A x \in N : \A j \in 1..LinkCt(h, x) : Sib(h, x, j) # n
  <2>1. Part(N, Nodes(h))
    BY DEF Part
  <2> HIDE DEF N
  <2> QED BY <1>10, <2>1, NoLinksInto
<1>13. \A m \in F : \A x \in N : \A k \in 1..LinkCt(h, x) : Sib(h, x, k) = m => x \in F
  <2> SUFFICES ASSUME NEW m \in F, NEW x \in N, NEW j \in 1..LinkCt(h, x), Sib(h, x, j) = m PROVE x \in F
    OBVIOUS
  <2>1. PICK k \in 0..(len - 1) : m = f[k]
    BY <1>4
  <2>2. CASE k = 0
    BY <1>1, <1>12, <2>1, <2>2
  <2>3. CASE k # 0
    <3>1. k \in 1..len
      BY <2>3
    <3> HIDE DEF F
    <3> QED BY <1>11, <2>1, <3>1
  <2> QED BY <2>2, <2>3
<1>14. Part(F, N) /\ Part(N, Nodes(h)) /\ Part(F, Nodes(h)) /\ Part(N \ F, Nodes(h))
  BY <1>5 DEF Part
<1> HIDE DEF F
<1>15. ASSUME NEW m
       PROVE  /\ LinksInto(h, N, m) = LinksInto(h, F, m) + LinksInto(h, N \ F, m)
              /\ LinksInto(h, F, m) \in Nat /\ LinksInto(h, N \ F, m) \in Nat
  <2>1. Part(F, N) /\ Part(N, Nodes(h))
    BY <1>14
  <2> HIDE DEF N
  <2>2. /\ LinksInto(h, N, m) = LinksInto(h, F, m) + LinksInto(h, N \ F, m)
        /\ LinksInto(h, N, m) \in Nat /\ LinksInto(h, F, m) \in Nat /\ LinksInto(h, N \ F, m) \in Nat
    BY <2>1, LinksSplit
  <2> QED BY <2>2
<1>16. ASSUME NEW m \in N \ F, IsLive(h, m)
       PROVE  RefOf(h, m) = LinksInto(h, N \ F, m) + (IF m = f[len] THEN 1 ELSE 0)
  <2>1. RefOf(h, m) = LinksInto(h, N, m) + occ[m]
    BY <1>16 DEF CountedBy
  <2>2. CASE m = f[len] /\ len = 0
    <3>1. m = n /\ occ[m] = 1
      BY <1>1, <1>16, <2>2 DEF Sole
    <3>2. LinksInto(h, N \ F, m) = 0
      <4>1. /\ LinksInto(h, N, m) = LinksInto(h, F, m) + LinksInto(h, N \ F, m)
            /\ LinksInto(h, F, m) \in Nat /\ LinksInto(h, N \ F, m) \in Nat
        BY <1>15
      <4>2. LinksInto(h, N, m) = 0
        BY <1>10, <3>1
      <4> HIDE DEF N
      <4> QED BY <4>1, <4>2
    <3>3. LinksInto(h, N, m) = 0
      BY <1>10, <3>1
    <3> HIDE DEF N
    <3> QED BY <2>1, <2>2, <3>1, <3>2, <3>3
  <2>3. CASE m = f[len] /\ len # 0
    <3>1. len \in 1..len
      BY <2>3
    <3>2. occ[m] = 0
      BY <1>7, <1>16, <2>3, <3>1 DEF Sole
    <3>3. LinksInto(h, N \ F, m) = 0
      <4>1. \A x \in N \ F : \A j \in 1..LinkCt(h, x) : Sib(h, x, j) # m
        BY <1>11, <2>3, <3>1
      <4> DEFINE U == N \ F
      <4>2. Part(U, Nodes(h)) /\ \A x \in U : \A j \in 1..LinkCt(h, x) : Sib(h, x, j) # m
        BY <1>14, <4>1
      <4> HIDE DEF U
      <4>3. LinksInto(h, U, m) = 0
        BY <4>2, NoLinksInto
      <4> QED BY <4>3 DEF U
    <3>4. LinksInto(h, N, m) = 1
      BY <1>9, <2>3, <3>1
    <3> HIDE DEF N
    <3> QED BY <2>1, <2>3, <3>2, <3>3, <3>4
  <2>4. CASE m # f[len]
    <3>1. m # n
      <4>1. CASE len = 0
        BY <1>1, <2>4, <4>1
      <4>2. CASE len # 0
        <5>1. 0 \in 0..(len - 1)
          BY <4>2
        <5> QED BY <1>1, <1>4, <1>16, <5>1
      <4> QED BY <4>1, <4>2
    <3>2. occ[m] = 0
      BY <1>16, <3>1 DEF Sole
    <3>3. LinksInto(h, F, m) = 0
      <4>1. ASSUME NEW x \in F, NEW j \in 1..LinkCt(h, x) PROVE Sib(h, x, j) # m
        <5>1. PICK k \in 0..(len - 1) : x = f[k]
          BY <1>4
        <5>2. k + 1 \in 1..len /\ k + 1 - 1 = k /\ (k + 1 = len \/ k + 1 \in 0..(len - 1))
          OBVIOUS
        <5>3. LinkCt(h, f[k]) = 1 /\ f[k + 1] = Sib(h, f[k], 1)
          BY <1>1, <5>2
        <5>4. j = 1
          BY <5>1, <5>3
        <5>5. f[k + 1] = f[len] \/ f[k + 1] \in F
          BY <1>4, <5>2
        <5> QED BY <1>16, <2>4, <5>1, <5>3, <5>4, <5>5
      <4> QED BY <1>14, <4>1, NoLinksInto
    <3>4. /\ LinksInto(h, N, m) = LinksInto(h, F, m) + LinksInto(h, N \ F, m)
          /\ LinksInto(h, N \ F, m) \in Nat
      BY <1>15
    <3> HIDE DEF N
    <3> QED BY <2>1, <2>4, <3>2, <3>3, <3>4
  <2> QED BY <2>2, <2>3, <2>4
<1>17. /\ Part(F, N) /\ f[len] \in N \ F /\ IsLive(h, f[len])
       /\ \A m \in F : /\ IsLive(h, m)
                       /\ \A x \in N : \A k \in 1..LinkCt(h, x) : Sib(h, x, k) = m => x \in F
       /\ \A m \in N \ F : IsLive(h, m) =>
             RefOf(h, m) = LinksInto(h, N \ F, m) + (IF m = f[len] THEN 1 ELSE 0)
  BY <1>5, <1>6, <1>13, <1>14, <1>16
<1> QED BY <1>17 DEF F

------------------------
(* Recomputing the depths *)

\* computeDeterminDepth
DepthFrom(h, d, n) ==
    IF LinkCt(h, n) = 0 THEN 1 ELSE IF LinkCt(h, n) = 1 THEN d[Sib(h, n, 1)] + 1 ELSE 0

\* parsers are in the order in which they were made
Increasing(list) == \A i, j \in 1..Len(list) : i < j => list[i] < list[j]

\* the place on a list of L that the i-th step looks at
Place(i, L) == ((i - 1) % L) + 1

\* The i-th step of the passes looks at a place of the list, the first pass at each in turn.
LEMMA PlaceIs ==
  ASSUME NEW L \in Nat \ {0}, NEW i \in Nat \ {0}
  PROVE  Place(i, L) \in 1..L /\ (i <= L => Place(i, L) = i)
<1>1. i - 1 \in Nat /\ L > 0 /\ L \in Nat
  OBVIOUS
<1> DEFINE k == i - 1
<1>2. k % L \in 0..(L - 1)
  <2> HIDE DEF k
  <2> QED BY <1>1 DEF k
<1>3. k < L => k % L = k
  <2> HIDE DEF k
  <2> QED BY <1>1 DEF k
<1> QED BY <1>1, <1>2, <1>3 DEF Place

\* There are at least as many steps as places.
LEMMA Passes ==
  ASSUME NEW L \in Nat
  PROVE  L * (L + 1) \in Nat /\ L <= L * (L + 1)
<1>1. L * L \in Nat /\ L * (L + 1) = L * L + L
  OBVIOUS
<1> QED BY <1>1

\* The passes leave the depths of the list as computeDeterminDepth wants them.
LEMMA SettledIs ==
  ASSUME NEW h, Shape(h), Inward(h), Downward(h),
         NEW list, list \in Seq(Nodes(h)), Increasing(list)
  PROVE  LET d == SettledDepths(h, list)
         IN  /\ \A n \in Nodes(h) : d[n] \in Int
             /\ \A n \in Nodes(h) : n \notin ToSet(list) => d[n] = DepthOf(h, n)
             /\ \A n \in ToSet(list) : d[n] = DepthFrom(h, d, n)
<1> DEFINE N == Nodes(h)
           L == Len(list)
           M == L * (L + 1)
           X == [N -> Int]
           at(i) == list[((i - 1) % Len(list)) + 1]
           G == [p \in (1..M) \X X |-> [p[2] EXCEPT ![at(p[1])] = DepthFrom(h, p[2], at(p[1]))]]
           x0 == Depths(h)
           revised(d, n) == [d EXCEPT ![n] = DeterminDepth(h, d, n)]
           Is(f) == f = [i \in 0..(Len(list) * (Len(list) + 1)) |->
                           IF i = 0 THEN Depths(h) ELSE revised(f[i-1], at(i))]
<1>1. L \in Nat /\ M \in Nat /\ L <= M /\ \A j \in 1..L : list[j] \in N
  BY Passes
<1>2. ASSUME NEW n \in N
      PROVE  /\ LinkCt(h, n) \in Nat /\ DepthOf(h, n) \in Int
             /\ LinkCt(h, n) = 1 => Sib(h, n, 1) \in N /\ Sib(h, n, 1) < n
  <2>1. LinkCt(h, n) = 1 => 1 \in 1..LinkCt(h, n)
    OBVIOUS
  <2> QED BY <2>1, ViewsAre DEF Inward, Downward
<1>3. \A i \in 1..M : L # 0 /\ i \in Nat \ {0}
  <2> SUFFICES ASSUME NEW i \in 1..M PROVE L # 0
    BY <1>1
  <2>1. L = 0 => M = 0
    BY <1>1
  <2> HIDE DEF M, L
  <2> QED BY <1>1, <2>1
<1>4. ASSUME NEW i \in 1..M PROVE \E j \in 1..L : at(i) = list[j] /\ (i <= L => j = i)
  <2>1. at(i) = list[Place(i, L)]
    BY DEF Place
  <2> HIDE DEF at, M, L
  <2>2. Place(i, L) \in 1..L /\ (i <= L => Place(i, L) = i)
    BY <1>1, <1>3, PlaceIs
  <2> QED BY <2>1, <2>2
<1>5. \A d \in X : \A n \in N : DepthFrom(h, d, n) \in Int
  BY <1>2 DEF DepthFrom
<1>6. ASSUME NEW d, NEW n \in N PROVE DeterminDepth(h, d, n) = DepthFrom(h, d, n)
  <2> QED BY DEF DeterminDepth, DepthFrom, LinkCt, Sib
<1>7. x0 \in X /\ \A n \in N : x0[n] = DepthOf(h, n)
  BY <1>2, ShapeIs DEF Depths, DepthOf
<1> HIDE DEF at, M, L, x0
<1>8. \A i \in 1..M : at(i) \in N
  BY <1>1, <1>4
<1>9. IsStep(G, M, X)
  BY <1>5, <1>8 DEF IsStep
<1>10. PICK f : Iterated(f, M, X, x0, G)
  <2> HIDE DEF G, X
  <2> QED BY <1>1, <1>7, <1>9, Iterate
<1>11. f \in [0..M -> X] /\ f[0] = x0 /\ \A k \in 1..M : f[k] = G[<<k, f[k - 1]>>]
  BY <1>10 DEF Iterated
<1>12. ASSUME NEW k \in 1..M PROVE f[k] = revised(f[k - 1], at(k))
  <2> DEFINE d == f[k - 1]
  <2>1. d \in X
    BY <1>1, <1>11
  <2> HIDE DEF d, X
  <2>2. <<k, d>> \in (1..M) \X X
    BY <2>1
  <2>3. f[k] = [d EXCEPT ![at(k)] = DepthFrom(h, d, at(k))]
    BY <1>11, <2>2 DEF d
  <2>4. DepthFrom(h, d, at(k)) = DeterminDepth(h, d, at(k))
    BY <1>6, <1>8
  <2> QED BY <2>3, <2>4 DEF d
<1> HIDE DEF G, revised
<1>13. Is(f)
  <2>1. f = [i \in 0..M |-> f[i]]
    BY <1>11
  <2>2. ASSUME NEW i \in 0..M PROVE f[i] = IF i = 0 THEN Depths(h) ELSE revised(f[i-1], at(i))
    <3>1. i = 0 \/ i \in 1..M
      BY <1>1
    <3>2. f[0] = Depths(h)
      BY <1>11 DEF x0
    <3>3. i \in 1..M => f[i] = revised(f[i - 1], at(i)) /\ i # 0
      BY <1>1, <1>12
    <3> HIDE DEF X
    <3> QED BY <3>1, <3>2, <3>3
  <2>3. f = [i \in 0..M |-> IF i = 0 THEN Depths(h) ELSE revised(f[i-1], at(i))]
    <3> HIDE DEF X
    <3> QED BY <2>1, <2>2, Zenon
  <2> QED BY <2>3 DEF M, L
<1> DEFINE c == CHOOSE g : Is(g)
<1>14. SettledDepths(h, list) = c[M]
  BY Zenon DEF SettledDepths, at, M, L, revised
<1>15. Is(c)
  BY <1>13, Zenon
<1> HIDE DEF c
<1>16. \A i \in 0..M : c[i] = IF i = 0 THEN Depths(h) ELSE revised(c[i-1], at(i))
  <2> QED BY <1>15, Zenon DEF M, L
<1> HIDE DEF Is
<1> DEFINE Good(i) == /\ c[i] \in X
                      /\ \A n \in N : n \notin ToSet(list) => c[i][n] = DepthOf(h, n)
                      /\ \A j \in 1..L : j <= i => c[i][list[j]] = DepthFrom(h, c[i], list[j])
           Bad == {i \in 0..M : ~Good(i)}
<1>17. Good(0)
  <2>1. c[0] = x0
    <3>1. 0 \in 0..M
      BY <1>1
    <3> QED BY <1>16, <3>1 DEF x0
  <2> QED BY <1>1, <1>7, <2>1
<1>18. ASSUME NEW i \in 1..M, Good(i - 1) PROVE Good(i)
  <2> DEFINE d == c[i - 1]
             n == at(i)
             e == c[i]
  <2>1. e = revised(d, n) /\ n \in N
    <3>1. i \in 0..M /\ i # 0
      BY <1>1
    <3> QED BY <1>8, <1>16, <3>1
  <2>2. /\ d \in X
        /\ \A m \in N : m \notin ToSet(list) => d[m] = DepthOf(h, m)
        /\ \A j \in 1..L : j <= i - 1 => d[list[j]] = DepthFrom(h, d, list[j])
    BY <1>18
  <2>3. PICK k \in 1..L : n = list[k] /\ (i <= L => k = i)
    BY <1>4
  <2> HIDE DEF d, n, e, X
  <2>4. e = [d EXCEPT ![n] = DepthFrom(h, d, n)]
    BY <1>6, <2>1 DEF revised
  <2>5. e \in X /\ e[n] = DepthFrom(h, d, n) /\ \A m \in N : m # n => e[m] = d[m]
    BY <1>5, <2>1, <2>2, <2>4 DEF X
  <2>6. n \in ToSet(list)
    BY <2>3 DEF ToSet, L
  <2>7. \A m \in N : m \notin ToSet(list) => e[m] = DepthOf(h, m)
    BY <2>2, <2>5, <2>6
  <2>8. \A j \in 1..L : j <= i => e[list[j]] = DepthFrom(h, e, list[j])
    <3> SUFFICES ASSUME NEW j \in 1..L, j <= i PROVE e[list[j]] = DepthFrom(h, e, list[j])
      OBVIOUS
    <3> DEFINE m == list[j]
               s == Sib(h, m, 1)
    <3>1. m \in N /\ list[k] \in N
      BY <1>1
    <3>2. \A a, b \in 1..L : a < b => list[a] < list[b]
      BY DEF Increasing, L
    <3>3. m \in Nat /\ n \in Nat
      BY <2>3, <3>1 DEF Nodes
    \* its sibling's depth stays
    <3>4. LinkCt(h, m) = 1 => e[s] = d[s]
      <4> SUFFICES ASSUME LinkCt(h, m) = 1, s = n PROVE e[n] = d[n]
        BY <1>2, <2>5, <3>1
      <4>1. n < m
        BY <1>2, <3>1
      <4>2. ~(j <= k)
        <5>1. j = k => m = n
          BY <2>3
        <5>2. j < k => m < n
          BY <2>3, <3>2
        <5> QED BY <1>1, <3>3, <4>1, <5>1, <5>2
      <4>3. k < j /\ k # i
        BY <1>1, <4>2
      <4>4. ~(i <= L)
        BY <2>3, <4>3
      <4>5. k <= i - 1 /\ j <= i - 1
        BY <1>1, <4>4
      <4>6. d[n] = DepthFrom(h, d, n)
        BY <2>2, <2>3, <4>5
      <4>7. e[n] = d[n]
        BY <2>5, <4>6
      <4> QED BY <4>7
    <3>5. DepthFrom(h, e, m) = DepthFrom(h, d, m)
      BY <3>4 DEF DepthFrom
    <3>6. CASE m = n
      BY <2>5, <3>5, <3>6
    <3>7. CASE m # n
      <4>1. j # k
        BY <2>3, <3>7
      <4>2. j <= i - 1
        BY <1>1, <2>3, <4>1
      <4>3. d[m] = DepthFrom(h, d, m)
        BY <2>2, <4>2
      <4> QED BY <2>5, <3>1, <3>5, <3>7, <4>3
    <3> QED BY <3>6, <3>7
  <2> QED BY <2>5, <2>7, <2>8 DEF e
<1>19. Bad = {}
  <2> SUFFICES ASSUME Bad # {} PROVE FALSE
    OBVIOUS
  <2>1. PICK i \in Bad : \A j \in Bad : i <= j
    <3>1. Bad \in SUBSET Nat
      BY <1>1
    <3> HIDE DEF Bad
    <3> QED BY <3>1, Least
  <2> HIDE DEF Good
  <2>2. i \in 1..M /\ i - 1 \in 0..M /\ i - 1 \notin Bad /\ ~Good(i)
    BY <1>1, <1>17, <2>1
  <2>3. Good(i - 1)
    BY <2>2
  <2> QED BY <1>18, <2>2, <2>3
<1>20. Good(M)
  BY <1>1, <1>19
<1>21. /\ \A n \in N : c[M][n] \in Int
       /\ \A n \in N : n \notin ToSet(list) => c[M][n] = DepthOf(h, n)
       /\ \A n \in ToSet(list) : c[M][n] = DepthFrom(h, c[M], n)
  <2>1. \A n \in ToSet(list) : \E j \in 1..L : n = list[j]
    BY <1>1 DEF ToSet, L
  <2>2. \A j \in 1..L : j <= M
    BY <1>1
  <2> HIDE DEF M
  <2> QED BY <1>20, <2>1, <2>2
<1> QED BY <1>14, <1>21

------------------------
(* What every graph of the parser's is like *)

\* a node has one link per sibling
SibsDiffer(h) ==
    \A n \in Nodes(h) : \A j, k \in 1..LinkCt(h, n) : Sib(h, n, j) = Sib(h, n, k) => j = k

GraphOK(h, T) ==
    /\ Shape(h) /\ DeadBare(h) /\ Inward(h) /\ Downward(h) /\ DepthRight(h)
    /\ SibsDiffer(h) /\ StatesOK(h, T)

\* only nodes of S link to nodes of S
Closed(h, S) ==
    \A n \in Nodes(h) : \A k \in 1..LinkCt(h, n) : Sib(h, n, k) \in S => n \in S

\* A graph with the same nodes and links, perhaps counts and depths.
LEMMA SameKeeps ==
  ASSUME NEW h, Shape(h), NEW g, SameLinks(h, g)
  PROVE  /\ \A T : GraphOK(h, T) /\ SameDepths(h, g) => GraphOK(g, T)
         /\ \A occ : CountedBy(h, occ) /\ SameRefs(h, g) => CountedBy(g, occ)
         /\ Held(h) /\ SameRefs(h, g) => Held(g)
         /\ \A S : Closed(h, S) => Closed(g, S)
<1>1. /\ Shape(g) /\ Nodes(g) = Nodes(h)
      /\ \A m \in Nodes(h) :
          /\ StateOf(g, m) = StateOf(h, m) /\ (IsLive(g, m) <=> IsLive(h, m))
          /\ LinkCt(g, m) = LinkCt(h, m)
          /\ \A k \in 1..LinkCt(h, m) : Sib(g, m, k) = Sib(h, m, k)
  BY DEF SameLinks, Nodes
<1>2. ASSUME NEW T, GraphOK(h, T), SameDepths(h, g) PROVE GraphOK(g, T)
  <2>0. /\ DeadBare(h) /\ Inward(h) /\ Downward(h) /\ DepthRight(h) /\ SibsDiffer(h) /\ StatesOK(h, T)
    BY <1>2 DEF GraphOK
  <2>8. \A m \in Nodes(h) : LinkCt(h, m) \in Nat
    BY ViewsAre
  <2>9. \A m \in Nodes(h) : LinkCt(h, m) > 0 => 1 \in 1..LinkCt(h, m)
    BY <2>8
  <2>1. DeadBare(g)
    BY <1>1, <2>0 DEF DeadBare
  <2>2. Inward(g)
    BY <1>1, <2>0 DEF Inward
  <2>3. Downward(g)
    <3> SUFFICES ASSUME NEW m \in Nodes(h), LinkCt(h, m) > 0 PROVE Sib(g, m, 1) < m
      BY <1>1 DEF Downward
    <3> QED BY <1>1, <2>0, <2>9 DEF Downward
  <2>4. DepthRight(g)
    <3> SUFFICES ASSUME NEW m \in Nodes(h), IsLive(h, m)
        PROVE DepthOf(g, m) = IF LinkCt(h, m) = 0 THEN 1
                              ELSE IF LinkCt(h, m) = 1 THEN DepthOf(g, Sib(g, m, 1)) + 1 ELSE 0
      BY <1>1 DEF DepthRight
    <3>1. DepthOf(h, m) = IF LinkCt(h, m) = 0 THEN 1
                          ELSE IF LinkCt(h, m) = 1 THEN DepthOf(h, Sib(h, m, 1)) + 1 ELSE 0
      BY <2>0 DEF DepthRight
    <3>2. \A x \in Nodes(h) : DepthOf(g, x) = DepthOf(h, x)
      BY <1>2 DEF SameDepths
    <3>3. LinkCt(h, m) = 1 => Sib(g, m, 1) = Sib(h, m, 1) /\ Sib(h, m, 1) \in Nodes(h)
      <4>1. LinkCt(h, m) = 1 => 1 \in 1..LinkCt(h, m)
        OBVIOUS
      <4> QED BY <1>1, <2>0, <4>1 DEF Inward
    <3> QED BY <3>1, <3>2, <3>3
  <2>5. SibsDiffer(g)
    BY <1>1, <2>0 DEF SibsDiffer
  <2>6. StatesOK(g, T)
    <3> SUFFICES ASSUME NEW m \in Nodes(h), IsLive(h, m)
        PROVE /\ StateOf(h, m) \in States(T)
              /\ LinkCt(h, m) = 0 => StateOf(h, m) = T.start
              /\ \A k \in 1..LinkCt(h, m) : LeadsTo(T, StateOf(g, Sib(g, m, k)), StateOf(h, m))
      BY <1>1 DEF StatesOK
    <3>1. \A k \in 1..LinkCt(h, m) : StateOf(g, Sib(g, m, k)) = StateOf(h, Sib(h, m, k))
      BY <1>1, <2>0 DEF Inward
    <3> QED BY <2>0, <3>1 DEF StatesOK
  <2> QED BY <1>1, <2>1, <2>2, <2>3, <2>4, <2>5, <2>6 DEF GraphOK
<1>3. ASSUME NEW occ, CountedBy(h, occ), SameRefs(h, g) PROVE CountedBy(g, occ)
  <2>1. \A m : LinksInto(g, Nodes(g), m) = LinksInto(h, Nodes(h), m)
    BY <1>1, SameLinksTo
  <2> QED BY <1>1, <1>3, <2>1 DEF CountedBy, SameRefs
<1>4. Held(h) /\ SameRefs(h, g) => Held(g)
  BY <1>1 DEF Held, SameRefs
<1>5. \A S : Closed(h, S) => Closed(g, S)
  BY <1>1 DEF Closed
<1> QED BY <1>2, <1>3, <1>4, <1>5

\* The depths are right but perhaps at nodes of S.
RightBut(h, S) ==
    \A n \in Nodes(h) : IsLive(h, n) /\ n \notin S =>
        DepthOf(h, n) = IF LinkCt(h, n) = 0 THEN 1
                        ELSE IF LinkCt(h, n) = 1 THEN DepthOf(h, Sib(h, n, 1)) + 1 ELSE 0

\* Recomputing the depths of the topmost parsers makes all of them right, because only topmost
\* parsers link to topmost parsers.
LEMMA Recomputed ==
  ASSUME NEW h, Shape(h), Inward(h), Downward(h),
         NEW list, list \in Seq(Nodes(h)), Increasing(list),
         Closed(h, ToSet(list)), RightBut(h, ToSet(list))
  PROVE  LET g == RecomputeDepths(h, list)
         IN  SameLinks(h, g) /\ SameRefs(h, g) /\ SameIds(h, g) /\ DepthRight(g)
<1> DEFINE d == SettledDepths(h, list)
           g == RecomputeDepths(h, list)
           S == ToSet(list)
<1>1. /\ \A n \in Nodes(h) : d[n] \in Int
      /\ \A n \in Nodes(h) : n \notin S => d[n] = DepthOf(h, n)
      /\ \A n \in S : d[n] = DepthFrom(h, d, n)
  BY SettledIs
<1>2. g = [n \in DOMAIN h |-> [h[n] EXCEPT !.depth = d[n]]]
  BY DEF RecomputeDepths
<1> HIDE DEF d, g, S
<1>3. /\ SameLinks(h, g) /\ SameRefs(h, g) /\ SameIds(h, g)
      /\ \A n \in Nodes(h) : DepthOf(g, n) = d[n]
  BY <1>1, <1>2, DepthsSet
<1>4. DepthRight(g)
  <2>1. /\ Nodes(g) = Nodes(h)
        /\ \A m \in Nodes(h) :
             /\ (IsLive(g, m) <=> IsLive(h, m)) /\ LinkCt(g, m) = LinkCt(h, m)
             /\ \A k \in 1..LinkCt(h, m) : Sib(g, m, k) = Sib(h, m, k)
    BY <1>3 DEF SameLinks, Nodes
  <2> SUFFICES ASSUME NEW n \in Nodes(h), IsLive(h, n)
      PROVE  DepthOf(g, n) = IF LinkCt(h, n) = 0 THEN 1
                             ELSE IF LinkCt(h, n) = 1 THEN DepthOf(g, Sib(g, n, 1)) + 1 ELSE 0
    BY <2>1 DEF DepthRight
  <2>2. LinkCt(h, n) = 1 => /\ Sib(g, n, 1) = Sib(h, n, 1) /\ Sib(h, n, 1) \in Nodes(h)
                            /\ n \notin S => Sib(h, n, 1) \notin S
    <3>1. LinkCt(h, n) = 1 => 1 \in 1..LinkCt(h, n)
      OBVIOUS
    <3> QED BY <2>1, <3>1 DEF Inward, Closed, S
  <2>3. CASE n \in S
    <3>1. DepthOf(g, n) = IF LinkCt(h, n) = 0 THEN 1
                          ELSE IF LinkCt(h, n) = 1 THEN d[Sib(h, n, 1)] + 1 ELSE 0
      BY <1>1, <1>3, <2>3 DEF DepthFrom
    <3>2. LinkCt(h, n) = 1 => d[Sib(h, n, 1)] = DepthOf(g, Sib(g, n, 1))
      BY <1>3, <2>2
    <3> QED BY <3>1, <3>2
  <2>4. CASE n \notin S
    <3>1. DepthOf(g, n) = IF LinkCt(h, n) = 0 THEN 1
                          ELSE IF LinkCt(h, n) = 1 THEN DepthOf(h, Sib(h, n, 1)) + 1 ELSE 0
      BY <1>1, <1>3, <2>4 DEF RightBut, S
    <3>2. LinkCt(h, n) = 1 => DepthOf(h, Sib(h, n, 1)) = DepthOf(g, Sib(g, n, 1))
      BY <1>1, <1>3, <2>2, <2>4
    <3> QED BY <3>1, <3>2
  <2> QED BY <2>3, <2>4
<1> QED BY <1>3, <1>4 DEF g

\* Nodes that nothing else refers to are released.
LEMMA ReleasedKeeps ==
  ASSUME NEW h, NEW T, GraphOK(h, T), NEW g, NEW F, F \in SUBSET Nodes(h), Released(h, g, F),
         \A m \in F : \A x \in Nodes(h) : \A k \in 1..LinkCt(h, x) : Sib(h, x, k) = m => x \in F
  PROVE  GraphOK(g, T) /\ \A S : Closed(h, S) => Closed(g, S)
<1>1. /\ Shape(g) /\ Nodes(g) = Nodes(h)
      /\ \A m \in Nodes(h) :
          /\ StateOf(g, m) = StateOf(h, m) /\ DepthOf(g, m) = DepthOf(h, m)
          /\ m \in F => ~IsLive(g, m) /\ LinkCt(g, m) = 0
          /\ m \notin F => /\ IsLive(g, m) <=> IsLive(h, m)
                           /\ LinkCt(g, m) = LinkCt(h, m)
                           /\ \A k \in 1..LinkCt(h, m) : Sib(g, m, k) = Sib(h, m, k)
  BY DEF Released, Nodes
<1>2. /\ DeadBare(h) /\ Inward(h) /\ Downward(h) /\ DepthRight(h) /\ SibsDiffer(h) /\ StatesOK(h, T)
      /\ Shape(h)
  BY DEF GraphOK
<1>3. \A m \in Nodes(h) : m \in F => \A k : k \notin 1..LinkCt(g, m)
  BY <1>1
\* the siblings of nodes that stay, stay
<1>4. ASSUME NEW m \in Nodes(h), NEW k \in 1..LinkCt(g, m)
      PROVE  /\ m \notin F /\ k \in 1..LinkCt(h, m) /\ Sib(g, m, k) = Sib(h, m, k)
             /\ Sib(h, m, k) \in Nodes(h) /\ Sib(h, m, k) \notin F /\ IsLive(g, Sib(h, m, k))
  <2>1. m \notin F /\ k \in 1..LinkCt(h, m) /\ Sib(g, m, k) = Sib(h, m, k)
    BY <1>1, <1>3
  <2>2. Sib(h, m, k) \in Nodes(h) /\ IsLive(h, Sib(h, m, k))
    BY <1>2, <2>1 DEF Inward
  <2>3. Sib(h, m, k) \notin F
    BY <2>1
  <2> QED BY <1>1, <2>1, <2>2, <2>3
<1>5. \A m \in Nodes(g) : LinkCt(g, m) \in Nat
  BY <1>1, ViewsAre
<1>6. DeadBare(g)
  BY <1>1, <1>2 DEF DeadBare
<1>7. Inward(g)
  BY <1>1, <1>4 DEF Inward
<1>8. Downward(g)
  <2> SUFFICES ASSUME NEW m \in Nodes(h), LinkCt(g, m) > 0 PROVE Sib(g, m, 1) < m
    BY <1>1 DEF Downward
  <2>1. 1 \in 1..LinkCt(g, m)
    BY <1>1, <1>5
  <2>2. m \notin F /\ LinkCt(h, m) > 0 /\ Sib(g, m, 1) = Sib(h, m, 1)
    BY <1>1, <1>4, <2>1
  <2> QED BY <1>2, <2>2 DEF Downward
<1>9. DepthRight(g)
  <2> SUFFICES ASSUME NEW m \in Nodes(h), IsLive(g, m)
      PROVE  DepthOf(g, m) = IF LinkCt(g, m) = 0 THEN 1
                             ELSE IF LinkCt(g, m) = 1 THEN DepthOf(g, Sib(g, m, 1)) + 1 ELSE 0
    BY <1>1 DEF DepthRight
  <2>1. m \notin F /\ IsLive(h, m) /\ LinkCt(g, m) = LinkCt(h, m) /\ DepthOf(g, m) = DepthOf(h, m)
    BY <1>1
  <2>2. DepthOf(h, m) = IF LinkCt(h, m) = 0 THEN 1
                        ELSE IF LinkCt(h, m) = 1 THEN DepthOf(h, Sib(h, m, 1)) + 1 ELSE 0
    BY <1>2, <2>1 DEF DepthRight
  <2>3. LinkCt(h, m) = 1 => DepthOf(h, Sib(h, m, 1)) = DepthOf(g, Sib(g, m, 1))
    <3>1. LinkCt(h, m) = 1 => 1 \in 1..LinkCt(g, m)
      BY <2>1
    <3> QED BY <1>1, <1>4, <3>1
  <2> QED BY <2>1, <2>2, <2>3
<1>10. SibsDiffer(g)
  <2> SUFFICES ASSUME NEW m \in Nodes(h), NEW j \in 1..LinkCt(g, m), NEW k \in 1..LinkCt(g, m),
                      Sib(g, m, j) = Sib(g, m, k)
      PROVE  j = k
    BY <1>1 DEF SibsDiffer
  <2> QED BY <1>2, <1>4 DEF SibsDiffer
<1>11. StatesOK(g, T)
  <2> SUFFICES ASSUME NEW m \in Nodes(h), IsLive(g, m)
        PROVE /\ StateOf(g, m) \in States(T)
              /\ LinkCt(g, m) = 0 => StateOf(g, m) = T.start
              /\ \A k \in 1..LinkCt(g, m) : LeadsTo(T, StateOf(g, Sib(g, m, k)), StateOf(g, m))
    BY <1>1 DEF StatesOK
  <2>1. m \notin F /\ IsLive(h, m) /\ LinkCt(g, m) = LinkCt(h, m) /\ StateOf(g, m) = StateOf(h, m)
    BY <1>1
  <2>2. \A k \in 1..LinkCt(g, m) : StateOf(g, Sib(g, m, k)) = StateOf(h, Sib(h, m, k))
    BY <1>1, <1>4
  <2> QED BY <1>2, <2>1, <2>2 DEF StatesOK
<1>12. ASSUME NEW S, Closed(h, S) PROVE Closed(g, S)
  BY <1>1, <1>4, <1>12 DEF Closed
<1> QED BY <1>1, <1>6, <1>7, <1>8, <1>9, <1>10, <1>11, <1>12 DEF GraphOK

------------------------
(* New nodes and new links keep the graph right *)

\* The number of links to a node is a number.
LEMMA LinksAreNat ==
  ASSUME NEW h, Shape(h)
  PROVE  \A m : LinksInto(h, Nodes(h), m) \in Nat
<1> SUFFICES ASSUME NEW m PROVE LinksInto(h, Nodes(h), m) \in Nat
  OBVIOUS
<1> DEFINE N == Nodes(h)
<1>1. Part(N, Nodes(h)) /\ Part(N, N)
  BY DEF Part
<1> HIDE DEF N
<1>2. LinksInto(h, N, m) \in Nat
  BY <1>1, LinksSplit
<1> QED BY <1>2 DEF N

\* A new node on top of a live one.
LEMMA NodePushedKeeps ==
  ASSUME NEW h, NEW T, GraphOK(h, T), NEW g, NEW state, NEW left, NEW id, NEW b,
         NodePushed(h, g, state, left, id, b),
         left \in Nodes(h), IsLive(h, left), state \in States(T), LeadsTo(T, StateOf(h, left), state)
  PROVE  GraphOK(g, T) /\ \A S : Closed(h, S) => Closed(g, S \cup {Len(h) + 1})
<1> DEFINE n == Len(h) + 1
           N == Nodes(h)
<1>1. /\ DeadBare(h) /\ Inward(h) /\ Downward(h) /\ DepthRight(h) /\ SibsDiffer(h) /\ StatesOK(h, T)
      /\ Shape(h) /\ Len(h) \in Nat
  BY ShapeIs DEF GraphOK
<1>2. /\ \A m \in Nodes(g) : m \in N \/ m = n
      /\ \A m \in N : m \in Nodes(g) /\ m # n /\ m < n
      /\ n \in Nodes(g) /\ Shape(g)
  BY <1>1 DEF NodePushed, Nodes
<1>3. \A m \in N :
          /\ StateOf(g, m) = StateOf(h, m) /\ (IsLive(g, m) <=> IsLive(h, m))
          /\ DepthOf(g, m) = DepthOf(h, m)
          /\ LinkCt(g, m) = LinkCt(h, m)
          /\ \A k \in 1..LinkCt(h, m) : Sib(g, m, k) = Sib(h, m, k)
  BY DEF NodePushed
<1>4. /\ StateOf(g, n) = state /\ IsLive(g, n)
      /\ DepthOf(g, n) = DepthOf(h, left) + 1
      /\ LinkCt(g, n) = 1 /\ Sib(g, n, 1) = left
  BY DEF NodePushed
<1>5. \A k \in 1..LinkCt(g, n) : k = 1
  BY <1>4
<1>6. \A m \in N : \A k \in 1..LinkCt(h, m) : Sib(h, m, k) \in N /\ IsLive(h, Sib(h, m, k))
  BY <1>1 DEF Inward
<1>7. \A m \in N : LinkCt(h, m) \in Nat
  BY <1>1, ViewsAre
<1> HIDE DEF n, N
<1>8. DeadBare(g)
  <2> SUFFICES ASSUME NEW m \in Nodes(g), ~IsLive(g, m) PROVE LinkCt(g, m) = 0
    BY DEF DeadBare
  <2> QED BY <1>1, <1>2, <1>3, <1>4 DEF DeadBare, N
<1>9. Inward(g)
  <2> SUFFICES ASSUME NEW m \in Nodes(g), NEW k \in 1..LinkCt(g, m)
      PROVE  Sib(g, m, k) \in Nodes(g) /\ IsLive(g, Sib(g, m, k))
    BY DEF Inward
  <2>1. CASE m \in N
    BY <1>2, <1>3, <1>6, <2>1
  <2>2. CASE m = n
    BY <1>2, <1>3, <1>4, <1>5, <2>2 DEF N
  <2> QED BY <1>2, <2>1, <2>2
<1>10. Downward(g)
  <2> SUFFICES ASSUME NEW m \in Nodes(g), LinkCt(g, m) > 0 PROVE Sib(g, m, 1) < m
    BY DEF Downward
  <2>1. CASE m \in N
    <3>1. LinkCt(h, m) > 0 /\ 1 \in 1..LinkCt(h, m)
      BY <1>3, <1>7, <2>1
    <3> QED BY <1>1, <1>3, <2>1, <3>1 DEF Downward, N
  <2>2. CASE m = n
    BY <1>2, <1>4, <2>2 DEF N
  <2> QED BY <1>2, <2>1, <2>2
<1>11. DepthRight(g)
  <2> SUFFICES ASSUME NEW m \in Nodes(g), IsLive(g, m)
      PROVE  DepthOf(g, m) = IF LinkCt(g, m) = 0 THEN 1
                             ELSE IF LinkCt(g, m) = 1 THEN DepthOf(g, Sib(g, m, 1)) + 1 ELSE 0
    BY DEF DepthRight
  <2>1. CASE m \in N
    <3>1. IsLive(h, m) /\ LinkCt(g, m) = LinkCt(h, m) /\ DepthOf(g, m) = DepthOf(h, m)
      BY <1>3, <2>1
    <3>2. DepthOf(h, m) = IF LinkCt(h, m) = 0 THEN 1
                          ELSE IF LinkCt(h, m) = 1 THEN DepthOf(h, Sib(h, m, 1)) + 1 ELSE 0
      BY <1>1, <2>1, <3>1 DEF DepthRight, N
    <3>3. LinkCt(h, m) = 1 => /\ Sib(g, m, 1) = Sib(h, m, 1)
                              /\ DepthOf(g, Sib(h, m, 1)) = DepthOf(h, Sib(h, m, 1))
      <4>1. LinkCt(h, m) = 1 => 1 \in 1..LinkCt(h, m)
        OBVIOUS
      <4> QED BY <1>3, <1>6, <2>1, <4>1
    <3> QED BY <3>1, <3>2, <3>3
  <2>2. CASE m = n
    <3>1. DepthOf(g, left) = DepthOf(h, left)
      BY <1>3 DEF N
    <3> QED BY <1>4, <2>2, <3>1
  <2> QED BY <1>2, <2>1, <2>2
<1>12. SibsDiffer(g)
  <2> SUFFICES ASSUME NEW m \in Nodes(g), NEW j \in 1..LinkCt(g, m), NEW k \in 1..LinkCt(g, m),
                      Sib(g, m, j) = Sib(g, m, k)
      PROVE  j = k
    BY DEF SibsDiffer
  <2>1. CASE m \in N
    BY <1>1, <1>3, <2>1 DEF SibsDiffer, N
  <2>2. CASE m = n
    BY <1>5, <2>2
  <2> QED BY <1>2, <2>1, <2>2
<1>13. StatesOK(g, T)
  <2> SUFFICES ASSUME NEW m \in Nodes(g), IsLive(g, m)
        PROVE /\ StateOf(g, m) \in States(T)
              /\ LinkCt(g, m) = 0 => StateOf(g, m) = T.start
              /\ \A k \in 1..LinkCt(g, m) : LeadsTo(T, StateOf(g, Sib(g, m, k)), StateOf(g, m))
    BY DEF StatesOK
  <2>1. CASE m \in N
    <3>1. IsLive(h, m) /\ StateOf(g, m) = StateOf(h, m) /\ LinkCt(g, m) = LinkCt(h, m)
      BY <1>3, <2>1
    <3>2. \A k \in 1..LinkCt(h, m) : StateOf(g, Sib(g, m, k)) = StateOf(h, Sib(h, m, k))
      BY <1>3, <1>6, <2>1
    <3> QED BY <1>1, <2>1, <3>1, <3>2 DEF StatesOK, N
  <2>2. CASE m = n
    <3>1. StateOf(g, left) = StateOf(h, left)
      BY <1>3 DEF N
    <3>2. \A k \in 1..LinkCt(g, n) : Sib(g, n, k) = left
      BY <1>4, <1>5
    <3> QED BY <1>4, <2>2, <3>1, <3>2
  <2> QED BY <1>2, <2>1, <2>2
<1>14. ASSUME NEW S, Closed(h, S) PROVE Closed(g, S \cup {n})
  <2> SUFFICES ASSUME NEW m \in Nodes(g), NEW k \in 1..LinkCt(g, m), Sib(g, m, k) \in S \cup {n}
      PROVE  m \in S \cup {n}
    BY DEF Closed
  <2>1. CASE m \in N
    <3>1. k \in 1..LinkCt(h, m) /\ Sib(g, m, k) = Sib(h, m, k) /\ Sib(h, m, k) \in N
      BY <1>3, <1>6, <2>1
    <3>2. Sib(h, m, k) # n
      BY <1>2, <3>1
    <3> QED BY <1>14, <2>1, <3>1, <3>2 DEF Closed, N
  <2> QED BY <1>2, <2>1
<1> QED BY <1>2, <1>8, <1>9, <1>10, <1>11, <1>12, <1>13, <1>14 DEF GraphOK, n

\* Its references: occ says how many there are from lists, once it is there.
LEMMA NodePushedCounted ==
  ASSUME NEW h, Shape(h), Inward(h), NEW g, NEW state, NEW left \in Nodes(h), NEW id, NEW b \in Nat,
         NodePushed(h, g, state, left, id, b), NEW occ,
         \A m \in Nodes(h) : IsLive(h, m) =>
            RefOf(h, m) + (IF m = left THEN b ELSE 0)
               = LinksInto(h, Nodes(h), m) + (IF m = left THEN 1 ELSE 0) + occ[m],
         occ[Len(h) + 1] = 1
  PROVE  CountedBy(g, occ) /\ (Held(h) => Held(g))
<1> DEFINE n == Len(h) + 1
           N == Nodes(h)
<1>1. Len(h) \in Nat /\ Len(g) = n /\ n # left /\ \A m \in Nodes(g) : m \in N \/ m = n
  BY ShapeIs DEF NodePushed, Nodes
<1>2. /\ \A m \in N : /\ IsLive(g, m) <=> IsLive(h, m)
                      /\ RefOf(g, m) = RefOf(h, m) + (IF m = left THEN b ELSE 0)
      /\ RefOf(g, n) = 1
  BY DEF NodePushed
<1>3. \A m : LinksInto(g, Nodes(g), m) = LinksInto(h, N, m) + (IF m = left THEN 1 ELSE 0)
  BY NodePushedCount
<1>4. LinksInto(h, N, n) = 0
  <2>1. \A x \in N : \A k \in 1..LinkCt(h, x) : Sib(h, x, k) # n
    BY <1>1 DEF Inward, Nodes
  <2>2. Part(N, Nodes(h))
    BY DEF Part
  <2> HIDE DEF N, n
  <2> QED BY <2>1, <2>2, NoLinksInto DEF N
<1> HIDE DEF N, n
<1>5. CountedBy(g, occ)
  <2> SUFFICES ASSUME NEW m \in Nodes(g), IsLive(g, m) PROVE RefOf(g, m) = LinksInto(g, Nodes(g), m) + occ[m]
    BY DEF CountedBy
  <2>1. CASE m \in N
    <3>1. RefOf(g, m) = RefOf(h, m) + (IF m = left THEN b ELSE 0)
      BY <1>2, <2>1
    <3>2. RefOf(h, m) + (IF m = left THEN b ELSE 0)
             = LinksInto(h, N, m) + (IF m = left THEN 1 ELSE 0) + occ[m]
      BY <1>2, <2>1 DEF N
    <3>3. LinksInto(g, Nodes(g), m) = LinksInto(h, N, m) + (IF m = left THEN 1 ELSE 0)
      BY <1>3
    <3> QED BY <3>1, <3>2, <3>3
  <2>2. CASE m = n
    <3>1. LinksInto(g, Nodes(g), n) = 0 + 0
      BY <1>1, <1>3, <1>4
    <3>2. RefOf(g, n) = 1 /\ occ[n] = 1
      BY <1>2 DEF n
    <3> QED BY <2>2, <3>1, <3>2
  <2> QED BY <1>1, <2>1, <2>2
<1>6. ASSUME Held(h) PROVE Held(g)
  <2> SUFFICES ASSUME NEW m \in Nodes(g), IsLive(g, m) PROVE RefOf(g, m) > 0
    BY DEF Held
  <2>1. CASE m \in N
    <3>1. RefOf(h, m) \in Int /\ RefOf(h, m) > 0
      BY <1>2, <1>6, <2>1, ViewsAre DEF Held, N
    <3> QED BY <1>2, <2>1, <3>1
  <2> QED BY <1>1, <1>2, <2>1
<1> QED BY <1>5, <1>6

\* One more link of a node that has some.
LEMMA LinkAddedKeeps ==
  ASSUME NEW h, NEW T, GraphOK(h, T), NEW g, NEW n, NEW sib, NEW id, LinkAdded(h, g, n, sib, id),
         n \in Nodes(h), IsLive(h, n), sib \in Nodes(h), IsLive(h, sib), LinkCt(h, n) > 0,
         \A k \in 1..LinkCt(h, n) : Sib(h, n, k) # sib,
         LeadsTo(T, StateOf(h, sib), StateOf(h, n))
  PROVE  /\ Shape(g) /\ DeadBare(g) /\ Inward(g) /\ Downward(g) /\ SibsDiffer(g) /\ StatesOK(g, T)
         /\ \A S : n \in S /\ Closed(h, S) => Closed(g, S) /\ RightBut(g, S)
         /\ (\A x \in Nodes(h) : \A k \in 1..LinkCt(h, x) : Sib(h, x, k) # n) => DepthRight(g)
         /\ \A occ : CountedBy(h, occ) /\ (\A m \in Nodes(h) : occ[m] \in Nat) => CountedBy(g, occ)
         /\ Held(h) => Held(g)
<1> DEFINE N == Nodes(h)
           c == LinkCt(h, n)
<1>1. /\ DeadBare(h) /\ Inward(h) /\ Downward(h) /\ DepthRight(h) /\ SibsDiffer(h) /\ StatesOK(h, T)
      /\ Shape(h)
  BY DEF GraphOK
<1>2. /\ Shape(g) /\ Nodes(g) = N
      /\ \A m \in N :
          /\ StateOf(g, m) = StateOf(h, m) /\ (IsLive(g, m) <=> IsLive(h, m))
          /\ RefOf(g, m) = RefOf(h, m) + (IF m = sib THEN 1 ELSE 0)
          /\ \A k \in 1..LinkCt(h, m) : Sib(g, m, k) = Sib(h, m, k)
          /\ m # n => DepthOf(g, m) = DepthOf(h, m)
      /\ Sib(g, n, c + 1) = sib
  BY DEF LinkAdded, Nodes
<1>3. \A m \in N : LinkCt(h, m) \in Nat /\ RefOf(h, m) \in Int
  BY <1>1, ViewsAre
<1>4. /\ \A m \in N : m # n => LinkCt(g, m) = LinkCt(h, m)
      /\ LinkCt(g, n) = c + 1 /\ c \in Nat /\ c > 0
  <2>1. \A m \in N : LinkCt(g, m) = LinkCt(h, m) + (IF m = n THEN 1 ELSE 0)
    BY DEF LinkAdded
  <2> QED BY <1>3, <2>1
<1>5. DepthOf(g, n) = 0
  BY <1>4 DEF LinkAdded
<1>6. \A m \in N : \A k \in 1..LinkCt(h, m) : Sib(h, m, k) \in N /\ IsLive(h, Sib(h, m, k))
  BY <1>1 DEF Inward
<1> HIDE DEF N, c
\* each link of g is one of h's or the new one
<1>7. ASSUME NEW m \in N, NEW k \in 1..LinkCt(g, m)
      PROVE  \/ k \in 1..LinkCt(h, m) /\ Sib(g, m, k) = Sib(h, m, k)
             \/ m = n /\ k = c + 1 /\ Sib(g, m, k) = sib
  <2>1. CASE m # n
    BY <1>2, <1>4, <2>1
  <2>2. CASE m = n
    <3>1. k \in 1..c \/ k = c + 1
      BY <1>4, <2>2
    <3> QED BY <1>2, <2>2, <3>1 DEF c
  <2> QED BY <2>1, <2>2
<1>8. DeadBare(g)
  <2> SUFFICES ASSUME NEW m \in N, ~IsLive(g, m) PROVE LinkCt(g, m) = 0
    BY <1>2 DEF DeadBare
  <2>1. ~IsLive(h, m) /\ m # n
    BY <1>2
  <2> QED BY <1>1, <1>4, <2>1 DEF DeadBare, N
<1>9. Inward(g)
  <2> SUFFICES ASSUME NEW m \in N, NEW k \in 1..LinkCt(g, m)
      PROVE  Sib(g, m, k) \in N /\ IsLive(g, Sib(g, m, k))
    BY <1>2 DEF Inward
  <2> QED BY <1>2, <1>6, <1>7 DEF N
<1>10. Downward(g)
  <2> SUFFICES ASSUME NEW m \in N, LinkCt(g, m) > 0 PROVE Sib(g, m, 1) < m
    BY <1>2 DEF Downward
  <2>1. LinkCt(h, m) > 0 /\ 1 \in 1..LinkCt(h, m)
    BY <1>3, <1>4 DEF c
  <2> QED BY <1>1, <1>2, <2>1 DEF Downward, N
<1>11. SibsDiffer(g)
  <2> SUFFICES ASSUME NEW m \in N, NEW j \in 1..LinkCt(g, m), NEW k \in 1..LinkCt(g, m),
                      Sib(g, m, j) = Sib(g, m, k)
      PROVE  j = k
    BY <1>2 DEF SibsDiffer
  <2>1. CASE j \in 1..LinkCt(h, m) /\ k \in 1..LinkCt(h, m)
    <3>1. Sib(h, m, j) = Sib(h, m, k)
      BY <1>2, <2>1
    <3> QED BY <1>1, <2>1, <3>1 DEF SibsDiffer, N
  <2>2. CASE j \notin 1..LinkCt(h, m)
    <3>1. m = n /\ j = c + 1 /\ Sib(g, m, k) = sib
      BY <1>7, <2>2
    <3> QED BY <1>7, <3>1
  <2>3. CASE k \notin 1..LinkCt(h, m)
    <3>1. m = n /\ k = c + 1 /\ Sib(g, m, j) = sib
      BY <1>7, <2>3
    <3> QED BY <1>7, <3>1
  <2> QED BY <2>1, <2>2, <2>3
<1>12. StatesOK(g, T)
  <2> SUFFICES ASSUME NEW m \in N, IsLive(g, m)
        PROVE /\ StateOf(g, m) \in States(T)
              /\ LinkCt(g, m) = 0 => StateOf(g, m) = T.start
              /\ \A k \in 1..LinkCt(g, m) : LeadsTo(T, StateOf(g, Sib(g, m, k)), StateOf(g, m))
    BY <1>2 DEF StatesOK
  <2>1. StateOf(g, m) = StateOf(h, m) /\ IsLive(h, m) /\ (LinkCt(g, m) = 0 => LinkCt(h, m) = 0)
    BY <1>2, <1>3, <1>4
  <2>2. ASSUME NEW k \in 1..LinkCt(g, m) PROVE LeadsTo(T, StateOf(g, Sib(g, m, k)), StateOf(g, m))
    <3>1. CASE k \in 1..LinkCt(h, m) /\ Sib(g, m, k) = Sib(h, m, k)
      <4>1. StateOf(g, Sib(g, m, k)) = StateOf(h, Sib(h, m, k))
        BY <1>2, <1>6, <3>1
      <4> QED BY <1>1, <2>1, <3>1, <4>1 DEF StatesOK, N
    <3>2. CASE m = n /\ Sib(g, m, k) = sib
      BY <1>2, <2>1, <3>2 DEF N
    <3> QED BY <1>7, <3>1, <3>2
  <2> QED BY <1>1, <2>1, <2>2 DEF StatesOK, N
\* what a node's depth should be, if it does not link to n
<1>13. ASSUME NEW m \in N, IsLive(g, m), m # n => \A k \in 1..LinkCt(h, m) : Sib(h, m, k) # n
       PROVE  DepthOf(g, m) = IF LinkCt(g, m) = 0 THEN 1
                              ELSE IF LinkCt(g, m) = 1 THEN DepthOf(g, Sib(g, m, 1)) + 1 ELSE 0
  <2>1. CASE m = n
    <3>1. LinkCt(g, m) # 0 /\ LinkCt(g, m) # 1
      BY <1>4, <2>1
    <3> QED BY <1>5, <2>1, <3>1
  <2>2. CASE m # n
    <3>1. IsLive(h, m) /\ LinkCt(g, m) = LinkCt(h, m) /\ DepthOf(g, m) = DepthOf(h, m)
      BY <1>2, <1>4, <1>13, <2>2
    <3>2. DepthOf(h, m) = IF LinkCt(h, m) = 0 THEN 1
                          ELSE IF LinkCt(h, m) = 1 THEN DepthOf(h, Sib(h, m, 1)) + 1 ELSE 0
      BY <1>1, <3>1 DEF DepthRight, N
    <3>3. LinkCt(h, m) = 1 => /\ Sib(g, m, 1) = Sib(h, m, 1)
                              /\ DepthOf(g, Sib(h, m, 1)) = DepthOf(h, Sib(h, m, 1))
      <4>1. LinkCt(h, m) = 1 => 1 \in 1..LinkCt(h, m)
        OBVIOUS
      <4> QED BY <1>2, <1>6, <1>13, <2>2, <4>1
    <3> QED BY <3>1, <3>2, <3>3
  <2> QED BY <2>1, <2>2
<1>14. ASSUME NEW S, n \in S, Closed(h, S) PROVE Closed(g, S) /\ RightBut(g, S)
  <2>1. Closed(g, S)
    <3> SUFFICES ASSUME NEW m \in N, NEW k \in 1..LinkCt(g, m), Sib(g, m, k) \in S PROVE m \in S
      BY <1>2 DEF Closed
    <3> QED BY <1>7, <1>14 DEF Closed, N
  <2>2. RightBut(g, S)
    <3> SUFFICES ASSUME NEW m \in N, IsLive(g, m), m \notin S
        PROVE  DepthOf(g, m) = IF LinkCt(g, m) = 0 THEN 1
                               ELSE IF LinkCt(g, m) = 1 THEN DepthOf(g, Sib(g, m, 1)) + 1 ELSE 0
      BY <1>2 DEF RightBut
    <3>1. \A k \in 1..LinkCt(h, m) : Sib(h, m, k) # n
      BY <1>14 DEF Closed, N
    <3> QED BY <1>13, <3>1
  <2> QED BY <2>1, <2>2
<1>15. ASSUME \A x \in Nodes(h) : \A k \in 1..LinkCt(h, x) : Sib(h, x, k) # n PROVE DepthRight(g)
  <2> SUFFICES ASSUME NEW m \in N, IsLive(g, m)
        PROVE  DepthOf(g, m) = IF LinkCt(g, m) = 0 THEN 1
                               ELSE IF LinkCt(g, m) = 1 THEN DepthOf(g, Sib(g, m, 1)) + 1 ELSE 0
    BY <1>2 DEF DepthRight
  <2>1. \A k \in 1..LinkCt(h, m) : Sib(h, m, k) # n
    BY <1>15 DEF N
  <2> QED BY <1>13, <2>1
<1>16. ASSUME NEW occ, CountedBy(h, occ), \A m \in Nodes(h) : occ[m] \in Nat PROVE CountedBy(g, occ)
  <2> SUFFICES ASSUME NEW m \in N, IsLive(g, m) PROVE RefOf(g, m) = LinksInto(g, Nodes(g), m) + occ[m]
    BY <1>2 DEF CountedBy
  <2>1. RefOf(h, m) = LinksInto(h, N, m) + occ[m] /\ RefOf(g, m) = RefOf(h, m) + (IF m = sib THEN 1 ELSE 0)
    BY <1>2, <1>16 DEF CountedBy, N
  <2>2. LinksInto(g, Nodes(g), m) = LinksInto(h, N, m) + (IF m = sib THEN 1 ELSE 0)
    BY <1>1, LinkAddedCount DEF N
  <2>3. LinksInto(h, N, m) \in Nat /\ RefOf(h, m) \in Int /\ occ[m] \in Nat
    BY <1>1, <1>3, <1>16, LinksAreNat DEF N
  <2>4. CASE m = sib
    BY <2>1, <2>2, <2>3, <2>4
  <2>5. CASE m # sib
    BY <2>1, <2>2, <2>3, <2>5
  <2> QED BY <2>4, <2>5
<1>17. ASSUME Held(h) PROVE Held(g)
  <2> SUFFICES ASSUME NEW m \in N, IsLive(g, m) PROVE RefOf(g, m) > 0
    BY <1>2 DEF Held
  <2>1. RefOf(h, m) > 0 /\ RefOf(h, m) \in Int
    BY <1>2, <1>3, <1>17 DEF Held, N
  <2> QED BY <1>2, <2>1
<1> QED BY <1>2, <1>8, <1>9, <1>10, <1>11, <1>12, <1>14, <1>15, <1>16, <1>17

------------------------
(* Lists without repetitions *)

\* no element twice
Distinct(s) == \A i, j \in 1..Len(s) : s[i] = s[j] => i = j

\* the lists g[1], ..., g[m] have no element twice, and none in common
Apart(g, m) ==
    /\ \A i \in 1..m : Distinct(g[i])
    /\ \A i, j \in 1..m : \A x : x \in ToSet(g[i]) /\ x \in ToSet(g[j]) => i = j

\* s is what g[1], ..., g[m] make, one after the other
Joined(s, g, m, W) ==
    /\ s \in Seq(W)
    /\ \A x : x \in ToSet(s) <=> \E i \in 1..m : x \in ToSet(g[i])
    /\ Apart(g, m) => Distinct(s)

\* Members, and repetitions, of two lists put together.
LEMMA ConcatHas ==
  ASSUME NEW W, NEW a \in Seq(W), NEW b \in Seq(W)
  PROVE  /\ a \o b \in Seq(W)
         /\ \A x : x \in ToSet(a \o b) <=> x \in ToSet(a) \/ x \in ToSet(b)
         /\ Distinct(a) /\ Distinct(b) /\ (\A x : ~(x \in ToSet(a) /\ x \in ToSet(b))) => Distinct(a \o b)
<1> DEFINE c == a \o b
<1>1. /\ c \in Seq(W) /\ Len(c) = Len(a) + Len(b) /\ Len(a) \in Nat /\ Len(b) \in Nat
      /\ \A i \in 1..Len(a) : c[i] = a[i]
      /\ \A i \in 1..Len(b) : c[Len(a) + i] = b[i]
  OBVIOUS
<1>2. DOMAIN a = 1..Len(a) /\ DOMAIN b = 1..Len(b) /\ DOMAIN c = 1..Len(c)
  OBVIOUS
<1> HIDE DEF c
<1>3. ASSUME NEW x PROVE x \in ToSet(c) <=> x \in ToSet(a) \/ x \in ToSet(b)
  <2>1. ASSUME x \in ToSet(c) PROVE x \in ToSet(a) \/ x \in ToSet(b)
    <3>1. PICK i \in 1..Len(c) : c[i] = x
      BY <1>2, <2>1 DEF ToSet
    <3>2. CASE i <= Len(a)
      <4>1. i \in 1..Len(a) /\ a[i] = x
        BY <1>1, <3>1, <3>2
      <4> QED BY <1>2, <4>1 DEF ToSet
    <3>3. CASE i > Len(a)
      <4>1. i - Len(a) \in 1..Len(b) /\ i = Len(a) + (i - Len(a))
        BY <1>1, <3>1, <3>3
      <4>2. b[i - Len(a)] = x
        BY <1>1, <3>1, <4>1
      <4> QED BY <1>2, <4>1, <4>2 DEF ToSet
    <3> QED BY <1>1, <3>1, <3>2, <3>3
  <2>2. ASSUME x \in ToSet(a) PROVE x \in ToSet(c)
    <3>1. PICK i \in 1..Len(a) : a[i] = x
      BY <1>2, <2>2 DEF ToSet
    <3>2. i \in 1..Len(c) /\ c[i] = x
      BY <1>1, <3>1
    <3> QED BY <1>2, <3>2 DEF ToSet
  <2>3. ASSUME x \in ToSet(b) PROVE x \in ToSet(c)
    <3>1. PICK i \in 1..Len(b) : b[i] = x
      BY <1>2, <2>3 DEF ToSet
    <3>2. Len(a) + i \in 1..Len(c) /\ c[Len(a) + i] = x
      BY <1>1, <3>1
    <3> QED BY <1>2, <3>2 DEF ToSet
  <2> QED BY <2>1, <2>2, <2>3
<1>4. ASSUME Distinct(a), Distinct(b), \A x : ~(x \in ToSet(a) /\ x \in ToSet(b))
      PROVE  Distinct(c)
  <2> SUFFICES ASSUME NEW i \in 1..Len(c), NEW j \in 1..Len(c), c[i] = c[j] PROVE i = j
    BY DEF Distinct
  <2>1. ASSUME NEW k \in 1..Len(c), NEW l \in 1..Len(c), k <= Len(a), l > Len(a) PROVE c[k] # c[l]
    <3>1. k \in 1..Len(a) /\ l - Len(a) \in 1..Len(b) /\ l = Len(a) + (l - Len(a))
      BY <1>1, <2>1
    <3>2. c[k] = a[k] /\ c[l] = b[l - Len(a)]
      BY <1>1, <3>1
    <3>3. a[k] \in ToSet(a) /\ b[l - Len(a)] \in ToSet(b)
      BY <1>2, <3>1 DEF ToSet
    <3> QED BY <1>4, <3>2, <3>3
  <2>2. CASE i <= Len(a) /\ j <= Len(a)
    <3>1. i \in 1..Len(a) /\ j \in 1..Len(a) /\ c[i] = a[i] /\ c[j] = a[j]
      BY <1>1, <2>2
    <3> QED BY <1>4, <3>1 DEF Distinct
  <2>3. CASE i > Len(a) /\ j > Len(a)
    <3>1. /\ i - Len(a) \in 1..Len(b) /\ i = Len(a) + (i - Len(a))
          /\ j - Len(a) \in 1..Len(b) /\ j = Len(a) + (j - Len(a))
      BY <1>1, <2>3
    <3>2. b[i - Len(a)] = b[j - Len(a)]
      BY <1>1, <3>1
    <3>3. i - Len(a) = j - Len(a)
      BY <1>4, <3>1, <3>2 DEF Distinct
    <3> QED BY <3>1, <3>3
  <2> QED BY <1>1, <2>1, <2>2, <2>3
<1> QED BY <1>1, <1>3, <1>4 DEF c

\* Lists put together, step by step.
LEMMA FlattenByStep ==
  ASSUME NEW ss, Len(ss) \in Nat \ {0}
  PROVE  \E f : /\ FlattenSeq(ss) = f[Len(ss)]
                /\ \A i \in 1..Len(ss) : f[i] = IF i = 1 THEN ss[i] ELSE f[i - 1] \o ss[i]
<1> DEFINE n == Len(ss)
           Is(f, m) == f = [i \in 1..m |-> IF i = 1 THEN ss[i] ELSE f[i - 1] \o ss[i]]
           Missing == {m \in 0..n : ~\E f : Is(f, m)}
<1>6. FlattenSeq(ss) = IF n = 0 THEN ss ELSE (CHOOSE f : Is(f, n))[n]
  BY Zenon DEF FlattenSeq
<1>1. n \in Nat \ {0}
  OBVIOUS
<1> HIDE DEF n
<1>2. ASSUME NEW m \in 1..n, NEW f, Is(f, m - 1)
      PROVE  \E g : Is(g, m)
  <2> DEFINE g == [i \in 1..m |-> IF i = 1 THEN ss[i]
                                  ELSE IF i = m THEN f[m - 1] \o ss[m] ELSE f[i - 1] \o ss[i]]
  <2>0. m \in Nat \ {0} /\ \A i \in 1..(m - 1) : f[i] = IF i = 1 THEN ss[i] ELSE f[i - 1] \o ss[i]
    <3>1. m \in Nat \ {0}
      BY <1>1, <1>2
    <3>2. \A i \in 1..(m - 1) : f[i] = IF i = 1 THEN ss[i] ELSE f[i - 1] \o ss[i]
      BY <1>2
    <3> QED BY <3>1, <3>2
  <2>1. \A i \in 1..(m - 1) : g[i] = f[i]
    BY <2>0
  <2>2. \A i \in 1..m : g[i] = IF i = 1 THEN ss[i] ELSE g[i - 1] \o ss[i]
    <3>1. SUFFICES ASSUME NEW i \in 1..m
                   PROVE  g[i] = IF i = 1 THEN ss[i] ELSE g[i - 1] \o ss[i]
      OBVIOUS
    <3>2. CASE i = 1
      BY <3>2
    <3>3. CASE i # 1
      <4>1. i - 1 \in 1..(m - 1) /\ g[i - 1] = f[i - 1]
        BY <2>0, <2>1, <3>1, <3>3
      <4>2. g[i] = f[i - 1] \o ss[i]
        BY <3>1, <3>3
      <4> HIDE DEF g
      <4> QED BY <3>3, <4>1, <4>2
    <3> QED BY <3>2, <3>3
  <2>3. DOMAIN g = 1..m /\ g = [i \in 1..m |-> g[i]]
    OBVIOUS
  <2> HIDE DEF g
  <2> QED BY <2>2, <2>3, ZenonT(60)
<1>3. \E f : Is(f, n)
  <2>1. \E f : Is(f, 0)
    <3> DEFINE e == [i \in 1..0 |-> 0]
    <3>1. Is(e, 0)
      OBVIOUS
    <3> QED BY <3>1
  <2> HIDE DEF Is
  <2>7. n \in 0..n
    BY <1>1
  <2>2. SUFFICES ASSUME Missing # {} PROVE FALSE
    BY <2>7
  <2>3. PICK m \in Missing : \A k \in Missing : m <= k
    <3>1. Missing \in SUBSET Nat
      BY <1>1
    <3> HIDE DEF Missing
    <3> QED BY <2>2, <3>1, Least
  <2>4. m \in 1..n /\ m - 1 \in 0..n /\ m - 1 \notin Missing
    BY <1>1, <2>1, <2>3
  <2>5. PICK f : Is(f, m - 1)
    BY <1>1, <2>4
  <2>6. \E g : Is(g, m)
    BY <1>2, <2>4, <2>5
  <2> QED BY <2>3, <2>6
<1> DEFINE flatten == CHOOSE f : Is(f, n)
<1>4. Is(flatten, n)
  <2> HIDE DEF Is
  <2> QED BY <1>3
<1>5. FlattenSeq(ss) = flatten[n]
  BY <1>1, <1>6
<1> HIDE DEF flatten
<1>7. \A i \in 1..n : flatten[i] = IF i = 1 THEN ss[i] ELSE flatten[i - 1] \o ss[i]
  BY <1>4
<1> QED BY <1>5, <1>7 DEF n

\* One list more.
LEMMA JoinedOneMore ==
  ASSUME NEW W, NEW g, NEW m \in Nat \ {0}, NEW s, Joined(s, g, m, W), g[m + 1] \in Seq(W)
  PROVE  Joined(s \o g[m + 1], g, m + 1, W)
<1> DEFINE a == g[m + 1]
           t == s \o a
<1>1. s \in Seq(W) /\ a \in Seq(W) /\ \A x : x \in ToSet(s) <=> \E i \in 1..m : x \in ToSet(g[i])
  BY DEF Joined
<1>2. /\ t \in Seq(W)
      /\ \A x : x \in ToSet(t) <=> x \in ToSet(s) \/ x \in ToSet(a)
      /\ Distinct(s) /\ Distinct(a) /\ (\A x : ~(x \in ToSet(s) /\ x \in ToSet(a))) => Distinct(t)
  BY <1>1, ConcatHas
<1>3. 1..(m + 1) = (1..m) \cup {m + 1} /\ m + 1 \notin 1..m
  OBVIOUS
<1> HIDE DEF t
<1>4. \A x : x \in ToSet(t) <=> \E i \in 1..(m + 1) : x \in ToSet(g[i])
  BY <1>1, <1>2, <1>3, Zenon
<1>5. ASSUME Apart(g, m + 1) PROVE Distinct(t)
  <2>1. Apart(g, m) /\ Distinct(a)
    BY <1>3, <1>5, Zenon DEF Apart
  <2>2. Distinct(s)
    BY <2>1 DEF Joined
  <2>3. \A x : ~(x \in ToSet(s) /\ x \in ToSet(a))
    BY <1>1, <1>3, <1>5, Zenon DEF Apart
  <2> QED BY <1>2, <2>1, <2>2, <2>3
<1> QED BY <1>2, <1>4, <1>5 DEF Joined, t

\* What a list of lists makes, put together.
LEMMA FlattenJoins ==
  ASSUME NEW W, NEW n \in Nat, NEW g, g = [i \in 1..n |-> g[i]], \A i \in 1..n : g[i] \in Seq(W)
  PROVE  Joined(FlattenSeq(g), g, n, W)
<1>1. Len(g) = n
  <2> DEFINE S == {g[i] : i \in 1..n}
  <2>1. g \in [1..n -> S]
    OBVIOUS
  <2> HIDE DEF S
  <2> QED BY <2>1
<1>2. CASE n = 0
  <2>1. g = <<>> /\ FlattenSeq(g) = g
    BY <1>1, <1>2 DEF FlattenSeq
  <2>2. FlattenSeq(g) = <<>> /\ 1..n = {} /\ <<>> \in Seq(W) /\ ToSet(<<>>) = {} /\ Len(<<>>) = 0
    BY <1>2, <2>1 DEF ToSet
  <2>3. Distinct(<<>>)
    BY DEF Distinct
  <2> QED BY <2>2, <2>3 DEF Joined
<1>3. CASE n # 0
  <2>1. PICK f : /\ FlattenSeq(g) = f[n]
                 /\ \A i \in 1..n : f[i] = IF i = 1 THEN g[i] ELSE f[i - 1] \o g[i]
    <3>1. Len(g) \in Nat \ {0}
      BY <1>1, <1>3
    <3>2. \E f : /\ FlattenSeq(g) = f[Len(g)]
                 /\ \A i \in 1..Len(g) : f[i] = IF i = 1 THEN g[i] ELSE f[i - 1] \o g[i]
      BY <3>1, FlattenByStep
    <3> QED BY <1>1, <3>2
  <2> DEFINE Bad == {m \in 1..n : ~Joined(f[m], g, m, W)}
  <2>2. Bad = {}
    <3> SUFFICES ASSUME Bad # {} PROVE FALSE
      OBVIOUS
    <3>1. PICK m \in Bad : \A k \in Bad : m <= k
      <4>1. Bad \in SUBSET Nat
        OBVIOUS
      <4> HIDE DEF Bad
      <4> QED BY <4>1, Least
    <3>2. m \in 1..n /\ ~Joined(f[m], g, m, W)
      BY <3>1
    <3>3. CASE m = 1
      <4>1. f[1] = g[1] /\ g[1] \in Seq(W) /\ 1..1 = {1}
        BY <2>1, <3>2, <3>3
      <4>2. Joined(f[1], g, 1, W)
        BY <4>1, Zenon DEF Joined, Apart
      <4> QED BY <3>2, <3>3, <4>2
    <3>4. CASE m # 1
      <4>1. m - 1 \in Nat \ {0} /\ m - 1 \in 1..n /\ (m - 1) + 1 = m /\ m - 1 \notin Bad
        <5>1. m \in Nat /\ m # 0 /\ m - 1 < m
          BY <3>2
        <5>2. m - 1 \in Nat \ {0} /\ m - 1 \in 1..n /\ (m - 1) + 1 = m
          BY <3>2, <3>4
        <5>3. m - 1 \notin Bad
          <6> HIDE DEF Bad
          <6>1. ~(m <= m - 1)
            BY <5>1
          <6> QED BY <3>1, <6>1
        <5> QED BY <5>2, <5>3
      <4>2. Joined(f[m - 1], g, m - 1, W)
        BY <4>1
      <4>3. f[m] = f[m - 1] \o g[m] /\ g[m] \in Seq(W)
        BY <2>1, <3>2, <3>4
      <4>4. Joined(f[m - 1] \o g[(m - 1) + 1], g, (m - 1) + 1, W)
        <5> DEFINE k == m - 1
                   s == f[k]
        <5>1. k \in Nat \ {0} /\ Joined(s, g, k, W) /\ g[k + 1] \in Seq(W)
          BY <4>1, <4>2, <4>3
        <5> HIDE DEF k, s
        <5>2. Joined(s \o g[k + 1], g, k + 1, W)
          BY <5>1, JoinedOneMore
        <5> QED BY <5>2 DEF k, s
      <4> QED BY <3>2, <4>1, <4>3, <4>4
    <3> QED BY <3>3, <3>4
  <2>3. n \in 1..n
    BY <1>3
  <2>4. Joined(f[n], g, n, W)
    BY <2>2, <2>3
  <2> QED BY <2>1, <2>4
<1> QED BY <1>2, <1>3

------------------------
(* Reduction paths *)

\* partial paths, and the links they may use
IsLinkOf(h, e) == e[1] \in Nodes(h) /\ IsLive(h, e[1]) /\ e[2] \in 1..LinkCt(h, e[1])
Partials(h) == [left : Nodes(h), links : Seq(Nat \X Nat)]

\* a path longer by one link, for each link of its left end
Longer(h, p) ==
    [i \in DOMAIN h[p.left].links |->
        [left  |-> h[p.left].links[LinkOrder(h, p.left)[i]].sib,
         links |-> <<<<p.left, LinkOrder(h, p.left)[i]>>>> \o p.links]]

\* The order of exploration goes over the links of the node.
LEMMA OrderIs ==
  ASSUME NEW h, Shape(h), NEW n \in Nodes(h)
  PROVE  /\ DOMAIN h[n].links = 1..LinkCt(h, n)
         /\ \A i \in 1..LinkCt(h, n) : LinkOrder(h, n)[i] \in 1..LinkCt(h, n)
<1>1. IsLinks(h[n].links)
  BY ShapeIs
<1>2. Len(h[n].links) \in Nat /\ DOMAIN h[n].links = 1..Len(h[n].links)
  BY <1>1, LinksAre
<1>3. \A i \in 1..Len(h[n].links) :
         (IF i = 1 THEN 1 ELSE Len(h[n].links) + 2 - i) \in 1..Len(h[n].links)
  BY <1>2
<1>4. \A i \in 1..Len(h[n].links) :
         LinkOrder(h, n)[i] = IF i = 1 THEN 1 ELSE Len(h[n].links) + 2 - i
  BY <1>2 DEF LinkOrder
<1> QED BY <1>2, <1>3, <1>4 DEF LinkCt

------------------------
(* Paths as trails of links *)

\* the node that a link leads to
SibAt(h, e) == Sib(h, e[1], e[2])

\* the partial path q hangs from n by k links
IsTrail(h, n, k, q) ==
    /\ Len(q.links) = k /\ IsLive(h, q.left)
    /\ \A i \in 1..k : IsLinkOf(h, q.links[i])
    /\ k = 0 => q.left = n
    /\ k > 0 => q.links[k][1] = n /\ q.left = SibAt(h, q.links[1])
    /\ \A i \in 1..k : i < k => q.links[i][1] = SibAt(h, q.links[i + 1])

\* the partial path that q makes longer
Under(q) == [left |-> q.links[1][1], links |-> Tail(q.links)]

\* The links of a node are explored one by one.
LEMMA OrderDiffers ==
  ASSUME NEW h, Shape(h), NEW n \in Nodes(h)
  PROVE  /\ \A i, j \in 1..LinkCt(h, n) : LinkOrder(h, n)[i] = LinkOrder(h, n)[j] => i = j
         /\ \A l \in 1..LinkCt(h, n) : \E i \in 1..LinkCt(h, n) : LinkOrder(h, n)[i] = l
<1>1. IsLinks(h[n].links)
  BY ShapeIs
<1> DEFINE c == Len(h[n].links)
<1>2. c \in Nat /\ DOMAIN h[n].links = 1..c
  BY <1>1, LinksAre
<1>3. \A i \in 1..c : LinkOrder(h, n)[i] = IF i = 1 THEN 1 ELSE c + 2 - i
  BY <1>2 DEF LinkOrder
<1>4. c = LinkCt(h, n)
  BY DEF LinkCt
<1> HIDE DEF c
<1>5. \A i, j \in 1..c : LinkOrder(h, n)[i] = LinkOrder(h, n)[j] => i = j
  BY <1>2, <1>3
<1>6. ASSUME NEW l \in 1..c PROVE \E i \in 1..c : LinkOrder(h, n)[i] = l
  <2>1. CASE l = 1
    <3>1. 1 \in 1..c /\ LinkOrder(h, n)[1] = l
      BY <1>2, <1>3, <2>1
    <3> QED BY <3>1
  <2>2. CASE l # 1
    <3>1. c + 2 - l \in 1..c /\ LinkOrder(h, n)[c + 2 - l] = l
      BY <1>2, <1>3, <2>2
    <3> QED BY <3>1
  <2> QED BY <2>1, <2>2
<1> QED BY <1>4, <1>5, <1>6

\* A link put before others.
LEMMA ConsIs ==
  ASSUME NEW W, NEW e \in W, NEW s \in Seq(W)
  PROVE  /\ <<e>> \o s \in Seq(W) /\ Len(<<e>> \o s) = Len(s) + 1 /\ Len(s) \in Nat
         /\ (<<e>> \o s)[1] = e /\ Tail(<<e>> \o s) = s
         /\ \A i \in 1..Len(s) : (<<e>> \o s)[i + 1] = s[i]
<1> DEFINE u == <<e>>
           t == u \o s
<1>1. u \in Seq(W) /\ Len(u) = 1 /\ u[1] = e
  OBVIOUS
<1> HIDE DEF u
<1>2. /\ t \in Seq(W) /\ Len(t) = Len(s) + 1 /\ Len(s) \in Nat
      /\ \A i \in 1..Len(t) : t[i] = IF i <= 1 THEN u[i] ELSE s[i - 1]
  <2>1. Len(s) \in Nat
    OBVIOUS
  <2>2. /\ u \o s \in Seq(W) /\ Len(u \o s) = Len(u) + Len(s)
        /\ \A i \in 1..Len(u \o s) : (u \o s)[i] = IF i <= Len(u) THEN u[i] ELSE s[i - Len(u)]
    BY <1>1, ConcatProperties
  <2> QED BY <1>1, <2>1, <2>2
<1> HIDE DEF t
<1>3. t[1] = e /\ \A i \in 1..Len(s) : t[i + 1] = s[i]
  BY <1>1, <1>2
<1>4. Tail(t) = s
  <2>1. t # <<>>
    BY <1>2
  <2>2. Tail(t) \in Seq(W) /\ Len(Tail(t)) = Len(s) /\ \A i \in 1..Len(s) : Tail(t)[i] = s[i]
    BY <1>2, <1>3, <2>1
  <2> DEFINE v == Tail(t)
  <2>3. v \in Seq(W) /\ Len(v) = Len(s) /\ \A i \in 1..Len(s) : v[i] = s[i]
    BY <2>2
  <2> HIDE DEF v
  <2>4. v = s
    BY <2>3, SeqEqual
  <2> QED BY <2>4 DEF v
<1> QED BY <1>2, <1>3, <1>4 DEF t, u

\* The longer partial paths, by what they make longer.
LEMMA LongerAre ==
  ASSUME NEW h, Shape(h), Inward(h), NEW p \in Partials(h)
  PROVE  /\ Longer(h, p) \in Seq(Partials(h))
         /\ Distinct(Longer(h, p))
         /\ \A q : q \in ToSet(Longer(h, p)) <=>
                \E k \in 1..LinkCt(h, p.left) :
                   q = [left |-> Sib(h, p.left, k), links |-> <<<<p.left, k>>>> \o p.links]
<1> DEFINE n == p.left
           c == LinkCt(h, n)
           o == LinkOrder(h, n)
           new(k) == [left |-> Sib(h, n, k), links |-> <<<<n, k>>>> \o p.links]
           l == Longer(h, p)
<1>1. n \in Nodes(h) /\ p.links \in Seq(Nat \X Nat) /\ n \in Nat
  BY DEF Partials, Nodes
<1>2. /\ DOMAIN h[n].links = 1..c /\ c \in Nat
      /\ \A i \in 1..c : o[i] \in 1..c
      /\ \A i, j \in 1..c : o[i] = o[j] => i = j
      /\ \A k \in 1..c : \E i \in 1..c : o[i] = k
  BY <1>1, OrderIs, OrderDiffers, ViewsAre
<1>3. l = [i \in 1..c |-> new(o[i])]
  BY <1>2 DEF Longer, Sib
<1> HIDE DEF o, l
<1>4. ASSUME NEW k \in 1..c PROVE new(k) \in Partials(h) /\ new(k).links[1] = <<n, k>>
  <2>1. Sib(h, n, k) \in Nodes(h)
    BY <1>1 DEF Inward
  <2> DEFINE e == <<n, k>>
             s == <<e>> \o p.links
             W == Nat \X Nat
  <2>2. e \in W /\ p.links \in Seq(W)
    BY <1>1, <1>2
  <2> HIDE DEF e, W
  <2>3. s \in Seq(W) /\ s[1] = e
    BY <2>2, ConsIs
  <2>4. new(k) = [left |-> Sib(h, n, k), links |-> s]
    BY DEF e
  <2> HIDE DEF s
  <2> QED BY <2>1, <2>3, <2>4 DEF Partials, W, e
<1> HIDE DEF c, new
<1>5. l \in Seq(Partials(h)) /\ Len(l) = c /\ DOMAIN l = 1..c
  <2> DEFINE U == Partials(h)
  <2>1. \A k \in 1..c : new(k) \in U
    BY <1>4
  <2> HIDE DEF U
  <2>2. l \in Seq(U) /\ Len(l) = c /\ DOMAIN l = 1..c
    BY <1>2, <1>3, <2>1
  <2> QED BY <2>2 DEF U
<1>6. Distinct(l)
  <2> SUFFICES ASSUME NEW i \in 1..c, NEW j \in 1..c, l[i] = l[j] PROVE i = j
    BY <1>5 DEF Distinct
  <2>1. new(o[i]) = new(o[j]) /\ o[i] \in 1..c /\ o[j] \in 1..c
    BY <1>2, <1>3
  <2>2. <<n, o[i]>> = <<n, o[j]>>
    BY <1>4, <2>1
  <2>3. o[i] = o[j]
    BY <2>2
  <2> QED BY <1>2, <2>3
<1>7. ASSUME NEW q PROVE q \in ToSet(l) <=> \E k \in 1..c : q = new(k)
  <2>1. q \in ToSet(l) <=> \E i \in 1..c : q = new(o[i])
    BY <1>3, <1>5 DEF ToSet
  <2> QED BY <1>2, <2>1
<1> QED BY <1>5, <1>6, <1>7 DEF l, c, new

\* A trail that gets longer is a trail, and is longer than the one it was.
LEMMA TrailGrows ==
  ASSUME NEW h, Shape(h), Inward(h), NEW n, NEW k \in Nat,
         NEW p \in Partials(h), IsTrail(h, n, k, p), NEW q \in ToSet(Longer(h, p))
  PROVE  q \in Partials(h) /\ IsTrail(h, n, k + 1, q) /\ Under(q) = p
<1> DEFINE W == Nat \X Nat
<1>1. /\ p.left \in Nodes(h) /\ p.links \in Seq(W) /\ p.left \in Nat
      /\ p = [left |-> p.left, links |-> p.links]
  BY DEF Partials, Nodes
<1>2. PICK l \in 1..LinkCt(h, p.left) :
         q = [left |-> Sib(h, p.left, l), links |-> <<<<p.left, l>>>> \o p.links]
  BY LongerAre
<1> DEFINE e == <<p.left, l>>
           s == <<e>> \o p.links
<1>3. e \in W /\ e[1] = p.left /\ SibAt(h, e) = Sib(h, p.left, l)
  <2>1. LinkCt(h, p.left) \in Nat
    BY <1>1, ViewsAre
  <2>2. l \in Nat
    BY <2>1
  <2> QED BY <1>1, <2>2 DEF SibAt
<1>4. IsLinkOf(h, e) /\ IsLive(h, Sib(h, p.left, l)) /\ Sib(h, p.left, l) \in Nodes(h)
  BY <1>1 DEF IsLinkOf, IsTrail, Inward
<1> HIDE DEF e, W
<1>5. /\ s \in Seq(W) /\ Len(s) = Len(p.links) + 1 /\ s[1] = e /\ Tail(s) = p.links
      /\ \A i \in 1..Len(p.links) : s[i + 1] = p.links[i]
  BY <1>1, <1>3, ConsIs
<1>6. q.left = Sib(h, p.left, l) /\ q.links = s /\ q = [left |-> q.left, links |-> q.links]
  BY <1>2 DEF e
<1> HIDE DEF s
<1>7. Under(q) = p
  BY <1>1, <1>3, <1>5, <1>6 DEF Under
<1>8. q \in Partials(h)
  BY <1>4, <1>5, <1>6 DEF Partials, W
<1>9. /\ Len(p.links) = k /\ \A i \in 1..k : IsLinkOf(h, p.links[i])
      /\ k = 0 => p.left = n
      /\ k > 0 => p.links[k][1] = n /\ p.left = SibAt(h, p.links[1])
      /\ \A i \in 1..k : i < k => p.links[i][1] = SibAt(h, p.links[i + 1])
  BY DEF IsTrail
<1>10. \A i \in 1..(k + 1) : i # 1 => i - 1 \in 1..k /\ s[i] = p.links[i - 1]
  <2> SUFFICES ASSUME NEW i \in 1..(k + 1), i # 1 PROVE i - 1 \in 1..k /\ s[i] = p.links[i - 1]
    OBVIOUS
  <2>1. i - 1 \in 1..k /\ (i - 1) + 1 = i
    OBVIOUS
  <2> QED BY <1>5, <1>9, <2>1
<1>11. \A i \in 1..(k + 1) : IsLinkOf(h, s[i])
  BY <1>4, <1>5, <1>9, <1>10
<1>12. s[k + 1][1] = n
  <2>1. CASE k = 0
    BY <1>3, <1>5, <1>9, <2>1
  <2>2. CASE k # 0
    <3>1. s[k + 1] = p.links[k]
      BY <1>10, <2>2
    <3> QED BY <1>9, <2>2, <3>1
  <2> QED BY <2>1, <2>2
<1>13. \A i \in 1..(k + 1) : i < k + 1 => s[i][1] = SibAt(h, s[i + 1])
  <2> SUFFICES ASSUME NEW i \in 1..(k + 1), i < k + 1 PROVE s[i][1] = SibAt(h, s[i + 1])
    OBVIOUS
  <2>1. i \in 1..k /\ s[i + 1] = p.links[i]
    BY <1>5, <1>9
  <2>2. CASE i = 1
    BY <1>3, <1>5, <1>9, <2>1, <2>2
  <2>3. CASE i # 1
    <3>1. i - 1 \in 1..k /\ i - 1 < k /\ (i - 1) + 1 = i /\ s[i] = p.links[i - 1]
      BY <1>10, <2>1, <2>3
    <3> QED BY <1>9, <2>1, <3>1
  <2> QED BY <2>2, <2>3
<1>14. Len(q.links) = k + 1 /\ IsLive(h, q.left) /\ q.left = SibAt(h, q.links[1])
  BY <1>3, <1>4, <1>5, <1>6, <1>9
<1>15. IsTrail(h, n, k + 1, q)
  BY <1>6, <1>11, <1>12, <1>13, <1>14 DEF IsTrail
<1> QED BY <1>7, <1>8, <1>15

\* Every trail is longer than another.
LEMMA TrailGrew ==
  ASSUME NEW h, Shape(h), Inward(h), NEW n, NEW k \in Nat,
         NEW q \in Partials(h), IsTrail(h, n, k + 1, q)
  PROVE  /\ Under(q) \in Partials(h) /\ IsTrail(h, n, k, Under(q))
         /\ q \in ToSet(Longer(h, Under(q)))
<1> DEFINE W == Nat \X Nat
           p == Under(q)
           s == q.links
<1>1. /\ q.left \in Nodes(h) /\ s \in Seq(W) /\ q = [left |-> q.left, links |-> s]
  BY DEF Partials
<1>2. /\ Len(s) = k + 1 /\ IsLive(h, q.left) /\ \A i \in 1..(k + 1) : IsLinkOf(h, s[i])
      /\ s[k + 1][1] = n /\ q.left = SibAt(h, s[1])
      /\ \A i \in 1..(k + 1) : i < k + 1 => s[i][1] = SibAt(h, s[i + 1])
  BY DEF IsTrail
<1>3. p.left = s[1][1] /\ p.links = Tail(s)
  BY DEF Under
<1> HIDE DEF W
<1>4. /\ Tail(s) \in Seq(W) /\ Len(Tail(s)) = k /\ \A i \in 1..k : Tail(s)[i] = s[i + 1]
      /\ s[1] \in W /\ s = <<s[1]>> \o Tail(s)
  <2>1. s # <<>> /\ 1 \in 1..Len(s)
    BY <1>1, <1>2
  <2>2. Tail(s) \in Seq(W) /\ Len(Tail(s)) = k /\ \A i \in 1..k : Tail(s)[i] = s[i + 1]
    BY <1>1, <1>2, <2>1
  <2>3. s[1] \in W
    BY <1>1, <2>1
  <2> DEFINE t == Tail(s)
             e == s[1]
             v == <<e>> \o t
  <2>4. t \in Seq(W) /\ e \in W
    BY <2>2, <2>3
  <2> HIDE DEF t, e
  <2>5. v \in Seq(W) /\ Len(v) = Len(t) + 1 /\ v[1] = e /\ \A i \in 1..Len(t) : v[i + 1] = t[i]
    BY <2>4, ConsIs
  <2> HIDE DEF v
  <2>6. ASSUME NEW i \in 1..Len(s) PROVE v[i] = s[i]
    <3>1. CASE i = 1
      BY <2>5, <3>1 DEF e
    <3>2. CASE i # 1
      <4>1. i - 1 \in 1..k /\ (i - 1) + 1 = i
        BY <1>2, <3>2
      <4>2. v[i] = t[i - 1] /\ t[i - 1] = s[i]
        BY <2>2, <2>5, <4>1 DEF t
      <4> QED BY <4>2
    <3> QED BY <3>1, <3>2
  <2>7. Len(v) = Len(s)
    BY <1>2, <2>2, <2>5 DEF t
  <2>8. v = s
    BY <1>1, <2>5, <2>6, <2>7
  <2> QED BY <2>2, <2>3, <2>8 DEF v, t, e
<1>5. IsLinkOf(h, s[1]) /\ s[1] = <<s[1][1], s[1][2]>>
  <2>1. 1 \in 1..(k + 1)
    OBVIOUS
  <2>2. s[1] \in Nat \X Nat
    BY <1>4 DEF W
  <2> QED BY <1>2, <2>1, <2>2
<1>6. p.left \in Nodes(h) /\ IsLive(h, p.left) /\ s[1][2] \in 1..LinkCt(h, p.left)
  BY <1>3, <1>5 DEF IsLinkOf
<1>7. p \in Partials(h) /\ p.links = Tail(s)
  <2>1. p = [left |-> p.left, links |-> Tail(s)]
    BY DEF Under
  <2> HIDE DEF p
  <2> QED BY <1>3, <1>4, <1>6, <2>1 DEF Partials, W
<1>8. q \in ToSet(Longer(h, p))
  <2>1. q.left = Sib(h, p.left, s[1][2])
    BY <1>2, <1>3 DEF SibAt
  <2>2. s = <<<<p.left, s[1][2]>>>> \o p.links
    BY <1>3, <1>4, <1>5
  <2>3. q = [left |-> Sib(h, p.left, s[1][2]), links |-> <<<<p.left, s[1][2]>>>> \o p.links]
    BY <1>1, <2>1, <2>2
  <2> HIDE DEF p, s
  <2> QED BY <1>6, <1>7, <2>3, LongerAre, Zenon
<1>9. IsTrail(h, n, k, p)
  <2> DEFINE t == p.links
  <2>1. Len(t) = k /\ \A i \in 1..k : t[i] = s[i + 1]
    BY <1>4, <1>7
  <2> HIDE DEF t, p, s
  <2>2. \A i \in 1..k : IsLinkOf(h, t[i])
    BY <1>2, <2>1
  <2>3. k = 0 => p.left = n
    BY <1>2, <1>3
  <2>4. k > 0 => t[k][1] = n /\ p.left = SibAt(h, t[1])
    <3> SUFFICES ASSUME k > 0 PROVE t[k][1] = n /\ p.left = SibAt(h, t[1])
      OBVIOUS
    <3>1. k \in 1..k /\ 1 \in 1..k /\ 1 \in 1..(k + 1) /\ 1 < k + 1 /\ 1 + 1 = 2
      OBVIOUS
    <3>2. t[k] = s[k + 1] /\ t[1] = s[1 + 1]
      BY <2>1, <3>1
    <3> QED BY <1>2, <1>3, <3>1, <3>2
  <2>5. \A i \in 1..k : i < k => t[i][1] = SibAt(h, t[i + 1])
    <3> SUFFICES ASSUME NEW i \in 1..k, i < k PROVE t[i][1] = SibAt(h, t[i + 1])
      OBVIOUS
    <3>1. i + 1 \in 1..k /\ i + 1 \in 1..(k + 1) /\ i + 1 < k + 1
      OBVIOUS
    <3>2. t[i] = s[i + 1] /\ t[i + 1] = s[(i + 1) + 1]
      BY <2>1, <3>1
    <3> QED BY <1>2, <3>1, <3>2
  <2> QED BY <1>6, <2>1, <2>2, <2>3, <2>4, <2>5 DEF IsTrail, t
<1> QED BY <1>7, <1>8, <1>9

------------------------
(* The depth-first search finds every trail once *)

\* c[k]: the partial paths of k links that the search finds
Search(h, n, len, c) ==
    /\ c[0] = << [left |-> n, links |-> <<>>] >>
    /\ \A k \in 0..len : c[k] \in Seq(Partials(h))
    /\ \A k \in 1..len : c[k] = FlattenSeq([i \in DOMAIN c[k - 1] |-> Longer(h, c[k - 1][i])])

\* The search for paths, step by step.
LEMMA PathsByStep ==
  ASSUME NEW h, Shape(h), Inward(h), NEW n \in Nodes(h), NEW len \in Nat
  PROVE  \E c : PathsTo(h, n, len) = c[len] /\ Search(h, n, len, c)
<1> DEFINE U == Partials(h)
           X == Seq(U)
           all(ps) == FlattenSeq([i \in DOMAIN ps |-> Longer(h, ps[i])])
           first == [left |-> n, links |-> <<>>]
           x0 == <<first>>
           G == [q \in (1..len) \X X |-> all(q[2])]
           Is(f) == f = [k \in 0..len |-> IF k = 0 THEN x0 ELSE all(f[k - 1])]
<1>2. ASSUME NEW ps \in X PROVE all(ps) \in X
  <2> DEFINE g == [i \in DOMAIN ps |-> Longer(h, ps[i])]
  <2>1. Len(ps) \in Nat /\ DOMAIN ps = 1..Len(ps) /\ \A i \in 1..Len(ps) : ps[i] \in U
    OBVIOUS
  <2>2. \A i \in 1..Len(ps) : Longer(h, ps[i]) \in Seq(U)
    BY <2>1, LongerAre
  <2> HIDE DEF U
  <2>3. g = [i \in 1..Len(ps) |-> g[i]] /\ \A i \in 1..Len(ps) : g[i] \in Seq(U)
    BY <2>1, <2>2
  <2> HIDE DEF g
  <2>4. FlattenSeq(g) \in Seq(U)
    BY <2>1, <2>3, FlattenJoins DEF Joined
  <2> QED BY <2>4 DEF g
<1>3. first \in U
  <2>1. first.left = n /\ first.links = <<>> /\ <<>> \in Seq(Nat \X Nat)
    OBVIOUS
  <2> QED BY <2>1 DEF Partials
<1>4. x0 \in X
  BY <1>3
<1>5. IsStep(G, len, X)
  <2> HIDE DEF X, all
  <2> QED BY <1>2 DEF IsStep
<1>6. PICK f : Iterated(f, len, X, x0, G)
  <2> HIDE DEF G, X, x0
  <2> QED BY <1>4, <1>5, Iterate
<1>7. f \in [0..len -> X] /\ f[0] = x0 /\ \A k \in 1..len : f[k] = G[<<k, f[k - 1]>>]
  BY <1>6 DEF Iterated
<1>8. ASSUME NEW k \in 1..len PROVE f[k] = all(f[k - 1])
  <2> HIDE DEF X, all
  <2>1. <<k, f[k - 1]>> \in (1..len) \X X
    BY <1>7
  <2> QED BY <1>7, <2>1
<1>9. Is(f)
  <2>1. f = [k \in 0..len |-> f[k]]
    BY <1>7
  <2> HIDE DEF all, G, X, x0
  <2>2. \A k \in 0..len : f[k] = IF k = 0 THEN x0 ELSE all(f[k - 1])
    BY <1>7, <1>8
  <2> QED BY <2>1, <2>2, Zenon
<1> DEFINE c == CHOOSE g : Is(g)
<1>10. PathsTo(h, n, len) = c[len]
  BY Zenon DEF PathsTo, FlatMap, Longer, first
<1>11. Is(c)
  <2> HIDE DEF all, x0
  <2> QED BY <1>9, Zenon
<1> HIDE DEF c
<1>12. c[0] = x0 /\ \A k \in 1..len : c[k] = all(c[k - 1])
  <2> HIDE DEF all, x0
  <2>1. \A k \in 0..len : c[k] = IF k = 0 THEN x0 ELSE all(c[k - 1])
    BY <1>11, Zenon
  <2> QED BY <2>1
<1> DEFINE Bad == {k \in 0..len : c[k] \notin X}
<1>13. Bad = {}
  <2> SUFFICES ASSUME Bad # {} PROVE FALSE
    OBVIOUS
  <2> HIDE DEF X, all
  <2>1. PICK k \in Bad : \A j \in Bad : k <= j
    <3>1. Bad \in SUBSET Nat
      OBVIOUS
    <3> HIDE DEF Bad
    <3> QED BY <3>1, Least
  <2>2. k \in 1..len /\ k - 1 \in 0..len /\ k - 1 \notin Bad
    BY <1>4, <1>12, <2>1
  <2>3. c[k - 1] \in X
    BY <2>2
  <2>4. c[k] \in X
    BY <1>2, <1>12, <2>2, <2>3
  <2> QED BY <2>1, <2>4
<1>14. \A k \in 0..len : c[k] \in X
  BY <1>13
<1>15. Search(h, n, len, c)
  <2> HIDE DEF X
  <2>1. \A k \in 0..len : c[k] \in Seq(Partials(h))
    BY <1>14 DEF X
  <2> QED BY <1>12, <2>1 DEF Search
<1> QED BY <1>10, <1>15

\* The paths of len links are the trails of that length, each found once.
LEMMA PathsToExact ==
  ASSUME NEW h, Shape(h), Inward(h), NEW n \in Nodes(h), IsLive(h, n), NEW len \in Nat
  PROVE  /\ PathsTo(h, n, len) \in Seq(Partials(h)) /\ Distinct(PathsTo(h, n, len))
         /\ \A q : q \in ToSet(PathsTo(h, n, len)) <=> q \in Partials(h) /\ IsTrail(h, n, len, q)
<1>0. PICK c : PathsTo(h, n, len) = c[len] /\ Search(h, n, len, c)
  BY PathsByStep
<1> DEFINE U == Partials(h)
           first == [left |-> n, links |-> <<>>]
           Good(s, k) == Distinct(s) /\ \A q : q \in ToSet(s) <=> q \in U /\ IsTrail(h, n, k, q)
<1>1. /\ PathsTo(h, n, len) = c[len] /\ c[0] = <<first>>
      /\ \A k \in 0..len : c[k] \in Seq(U)
      /\ \A k \in 1..len : c[k] = FlattenSeq([i \in DOMAIN c[k - 1] |-> Longer(h, c[k - 1][i])])
  BY <1>0 DEF Search
<1>2. Good(c[0], 0)
  <2>1. first.left = n /\ first.links = <<>> /\ <<>> \in Seq(Nat \X Nat) /\ Len(<<>>) = 0 /\ 1..0 = {}
    OBVIOUS
  <2>2. first \in U
    BY <2>1 DEF Partials
  <2>3. IsTrail(h, n, 0, first)
    BY <2>1 DEF IsTrail
  <2>4. ASSUME NEW q \in U, IsTrail(h, n, 0, q) PROVE q = first
    <3>1. q = [left |-> q.left, links |-> q.links] /\ q.links \in Seq(Nat \X Nat)
      BY DEF Partials
    <3>2. Len(q.links) = 0 /\ q.left = n
      BY <2>4 DEF IsTrail
    <3>3. q.links = <<>>
      BY <3>1, <3>2
    <3> QED BY <3>1, <3>2, <3>3
  <2> HIDE DEF first, U
  <2>5. /\ DOMAIN <<first>> = {1} /\ <<first>>[1] = first /\ Len(<<first>>) = 1
        /\ ToSet(<<first>>) = {first}
    BY DEF ToSet
  <2>6. Distinct(<<first>>)
    BY <2>5 DEF Distinct
  <2>7. \A q : q \in ToSet(<<first>>) <=> q \in U /\ IsTrail(h, n, 0, q)
    BY <2>2, <2>3, <2>4, <2>5
  <2>8. c[0] = <<first>>
    BY <1>1
  <2> QED BY <2>6, <2>7, <2>8
<1>3. ASSUME NEW k \in 1..len, Good(c[k - 1], k - 1) PROVE Good(c[k], k)
  <2> DEFINE ps == c[k - 1]
             g == [i \in DOMAIN ps |-> Longer(h, ps[i])]
             m == k - 1
  <2>1. ps \in Seq(U) /\ Len(ps) \in Nat /\ DOMAIN ps = 1..Len(ps) /\ c[k] = FlattenSeq(g)
    BY <1>1
  <2>2. /\ \A i \in 1..Len(ps) : ps[i] \in U /\ IsTrail(h, n, m, ps[i])
        /\ \A q : q \in U /\ IsTrail(h, n, m, q) => \E i \in 1..Len(ps) : ps[i] = q
        /\ \A i, j \in 1..Len(ps) : ps[i] = ps[j] => i = j
    <3>1. \A i \in 1..Len(ps) : ps[i] \in ToSet(ps)
      BY <2>1 DEF ToSet
    <3>2. \A q : q \in ToSet(ps) <=> \E i \in 1..Len(ps) : ps[i] = q
      BY <2>1 DEF ToSet
    <3> HIDE DEF U, ps
    <3> QED BY <1>3, <3>1, <3>2, Zenon DEF Distinct, ps
  <2>3. m \in Nat /\ m + 1 = k
    OBVIOUS
  <2> HIDE DEF ps, m
  <2>4. ASSUME NEW i \in 1..Len(ps)
        PROVE  /\ Longer(h, ps[i]) \in Seq(U) /\ Distinct(Longer(h, ps[i]))
               /\ \A q \in ToSet(Longer(h, ps[i])) : q \in U /\ IsTrail(h, n, k, q) /\ Under(q) = ps[i]
    <3> DEFINE p == ps[i]
    <3>1. p \in Partials(h) /\ IsTrail(h, n, m, p)
      BY <2>2
    <3> HIDE DEF p
    <3>2. \A q \in ToSet(Longer(h, p)) : q \in U /\ IsTrail(h, n, m + 1, q) /\ Under(q) = p
      BY <2>3, <3>1, TrailGrows
    <3>3. Longer(h, p) \in Seq(U) /\ Distinct(Longer(h, p))
      BY <3>1, LongerAre
    <3> QED BY <2>3, <3>2, <3>3 DEF p
  <2>5. ASSUME NEW q \in U, IsTrail(h, n, k, q)
        PROVE  \E i \in 1..Len(ps) : q \in ToSet(Longer(h, ps[i]))
    <3>1. Under(q) \in U /\ IsTrail(h, n, m, Under(q)) /\ q \in ToSet(Longer(h, Under(q)))
      BY <2>3, <2>5, TrailGrew
    <3>2. PICK i \in 1..Len(ps) : ps[i] = Under(q)
      BY <2>2, <3>1
    <3> QED BY <3>1, <3>2
  <2> HIDE DEF U
  <2>6. g = [i \in 1..Len(ps) |-> g[i]] /\ \A i \in 1..Len(ps) : g[i] = Longer(h, ps[i])
    BY <2>1
  <2> HIDE DEF g
  <2>7. \A i \in 1..Len(ps) : g[i] \in Seq(U)
    BY <2>4, <2>6
  <2>8. Joined(FlattenSeq(g), g, Len(ps), U)
    BY <2>1, <2>6, <2>7, FlattenJoins
  <2>9. Apart(g, Len(ps))
    <3>1. \A i \in 1..Len(ps) : Distinct(g[i])
      BY <2>4, <2>6
    <3>2. ASSUME NEW i \in 1..Len(ps), NEW j \in 1..Len(ps), NEW x, x \in ToSet(g[i]), x \in ToSet(g[j])
          PROVE  i = j
      <4>1. Under(x) = ps[i] /\ Under(x) = ps[j]
        BY <2>4, <2>6, <3>2
      <4> QED BY <2>2, <4>1
    <3> QED BY <3>1, <3>2 DEF Apart
  <2>10. Distinct(c[k])
    BY <2>1, <2>8, <2>9 DEF Joined
  <2>11. \A q : q \in ToSet(c[k]) <=> \E i \in 1..Len(ps) : q \in ToSet(Longer(h, ps[i]))
    BY <2>1, <2>6, <2>8 DEF Joined
  <2>12. \A q : q \in ToSet(c[k]) <=> q \in U /\ IsTrail(h, n, k, q)
    BY <2>4, <2>5, <2>11
  <2> QED BY <2>10, <2>12
<1> HIDE DEF Good
<1> DEFINE Bad == {k \in 0..len : ~Good(c[k], k)}
<1>4. Bad = {}
  <2> SUFFICES ASSUME Bad # {} PROVE FALSE
    OBVIOUS
  <2>1. PICK k \in Bad : \A j \in Bad : k <= j
    <3>1. Bad \in SUBSET Nat
      OBVIOUS
    <3> HIDE DEF Bad
    <3> QED BY <3>1, Least
  <2>2. k \in 1..len /\ k - 1 \in 0..len /\ k - 1 \notin Bad
    BY <1>2, <2>1
  <2>3. Good(c[k - 1], k - 1)
    BY <2>2
  <2>4. Good(c[k], k)
    BY <1>3, <2>2, <2>3
  <2> QED BY <2>1, <2>4
<1>5. len \in 0..len
  OBVIOUS
<1>6. Good(c[len], len)
  BY <1>4, <1>5
<1> QED BY <1>1, <1>5, <1>6 DEF Good

------------------------
(* The paths of the reductions *)

PathShape(h) == [prod : Int, right : Nat, left : Nodes(h), links : Seq(Nat \X Nat), column : Int]
\* parsers on a list
LiveList(h, list) == list \in Seq(Nodes(h)) /\ \A i \in 1..Len(list) : IsLive(h, list[i])

\* the links of a path, and the path of a trail
TrailOf(r) == [left |-> r.left, links |-> r.links]
PathOf(h, n, p, q) ==
    [prod |-> p, right |-> n, left |-> q.left, links |-> q.links, column |-> h[q.left].column]

\* r is the path of a reduction by p at n that uses the links of must
IsPathBy(h, n, p, must, r) ==
    /\ r \in PathShape(h) /\ r.prod = p /\ r.right = n /\ r.column = h[r.left].column
    /\ IsTrail(h, n, tables.prods[p].len, TrailOf(r))
    /\ must \subseteq ToSet(r.links)

\* r is the path of a reduction that entry allows
IsPath(h, n, entry, must, r) ==
    IsReduce(-r.prod - 1) /\ -r.prod - 1 \in ToSet(entry) /\ IsPathBy(h, n, r.prod, must, r)

\* the paths of the reductions by p
Wanted(h, n, p, must, q) == IF must \subseteq ToSet(q.links) THEN <<PathOf(h, n, p, q)>> ELSE <<>>
PathsBy(h, n, p, must) ==
    LET ends == PathsTo(h, n, tables.prods[p].len)
    IN  FlattenSeq([i \in DOMAIN ends |-> Wanted(h, n, p, must, ends[i])])

\* A trail makes a path.
LEMMA PathOfTrail ==
  ASSUME NEW h, Shape(h), NEW n \in Nodes(h), NEW p \in Int, NEW q \in Partials(h)
  PROVE  LET r == PathOf(h, n, p, q)
         IN  /\ r \in PathShape(h) /\ r.prod = p /\ r.right = n /\ r.column = h[r.left].column
             /\ TrailOf(r) = q /\ r.left = q.left /\ r.links = q.links
<1> DEFINE r == PathOf(h, n, p, q)
<1>1. /\ q = [left |-> q.left, links |-> q.links] /\ q.left \in Nodes(h)
      /\ q.links \in Seq(Nat \X Nat) /\ n \in Nat
  BY DEF Partials, Nodes
<1>2. h[q.left].column \in Int
  BY <1>1, ShapeIs DEF IsNode
<1>3. /\ r = [prod |-> p, right |-> n, left |-> q.left, links |-> q.links, column |-> h[q.left].column]
      /\ r.prod = p /\ r.right = n /\ r.left = q.left /\ r.links = q.links /\ r.column = h[q.left].column
  BY DEF PathOf
<1>4. r \in PathShape(h)
  BY <1>1, <1>2, <1>3 DEF PathShape
<1> HIDE DEF r
<1> QED BY <1>1, <1>3, <1>4 DEF TrailOf, r

\* A path is made by its trail.
LEMMA PathFromTrail ==
  ASSUME NEW h, NEW n, NEW p, NEW r \in PathShape(h), r.prod = p, r.right = n, r.column = h[r.left].column
  PROVE  TrailOf(r) \in Partials(h) /\ r = PathOf(h, n, p, TrailOf(r)) /\ TrailOf(r).links = r.links
<1>1. /\ r = [prod |-> r.prod, right |-> r.right, left |-> r.left, links |-> r.links, column |-> r.column]
      /\ r.left \in Nodes(h) /\ r.links \in Seq(Nat \X Nat)
  BY DEF PathShape
<1>2. TrailOf(r).left = r.left /\ TrailOf(r).links = r.links
  BY DEF TrailOf
<1>3. TrailOf(r) \in Partials(h)
  BY <1>1 DEF TrailOf, Partials
<1> QED BY <1>1, <1>2, <1>3 DEF PathOf

\* The paths of the reductions by p, each once.
LEMMA PathsByExact ==
  ASSUME NEW h, Shape(h), Inward(h), NEW n \in Nodes(h), IsLive(h, n),
         NEW p \in Int, tables.prods[p].len \in Nat, NEW must
  PROVE  /\ PathsBy(h, n, p, must) \in Seq(PathShape(h)) /\ Distinct(PathsBy(h, n, p, must))
         /\ \A r : r \in ToSet(PathsBy(h, n, p, must)) <=> IsPathBy(h, n, p, must, r)
<1> DEFINE len == tables.prods[p].len
           ends == PathsTo(h, n, len)
           g == [i \in DOMAIN ends |-> Wanted(h, n, p, must, ends[i])]
           W == PathShape(h)
<1>1. /\ ends \in Seq(Partials(h)) /\ Distinct(ends)
      /\ \A q : q \in ToSet(ends) <=> q \in Partials(h) /\ IsTrail(h, n, len, q)
  BY PathsToExact
<1> HIDE DEF ends
<1>2. /\ Len(ends) \in Nat /\ DOMAIN ends = 1..Len(ends) /\ \A i \in 1..Len(ends) : ends[i] \in Partials(h)
      /\ \A q : q \in ToSet(ends) <=> \E i \in 1..Len(ends) : ends[i] = q
  <2>1. Len(ends) \in Nat /\ DOMAIN ends = 1..Len(ends) /\ \A i \in 1..Len(ends) : ends[i] \in Partials(h)
    BY <1>1
  <2> QED BY <2>1 DEF ToSet
<1>3. PathsBy(h, n, p, must) = FlattenSeq(g)
  BY DEF PathsBy, ends
<1>4. g = [i \in 1..Len(ends) |-> g[i]] /\ \A i \in 1..Len(ends) : g[i] = Wanted(h, n, p, must, ends[i])
  BY <1>2
<1> HIDE DEF g
<1>5. \A i \in 1..Len(ends) :
         /\ PathOf(h, n, p, ends[i]) \in W /\ TrailOf(PathOf(h, n, p, ends[i])) = ends[i]
         /\ PathOf(h, n, p, ends[i]).links = ends[i].links
  BY <1>2, PathOfTrail
<1> HIDE DEF W
<1>6. ASSUME NEW i \in 1..Len(ends)
      PROVE  /\ g[i] \in Seq(W) /\ Distinct(g[i])
             /\ \A r : r \in ToSet(g[i]) <=> r = PathOf(h, n, p, ends[i]) /\ must \subseteq ToSet(r.links)
  <2> DEFINE r0 == PathOf(h, n, p, ends[i])
  <2>1. r0 \in W /\ r0.links = ends[i].links
    BY <1>5
  <2>2. g[i] = IF must \subseteq ToSet(ends[i].links) THEN <<r0>> ELSE <<>>
    BY <1>4 DEF Wanted
  <2> HIDE DEF r0
  <2>3. CASE must \subseteq ToSet(ends[i].links)
    <3>1. g[i] = <<r0>> /\ Len(<<r0>>) = 1 /\ ToSet(<<r0>>) = {r0} /\ <<r0>> \in Seq(W)
      BY <2>1, <2>2, <2>3 DEF ToSet
    <3>2. Distinct(g[i])
      BY <3>1 DEF Distinct
    <3> QED BY <2>1, <2>3, <3>1, <3>2 DEF r0
  <2>4. CASE ~(must \subseteq ToSet(ends[i].links))
    <3>1. g[i] = <<>> /\ Len(<<>>) = 0 /\ ToSet(<<>>) = {} /\ <<>> \in Seq(W)
      BY <2>2, <2>4 DEF ToSet
    <3>2. Distinct(g[i])
      BY <3>1 DEF Distinct
    <3> QED BY <2>1, <2>4, <3>1, <3>2 DEF r0
  <2> QED BY <2>3, <2>4
<1>7. Joined(FlattenSeq(g), g, Len(ends), W)
  BY <1>2, <1>4, <1>6, FlattenJoins
<1>8. Apart(g, Len(ends))
  <2>1. ASSUME NEW i \in 1..Len(ends), NEW j \in 1..Len(ends), NEW x, x \in ToSet(g[i]), x \in ToSet(g[j])
        PROVE  i = j
    <3>1. PathOf(h, n, p, ends[i]) = PathOf(h, n, p, ends[j])
      BY <1>6, <2>1
    <3>2. ends[i] = ends[j]
      BY <1>5, <3>1
    <3> QED BY <1>1, <3>2 DEF Distinct
  <2> QED BY <1>6, <2>1 DEF Apart
<1>9. ASSUME NEW r PROVE r \in ToSet(FlattenSeq(g)) <=> IsPathBy(h, n, p, must, r)
  <2>1. r \in ToSet(FlattenSeq(g)) <=> \E i \in 1..Len(ends) : r \in ToSet(g[i])
    BY <1>7 DEF Joined
  <2>2. ASSUME NEW i \in 1..Len(ends), r \in ToSet(g[i]) PROVE IsPathBy(h, n, p, must, r)
    <3> DEFINE q == ends[i]
               t == PathOf(h, n, p, q)
    <3>1. q \in Partials(h) /\ IsTrail(h, n, len, q)
      BY <1>1, <1>2
    <3>2. r = t /\ must \subseteq ToSet(r.links)
      BY <1>6, <2>2
    <3> HIDE DEF q
    <3>3. t \in PathShape(h) /\ t.prod = p /\ t.right = n /\ t.column = h[t.left].column /\ TrailOf(t) = q
      BY <3>1, PathOfTrail
    <3> HIDE DEF t
    <3> QED BY <3>1, <3>2, <3>3 DEF IsPathBy
  <2>3. ASSUME IsPathBy(h, n, p, must, r) PROVE \E i \in 1..Len(ends) : r \in ToSet(g[i])
    <3>1. /\ r \in PathShape(h) /\ r.prod = p /\ r.right = n /\ r.column = h[r.left].column
          /\ IsTrail(h, n, len, TrailOf(r)) /\ must \subseteq ToSet(r.links)
      BY <2>3 DEF IsPathBy
    <3>2. TrailOf(r) \in Partials(h) /\ r = PathOf(h, n, p, TrailOf(r))
      BY <3>1, PathFromTrail
    <3>3. PICK i \in 1..Len(ends) : ends[i] = TrailOf(r)
      BY <1>1, <1>2, <3>1, <3>2
    <3> QED BY <1>6, <3>1, <3>2, <3>3
  <2> QED BY <2>1, <2>2, <2>3
<1> QED BY <1>3, <1>7, <1>8, <1>9 DEF Joined, W

\* The paths of the reductions that entry allows, each once.
LEMMA NewPathsExact ==
  ASSUME NEW h, Shape(h), Inward(h), NEW n \in Nodes(h), IsLive(h, n), NEW must,
         NEW entry \in Seq(Int),
         \A a \in ToSet(entry) : IsReduce(a) => tables.prods[ReduceBy(a)].len \in Nat
  PROVE  /\ NewPaths(h, n, entry, must) \in Seq(PathShape(h))
         /\ Distinct(entry) => Distinct(NewPaths(h, n, entry, must))
         /\ \A r : r \in ToSet(NewPaths(h, n, entry, must)) <=> IsPath(h, n, entry, must, r)
<1> DEFINE byAction(a) == IF IsReduce(a) THEN PathsBy(h, n, ReduceBy(a), must) ELSE <<>>
           g == [i \in DOMAIN entry |-> byAction(entry[i])]
           m == Len(entry)
           W == PathShape(h)
<1>1. NewPaths(h, n, entry, must) = FlattenSeq(g)
  BY Zenon DEF NewPaths, FlatMap, PathsBy, Wanted, PathOf
<1>2. /\ m \in Nat /\ DOMAIN entry = 1..m /\ \A i \in 1..m : entry[i] \in Int /\ entry[i] \in ToSet(entry)
      /\ \A a : a \in ToSet(entry) <=> \E i \in 1..m : entry[i] = a
  <2>1. m \in Nat /\ DOMAIN entry = 1..m /\ \A i \in 1..m : entry[i] \in Int
    OBVIOUS
  <2> QED BY <2>1 DEF ToSet
<1>3. g = [i \in 1..m |-> g[i]] /\ \A i \in 1..m : g[i] = byAction(entry[i])
  BY <1>2
<1> HIDE DEF g, m, W
<1>4. ASSUME NEW i \in 1..m
      PROVE  /\ g[i] \in Seq(W) /\ Distinct(g[i])
             /\ \A r : r \in ToSet(g[i]) <=>
                    IsReduce(entry[i]) /\ IsPathBy(h, n, ReduceBy(entry[i]), must, r)
  <2> DEFINE a == entry[i]
  <2>1. a \in Int /\ a \in ToSet(entry) /\ g[i] = byAction(a)
    BY <1>2, <1>3
  <2> HIDE DEF a
  <2>2. CASE IsReduce(a)
    <3>1. g[i] = PathsBy(h, n, ReduceBy(a), must)
      BY <2>1, <2>2
    <3>2. ReduceBy(a) \in Int /\ tables.prods[ReduceBy(a)].len \in Nat
      BY <2>1, <2>2 DEF ReduceBy
    <3> QED BY <2>2, <3>1, <3>2, PathsByExact DEF a, W
  <2>3. CASE ~IsReduce(a)
    <3>1. g[i] = <<>> /\ Len(<<>>) = 0 /\ ToSet(<<>>) = {} /\ <<>> \in Seq(W)
      BY <2>1, <2>3 DEF ToSet
    <3>2. Distinct(g[i])
      BY <3>1 DEF Distinct
    <3> QED BY <2>3, <3>1, <3>2 DEF a
  <2> QED BY <2>2, <2>3
<1> HIDE DEF byAction
<1>5. Joined(FlattenSeq(g), g, m, W)
  BY <1>2, <1>3, <1>4, FlattenJoins
<1>6. \A r : IsPathBy(h, n, r.prod, must, r) => r.prod \in Int
  BY DEF IsPathBy, PathShape
<1>7. ASSUME Distinct(entry) PROVE Apart(g, m)
  <2>1. ASSUME NEW i \in 1..m, NEW j \in 1..m, NEW x, x \in ToSet(g[i]), x \in ToSet(g[j])
        PROVE  i = j
    <3>1. x.prod = ReduceBy(entry[i]) /\ x.prod = ReduceBy(entry[j])
      BY <1>4, <2>1 DEF IsPathBy
    <3>2. entry[i] = entry[j]
      BY <1>2, <3>1 DEF ReduceBy
    <3> QED BY <1>7, <3>2 DEF Distinct, m
  <2> QED BY <1>4, <2>1 DEF Apart
<1>8. ASSUME NEW r PROVE r \in ToSet(FlattenSeq(g)) <=> IsPath(h, n, entry, must, r)
  <2>1. r \in ToSet(FlattenSeq(g)) <=> \E i \in 1..m : r \in ToSet(g[i])
    BY <1>5 DEF Joined
  <2>2. ASSUME NEW i \in 1..m, r \in ToSet(g[i]) PROVE IsPath(h, n, entry, must, r)
    <3> DEFINE a == entry[i]
    <3>1. a \in Int /\ a \in ToSet(entry) /\ IsReduce(a) /\ IsPathBy(h, n, ReduceBy(a), must, r)
      BY <1>2, <1>4, <2>2
    <3> HIDE DEF a
    <3>2. r.prod = ReduceBy(a)
      BY <3>1 DEF IsPathBy
    <3>3. -r.prod - 1 = a
      BY <3>1, <3>2 DEF ReduceBy
    <3> QED BY <3>1, <3>2, <3>3 DEF IsPath
  <2>3. ASSUME IsPath(h, n, entry, must, r) PROVE \E i \in 1..m : r \in ToSet(g[i])
    <3>1. /\ IsReduce(-r.prod - 1) /\ -r.prod - 1 \in ToSet(entry) /\ IsPathBy(h, n, r.prod, must, r)
          /\ r.prod \in Int
      BY <1>6, <2>3 DEF IsPath
    <3>2. PICK i \in 1..m : entry[i] = -r.prod - 1
      BY <1>2, <3>1
    <3>3. ReduceBy(entry[i]) = r.prod
      BY <3>1, <3>2 DEF ReduceBy
    <3> QED BY <1>4, <3>1, <3>2, <3>3
  <2> QED BY <2>1, <2>2, <2>3
<1> QED BY <1>1, <1>5, <1>7, <1>8 DEF Joined, W

\* the cells for the token, at the nodes of a list, reduce by productions
CellsFit(h, list) ==
    \A n \in ToSet(list) :
        /\ n \in Nodes(h) /\ Entry(StateOf(h, n)) \in Seq(Int)
        /\ \A a \in ToSet(Entry(StateOf(h, n))) : IsReduce(a) => tables.prods[ReduceBy(a)].len \in Nat
\* and have no action twice
CellsApart(h, list) == \A n \in ToSet(list) : Distinct(Entry(StateOf(h, n)))

\* r is the path of a reduction at a node of the list
IsPathOfAll(h, list, must, r) ==
    \E n \in ToSet(list) : IsPath(h, n, Entry(StateOf(h, n)), must, r)

\* The paths of the reductions at the nodes of a list, each once.
LEMMA PathsOfAllExact ==
  ASSUME NEW h, Shape(h), Inward(h), NEW list, LiveList(h, list), Distinct(list), CellsFit(h, list),
         CellsApart(h, list), NEW must
  PROVE  /\ PathsOfAll(h, list, must) \in Seq(PathShape(h)) /\ Distinct(PathsOfAll(h, list, must))
         /\ \A r : r \in ToSet(PathsOfAll(h, list, must)) <=> IsPathOfAll(h, list, must, r)
<1> DEFINE new(n) == NewPaths(h, n, Entry(h[n].state), must)
           g == [i \in DOMAIN list |-> new(list[i])]
           m == Len(list)
           W == PathShape(h)
<1>1. PathsOfAll(h, list, must) = FlattenSeq(g)
  BY Zenon DEF PathsOfAll, FlatMap
<1> HIDE DEF new
<1>2. /\ m \in Nat /\ DOMAIN list = 1..m
      /\ \A i \in 1..m : list[i] \in Nodes(h) /\ IsLive(h, list[i]) /\ list[i] \in ToSet(list)
      /\ \A n : n \in ToSet(list) <=> \E i \in 1..m : list[i] = n
  <2>1. m \in Nat /\ DOMAIN list = 1..m /\ \A i \in 1..m : list[i] \in Nodes(h) /\ IsLive(h, list[i])
    BY DEF LiveList
  <2> QED BY <2>1 DEF ToSet
<1>3. g = [i \in 1..m |-> g[i]] /\ \A i \in 1..m : g[i] = new(list[i])
  BY <1>2
<1> HIDE DEF g, m, W
<1>4. ASSUME NEW i \in 1..m
      PROVE  /\ g[i] \in Seq(W) /\ Distinct(g[i])
             /\ \A r : r \in ToSet(g[i]) <=> IsPath(h, list[i], Entry(StateOf(h, list[i])), must, r)
  <2> DEFINE n == list[i]
             entry == Entry(StateOf(h, n))
  <2>1. n \in Nodes(h) /\ IsLive(h, n) /\ n \in ToSet(list)
    BY <1>2
  <2>2. g[i] = NewPaths(h, n, entry, must)
    BY <1>3 DEF new, StateOf
  <2> HIDE DEF n
  <2>3. /\ entry \in Seq(Int) /\ Distinct(entry)
        /\ \A a \in ToSet(entry) : IsReduce(a) => tables.prods[ReduceBy(a)].len \in Nat
    BY <2>1 DEF CellsFit, CellsApart
  <2> HIDE DEF entry
  <2>4. /\ NewPaths(h, n, entry, must) \in Seq(PathShape(h)) /\ Distinct(NewPaths(h, n, entry, must))
        /\ \A r : r \in ToSet(NewPaths(h, n, entry, must)) <=> IsPath(h, n, entry, must, r)
    BY <2>1, <2>3, NewPathsExact
  <2> QED BY <2>2, <2>4 DEF n, entry, W
<1>5. Joined(FlattenSeq(g), g, m, W)
  BY <1>2, <1>3, <1>4, FlattenJoins
<1>6. Apart(g, m)
  <2>1. ASSUME NEW i \in 1..m, NEW j \in 1..m, NEW x, x \in ToSet(g[i]), x \in ToSet(g[j])
        PROVE  i = j
    <3>1. x.right = list[i] /\ x.right = list[j]
      BY <1>4, <2>1 DEF IsPath, IsPathBy
    <3> QED BY <3>1 DEF Distinct, m
  <2> QED BY <1>4, <2>1 DEF Apart
<1>7. ASSUME NEW r PROVE r \in ToSet(FlattenSeq(g)) <=> IsPathOfAll(h, list, must, r)
  <2>1. r \in ToSet(FlattenSeq(g)) <=> \E i \in 1..m : r \in ToSet(g[i])
    BY <1>5 DEF Joined
  <2> QED BY <1>2, <1>4, <2>1 DEF IsPathOfAll
<1> QED BY <1>1, <1>5, <1>6, <1>7 DEF Joined, W

------------------------
(* Paths, and the queue, in a graph that grows *)

\* a path of a reduction of T's in the graph h
Fits(h, T, p) ==
    /\ IsLive(h, p.left) /\ p.prod \in DOMAIN T.prods
    /\ LET lhs == T.prods[p.prod].lhs
           q   == StateOf(h, p.left)
       IN  lhs \in DOMAIN T.goto[q] /\ T.goto[q][lhs] \in States(T)
    /\ \A i \in 1..Len(p.links) : IsLinkOf(h, p.links[i])
Paths(h, T) == {p \in PathShape(h) : Fits(h, T, p)}

\* g has the nodes and links of h, and perhaps more
GrownAt(h, g, m) ==
    /\ m \in Nodes(g) /\ StateOf(g, m) = StateOf(h, m)
    /\ IsLive(h, m) => IsLive(g, m)
    /\ LinkCt(h, m) \in Nat /\ LinkCt(g, m) \in Nat
    /\ IsLive(h, m) => LinkCt(h, m) <= LinkCt(g, m)
Grown(h, g) == \A m \in Nodes(h) : GrownAt(h, g, m)

\* The paths of a graph are paths of the graph with more nodes and links.
LEMMA PathsStay ==
  ASSUME NEW h, NEW T, NEW g, Grown(h, g)
  PROVE  /\ Paths(h, T) \subseteq Paths(g, T)
         /\ \A q \in Seq(Paths(h, T)) : q \in Seq(Paths(g, T))
<1>1. Paths(h, T) \subseteq Paths(g, T)
  <2> SUFFICES ASSUME NEW p \in Paths(h, T) PROVE p \in Paths(g, T)
    OBVIOUS
  <2>1. p \in PathShape(h) /\ Fits(h, T, p) /\ p.left \in Nodes(h) /\ p.left \in Nodes(g)
    BY DEF Paths, PathShape, Grown, GrownAt
  <2>2. p \in PathShape(g)
    BY <2>1 DEF PathShape
  <2>3. ASSUME NEW i \in 1..Len(p.links) PROVE IsLinkOf(g, p.links[i])
    <3> DEFINE e == p.links[i]
    <3>1. IsLinkOf(h, e)
      BY <2>1 DEF Fits
    <3> HIDE DEF e
    <3>2. e[1] \in Nodes(h) /\ IsLive(h, e[1]) /\ e[2] \in 1..LinkCt(h, e[1])
      BY <3>1 DEF IsLinkOf
    <3>3. e[2] \in 1..LinkCt(g, e[1]) /\ e[1] \in Nodes(g) /\ IsLive(g, e[1])
      BY <3>2 DEF Grown, GrownAt
    <3> QED BY <3>3 DEF IsLinkOf, e
  <2>4. StateOf(g, p.left) = StateOf(h, p.left) /\ IsLive(g, p.left)
    BY <2>1 DEF Grown, GrownAt, Fits
  <2>5. Fits(g, T, p)
    BY <2>1, <2>3, <2>4 DEF Fits
  <2> QED BY <2>2, <2>5 DEF Paths
<1> DEFINE A == Paths(h, T)
           B == Paths(g, T)
<1> HIDE DEF A, B
<1>2. A \subseteq B
  BY <1>1 DEF A, B
<1>3. \A q \in Seq(A) : q \in Seq(B)
  BY <1>2
<1> QED BY <1>1, <1>3 DEF A, B

\* A trail of k links ends in a state that lies k symbols behind.
LEMMA TrailBack ==
  ASSUME NEW h, NEW T, GraphOK(h, T), NEW n \in Nodes(h), IsLive(h, n), NEW len \in Nat,
         NEW q \in Partials(h), IsTrail(h, n, len, q)
  PROVE  StateOf(h, q.left) \in Behind(T, StateOf(h, n), len)[len]
<1> DEFINE b == Behind(T, StateOf(h, n), len)
           Bad == {k \in 0..len : \E p \in Partials(h) : IsTrail(h, n, k, p) /\ StateOf(h, p.left) \notin b[k]}
<1>1. Shape(h) /\ Inward(h) /\ StatesOK(h, T)
  BY DEF GraphOK
<1>2. b[0] = {StateOf(h, n)} /\ \A k \in 1..len : b[k] = Before(T, b[k - 1])
  BY <1>1, BehindIs DEF StatesOK, Backward
<1> HIDE DEF b
<1>3. Bad = {}
  <2> SUFFICES ASSUME Bad # {} PROVE FALSE
    OBVIOUS
  <2>1. PICK k \in Bad : \A j \in Bad : k <= j
    <3>1. Bad \in SUBSET Nat
      OBVIOUS
    <3> HIDE DEF Bad
    <3> QED BY <3>1, Least
  <2>2. PICK p \in Partials(h) : IsTrail(h, n, k, p) /\ StateOf(h, p.left) \notin b[k]
    BY <2>1
  <2>3. k \in 1..len /\ k - 1 \in 0..len /\ (k - 1) + 1 = k /\ k - 1 \notin Bad
    <3>1. k # 0
      BY <1>2, <2>2 DEF IsTrail
    <3>2. k \in 1..len /\ k - 1 \in 0..len /\ (k - 1) + 1 = k /\ ~(k <= k - 1)
      BY <2>1, <3>1
    <3> HIDE DEF Bad
    <3> QED BY <2>1, <3>2
  <2> DEFINE j == k - 1
             u == Under(p)
  <2>4. j \in Nat /\ IsTrail(h, n, j + 1, p)
    BY <2>2, <2>3
  <2> HIDE DEF j
  <2>5. u \in Partials(h) /\ IsTrail(h, n, j, u) /\ p \in ToSet(Longer(h, u))
    BY <1>1, <2>4, TrailGrew
  <2> HIDE DEF u
  <2>6. StateOf(h, u.left) \in b[j]
    BY <2>3, <2>5 DEF j
  <2>7. PICK l \in 1..LinkCt(h, u.left) : p.left = Sib(h, u.left, l)
    <3>1. \A x : x \in ToSet(Longer(h, u)) <=> \E l \in 1..LinkCt(h, u.left) :
             x = [left |-> Sib(h, u.left, l), links |-> <<<<u.left, l>>>> \o u.links]
      BY <1>1, <2>5, LongerAre
    <3>2. PICK l \in 1..LinkCt(h, u.left) :
             p = [left |-> Sib(h, u.left, l), links |-> <<<<u.left, l>>>> \o u.links]
      BY <2>5, <3>1, Zenon
    <3> QED BY <3>2
  <2>8. u.left \in Nodes(h) /\ IsLive(h, u.left) /\ p.left \in Nodes(h) /\ IsLive(h, p.left)
    BY <2>2, <2>5 DEF Partials, IsTrail
  <2>9. StateOf(h, p.left) \in Before(T, b[j])
    BY <1>1, <2>6, <2>7, <2>8 DEF StatesOK, Before
  <2> QED BY <1>2, <2>2, <2>3, <2>9 DEF j
<1> QED BY <1>3 DEF b

\* The paths that a cell allows at a live node end at a node which has a transition on the
\* left-hand side.
LEMMA NewPathsAre ==
  ASSUME NEW h, GraphOK(h, tables), Automaton(tables), NEW n \in Nodes(h), IsLive(h, n),
         NEW t \in DOMAIN tables.action[StateOf(h, n)],
         NEW entry, entry = tables.action[StateOf(h, n)][t], NEW must
  PROVE  NewPaths(h, n, entry, must) \in Seq(Paths(h, tables))
<1> DEFINE s == StateOf(h, n)
           ps == NewPaths(h, n, entry, must)
           W == Paths(h, tables)
<1>1. Shape(h) /\ Inward(h) /\ s \in States(tables)
  BY DEF GraphOK, StatesOK
<1>2. entry \in Seq(Int) /\ \A a \in ToSet(entry) : IsReduce(a) =>
          LET p == tables.prods[ReduceBy(a)]
          IN  /\ ReduceBy(a) \in DOMAIN tables.prods /\ p.len \in Nat
              /\ \A q \in Behind(tables, s, p.len)[p.len] :
                    p.lhs \in DOMAIN tables.goto[q] /\ tables.goto[q][p.lhs] \in States(tables)
  BY <1>1 DEF Automaton, States
<1>3. ps \in Seq(PathShape(h)) /\ \A r \in ToSet(ps) : IsPath(h, n, entry, must, r)
  BY <1>1, <1>2, NewPathsExact
<1> HIDE DEF ps, W
<1>4. ASSUME NEW r \in ToSet(ps) PROVE r \in W
  <2>1. /\ IsReduce(-r.prod - 1) /\ -r.prod - 1 \in ToSet(entry) /\ r \in PathShape(h) /\ r.right = n
        /\ r.column = h[r.left].column /\ IsTrail(h, n, tables.prods[r.prod].len, TrailOf(r))
    BY <1>3 DEF IsPath, IsPathBy
  <2>2. ReduceBy(-r.prod - 1) = r.prod
    BY <2>1 DEF ReduceBy, PathShape
  <2> DEFINE p == tables.prods[r.prod]
  <2>3. /\ r.prod \in DOMAIN tables.prods /\ p.len \in Nat
        /\ \A q \in Behind(tables, s, p.len)[p.len] :
              p.lhs \in DOMAIN tables.goto[q] /\ tables.goto[q][p.lhs] \in States(tables)
    BY <1>2, <2>1, <2>2
  <2>4. TrailOf(r) \in Partials(h) /\ TrailOf(r).left = r.left /\ TrailOf(r).links = r.links
    BY <2>1, PathFromTrail DEF TrailOf
  <2>5. StateOf(h, r.left) \in Behind(tables, s, p.len)[p.len]
    BY <2>1, <2>3, <2>4, TrailBack
  <2>6. IsLive(h, r.left) /\ \A i \in 1..Len(r.links) : IsLinkOf(h, r.links[i])
    BY <2>1, <2>4 DEF IsTrail
  <2> QED BY <2>1, <2>3, <2>5, <2>6 DEF Paths, Fits, W
<1>5. Len(ps) \in Nat /\ ps = [i \in 1..Len(ps) |-> ps[i]] /\ \A i \in 1..Len(ps) : ps[i] \in ToSet(ps)
  BY <1>3 DEF ToSet
<1>6. \A i \in 1..Len(ps) : ps[i] \in W
  BY <1>4, <1>5
<1> QED BY <1>5, <1>6 DEF ps, W

\* every state has a cell for the token
TokenFits == \A s \in States(tables) : Token \in DOMAIN tables.action[s]

\* The same for all the paths of all the parsers on a list.
LEMMA PathsOfAllAre ==
  ASSUME NEW h, GraphOK(h, tables), Automaton(tables), TokenFits,
         NEW list, LiveList(h, list), NEW must
  PROVE  PathsOfAll(h, list, must) \in Seq(Paths(h, tables))
<1> DEFINE W == Paths(h, tables)
           new(n) == NewPaths(h, n, Entry(h[n].state), must)
           g == [i \in DOMAIN list |-> new(list[i])]
<1>1. \A n \in Nodes(h) : IsLive(h, n) => new(n) \in Seq(W)
  <2> SUFFICES ASSUME NEW n \in Nodes(h), IsLive(h, n) PROVE new(n) \in Seq(W)
    OBVIOUS
  <2>1. StateOf(h, n) \in States(tables) /\ h[n].state = StateOf(h, n)
    BY DEF GraphOK, StatesOK, StateOf
  <2>2. Token \in DOMAIN tables.action[StateOf(h, n)]
    BY <2>1 DEF TokenFits
  <2> QED BY <2>1, <2>2, NewPathsAre DEF Entry
<1>2. PathsOfAll(h, list, must) = FlattenSeq(g)
  BY Zenon DEF PathsOfAll, FlatMap
<1> HIDE DEF new, W
<1>3. /\ Len(list) \in Nat /\ DOMAIN list = 1..Len(list)
      /\ \A i \in 1..Len(list) : list[i] \in Nodes(h) /\ IsLive(h, list[i])
  BY DEF LiveList
<1>4. g = [i \in 1..Len(list) |-> g[i]] /\ \A i \in 1..Len(list) : g[i] \in Seq(W)
  BY <1>1, <1>3
<1> HIDE DEF g
<1>5. PathsOfAll(h, list, must) \in Seq(W)
  BY <1>2, <1>3, <1>4, FlattenJoins DEF Joined
<1> QED BY <1>5 DEF W

\* insertPathCopy adds the path and nothing else.
LEMMA InsertPathIs ==
  ASSUME NEW V, NEW q \in Seq(V), NEW p \in V
  PROVE  InsertPath(q, p) \in Seq(V)
<1> DEFINE at == {i \in DOMAIN q : GoesBefore(p, q[i])}
<1>1. Len(q) \in Nat /\ DOMAIN q = 1..Len(q)
  OBVIOUS
<1>2. InsertPath(q, p) = IF at = {} THEN Append(q, p) ELSE InsertAt(q, Min(at), p)
  BY Zenon DEF InsertPath
<1>3. at \subseteq 1..Len(q)
  BY <1>1
<1> HIDE DEF at
<1>4. CASE at = {}
  BY <1>2, <1>4
<1>5. CASE at # {}
  <2> DEFINE m == Min(at)
             a == SubSeq(q, 1, m - 1)
             b == SubSeq(q, m, Len(q))
             e == <<p>>
  <2>1. m \in 1..Len(q)
    <3>1. at \in SUBSET Nat
      BY <1>1, <1>3
    <3> HIDE DEF m
    <3> QED BY <1>3, <1>5, <3>1, MinIs DEF m
  <2>2. InsertPath(q, p) = a \o e \o b
    BY <1>2, <1>5 DEF InsertAt
  <2> HIDE DEF m
  <2>3. a \in Seq(V) /\ b \in Seq(V)
    BY <1>1, <2>1
  <2>4. e \in Seq(V)
    OBVIOUS
  <2> HIDE DEF a, b, e
  <2>5. a \o e \in Seq(V)
    BY <2>3, <2>4
  <2>6. (a \o e) \o b \in Seq(V)
    BY <2>3, <2>5
  <2> QED BY <2>2, <2>6
<1> QED BY <1>4, <1>5

\* The same for a sequence of paths.
LEMMA InsertAllIs ==
  ASSUME NEW V, NEW q \in Seq(V), NEW ps \in Seq(V)
  PROVE  InsertAll(q, ps) \in Seq(V)
<1> DEFINE X == Seq(V)
           n == Len(ps)
           G == [e \in (1..n) \X X |-> InsertPath(e[2], ps[e[1]])]
           Is(f) == f = [i \in 0..n |-> IF i = 0 THEN q ELSE InsertPath(f[i - 1], ps[i])]
<1>1. n \in Nat /\ \A i \in 1..n : ps[i] \in V
  OBVIOUS
<1>2. \A x \in X : \A i \in 1..n : InsertPath(x, ps[i]) \in X
  BY <1>1, InsertPathIs
<1>3. q \in X
  OBVIOUS
<1>0. InsertAll(q, ps) = (CHOOSE f : Is(f))[n]
  BY Zenon DEF InsertAll
<1> HIDE DEF X, n
<1>4. IsStep(G, n, X)
  BY <1>2 DEF IsStep
<1>5. PICK f : Iterated(f, n, X, q, G)
  <2> HIDE DEF G
  <2> QED BY <1>1, <1>3, <1>4, Iterate
<1>6. f \in [0..n -> X] /\ f[0] = q /\ \A k \in 1..n : f[k] = G[<<k, f[k - 1]>>]
  BY <1>5 DEF Iterated
<1>7. ASSUME NEW k \in 1..n PROVE f[k] = InsertPath(f[k - 1], ps[k])
  <2>1. <<k, f[k - 1]>> \in (1..n) \X X
    BY <1>1, <1>6
  <2> QED BY <1>6, <2>1
<1> HIDE DEF G
<1>8. Is(f)
  <2>1. f = [k \in 0..n |-> f[k]]
    BY <1>6
  <2>2. \A k \in 0..n : f[k] = IF k = 0 THEN q ELSE InsertPath(f[k - 1], ps[k])
    BY <1>1, <1>6, <1>7
  <2> QED BY <2>1, <2>2, Zenon
<1> DEFINE c == CHOOSE g : Is(g)
<1>9. Is(c)
  BY <1>8, Zenon
<1>10. InsertAll(q, ps) = c[n]
  BY <1>0
<1> HIDE DEF c
<1>11. \A k \in 0..n : c[k] = IF k = 0 THEN q ELSE InsertPath(c[k - 1], ps[k])
  BY <1>9, Zenon
<1> DEFINE Bad == {k \in 0..n : c[k] \notin X}
<1>12. Bad = {}
  <2> SUFFICES ASSUME Bad # {} PROVE FALSE
    OBVIOUS
  <2>1. PICK k \in Bad : \A j \in Bad : k <= j
    <3>1. Bad \in SUBSET Nat
      OBVIOUS
    <3> HIDE DEF Bad
    <3> QED BY <3>1, Least
  <2>2. k # 0
    BY <1>1, <1>3, <1>11, <2>1
  <2>3. k \in 1..n /\ k - 1 \in 0..n /\ k - 1 \notin Bad
    BY <1>1, <2>1, <2>2
  <2>4. c[k - 1] \in X /\ c[k] = InsertPath(c[k - 1], ps[k])
    BY <1>11, <2>2, <2>3
  <2> QED BY <1>2, <2>1, <2>3, <2>4
<1> QED BY <1>1, <1>10, <1>12 DEF X

------------------------
(* The stack and the lists of parsers *)

\* the references of each node that are not links
OccOf(h, top, prev) == [m \in Nodes(h) |-> Occurs(m, top) + Occurs(m, prev)]

StackOK(h, T, top, prev) ==
    /\ GraphOK(h, T) /\ CountedBy(h, OccOf(h, top, prev)) /\ Held(h) /\ Closed(h, ToSet(top))
    /\ LiveList(h, top) /\ LiveList(h, prev) /\ Increasing(top) /\ Increasing(prev)

\* What a list of live nodes is, by index, and by counting.
LEMMA ListIs ==
  ASSUME NEW h, NEW list, LiveList(h, list)
  PROVE  /\ Len(list) \in Nat /\ DOMAIN list = 1..Len(list) /\ list \in Seq(Nodes(h))
         /\ \A n \in ToSet(list) : n \in Nodes(h) /\ IsLive(h, n)
         /\ \A i \in 1..Len(list) : list[i] \in ToSet(list) /\ list[i] \in Nodes(h)
         /\ \A n : Occurs(n, list) \in Nat /\ (n \in ToSet(list) <=> Occurs(n, list) > 0)
<1>1. list \in Seq(Nodes(h)) /\ \A i \in 1..Len(list) : IsLive(h, list[i])
  BY DEF LiveList
<1>2. Len(list) \in Nat /\ DOMAIN list = 1..Len(list) /\ \A i \in 1..Len(list) : list[i] \in Nodes(h)
  BY <1>1
<1>3. \A n : Occurs(n, list) \in Nat /\ (Occurs(n, list) = 0 <=> n \notin ToSet(list))
  BY <1>1, OccursIs
<1>4. ToSet(list) = {list[i] : i \in 1..Len(list)}
  BY <1>2 DEF ToSet
<1> QED BY <1>1, <1>2, <1>3, <1>4

\* A list stays one in another graph if its nodes are live there.
LEMMA ListStays ==
  ASSUME NEW h, NEW g, NEW list, LiveList(h, list),
         \A n \in ToSet(list) : n \in Nodes(g) /\ IsLive(g, n)
  PROVE  LiveList(g, list)
<1>1. /\ Len(list) \in Nat /\ DOMAIN list = 1..Len(list) /\ list \in Seq(Nodes(h))
      /\ \A i \in 1..Len(list) : list[i] \in ToSet(list)
  BY ListIs
<1>2. \A i \in 1..Len(list) : list[i] \in Nodes(g)
  BY <1>1
<1> DEFINE S == Nodes(h)
           R == Nodes(g)
<1> HIDE DEF S, R
<1>3. list \in Seq(R)
  <2>1. list \in Seq(S)
    BY <1>1 DEF S
  <2>2. list = [i \in 1..Len(list) |-> list[i]]
    BY <2>1
  <2>3. \A i \in 1..Len(list) : list[i] \in R
    BY <1>2 DEF R
  <2>4. list \in [1..Len(list) -> R]
    BY <2>2, <2>3
  <2> QED BY <1>1, <2>4
<1> QED BY <1>1, <1>3 DEF LiveList, R

\* A list with the node that has just been made.
LEMMA ListAppend ==
  ASSUME NEW h, Len(h) \in Nat, NEW g, Len(g) = Len(h) + 1, NEW list, LiveList(h, list), Increasing(list),
         \A m \in Nodes(h) : IsLive(h, m) => IsLive(g, m),
         IsLive(g, Len(h) + 1)
  PROVE  LET n == Len(h) + 1
             l == Append(list, n)
         IN  /\ LiveList(g, l) /\ Increasing(l) /\ ToSet(l) = ToSet(list) \cup {n}
             /\ Occurs(n, list) = 0 /\ Occurs(n, l) = 1
             /\ \A m \in Nodes(h) : Occurs(m, l) = Occurs(m, list)
             /\ LiveList(g, list)
<1> DEFINE n == Len(h) + 1
           l == Append(list, n)
           L == Len(list)
           R == Nodes(g)
<1>1. /\ L \in Nat /\ DOMAIN list = 1..L /\ list \in Seq(Nodes(h))
      /\ \A m \in ToSet(list) : m \in Nodes(h) /\ IsLive(h, m)
      /\ \A i \in 1..L : list[i] \in ToSet(list) /\ list[i] \in Nodes(h)
      /\ \A m : Occurs(m, list) \in Nat /\ (m \in ToSet(list) <=> Occurs(m, list) > 0)
  BY ListIs
<1>2. /\ \A m \in Nodes(h) : m \in R /\ m # n /\ m < n /\ m \in Nat
      /\ n \in R /\ n \in Nat
  BY DEF Nodes
<1>3. LiveList(g, list)
  BY <1>1, <1>2, ListStays
<1>4. list \in Seq(R) /\ \A i \in 1..L : IsLive(g, list[i])
  BY <1>3 DEF LiveList
<1> HIDE DEF n, R
<1>5. /\ l \in Seq(R) /\ Len(l) = L + 1 /\ l[L + 1] = n
      /\ \A i \in 1..L : l[i] = list[i]
  BY <1>2, <1>4
<1> HIDE DEF l, L
<1>6. \A i \in 1..(L + 1) : i \in 1..L \/ i = L + 1
  BY <1>1
<1>7. LiveList(g, l)
  BY <1>4, <1>5, <1>6 DEF LiveList, R, n
<1>8. Increasing(l)
  <2> SUFFICES ASSUME NEW i \in 1..(L + 1), NEW j \in 1..(L + 1), i < j PROVE l[i] < l[j]
    BY <1>5 DEF Increasing
  <2>1. i \in 1..L
    BY <1>1
  <2>2. CASE j = L + 1
    BY <1>1, <1>2, <1>5, <2>1, <2>2
  <2>3. CASE j \in 1..L
    BY <1>5, <2>1, <2>3 DEF Increasing, L
  <2> QED BY <1>6, <2>2, <2>3
<1>9. ToSet(l) = ToSet(list) \cup {n}
  <2>1. DOMAIN l = 1..(L + 1)
    BY <1>5
  <2>2. ASSUME NEW x PROVE x \in ToSet(l) <=> x \in ToSet(list) \/ x = n
    <3>1. x \in ToSet(l) <=> \E i \in 1..(L + 1) : x = l[i]
      BY <2>1 DEF ToSet
    <3>2. x \in ToSet(list) <=> \E i \in 1..L : x = list[i]
      BY <1>1 DEF ToSet
    <3>3. \A i \in 1..L : i \in 1..(L + 1)
      BY <1>1
    <3>4. L + 1 \in 1..(L + 1)
      BY <1>1
    <3> QED BY <1>5, <1>6, <3>1, <3>2, <3>3, <3>4
  <2> QED BY <2>2
<1>10. \A m : Occurs(m, l) = Occurs(m, list) + (IF m = n THEN 1 ELSE 0)
  BY <1>2, <1>4, OccursIs DEF l
<1>11. n \notin ToSet(list)
  BY <1>1, <1>2
<1>12. Occurs(n, list) = 0
  BY <1>1, <1>11
<1>13. \A m \in Nodes(h) : Occurs(m, l) = Occurs(m, list)
  BY <1>1, <1>2, <1>10
<1>14. Occurs(n, l) = 1
  BY <1>10, <1>12
<1> QED BY <1>3, <1>7, <1>8, <1>9, <1>12, <1>13, <1>14 DEF n, l

\* A list without its last node.
LEMMA ListFront ==
  ASSUME NEW h, NEW list, LiveList(h, list), Increasing(list), list # <<>>
  PROVE  /\ LiveList(h, Front(list)) /\ Increasing(Front(list))
         /\ Last(list) \in Nodes(h) /\ IsLive(h, Last(list))
         /\ Last(list) \notin ToSet(Front(list)) /\ Last(list) \in ToSet(list)
         /\ ToSet(Front(list)) \subseteq ToSet(list)
         /\ \A m : Occurs(m, list) = Occurs(m, Front(list)) + (IF m = Last(list) THEN 1 ELSE 0)
<1> DEFINE l == Front(list)
           n == Last(list)
           L == Len(list)
           R == Nodes(h)
<1>1. /\ L \in Nat /\ DOMAIN list = 1..L /\ list \in Seq(R)
      /\ \A m \in ToSet(list) : m \in R /\ IsLive(h, m)
      /\ \A i \in 1..L : list[i] \in ToSet(list) /\ list[i] \in R
  BY ListIs
<1> HIDE DEF R
<1>2. /\ l \in Seq(R) /\ n \in R /\ Len(l) = L - 1 /\ L \in Nat \ {0}
      /\ n = list[L] /\ \A i \in 1..(L - 1) : l[i] = list[i]
      /\ \A m : Occurs(m, list) = Occurs(m, l) + (IF m = n THEN 1 ELSE 0)
  BY <1>1, OccursFront, Zenon
<1> HIDE DEF l, n, L
<1>3. \A i \in 1..(L - 1) : i \in 1..L /\ i < L
  BY <1>2
<1>4. L \in 1..L
  BY <1>2
<1>5. n \in ToSet(list) /\ IsLive(h, n)
  BY <1>1, <1>2, <1>4
<1>6. DOMAIN l = 1..(L - 1)
  BY <1>2
<1>7. \A m \in ToSet(l) : \E i \in 1..(L - 1) : m = list[i]
  BY <1>2, <1>6 DEF ToSet
<1>8. ToSet(l) \subseteq ToSet(list)
  BY <1>1, <1>3, <1>7
<1>9. \A i \in 1..(L - 1) : list[i] < n /\ list[i] \in R
  BY <1>1, <1>2, <1>3, <1>4 DEF Increasing, L
<1>10. n \notin ToSet(l)
  <2>1. \A m \in R : m \in Nat
    BY DEF R, Nodes
  <2> QED BY <1>2, <1>7, <1>9, <2>1
<1>11. Increasing(l)
  <2> SUFFICES ASSUME NEW i \in 1..(L - 1), NEW j \in 1..(L - 1), i < j PROVE l[i] < l[j]
    BY <1>2 DEF Increasing
  <2> QED BY <1>2, <1>3 DEF Increasing, L
<1>12. LiveList(h, l)
  <2>1. \A i \in 1..Len(l) : l[i] \in ToSet(list)
    BY <1>1, <1>2, <1>3
  <2> QED BY <1>1, <1>2, <2>1 DEF LiveList, R
<1> QED BY <1>2, <1>5, <1>8, <1>10, <1>11, <1>12 DEF l, n, R

\* Another graph with the same nodes, links, counts and depths.
LEMMA SameStack ==
  ASSUME NEW h, NEW T, NEW top, NEW prev, StackOK(h, T, top, prev),
         NEW g, SameLinks(h, g), SameRefs(h, g), SameDepths(h, g)
  PROVE  StackOK(g, T, top, prev)
<1>1. /\ GraphOK(h, T) /\ CountedBy(h, OccOf(h, top, prev)) /\ Held(h) /\ Closed(h, ToSet(top))
      /\ LiveList(h, top) /\ LiveList(h, prev) /\ Increasing(top) /\ Increasing(prev)
      /\ Shape(h)
  BY DEF StackOK, GraphOK
<1>2. Nodes(g) = Nodes(h) /\ \A m \in Nodes(h) : IsLive(g, m) <=> IsLive(h, m)
  BY DEF SameLinks, Nodes
<1>3. OccOf(g, top, prev) = OccOf(h, top, prev)
  BY <1>2 DEF OccOf
<1>4. LiveList(g, top) /\ LiveList(g, prev)
  BY <1>1, <1>2 DEF LiveList
<1>5. GraphOK(g, T) /\ CountedBy(g, OccOf(h, top, prev)) /\ Held(g) /\ Closed(g, ToSet(top))
  BY <1>1, SameKeeps
<1> QED BY <1>1, <1>3, <1>4, <1>5 DEF StackOK

------------------------
(* The lists of parsers after a push or a shift *)

\* The empty list is a list of live nodes.
LEMMA EmptyList ==
  ASSUME NEW h
  PROVE  LiveList(h, <<>>) /\ Increasing(<<>>) /\ ToSet(<<>>) = {}
<1>1. <<>> \in Seq(Nodes(h)) /\ Len(<<>>) = 0 /\ DOMAIN <<>> = {}
  OBVIOUS
<1>2. ToSet(<<>>) = {}
  BY <1>1 DEF ToSet
<1> QED BY <1>1, <1>2 DEF LiveList, Increasing

\* A list of one live node.
LEMMA OneList ==
  ASSUME NEW h, NEW n \in Nodes(h), IsLive(h, n)
  PROVE  LiveList(h, <<n>>) /\ Increasing(<<n>>) /\ ToSet(<<n>>) = {n}
<1>1. <<n>> \in Seq(Nodes(h)) /\ Len(<<n>>) = 1 /\ DOMAIN <<n>> = {1} /\ <<n>>[1] = n
  OBVIOUS
<1>2. ToSet(<<n>>) = {n}
  BY <1>1 DEF ToSet
<1> DEFINE l == <<n>>
<1> HIDE DEF l
<1>3. Increasing(l)
  BY <1>1 DEF Increasing, l
<1>4. LiveList(h, l)
  <2>1. \A i \in 1..Len(l) : l[i] = n
    BY <1>1 DEF l
  <2> QED BY <1>1, <2>1 DEF LiveList, l
<1> QED BY <1>2, <1>3, <1>4 DEF l

\* The mini-LR core: the new node takes the parser's place on the list, and its reference.
LEMMA OnlyTop ==
  ASSUME NEW h, NEW T, GraphOK(h, T), Held(h), NEW left \in Nodes(h), IsLive(h, left),
         \A m \in Nodes(h) : IsLive(h, m) =>
            RefOf(h, m) = LinksInto(h, Nodes(h), m) + (IF m = left THEN 1 ELSE 0),
         NEW g, NEW state, NEW id, NodePushed(h, g, state, left, id, 0),
         state \in States(T), LeadsTo(T, StateOf(h, left), state)
  PROVE  StackOK(g, T, <<Len(h) + 1>>, <<>>)
<1> DEFINE n == Len(h) + 1
           occ == OccOf(g, <<n>>, <<>>)
<1>1. Shape(h) /\ Inward(h) /\ Len(h) \in Nat
  BY ShapeIs DEF GraphOK
<1>2. GraphOK(g, T) /\ \A S : Closed(h, S) => Closed(g, S \cup {n})
  BY NodePushedKeeps
<1>3. /\ n \in Nodes(g) /\ IsLive(g, n)
      /\ \A m \in Nodes(h) : m \in Nodes(g) /\ m # n
  BY <1>1 DEF NodePushed, Nodes
<1>4. occ[n] = 1 /\ \A m \in Nodes(h) : occ[m] = 0
  BY <1>3, OccursFew DEF OccOf
<1> HIDE DEF occ
<1>5. \A m \in Nodes(h) : IsLive(h, m) =>
            RefOf(h, m) + (IF m = left THEN 0 ELSE 0)
               = LinksInto(h, Nodes(h), m) + (IF m = left THEN 1 ELSE 0) + occ[m]
  <2> SUFFICES ASSUME NEW m \in Nodes(h), IsLive(h, m)
      PROVE RefOf(h, m) + (IF m = left THEN 0 ELSE 0)
               = LinksInto(h, Nodes(h), m) + (IF m = left THEN 1 ELSE 0) + occ[m]
    OBVIOUS
  <2>1. /\ RefOf(h, m) \in Int /\ LinksInto(h, Nodes(h), m) \in Nat /\ occ[m] = 0
        /\ RefOf(h, m) = LinksInto(h, Nodes(h), m) + (IF m = left THEN 1 ELSE 0)
    BY <1>1, <1>4, ViewsAre, LinksAreNat
  <2> QED BY <2>1
<1>6. CountedBy(g, occ) /\ Held(g)
  BY <1>1, <1>4, <1>5, NodePushedCounted
<1>7. Closed(h, {})
  BY DEF Closed
<1>8. Closed(g, {n})
  <2>1. {} \cup {n} = {n}
    OBVIOUS
  <2> QED BY <1>2, <1>7, <2>1
<1> HIDE DEF n
<1>9. LiveList(g, <<n>>) /\ Increasing(<<n>>) /\ ToSet(<<n>>) = {n}
  BY <1>3, OneList
<1> QED BY <1>2, <1>6, <1>8, <1>9, EmptyList DEF StackOK, occ, n

\* Pushing a new parser on a node that goes on being referred to as it was.
LEMMA NewTopKeeps ==
  ASSUME NEW h, NEW T, NEW top, NEW prev, StackOK(h, T, top, prev),
         NEW left \in Nodes(h), IsLive(h, left),
         NEW g, NEW state, NEW id, NodePushed(h, g, state, left, id, 1),
         state \in States(T), LeadsTo(T, StateOf(h, left), state)
  PROVE  StackOK(g, T, Append(top, Len(h) + 1), prev)
<1> DEFINE n == Len(h) + 1
           l == Append(top, n)
           occ == OccOf(g, l, prev)
<1>1. /\ GraphOK(h, T) /\ CountedBy(h, OccOf(h, top, prev)) /\ Held(h) /\ Closed(h, ToSet(top))
      /\ LiveList(h, top) /\ LiveList(h, prev) /\ Increasing(top) /\ Increasing(prev)
      /\ Shape(h) /\ Inward(h) /\ Len(h) \in Nat
  BY ShapeIs DEF StackOK, GraphOK
<1>2. GraphOK(g, T) /\ \A S : Closed(h, S) => Closed(g, S \cup {n})
  BY <1>1, NodePushedKeeps
<1>3. /\ n \in Nodes(g) /\ IsLive(g, n) /\ Len(g) = Len(h) + 1
      /\ \A m \in Nodes(h) : /\ m \in Nodes(g) /\ m # n
                             /\ IsLive(h, m) => IsLive(g, m)
  BY <1>1 DEF NodePushed, Nodes
<1>4. /\ LiveList(g, l) /\ Increasing(l) /\ ToSet(l) = ToSet(top) \cup {n}
      /\ Occurs(n, l) = 1
      /\ \A m \in Nodes(h) : Occurs(m, l) = Occurs(m, top)
  BY <1>1, <1>3, ListAppend
<1>5. LiveList(g, prev) /\ Occurs(n, prev) = 0
  BY <1>1, <1>3, ListAppend
<1> HIDE DEF l, n
<1>6. occ[n] = 1 /\ \A m \in Nodes(h) : occ[m] = Occurs(m, top) + Occurs(m, prev)
  BY <1>3, <1>4, <1>5 DEF OccOf
<1> HIDE DEF occ
<1>7. \A m \in Nodes(h) : IsLive(h, m) =>
            RefOf(h, m) + (IF m = left THEN 1 ELSE 0)
               = LinksInto(h, Nodes(h), m) + (IF m = left THEN 1 ELSE 0) + occ[m]
  <2> SUFFICES ASSUME NEW m \in Nodes(h), IsLive(h, m)
      PROVE RefOf(h, m) + (IF m = left THEN 1 ELSE 0)
               = LinksInto(h, Nodes(h), m) + (IF m = left THEN 1 ELSE 0) + occ[m]
    OBVIOUS
  <2>1. RefOf(h, m) \in Int /\ LinksInto(h, Nodes(h), m) \in Nat
    BY <1>1, ViewsAre, LinksAreNat
  <2>2. RefOf(h, m) = LinksInto(h, Nodes(h), m) + occ[m]
    BY <1>1, <1>6 DEF CountedBy, OccOf
  <2>3. occ[m] \in Nat
    BY <1>1, <1>6, ListIs
  <2> QED BY <2>1, <2>2, <2>3
<1>8. CountedBy(g, occ) /\ Held(g)
  BY <1>1, <1>6, <1>7, NodePushedCounted DEF n
<1>9. Closed(g, ToSet(l))
  BY <1>1, <1>2, <1>4
<1> QED BY <1>1, <1>2, <1>4, <1>5, <1>8, <1>9 DEF StackOK, occ, l, n

\* during a shift: nobody links to a topmost parser, and those link to parsers already shifted
Shifting(h, top, prev) ==
    /\ ToSet(top) \cap ToSet(prev) = {}
    /\ \A n \in Nodes(h) : \A k \in 1..LinkCt(h, n) :
          /\ Sib(h, n, k) \notin ToSet(top)
          /\ n \in ToSet(top) => Sib(h, n, k) \notin ToSet(prev)

\* A shift to a new node: the parser on the worklist gives up the reference the link takes.
LEMMA ShiftedNew ==
  ASSUME NEW h, NEW T, NEW top, NEW prev, StackOK(h, T, top, prev), Shifting(h, top, prev), prev # <<>>,
         NEW g, NEW state, NEW id, NodePushed(h, g, state, Last(prev), id, 0),
         state \in States(T), LeadsTo(T, StateOf(h, Last(prev)), state)
  PROVE  /\ StackOK(g, T, Append(top, Len(h) + 1), Front(prev))
         /\ Shifting(g, Append(top, Len(h) + 1), Front(prev))
<1> DEFINE n == Len(h) + 1
           l == Append(top, n)
           left == Last(prev)
           rest == Front(prev)
           occ == OccOf(g, l, rest)
<1>1. /\ GraphOK(h, T) /\ CountedBy(h, OccOf(h, top, prev)) /\ Held(h) /\ Closed(h, ToSet(top))
      /\ LiveList(h, top) /\ LiveList(h, prev) /\ Increasing(top) /\ Increasing(prev)
      /\ Shape(h) /\ Inward(h) /\ Len(h) \in Nat
  BY ShapeIs DEF StackOK, GraphOK
<1>2. /\ LiveList(h, rest) /\ Increasing(rest) /\ left \in Nodes(h) /\ IsLive(h, left)
      /\ left \notin ToSet(rest) /\ ToSet(rest) \subseteq ToSet(prev)
      /\ \A m : Occurs(m, prev) = Occurs(m, rest) + (IF m = left THEN 1 ELSE 0)
  BY <1>1, ListFront
<1> HIDE DEF left, rest
<1>3. GraphOK(g, T) /\ \A S : Closed(h, S) => Closed(g, S \cup {n})
  BY <1>1, <1>2, NodePushedKeeps DEF left
<1>4. /\ n \in Nodes(g) /\ IsLive(g, n) /\ Len(g) = Len(h) + 1
      /\ \A m \in Nodes(h) : /\ m \in Nodes(g) /\ m # n
                             /\ IsLive(h, m) => IsLive(g, m)
      /\ \A m \in Nodes(g) : m \in Nodes(h) \/ m = n
  BY <1>1 DEF NodePushed, Nodes
<1>5. /\ LiveList(g, l) /\ Increasing(l) /\ ToSet(l) = ToSet(top) \cup {n}
      /\ Occurs(n, l) = 1
      /\ \A m \in Nodes(h) : Occurs(m, l) = Occurs(m, top)
  BY <1>1, <1>4, ListAppend
<1>6. LiveList(g, rest) /\ Occurs(n, rest) = 0
  BY <1>1, <1>2, <1>4, ListAppend
<1> HIDE DEF l, n
<1>7. occ[n] = 1 /\ \A m \in Nodes(h) : occ[m] = Occurs(m, top) + Occurs(m, rest)
  BY <1>4, <1>5, <1>6 DEF OccOf
<1> HIDE DEF occ
<1>8. \A m \in Nodes(h) : IsLive(h, m) =>
            RefOf(h, m) + (IF m = left THEN 0 ELSE 0)
               = LinksInto(h, Nodes(h), m) + (IF m = left THEN 1 ELSE 0) + occ[m]
  <2> SUFFICES ASSUME NEW m \in Nodes(h), IsLive(h, m)
      PROVE RefOf(h, m) + (IF m = left THEN 0 ELSE 0)
               = LinksInto(h, Nodes(h), m) + (IF m = left THEN 1 ELSE 0) + occ[m]
    OBVIOUS
  <2>1. RefOf(h, m) \in Int /\ LinksInto(h, Nodes(h), m) \in Nat
    BY <1>1, ViewsAre, LinksAreNat
  <2>2. RefOf(h, m) = LinksInto(h, Nodes(h), m) + (Occurs(m, top) + Occurs(m, prev))
    BY <1>1 DEF CountedBy, OccOf
  <2>3. Occurs(m, top) \in Nat /\ Occurs(m, rest) \in Nat
    BY <1>1, <1>2, ListIs
  <2> QED BY <1>2, <1>7, <2>1, <2>2, <2>3
<1>9. CountedBy(g, occ) /\ Held(g)
  <2>1. 0 \in Nat /\ NodePushed(h, g, state, left, id, 0)
    BY DEF left
  <2>2. occ[Len(h) + 1] = 1
    BY <1>7 DEF n
  <2> QED BY <1>1, <1>2, <1>8, <2>1, <2>2, NodePushedCounted
<1>10. Closed(g, ToSet(l))
  BY <1>1, <1>3, <1>5
<1>11. StackOK(g, T, l, rest)
  BY <1>1, <1>2, <1>3, <1>5, <1>6, <1>9, <1>10 DEF StackOK, occ
<1>13. left \in ToSet(prev) /\ n \notin ToSet(prev)
  <2>1. left \in ToSet(prev)
    BY <1>1, ListFront DEF left
  <2>2. n \notin ToSet(prev)
    BY <1>1, <1>4, ListIs
  <2> QED BY <2>1, <2>2
<1>14. ToSet(l) \cap ToSet(rest) = {}
  BY <1>2, <1>5, <1>13 DEF Shifting
<1>12. Shifting(g, l, rest)
  <2> SUFFICES ASSUME NEW m \in Nodes(g), NEW k \in 1..LinkCt(g, m)
      PROVE  Sib(g, m, k) \notin ToSet(l) /\ (m \in ToSet(l) => Sib(g, m, k) \notin ToSet(rest))
    BY <1>14 DEF Shifting
  <2>1. CASE m = n
    <3>1. LinkCt(g, n) = 1 /\ Sib(g, n, 1) = left
      BY DEF NodePushed, n, left
    <3>2. Sib(g, m, k) = left
      BY <2>1, <3>1
    <3>3. left \notin ToSet(top)
      BY <1>1, <1>13 DEF Shifting
    <3> QED BY <1>2, <1>4, <1>5, <3>2, <3>3
  <2>2. CASE m \in Nodes(h)
    <3>1. k \in 1..LinkCt(h, m) /\ Sib(g, m, k) = Sib(h, m, k) /\ Sib(h, m, k) \in Nodes(h)
      BY <1>1, <2>2 DEF NodePushed, Inward
    <3> QED BY <1>2, <1>4, <1>5, <2>2, <3>1 DEF Shifting
  <2> QED BY <1>4, <2>1, <2>2
<1> QED BY <1>11, <1>12 DEF l, rest, n

------------------------
(* A new link between parsers; a parser dropped *)

\* A shift to a node that is there already.
LEMMA ShiftedOnto ==
  ASSUME NEW h, NEW T, NEW top, NEW prev, StackOK(h, T, top, prev), Shifting(h, top, prev), prev # <<>>,
         NEW n \in ToSet(top), StateOf(h, n) # T.start,
         NEW g, NEW id, LinkAdded(h, g, n, Last(prev), id),
         LeadsTo(T, StateOf(h, Last(prev)), StateOf(h, n))
  PROVE  /\ StackOK(LetGo(g, Last(prev)), T, top, Front(prev))
         /\ Shifting(LetGo(g, Last(prev)), top, Front(prev))
<1> DEFINE left == Last(prev)
           rest == Front(prev)
           f == LetGo(g, left)
           occ == OccOf(h, top, prev)
           new == OccOf(f, top, rest)
<1>1. /\ GraphOK(h, T) /\ CountedBy(h, OccOf(h, top, prev)) /\ Held(h) /\ Closed(h, ToSet(top))
      /\ LiveList(h, top) /\ LiveList(h, prev) /\ Increasing(top) /\ Increasing(prev)
      /\ Shape(h) /\ Inward(h) /\ Len(h) \in Nat /\ StatesOK(h, T)
  BY ShapeIs DEF StackOK, GraphOK
<1>2. /\ LiveList(h, rest) /\ Increasing(rest) /\ left \in Nodes(h) /\ IsLive(h, left)
      /\ left \notin ToSet(rest) /\ left \in ToSet(prev) /\ ToSet(rest) \subseteq ToSet(prev)
      /\ \A m : Occurs(m, prev) = Occurs(m, rest) + (IF m = left THEN 1 ELSE 0)
  BY <1>1, ListFront
<1>3. /\ n \in Nodes(h) /\ IsLive(h, n)
      /\ \A m : Occurs(m, top) \in Nat /\ Occurs(m, rest) \in Nat /\ Occurs(m, prev) \in Nat
  BY <1>1, <1>2, ListIs
<1>4. /\ LinkAdded(h, g, n, left, id)
      /\ LeadsTo(T, StateOf(h, left), StateOf(h, n))
  OBVIOUS
<1> HIDE DEF left, rest
<1>5. LinkCt(h, n) > 0
  <2>1. LinkCt(h, n) \in Nat /\ LinkCt(h, n) # 0
    BY <1>1, <1>3, ViewsAre DEF StatesOK
  <2> QED BY <2>1
<1>6. \A k \in 1..LinkCt(h, n) : Sib(h, n, k) # left
  BY <1>2, <1>3 DEF Shifting
<1>7. \A x \in Nodes(h) : \A k \in 1..LinkCt(h, x) : Sib(h, x, k) # n
  BY DEF Shifting
<1>8. \A m \in Nodes(h) : occ[m] \in Nat /\ occ[m] = Occurs(m, top) + Occurs(m, prev)
  BY <1>3 DEF OccOf
<1> HIDE DEF occ
<1>9. /\ Shape(g) /\ DeadBare(g) /\ Inward(g) /\ Downward(g) /\ SibsDiffer(g) /\ StatesOK(g, T)
      /\ Closed(g, ToSet(top)) /\ DepthRight(g) /\ CountedBy(g, occ) /\ Held(g)
  BY <1>1, <1>2, <1>3, <1>4, <1>5, <1>6, <1>7, <1>8, LinkAddedKeeps DEF occ
<1>10. GraphOK(g, T)
  BY <1>9 DEF GraphOK
<1>11. Nodes(g) = Nodes(h) /\ \A m \in Nodes(h) : IsLive(g, m) <=> IsLive(h, m)
  BY <1>4 DEF LinkAdded, Nodes
<1>12. /\ SameLinks(g, f) /\ SameDepths(g, f)
       /\ \A m \in Nodes(g) : RefOf(f, m) = RefOf(g, m) - (IF m = left THEN 1 ELSE 0)
  BY <1>2, <1>9, <1>11, LetGoLowers
<1> HIDE DEF f
<1>13. Nodes(f) = Nodes(h) /\ \A m \in Nodes(h) : IsLive(f, m) <=> IsLive(h, m)
  BY <1>11, <1>12 DEF SameLinks, Nodes
<1>14. GraphOK(f, T) /\ Closed(f, ToSet(top))
  BY <1>9, <1>10, <1>12, SameKeeps
<1>15. ASSUME NEW m \in Nodes(h)
       PROVE  /\ LinksInto(f, Nodes(f), m) = LinksInto(g, Nodes(g), m)
              /\ LinksInto(g, Nodes(g), m) = LinksInto(h, Nodes(h), m) + (IF m = left THEN 1 ELSE 0)
              /\ LinksInto(h, Nodes(h), m) \in Nat
  <2>1. LinksInto(f, Nodes(g), m) = LinksInto(g, Nodes(g), m)
    BY <1>9, <1>12, SameLinksTo
  <2>2. LinksInto(g, Nodes(g), m) = LinksInto(h, Nodes(h), m) + (IF m = left THEN 1 ELSE 0)
    BY <1>1, <1>3, <1>4, LinkAddedCount
  <2>3. LinksInto(h, Nodes(h), m) \in Nat
    BY <1>1, LinksAreNat
  <2> QED BY <1>11, <1>13, <2>1, <2>2, <2>3
<1>16. \A m \in Nodes(h) : new[m] = Occurs(m, top) + Occurs(m, rest)
  BY <1>13 DEF OccOf
<1> HIDE DEF new
<1>17. CountedBy(f, new) /\ Held(f)
  <2> SUFFICES ASSUME NEW m \in Nodes(h), IsLive(h, m)
      PROVE  RefOf(f, m) = LinksInto(f, Nodes(f), m) + new[m] /\ RefOf(f, m) > 0
    BY <1>13 DEF CountedBy, Held
  <2>1. RefOf(g, m) = LinksInto(g, Nodes(g), m) + occ[m] /\ RefOf(g, m) > 0 /\ RefOf(g, m) \in Int
    BY <1>9, <1>11, ViewsAre DEF CountedBy, Held
  <2>2. occ[m] = new[m] + (IF m = left THEN 1 ELSE 0) /\ new[m] \in Nat
    BY <1>2, <1>3, <1>8, <1>16, SMTT(30)
  <2>3. RefOf(f, m) = RefOf(g, m) - (IF m = left THEN 1 ELSE 0)
    BY <1>11, <1>12
  <2>4. LinksInto(g, Nodes(g), m) \in Nat /\ LinksInto(f, Nodes(f), m) = LinksInto(g, Nodes(g), m)
        /\ (m = left => LinksInto(g, Nodes(g), m) > 0)
    BY <1>15
  <2> QED BY <2>1, <2>2, <2>3, <2>4
<1>18. LiveList(f, top) /\ LiveList(f, rest)
  BY <1>1, <1>2, <1>13, ListIs, ListStays
<1>19. Shifting(f, top, rest)
  <2>1. ToSet(top) \cap ToSet(rest) = {}
    BY <1>2 DEF Shifting
  <2> SUFFICES ASSUME NEW m \in Nodes(h), NEW k \in 1..LinkCt(f, m)
      PROVE  Sib(f, m, k) \notin ToSet(top) /\ (m \in ToSet(top) => Sib(f, m, k) \notin ToSet(rest))
    BY <1>13, <2>1 DEF Shifting
  <2>2. k \in 1..LinkCt(g, m) /\ Sib(f, m, k) = Sib(g, m, k)
    BY <1>11, <1>12 DEF SameLinks
  <2>3. CASE k \in 1..LinkCt(h, m)
    <3>1. Sib(g, m, k) = Sib(h, m, k)
      BY <1>4, <2>3 DEF LinkAdded
    <3> QED BY <1>2, <2>2, <2>3, <3>1 DEF Shifting
  <2>4. CASE k \notin 1..LinkCt(h, m)
    <3>1. m = n /\ k = LinkCt(h, n) + 1
      <4>1. LinkCt(g, m) = LinkCt(h, m) + (IF m = n THEN 1 ELSE 0) /\ LinkCt(h, m) \in Nat
        BY <1>1, <1>4, ViewsAre DEF LinkAdded
      <4> QED BY <2>2, <2>4, <4>1
    <3>2. Sib(g, m, k) = left
      BY <1>4, <3>1 DEF LinkAdded
    <3>3. left \notin ToSet(top)
      BY <1>2 DEF Shifting
    <3> QED BY <1>2, <2>2, <3>2, <3>3
  <2> QED BY <2>3, <2>4
<1>20. StackOK(f, T, top, rest)
  BY <1>1, <1>2, <1>14, <1>17, <1>18 DEF StackOK, new
<1> QED BY <1>19, <1>20 DEF f, left, rest

\* A new link from a parser, and depths to match.
Relinked(h1, g, n, top) == g = IF h1[n].refct > 1 THEN RecomputeDepths(h1, top) ELSE h1

\* A link to a topmost parser, the depths recomputed if others refer to it, keeps the graph sound.
LEMMA NewLinkKeeps ==
  ASSUME NEW h, NEW T, NEW top, NEW prev, StackOK(h, T, top, prev),
         NEW n \in ToSet(top), StateOf(h, n) # T.start,
         NEW left \in Nodes(h), IsLive(h, left),
         \A k \in 1..LinkCt(h, n) : Sib(h, n, k) # left,
         LeadsTo(T, StateOf(h, left), StateOf(h, n)),
         NEW h1, NEW id, LinkAdded(h, h1, n, left, id),
         NEW g, Relinked(h1, g, n, top)
  PROVE  StackOK(g, T, top, prev) /\ SameLinks(h1, g) /\ SameIds(h1, g)
<1> DEFINE occ == OccOf(h, top, prev)
<1>1. /\ GraphOK(h, T) /\ CountedBy(h, occ) /\ Held(h) /\ Closed(h, ToSet(top))
      /\ LiveList(h, top) /\ LiveList(h, prev) /\ Increasing(top) /\ Increasing(prev)
      /\ Shape(h) /\ Inward(h) /\ Len(h) \in Nat /\ StatesOK(h, T)
  BY ShapeIs DEF StackOK, GraphOK
<1>2. /\ n \in Nodes(h) /\ IsLive(h, n) /\ Occurs(n, top) > 0
      /\ \A m : Occurs(m, top) \in Nat /\ Occurs(m, prev) \in Nat
  BY <1>1, ListIs
<1>3. \A m \in Nodes(h) : occ[m] \in Nat /\ occ[m] = Occurs(m, top) + Occurs(m, prev)
  BY <1>2 DEF OccOf
<1> HIDE DEF occ
<1>4. LinkCt(h, n) > 0
  <2>1. LinkCt(h, n) \in Nat /\ LinkCt(h, n) # 0
    BY <1>1, <1>2, ViewsAre DEF StatesOK
  <2> QED BY <2>1
<1>5. /\ Shape(h1) /\ DeadBare(h1) /\ Inward(h1) /\ Downward(h1) /\ SibsDiffer(h1) /\ StatesOK(h1, T)
      /\ Closed(h1, ToSet(top)) /\ RightBut(h1, ToSet(top))
      /\ (\A x \in Nodes(h) : \A k \in 1..LinkCt(h, x) : Sib(h, x, k) # n) => DepthRight(h1)
      /\ CountedBy(h1, occ) /\ Held(h1)
  BY <1>1, <1>2, <1>3, <1>4, LinkAddedKeeps
<1>6. Nodes(h1) = Nodes(h) /\ \A m \in Nodes(h) : IsLive(h1, m) <=> IsLive(h, m)
  BY DEF LinkAdded, Nodes
<1>7. LiveList(h1, top) /\ LiveList(h1, prev)
  BY <1>1, <1>6, ListIs, ListStays
<1>8. SameLinks(h1, g) /\ SameRefs(h1, g) /\ SameIds(h1, g) /\ DepthRight(g)
  <2>1. CASE h1[n].refct > 1
    <3>1. g = RecomputeDepths(h1, top)
      BY <2>1 DEF Relinked
    <3>2. top \in Seq(Nodes(h1))
      BY <1>7 DEF LiveList
    <3> QED BY <1>1, <1>5, <3>1, <3>2, Recomputed
  <2>2. CASE ~(h1[n].refct > 1)
    <3>1. g = h1
      BY <2>2 DEF Relinked
    <3>2. SameLinks(h1, h1) /\ SameRefs(h1, h1) /\ SameIds(h1, h1)
      BY <1>5 DEF SameLinks, SameRefs, SameIds
    <3>3. RefOf(h1, n) <= 1 /\ RefOf(h1, n) = LinksInto(h1, Nodes(h1), n) + occ[n]
      <4>1. RefOf(h1, n) = h1[n].refct /\ RefOf(h1, n) \in Int
        BY <1>2, <1>5, <1>6, ViewsAre DEF RefOf
      <4> QED BY <1>2, <1>5, <1>6, <2>2, <4>1 DEF CountedBy
    <3>4. LinksInto(h1, Nodes(h1), n) = LinksInto(h, Nodes(h), n) + (IF n = left THEN 1 ELSE 0)
      BY <1>1, <1>2, LinkAddedCount
    <3>5. LinksInto(h, Nodes(h), n) = 0
      <4>1. LinksInto(h, Nodes(h), n) \in Nat /\ occ[n] \in Nat /\ occ[n] >= 1
        BY <1>1, <1>2, <1>3, LinksAreNat
      <4> QED BY <3>3, <3>4, <4>1
    <3>6. \A x \in Nodes(h) : \A k \in 1..LinkCt(h, x) : Sib(h, x, k) # n
      <4>1. Part(Nodes(h), Nodes(h))
        BY DEF Part
      <4> QED BY <1>1, <3>5, <4>1, NoLinksInto
    <3> QED BY <1>5, <3>1, <3>2, <3>6
  <2> QED BY <2>1, <2>2
<1>9. /\ \A S : Closed(h1, S) => Closed(g, S)
      /\ CountedBy(g, occ) /\ Held(g)
  BY <1>5, <1>8, SameKeeps
<1>10. /\ Shape(g) /\ Nodes(g) = Nodes(h1)
       /\ \A m \in Nodes(h1) :
          /\ StateOf(g, m) = StateOf(h1, m) /\ (IsLive(g, m) <=> IsLive(h1, m))
          /\ LinkCt(g, m) = LinkCt(h1, m)
          /\ \A k \in 1..LinkCt(h1, m) : Sib(g, m, k) = Sib(h1, m, k)
  BY <1>8 DEF SameLinks, Nodes
<1>11. DeadBare(g) /\ Inward(g) /\ SibsDiffer(g)
  BY <1>5, <1>10 DEF DeadBare, Inward, SibsDiffer
<1>12. Downward(g)
  <2> SUFFICES ASSUME NEW m \in Nodes(h1), LinkCt(h1, m) > 0 PROVE Sib(g, m, 1) < m
    BY <1>10 DEF Downward
  <2>1. LinkCt(h1, m) \in Nat
    BY <1>5, ViewsAre
  <2>2. 1 \in 1..LinkCt(h1, m)
    BY <2>1
  <2> QED BY <1>5, <1>10, <2>2 DEF Downward
<1>13. StatesOK(g, T)
  <2> SUFFICES ASSUME NEW m \in Nodes(h1), IsLive(h1, m)
      PROVE /\ StateOf(h1, m) \in States(T)
            /\ LinkCt(h1, m) = 0 => StateOf(h1, m) = T.start
            /\ \A k \in 1..LinkCt(h1, m) : LeadsTo(T, StateOf(g, Sib(g, m, k)), StateOf(h1, m))
    BY <1>10 DEF StatesOK
  <2>1. \A k \in 1..LinkCt(h1, m) : StateOf(g, Sib(g, m, k)) = StateOf(h1, Sib(h1, m, k))
    BY <1>5, <1>10 DEF Inward
  <2> QED BY <1>5, <2>1 DEF StatesOK
<1>14. GraphOK(g, T)
  BY <1>8, <1>10, <1>11, <1>12, <1>13 DEF GraphOK
<1>15. LiveList(g, top) /\ LiveList(g, prev)
  BY <1>7, <1>10, ListIs, ListStays
<1>16. OccOf(g, top, prev) = occ
  BY <1>6, <1>10 DEF OccOf, occ
<1> QED BY <1>1, <1>5, <1>8, <1>9, <1>14, <1>15, <1>16 DEF StackOK

\* A parser let go: nothing on either list is freed, nor what it stands on.
LEMMA DroppedKeeps ==
  ASSUME NEW h, NEW T, NEW top, NEW prev, NEW rest, NEW n,
         GraphOK(h, T), Held(h), Closed(h, ToSet(top)), LiveList(h, top), LiveList(h, rest),
         Increasing(top), Increasing(rest), n \in Nodes(h), IsLive(h, n),
         \A m \in Nodes(h) : IsLive(h, m) =>
            RefOf(h, m) = LinksInto(h, Nodes(h), m) + OccOf(h, top, rest)[m] + (IF m = n THEN 1 ELSE 0)
  PROVE  \E F \in SUBSET Nodes(h) :
            /\ Released(h, DecRefCt(h, n), F) /\ DroppedBy(h, n) = IdsOf(h, F)
            /\ StackOK(DecRefCt(h, n), T, top, rest)
            /\ \A m \in ToSet(top) : m \notin F
            /\ \A m \in F : \A x \in Nodes(h) : \A k \in 1..LinkCt(h, x) : Sib(h, x, k) = m => x \in F
<1> DEFINE g == DecRefCt(h, n)
           occ == OccOf(h, top, rest)
<1>1. Shape(h)
  BY DEF GraphOK
<1>2. \A m : Occurs(m, top) \in Nat /\ Occurs(m, rest) \in Nat
             /\ (m \in ToSet(top) <=> Occurs(m, top) > 0) /\ (m \in ToSet(rest) <=> Occurs(m, rest) > 0)
  BY ListIs
<1>3. occ \in [Nodes(h) -> Nat] /\ \A m \in Nodes(h) : occ[m] = Occurs(m, top) + Occurs(m, rest)
  BY <1>2 DEF OccOf
<1>4. \A m \in Nodes(h) : IsLive(h, m) =>
         RefOf(h, m) = LinksInto(h, Nodes(h), m) + occ[m] + (IF m = n THEN 1 ELSE 0)
  OBVIOUS
<1> HIDE DEF occ
<1>5. PICK F \in SUBSET Nodes(h) :
            /\ Released(h, g, F) /\ Unreferenced(h, F, occ)
            /\ CountedBy(g, occ) /\ Held(g)
            /\ DroppedBy(h, n) = IdsOf(h, F)
  BY <1>1, <1>3, <1>4, DecRefCtReleases
<1> HIDE DEF g
<1>6. \A m \in F : \A x \in Nodes(h) : \A k \in 1..LinkCt(h, x) : Sib(h, x, k) = m => x \in F
  BY <1>5 DEF Unreferenced
<1>7. GraphOK(g, T) /\ Closed(g, ToSet(top))
  BY <1>5, <1>6, ReleasedKeeps
<1>8. ASSUME NEW m \in F PROVE m \notin ToSet(top) /\ m \notin ToSet(rest)
  <2>1. occ[m] = 0 /\ m \in Nodes(h)
    BY <1>5 DEF Unreferenced
  <2>2. Occurs(m, top) = 0 /\ Occurs(m, rest) = 0
    BY <1>2, <1>3, <2>1
  <2> QED BY <1>2, <2>2
<1>9. Nodes(g) = Nodes(h) /\ \A m \in Nodes(h) : m \notin F => (IsLive(g, m) <=> IsLive(h, m))
  BY <1>5 DEF Released, Nodes
<1>10. LiveList(g, top) /\ LiveList(g, rest)
  BY <1>8, <1>9, ListIs, ListStays
<1>11. OccOf(g, top, rest) = occ
  BY <1>9 DEF OccOf, occ
<1>12. StackOK(g, T, top, rest)
  BY <1>5, <1>7, <1>10, <1>11 DEF StackOK
<1>13. \A m \in ToSet(top) : m \notin F
  BY <1>8
<1> QED BY <1>5, <1>6, <1>12, <1>13 DEF g

------------------------
(* Values through the steps *)

ValuesOK(h, sp, nx) == nx \in Nat \ {0} /\ Owned(h, sp, nx) /\ Accounted(h, sp, nx)

\* The values are accounted for as long as the links hold the same.
LEMMA ValuesSame ==
  ASSUME NEW h, NEW g, SameLinks(h, g), SameIds(h, g), NEW sp, NEW nx, ValuesOK(h, sp, nx)
  PROVE  ValuesOK(g, sp, nx)
<1>1. Owned(h, sp, nx) /\ Accounted(h, sp, nx) /\ nx \in Nat \ {0}
  BY DEF ValuesOK
<1>2. /\ Nodes(g) = Nodes(h)
      /\ \A m \in Nodes(h) : /\ LinkCt(g, m) = LinkCt(h, m)
                             /\ \A k \in 1..LinkCt(h, m) : IdOf(g, m, k) = IdOf(h, m, k)
  BY DEF SameLinks, SameIds, Nodes
<1>3. Owned(g, sp, nx)
  BY <1>1, <1>2 DEF Owned
<1>4. Accounted(g, sp, nx)
  BY <1>1, <1>2 DEF Accounted
<1> QED BY <1>1, <1>3, <1>4 DEF ValuesOK

\* g has the links of h and one more, at n, whose value is new.
OneMore(h, g, n, id) ==
    /\ n \in Nodes(g) /\ LinkCt(g, n) \in Nat \ {0} /\ IdOf(g, n, LinkCt(g, n)) = id
    /\ \A m \in Nodes(h) : /\ m \in Nodes(g) /\ LinkCt(h, m) \in Nat
                           /\ LinkCt(g, m) = LinkCt(h, m) + (IF m = n THEN 1 ELSE 0)
                           /\ \A k \in 1..LinkCt(h, m) : IdOf(g, m, k) = IdOf(h, m, k)
    /\ \A m \in Nodes(g) : m \notin Nodes(h) => m = n /\ LinkCt(g, n) = 1

\* A new link that holds the next value.
LEMMA OneMoreValue ==
  ASSUME NEW h, NEW g, NEW n, NEW sp, NEW nx, ValuesOK(h, sp, nx), OneMore(h, g, n, nx)
  PROVE  ValuesOK(g, sp, nx + 1)
<1> DEFINE last == LinkCt(g, n)
           Old(m, k) == m \in Nodes(h) /\ k \in 1..LinkCt(h, m) /\ IdOf(g, m, k) = IdOf(h, m, k)
<1>1. Owned(h, sp, nx) /\ Accounted(h, sp, nx) /\ nx \in Nat /\ nx >= 1
  BY DEF ValuesOK
<1>2. \A m \in Nodes(g) : \A k \in 1..LinkCt(g, m) : Old(m, k) \/ (m = n /\ k = last)
  <2> SUFFICES ASSUME NEW m \in Nodes(g), NEW k \in 1..LinkCt(g, m), ~(m = n /\ k = last)
      PROVE  Old(m, k)
    OBVIOUS
  <2>1. CASE m \in Nodes(h)
    <3>1. LinkCt(h, m) \in Nat /\ LinkCt(g, m) = LinkCt(h, m) + (IF m = n THEN 1 ELSE 0)
      BY <2>1 DEF OneMore
    <3>2. k \in 1..LinkCt(h, m)
      BY <3>1
    <3> QED BY <2>1, <3>2 DEF OneMore
  <2>2. CASE m \notin Nodes(h)
    <3>1. m = n /\ LinkCt(g, n) = 1
      BY <2>2 DEF OneMore
    <3> QED BY <3>1
  <2> QED BY <2>1, <2>2
<1>3. last \in 1..LinkCt(g, n) /\ n \in Nodes(g) /\ IdOf(g, n, last) = nx
  <2>1. last \in Nat \ {0} /\ n \in Nodes(g) /\ IdOf(g, n, last) = nx
    BY DEF OneMore
  <2>2. last \in 1..last
    BY <2>1
  <2> QED BY <2>1, <2>2
<1>4. \A m, k : Old(m, k) => IdOf(g, m, k) \in 1..(nx - 1) /\ IdOf(g, m, k) \notin sp
  BY <1>1 DEF Owned
<1>5. \A m, k, x, j : Old(m, k) /\ Old(x, j) /\ IdOf(g, m, k) = IdOf(g, x, j) => m = x /\ k = j
  <2> SUFFICES ASSUME NEW m, NEW k, NEW x, NEW j, Old(m, k), Old(x, j), IdOf(g, m, k) = IdOf(g, x, j)
      PROVE  m = x /\ k = j
    BY Zenon
  <2>1. /\ m \in Nodes(h) /\ x \in Nodes(h) /\ k \in 1..LinkCt(h, m) /\ j \in 1..LinkCt(h, x)
        /\ IdOf(h, m, k) = IdOf(h, x, j)
    OBVIOUS
  <2> HIDE DEF Old
  <2> QED BY <1>1, <2>1 DEF Owned
<1>6. nx \notin sp /\ sp \subseteq 1..((nx + 1) - 1) /\ nx \in 1..((nx + 1) - 1) /\ nx \notin 1..(nx - 1)
      /\ \A i : i \in 1..(nx - 1) => i \in 1..((nx + 1) - 1)
  BY <1>1 DEF Owned
<1> HIDE DEF last, Old
<1>7. Owned(g, sp, nx + 1)
  <2>1. ASSUME NEW m \in Nodes(g), NEW k \in 1..LinkCt(g, m)
        PROVE  IdOf(g, m, k) \in 1..((nx + 1) - 1) /\ IdOf(g, m, k) \notin sp
    <3>1. CASE Old(m, k)
      BY <1>4, <1>6, <3>1
    <3>2. CASE m = n /\ k = last
      BY <1>3, <1>6, <3>2
    <3> QED BY <1>2, <2>1, <3>1, <3>2
  <2>2. ASSUME NEW m \in Nodes(g), NEW k \in 1..LinkCt(g, m), NEW x \in Nodes(g), NEW j \in 1..LinkCt(g, x),
               IdOf(g, m, k) = IdOf(g, x, j)
        PROVE  m = x /\ k = j
    <3>1. Old(m, k) \/ (m = n /\ k = last)
      BY <1>2, <2>2
    <3>2. Old(x, j) \/ (x = n /\ j = last)
      BY <1>2, <2>2
    <3> QED BY <1>3, <1>4, <1>5, <1>6, <2>2, <3>1, <3>2
  <2> QED BY <1>6, <2>1, <2>2 DEF Owned
<1>8. Accounted(g, sp, nx + 1)
  <2> SUFFICES ASSUME NEW i \in 1..((nx + 1) - 1), i \notin sp
      PROVE  \E m \in Nodes(g) : \E k \in 1..LinkCt(g, m) : IdOf(g, m, k) = i
    BY DEF Accounted
  <2>1. CASE i = nx
    BY <1>3, <2>1
  <2>2. CASE i # nx
    <3>1. i \in 1..(nx - 1)
      BY <1>1, <2>2
    <3>2. PICK m \in Nodes(h) : \E k \in 1..LinkCt(h, m) : IdOf(h, m, k) = i
      BY <1>1, <3>1 DEF Accounted
    <3>3. PICK k \in 1..LinkCt(h, m) : IdOf(h, m, k) = i
      BY <3>2
    <3>4. m \in Nodes(g) /\ IdOf(g, m, k) = i /\ LinkCt(h, m) \in Nat
          /\ LinkCt(g, m) = LinkCt(h, m) + (IF m = n THEN 1 ELSE 0)
      BY <3>3 DEF OneMore
    <3>5. k \in 1..LinkCt(g, m)
      BY <3>4
    <3> QED BY <3>4, <3>5
  <2> QED BY <2>1, <2>2
<1> QED BY <1>1, <1>7, <1>8 DEF ValuesOK

\* The next value on the link of a new node.
LEMMA PushedValue ==
  ASSUME NEW h, Shape(h), NEW g, NEW state, NEW left, NEW b, NEW sp, NEW nx,
         NodePushed(h, g, state, left, nx, b), ValuesOK(h, sp, nx)
  PROVE  ValuesOK(g, sp, nx + 1)
<1> DEFINE n == Len(h) + 1
<1>1. Len(h) \in Nat
  BY ShapeIs
<1>2. /\ n \in Nodes(g) /\ \A m \in Nodes(h) : m \in Nodes(g) /\ m # n
      /\ \A m \in Nodes(g) : m \notin Nodes(h) => m = n
  BY <1>1 DEF NodePushed, Nodes
<1>3. LinkCt(g, n) = 1 /\ IdOf(g, n, 1) = nx
  BY DEF NodePushed
<1> HIDE DEF n
<1>4. \A m \in Nodes(h) : LinkCt(h, m) \in Nat /\ LinkCt(g, m) = LinkCt(h, m)
                          /\ \A k \in 1..LinkCt(h, m) : IdOf(g, m, k) = IdOf(h, m, k)
  BY ViewsAre DEF NodePushed
<1>5. \A m \in Nodes(h) : LinkCt(g, m) = LinkCt(h, m) + (IF m = n THEN 1 ELSE 0)
  BY <1>2, <1>4
<1>6. OneMore(h, g, n, nx)
  BY <1>2, <1>3, <1>4, <1>5 DEF OneMore
<1> QED BY <1>6, OneMoreValue

\* The next value on a new link of an old node.
LEMMA LinkedValue ==
  ASSUME NEW h, Shape(h), NEW g, NEW n \in Nodes(h), NEW sib, NEW sp, NEW nx,
         LinkAdded(h, g, n, sib, nx), ValuesOK(h, sp, nx)
  PROVE  ValuesOK(g, sp, nx + 1)
<1>1. Nodes(g) = Nodes(h)
  BY DEF LinkAdded, Nodes
<1>2. \A m \in Nodes(h) : LinkCt(h, m) \in Nat /\ LinkCt(g, m) = LinkCt(h, m) + (IF m = n THEN 1 ELSE 0)
                          /\ \A k \in 1..LinkCt(h, m) : IdOf(g, m, k) = IdOf(h, m, k)
  BY ViewsAre DEF LinkAdded
<1>3. LinkCt(g, n) \in Nat \ {0} /\ LinkCt(g, n) = LinkCt(h, n) + 1
  BY <1>2
<1>4. IdOf(g, n, LinkCt(g, n)) = nx
  BY <1>3 DEF LinkAdded
<1>5. OneMore(h, g, n, nx)
  BY <1>1, <1>2, <1>3, <1>4 DEF OneMore
<1> QED BY <1>5, OneMoreValue

\* A value that nothing takes is deallocated.
LEMMA UnusedValue ==
  ASSUME NEW h, NEW sp, NEW nx, ValuesOK(h, sp, nx)
  PROVE  ValuesOK(h, sp \cup {nx}, nx + 1)
<1>1. Owned(h, sp, nx) /\ Accounted(h, sp, nx) /\ nx \in Nat /\ nx >= 1
  BY DEF ValuesOK
<1>2. /\ (sp \cup {nx}) \subseteq 1..((nx + 1) - 1) /\ nx \notin 1..(nx - 1)
      /\ \A i : i \in 1..(nx - 1) => i \in 1..((nx + 1) - 1)
      /\ \A i \in 1..((nx + 1) - 1) : i = nx \/ i \in 1..(nx - 1)
  BY <1>1 DEF Owned
<1>3. Owned(h, sp \cup {nx}, nx + 1)
  <2>1. \A n \in Nodes(h) : \A k \in 1..LinkCt(h, n) :
          IdOf(h, n, k) \in 1..((nx + 1) - 1) /\ IdOf(h, n, k) \notin (sp \cup {nx})
    BY <1>1, <1>2 DEF Owned
  <2> QED BY <1>1, <1>2, <2>1 DEF Owned
<1>4. Accounted(h, sp \cup {nx}, nx + 1)
  BY <1>1, <1>2 DEF Accounted
<1> QED BY <1>1, <1>3, <1>4 DEF ValuesOK

\* A merge: the link's value and the new one make a third.
LEMMA MergedValue ==
  ASSUME NEW h, NEW sp, NEW nx, ValuesOK(h, sp, nx), NEW n \in Nodes(h), NEW k \in 1..LinkCt(h, n),
         NEW g, SameLinks(h, g),
         \A m \in Nodes(h) : \A j \in 1..LinkCt(h, m) :
            IdOf(g, m, j) = IF m = n /\ j = k THEN nx + 1 ELSE IdOf(h, m, j)
  PROVE  ValuesOK(g, sp \cup {IdOf(h, n, k), nx}, nx + 2)
<1> DEFINE old == IdOf(h, n, k)
           s == sp \cup {old, nx}
<1>1. Owned(h, sp, nx) /\ Accounted(h, sp, nx) /\ nx \in Nat /\ nx >= 1
  BY DEF ValuesOK
<1>2. /\ Nodes(g) = Nodes(h)
      /\ \A m \in Nodes(h) : LinkCt(g, m) = LinkCt(h, m)
  BY DEF SameLinks, Nodes
<1>3. old \in 1..(nx - 1) /\ sp \subseteq 1..(nx - 1)
  BY <1>1 DEF Owned
<1> HIDE DEF old
<1>4. /\ s \subseteq 1..((nx + 2) - 1) /\ nx + 1 \in 1..((nx + 2) - 1) /\ nx + 1 \notin s
      /\ nx + 1 \notin 1..(nx - 1) /\ nx \notin 1..(nx - 1)
      /\ \A i : i \in 1..(nx - 1) => i \in 1..((nx + 2) - 1)
      /\ \A i \in 1..((nx + 2) - 1) : i \in 1..(nx - 1) \/ i = nx \/ i = nx + 1
  BY <1>1, <1>3
<1>5. ASSUME NEW m \in Nodes(h), NEW j \in 1..LinkCt(h, m), ~(m = n /\ j = k)
      PROVE  IdOf(h, m, j) \in 1..(nx - 1) /\ IdOf(h, m, j) \notin s
  <2>1. IdOf(h, m, j) \in 1..(nx - 1) /\ IdOf(h, m, j) \notin sp
    BY <1>1, <1>5 DEF Owned
  <2>2. IdOf(h, m, j) # old
    BY <1>1, <1>5 DEF Owned, old
  <2> QED BY <1>4, <2>1, <2>2
<1>6. Owned(g, s, nx + 2)
  <2>1. ASSUME NEW m \in Nodes(h), NEW j \in 1..LinkCt(h, m)
        PROVE  IdOf(g, m, j) \in 1..((nx + 2) - 1) /\ IdOf(g, m, j) \notin s
    <3>1. CASE m = n /\ j = k
      BY <1>4, <2>1, <3>1
    <3>2. CASE ~(m = n /\ j = k)
      BY <1>4, <1>5, <2>1, <3>2
    <3> QED BY <3>1, <3>2
  <2>2. ASSUME NEW m \in Nodes(h), NEW j \in 1..LinkCt(h, m), NEW x \in Nodes(h), NEW i \in 1..LinkCt(h, x),
               IdOf(g, m, j) = IdOf(g, x, i)
        PROVE  m = x /\ j = i
    <3>1. CASE m = n /\ j = k
      <4>1. CASE x = n /\ i = k
        BY <3>1, <4>1
      <4>2. CASE ~(x = n /\ i = k)
        BY <1>4, <1>5, <2>2, <3>1, <4>2
      <4> QED BY <4>1, <4>2
    <3>2. CASE ~(m = n /\ j = k)
      <4>1. CASE x = n /\ i = k
        BY <1>4, <1>5, <2>2, <3>2, <4>1
      <4>2. CASE ~(x = n /\ i = k)
        <5>1. IdOf(h, m, j) = IdOf(h, x, i)
          BY <2>2, <3>2, <4>2
        <5> QED BY <1>1, <2>2, <5>1 DEF Owned
      <4> QED BY <4>1, <4>2
    <3> QED BY <3>1, <3>2
  <2> QED BY <1>2, <1>4, <2>1, <2>2 DEF Owned
<1>7. Accounted(g, s, nx + 2)
  <2> SUFFICES ASSUME NEW i \in 1..((nx + 2) - 1), i \notin s
      PROVE  \E m \in Nodes(h) : \E j \in 1..LinkCt(h, m) : IdOf(g, m, j) = i
    BY <1>2 DEF Accounted
  <2>1. CASE i = nx + 1
    BY <2>1
  <2>2. CASE i # nx + 1
    <3>1. i \in 1..(nx - 1) /\ i \notin sp /\ i # old
      BY <1>4, <2>2
    <3>2. PICK m \in Nodes(h) : \E j \in 1..LinkCt(h, m) : IdOf(h, m, j) = i
      BY <1>1, <3>1 DEF Accounted
    <3>3. PICK j \in 1..LinkCt(h, m) : IdOf(h, m, j) = i
      BY <3>2
    <3>4. ~(m = n /\ j = k)
      BY <3>1, <3>3 DEF old
    <3>5. IdOf(g, m, j) = i
      BY <3>3, <3>4
    <3> QED BY <3>5
  <2> QED BY <2>1, <2>2
<1>8. nx + 2 \in Nat \ {0}
  BY <1>1
<1> QED BY <1>6, <1>7, <1>8 DEF ValuesOK, old

\* The values of links that go are deallocated, or were given to an action.
LEMMA ReleasedValues ==
  ASSUME NEW h, Shape(h), NEW sp, NEW nx, ValuesOK(h, sp, nx), NEW F, Part(F, Nodes(h)), NEW g, Released(h, g, F)
  PROVE  ValuesOK(g, sp \cup IdsOf(h, F), nx)
<1> DEFINE D == IdsOf(h, F)
           s == sp \cup D
<1>1. Owned(h, sp, nx) /\ Accounted(h, sp, nx) /\ nx \in Nat /\ nx >= 1 /\ F \subseteq Nodes(h)
  BY DEF ValuesOK, Part
<1>2. /\ Nodes(g) = Nodes(h)
      /\ \A m \in Nodes(h) : /\ m \in F => LinkCt(g, m) = 0
                             /\ m \notin F => /\ LinkCt(g, m) = LinkCt(h, m)
                                              /\ \A k \in 1..LinkCt(h, m) : IdOf(g, m, k) = IdOf(h, m, k)
  BY DEF Released, Nodes
<1>3. \A i \in D : i \in 1..(nx - 1) /\ \E m \in F : \E k \in 1..LinkCt(h, m) : i = IdOf(h, m, k)
  BY <1>1 DEF IdsOf, Owned
<1>4. \A m \in F : \A k \in 1..LinkCt(h, m) : IdOf(h, m, k) \in D
  BY <1>1 DEF IdsOf, Owned
<1> HIDE DEF D
<1>5. \A m \in Nodes(g) : \A k \in 1..LinkCt(g, m) :
         m \in Nodes(h) /\ m \notin F /\ k \in 1..LinkCt(h, m) /\ IdOf(g, m, k) = IdOf(h, m, k)
  BY <1>2
<1>6. Owned(g, s, nx)
  <2>1. s \subseteq 1..(nx - 1)
    BY <1>1, <1>3 DEF Owned
  <2>2. ASSUME NEW m \in Nodes(g), NEW k \in 1..LinkCt(g, m)
        PROVE  IdOf(g, m, k) \in 1..(nx - 1) /\ IdOf(g, m, k) \notin s
    <3>1. m \in Nodes(h) /\ m \notin F /\ k \in 1..LinkCt(h, m) /\ IdOf(g, m, k) = IdOf(h, m, k)
      BY <1>5, <2>2
    <3>2. IdOf(h, m, k) \in 1..(nx - 1) /\ IdOf(h, m, k) \notin sp
      BY <1>1, <3>1 DEF Owned
    <3>3. IdOf(h, m, k) \notin D
      BY <1>1, <1>3, <3>1 DEF Owned
    <3> QED BY <3>1, <3>2, <3>3
  <2>3. ASSUME NEW m \in Nodes(g), NEW k \in 1..LinkCt(g, m), NEW x \in Nodes(g), NEW j \in 1..LinkCt(g, x),
               IdOf(g, m, k) = IdOf(g, x, j)
        PROVE  m = x /\ k = j
    BY <1>1, <1>5, <2>3 DEF Owned
  <2> QED BY <2>1, <2>2, <2>3 DEF Owned
<1>7. Accounted(g, s, nx)
  <2> SUFFICES ASSUME NEW i \in 1..(nx - 1), i \notin s
      PROVE  \E m \in Nodes(g) : \E k \in 1..LinkCt(g, m) : IdOf(g, m, k) = i
    BY DEF Accounted
  <2>1. PICK m \in Nodes(h) : \E k \in 1..LinkCt(h, m) : IdOf(h, m, k) = i
    BY <1>1 DEF Accounted
  <2>2. PICK k \in 1..LinkCt(h, m) : IdOf(h, m, k) = i
    BY <2>1
  <2>3. m \notin F
    BY <1>4, <2>2
  <2> QED BY <1>2, <2>2, <2>3
<1> QED BY <1>1, <1>6, <1>7 DEF ValuesOK, D

------------------------
(* The invariant of the parser *)

TypesOK ==
    /\ lang \in Languages /\ tables = Tables[lang] /\ toks \in Inputs[lang] /\ pos \in 1..Len(toks)
    /\ column \in Int /\ sharedPops \in BOOLEAN

\* the last parser stands on a symbol, which stands on another
OnSymbols(h, top) == \A t \in ToSet(top) : LinkCt(h, t) > 0 /\ LinkCt(h, Sib(h, t, 1)) > 0

PhaseOK ==
    /\ pc # "shift" => prevTopmost = <<>>
    /\ pc = "shift" => Shifting(gss, topmostParsers, prevTopmost)
    /\ pc # "reduce" => pathQueue = <<>>
    /\ pathQueue \in Seq(Paths(gss, tables))
    /\ (pc = "shift" /\ Token = EOF) \/ pc = "cleanup" => OnSymbols(gss, topmostParsers)

Sound ==
    /\ StackOK(gss, tables, topmostParsers, prevTopmost)
    /\ ValuesOK(gss, spent, nextVal)
    /\ PhaseOK

GraphInv == TypesOK /\ (sharedPops \/ Sound)

\* The invariant holds initially.
LEMMA InitialGraph ==
  ASSUME Init
  PROVE  GraphInv
<1> USE TablesAssumption, InputsAssumption
<1> DEFINE r == [Node(tables.start, 0) EXCEPT !.refct = 1]
           h == <<r>>
<1>1. /\ lang \in Languages /\ tables = Tables[lang] /\ toks \in Inputs[lang]
      /\ pos = 1 /\ pc = "token" /\ gss = h /\ topmostParsers = <<1>> /\ prevTopmost = <<>>
      /\ pathQueue = <<>> /\ column = 0 /\ nextVal = 1 /\ spent = {} /\ sharedPops = FALSE
  BY DEF Init
<1>0. /\ lang \in Languages /\ tables = Tables[lang] /\ toks \in Inputs[lang]
      /\ pos = 1 /\ column = 0 /\ sharedPops \in BOOLEAN
  BY DEF Init
<1> HIDE DEF h, r
<1>2. Automaton(tables)
  BY <1>0
<1>3. States(tables) \subseteq Nat /\ tables.start \in States(tables)
  BY <1>2 DEF Automaton
<1>4. TypesOK
  <2>1. toks \in Seq(Nat) /\ toks # <<>>
    BY <1>0
  <2>2. 1 \in 1..Len(toks)
    BY <2>1
  <2>3. column \in Int /\ pos \in 1..Len(toks)
    BY <1>0, <2>2
  <2> QED BY <1>0, <2>3 DEF TypesOK
<1>5. /\ r.state = tables.start /\ r.column = 0 /\ r.depth = 1 /\ r.refct = 1 /\ r.live = TRUE /\ r.links = <<>>
      /\ DOMAIN r = {"state", "column", "depth", "refct", "live", "links"}
  BY DEF Node, r
<1>6. IsNode(r)
  <2>1. IsLinks(r.links)
    BY <1>5, NoLinks
  <2>2. r.state \in Int
    BY <1>3, <1>5
  <2>3. r.live \in BOOLEAN
    BY <1>5
  <2>4. /\ "state" \in DOMAIN r /\ "column" \in DOMAIN r /\ "depth" \in DOMAIN r
        /\ "refct" \in DOMAIN r /\ "live" \in DOMAIN r /\ "links" \in DOMAIN r
    BY <1>5
  <2>5. r.column \in Int /\ r.depth \in Int /\ r.refct \in Int
    BY <1>5
  <2> HIDE DEF r
  <2> QED BY <2>1, <2>2, <2>3, <2>4, <2>5 DEF IsNode
<1> HIDE DEF r
<1>7. Shape(h) /\ Len(h) = 1
  <2>1. h = [n \in 1..1 |-> h[n]] /\ \A n \in 1..1 : IsNode(h[n])
    BY <1>6 DEF h
  <2> HIDE DEF h
  <2>2. 1 \in Nat
    OBVIOUS
  <2> QED BY <2>1, <2>2, ShapeByIndex
<1>8. h[1] = r
  BY DEF h
<1> HIDE DEF h
<1>9. Nodes(h) = {1}
  BY <1>7 DEF Nodes
<1>10. /\ StateOf(h, 1) = tables.start /\ DepthOf(h, 1) = 1 /\ RefOf(h, 1) = 1 /\ IsLive(h, 1)
       /\ LinkCt(h, 1) = 0
  BY <1>5, <1>8, NoLinks DEF StateOf, DepthOf, RefOf, IsLive, LinkCt
<1>11. GraphOK(h, tables)
  <2>1. DeadBare(h) /\ Inward(h) /\ Downward(h) /\ SibsDiffer(h) /\ DepthRight(h)
    BY <1>9, <1>10 DEF DeadBare, Inward, Downward, SibsDiffer, DepthRight
  <2>2. StatesOK(h, tables)
    BY <1>3, <1>9, <1>10 DEF StatesOK
  <2> QED BY <1>7, <2>1, <2>2 DEF GraphOK
<1>12. LiveList(h, <<1>>) /\ Increasing(<<1>>) /\ ToSet(<<1>>) = {1}
  BY <1>9, <1>10, OneList
<1>13. CountedBy(h, OccOf(h, <<1>>, <<>>)) /\ Held(h)
  <2>1. LinksInto(h, Nodes(h), 1) = 0
    <3>1. Part(Nodes(h), Nodes(h)) /\ \A x \in Nodes(h) : \A k \in 1..LinkCt(h, x) : Sib(h, x, k) # 1
      BY <1>9, <1>10 DEF Part
    <3> QED BY <1>7, <3>1, NoLinksInto
  <2>2. OccOf(h, <<1>>, <<>>)[1] = 1
    <3>1. Occurs(1, <<1>>) = 1 /\ Occurs(1, <<>>) = 0
      BY OccursFew
    <3> QED BY <1>9, <3>1 DEF OccOf
  <2> HIDE DEF OccOf
  <2> QED BY <1>9, <1>10, <2>1, <2>2 DEF CountedBy, Held
<1>14. Closed(h, {1})
  BY <1>9, <1>10 DEF Closed
<1>15. StackOK(h, tables, <<1>>, <<>>)
  BY <1>11, <1>12, <1>13, <1>14, EmptyList DEF StackOK
<1>16. ValuesOK(h, {}, 1)
  <2>1. Owned(h, {}, 1)
    BY <1>9, <1>10 DEF Owned
  <2>2. Accounted(h, {}, 1)
    BY DEF Accounted
  <2> QED BY <2>1, <2>2 DEF ValuesOK
<1>17. <<>> \in Seq(Paths(h, tables))
  OBVIOUS
<1>18. PhaseOK
  BY <1>1, <1>17 DEF PhaseOK
<1> QED BY <1>1, <1>4, <1>15, <1>16, <1>18 DEF GraphInv, Sound

\* The parser does not read past EOF.
LEMMA NextToken ==
  ASSUME TypesOK, TokenDone
  PROVE  pos' \in 1..Len(toks)
<1>1. /\ toks \in Seq(Nat) /\ toks[Len(toks)] = EOF /\ pos \in 1..Len(toks)
  BY InputsAssumption DEF TypesOK
<1>2. CASE Token = EOF
  BY <1>1, <1>2 DEF TokenDone
<1>3. CASE Token # EOF
  <2>1. pos # Len(toks) /\ pos' = pos + 1
    BY <1>1, <1>3 DEF TokenDone, Token
  <2> QED BY <1>1, <2>1
<1> QED BY <1>2, <1>3

\* Every step keeps the types.
LEMMA TypesKept ==
  ASSUME TypesOK, [Next]_vars
  PROVE  TypesOK'
<1>1. /\ lang \in Languages /\ tables = Tables[lang] /\ toks \in Inputs[lang] /\ pos \in 1..Len(toks)
      /\ column \in Int /\ sharedPops \in BOOLEAN
  BY DEF TypesOK
<1>2. CASE MiniReduce
  <2>1. lang' = lang /\ tables' = tables /\ toks' = toks /\ pos' = pos /\ column' = column
        /\ sharedPops' = (sharedPops \/ ~PopsUnshared)
    BY <1>2, Zenon DEF MiniReduce, given
  <2>2. sharedPops' \in BOOLEAN
    BY <1>1, <2>1
  <2> QED BY <1>1, <2>1, <2>2 DEF TypesOK
<1>3. CASE MiniShift
  <2>1. lang' = lang /\ tables' = tables /\ toks' = toks /\ column' = column + 1 /\ sharedPops' = sharedPops
    BY <1>3 DEF MiniShift, given, ghosts
  <2>2. pos' \in 1..Len(toks)
    BY <1>3, NextToken DEF MiniShift
  <2> QED BY <1>1, <2>1, <2>2 DEF TypesOK
<1>4. CASE StartShifts
  <2>1. lang' = lang /\ tables' = tables /\ toks' = toks /\ column' = column + 1 /\ sharedPops' = sharedPops
        /\ pos' = pos
    BY <1>4 DEF StartShifts, given, ghosts
  <2> QED BY <1>1, <2>1 DEF TypesOK
<1>5. CASE FinishShifts
  <2>1. lang' = lang /\ tables' = tables /\ toks' = toks /\ column' = column /\ sharedPops' = sharedPops
        /\ (pos' = pos \/ TokenDone)
    BY <1>5 DEF FinishShifts, given
  <2>2. pos' \in 1..Len(toks)
    BY <1>1, <2>1, NextToken
  <2> QED BY <1>1, <2>1, <2>2 DEF TypesOK
<1>6. CASE CancelReduction \/ DropDeadMerge \/ MergeParses \/ AddNewLink \/ AddNewParser
  <2>1. \A r, h, ids, ps : Handled(r, h, ids, ps) =>
           lang' = lang /\ tables' = tables /\ toks' = toks /\ pos' = pos /\ column' = column /\ sharedPops' = sharedPops
    BY DEF Handled, given
  <2>2. \E r, h, ids, ps : Handled(r, h, ids, ps)
    BY <1>6, Zenon DEF CancelReduction, DropDeadMerge, MergeParses, AddNewLink, AddNewParser
  <2> QED BY <1>1, <2>1, <2>2 DEF TypesOK
<1>7. CASE StartReductions \/ ShiftParser \/ DropParser \/ CleanupAfterParse \/ Done \/ UNCHANGED vars
  <2>1. lang' = lang /\ tables' = tables /\ toks' = toks /\ pos' = pos /\ column' = column /\ sharedPops' = sharedPops
    BY <1>7, Zenon DEF StartReductions, ShiftParser, DropParser, CleanupAfterParse, Done, vars, given, ghosts
  <2> QED BY <1>1, <2>1 DEF TypesOK
<1> QED BY <1>2, <1>3, <1>4, <1>5, <1>6, <1>7 DEF Next

\* The tables are those of an automaton, with a cell for each token of the input.
LEMMA TablesFit ==
  ASSUME TypesOK
  PROVE  Automaton(tables) /\ TokenFits /\ States(tables) \subseteq Nat
<1>1. lang \in Languages /\ tables = Tables[lang] /\ toks \in Inputs[lang] /\ pos \in 1..Len(toks)
  BY DEF TypesOK
<1>2. Automaton(tables)
  BY <1>1, TablesAssumption
<1>3. \A s \in States(tables) : ToSet(toks) \subseteq DOMAIN tables.action[s]
  BY <1>1, TablesAssumption
<1>4. toks \in Seq(Nat)
  BY <1>1, InputsAssumption
<1>5. Token \in ToSet(toks)
  BY <1>1, <1>4 DEF Token, ToSet
<1> QED BY <1>2, <1>3, <1>5 DEF TokenFits, Automaton

\* A shift leads to a state other than the first.
LEMMA ShiftFits ==
  ASSUME TypesOK, NEW s \in States(tables), NEW a \in ToSet(Entry(s)), IsShift(a)
  PROVE  LET d == ShiftDest(a)
         IN  /\ d \in States(tables) /\ d # tables.start /\ LeadsTo(tables, s, d) /\ d \in Int
             /\ Token = EOF => s # tables.start
<1>1. Automaton(tables) /\ TokenFits /\ States(tables) \subseteq Nat
  BY TablesFit
<1>2. Token \in DOMAIN tables.action[s]
  BY <1>1 DEF TokenFits
<1>3. Entry(s) = tables.action[s][Token]
  BY DEF Entry
<1>4. /\ Entry(s) \in Seq(Int)
      /\ ShiftDest(a) \in States(tables) \ {tables.start}
      /\ Token = EOF => s # tables.start
  BY <1>1, <1>2, <1>3 DEF Automaton
<1>5. a \in Int
  BY <1>4 DEF ToSet
<1>6. ShiftDest(a) + 1 = a
  BY <1>5 DEF ShiftDest
<1>7. LeadsTo(tables, s, ShiftDest(a))
  BY <1>2, <1>3, <1>6 DEF LeadsTo
<1> QED BY <1>1, <1>4, <1>7

\* Under a state that reduces by p lie the symbols of p and a state with a transition on its left.
LEMMA ReduceFits ==
  ASSUME TypesOK, NEW s \in States(tables), NEW a \in ToSet(Entry(s)), IsReduce(a)
  PROVE  LET p == tables.prods[ReduceBy(a)]
         IN  /\ p.len \in Nat
             /\ \A k \in 0..(p.len - 1) : tables.start \notin Behind(tables, s, p.len)[k]
             /\ \A q \in Behind(tables, s, p.len)[p.len] :
                   p.lhs \in DOMAIN tables.goto[q] /\ tables.goto[q][p.lhs] \in States(tables)
<1>1. Automaton(tables) /\ TokenFits
  BY TablesFit
<1>2. Token \in DOMAIN tables.action[s] /\ Entry(s) = tables.action[s][Token]
  BY <1>1 DEF TokenFits, Entry
<1> QED BY <1>1, <1>2 DEF Automaton

\* A goto leads to a state other than the first.
LEMMA GotoFits ==
  ASSUME TypesOK, NEW q \in States(tables), NEW nt \in DOMAIN tables.goto[q],
         tables.goto[q][nt] \in States(tables)
  PROVE  /\ Goto(q, nt) \in States(tables) /\ Goto(q, nt) # tables.start /\ Goto(q, nt) \in Int
         /\ LeadsTo(tables, q, Goto(q, nt))
<1>1. Automaton(tables) /\ States(tables) \subseteq Nat
  BY TablesFit
<1>2. tables.start # tables.goto[q][nt]
  BY <1>1 DEF Automaton
<1>3. LeadsTo(tables, q, tables.goto[q][nt])
  BY DEF LeadsTo
<1> QED BY <1>1, <1>2, <1>3 DEF Goto

------------------------
(* The mini-LR core keeps the invariant *)

\* With one parser, all references but one are links.
LEMMA OnlyParser ==
  ASSUME NEW h, NEW T, NEW top, StackOK(h, T, top, <<>>), Len(top) = 1
  PROVE  /\ top[1] \in Nodes(h) /\ IsLive(h, top[1]) /\ top = <<top[1]>> /\ ToSet(top) = {top[1]}
         /\ Sole(h, OccOf(h, top, <<>>), top[1]) /\ StateOf(h, top[1]) \in States(T)
         /\ \A m \in Nodes(h) : IsLive(h, m) =>
               RefOf(h, m) = LinksInto(h, Nodes(h), m) + (IF m = top[1] THEN 1 ELSE 0)
<1> DEFINE n == top[1]
<1>1. LiveList(h, top) /\ CountedBy(h, OccOf(h, top, <<>>)) /\ GraphOK(h, T)
  BY DEF StackOK
<1>2. top \in Seq(Nodes(h)) /\ n \in Nodes(h) /\ IsLive(h, n)
  <2>1. 1 \in 1..Len(top)
    OBVIOUS
  <2> QED BY <1>1, <2>1, ListIs
<1> DEFINE R == Nodes(h)
<1> HIDE DEF R
<1>3. top = <<n>>
  BY <1>2 DEF R
<1>4. ToSet(top) = {n}
  <2>1. ToSet(<<n>>) = {n}
    BY <1>2, OneList, Zenon
  <2> QED BY <1>3, <2>1
<1> HIDE DEF n
<1>5. \A m : Occurs(m, top) = IF m = n THEN 1 ELSE 0
  BY <1>3, OccursFew
<1>6. \A m : Occurs(m, <<>>) = 0
  BY OccursFew
<1>7. Sole(h, OccOf(h, top, <<>>), n)
  BY <1>5, <1>6 DEF Sole, OccOf
<1>8. \A m \in Nodes(h) : IsLive(h, m) =>
               RefOf(h, m) = LinksInto(h, Nodes(h), m) + (IF m = n THEN 1 ELSE 0)
  BY <1>1, <1>7 DEF CountedBy, Sole
<1>9. StateOf(h, n) \in States(T)
  BY <1>1, <1>2 DEF GraphOK, StatesOK
<1> QED BY <1>2, <1>3, <1>4, <1>7, <1>8, <1>9 DEF n

\* A value has the id it is given.
LEMMA ValueIs ==
  ASSUME NEW i \in Nat, NEW trees
  PROVE  IsValue(Value(i, trees)) /\ Value(i, trees).id = i
BY DEF IsValue, Value

\* The mini-LR shift keeps the invariant.
LEMMA MiniShiftKeeps ==
  ASSUME TypesOK, Sound, MiniShift
  PROVE  Sound'
<1> DEFINE h == gss
           left == Parser
           d == ShiftDest(Action)
           n == Len(gss) + 1
           g == Append(gss, Pushed(gss, d, column + 1, left, TokenValue))
<1>1. /\ StackOK(gss, tables, topmostParsers, prevTopmost) /\ ValuesOK(gss, spent, nextVal)
      /\ prevTopmost = <<>> /\ pathQueue = <<>> /\ nextVal \in Nat \ {0} /\ column \in Int
      /\ GraphOK(gss, tables) /\ Held(gss) /\ Shape(gss)
  BY DEF Sound, PhaseOK, MiniShift, ValuesOK, TypesOK, StackOK, GraphOK
<1>2. /\ CanMiniShift /\ gss' = g /\ topmostParsers' = <<n>> /\ nextVal' = nextVal + 1
      /\ tables' = tables /\ prevTopmost' = <<>> /\ pathQueue' = <<>> /\ spent' = spent
      /\ ((pc' = "cleanup" /\ Token = EOF) \/ pc' = "token")
  BY <1>1 DEF MiniShift, given, TokenDone
<1>3. /\ Len(topmostParsers) = 1 /\ Len(Entry(gss[left].state)) = 1 /\ IsShift(Action)
      /\ Action = Entry(gss[left].state)[1] /\ left = topmostParsers[1]
  BY <1>2 DEF CanMiniShift, Deterministic, Action, Parser
<1> HIDE DEF left
<1>4. /\ left \in Nodes(gss) /\ IsLive(gss, left) /\ StateOf(gss, left) \in States(tables)
      /\ \A m \in Nodes(gss) : IsLive(gss, m) =>
               RefOf(gss, m) = LinksInto(gss, Nodes(gss), m) + (IF m = left THEN 1 ELSE 0)
  BY <1>1, <1>3, OnlyParser
<1>5. Action \in ToSet(Entry(StateOf(gss, left)))
  <2>1. Entry(StateOf(gss, left)) \in Seq(Int)
    BY <1>4, TablesFit DEF Automaton, TokenFits, Entry
  <2>2. 1 \in DOMAIN Entry(StateOf(gss, left))
    BY <1>3, <2>1 DEF StateOf
  <2> QED BY <1>3, <2>2 DEF ToSet, StateOf
<1>6. /\ d \in States(tables) /\ LeadsTo(tables, StateOf(gss, left), d) /\ d \in Int
      /\ Token = EOF => StateOf(gss, left) # tables.start
  BY <1>3, <1>4, <1>5, ShiftFits
<1>7. IsValue(TokenValue) /\ TokenValue.id = nextVal
  BY <1>1, ValueIs DEF TokenValue
<1> HIDE DEF d
<1>8. NodePushed(gss, g, d, left, nextVal, 0)
  <2>1. column + 1 \in Int
    BY <1>1
  <2> QED BY <1>1, <1>4, <1>6, <1>7, <2>1, PushedPushes
<1> HIDE DEF g
<1>9. StackOK(g, tables, <<n>>, <<>>)
  BY <1>1, <1>4, <1>6, <1>8, OnlyTop
<1>10. ValuesOK(g, spent, nextVal + 1)
  BY <1>1, <1>8, PushedValue
<1>11. Token = EOF => OnSymbols(g, <<n>>)
  <2> SUFFICES ASSUME Token = EOF PROVE OnSymbols(g, <<n>>)
    OBVIOUS
  <2>1. LinkCt(gss, left) > 0
    <3>1. LinkCt(gss, left) \in Nat /\ LinkCt(gss, left) # 0
      BY <1>1, <1>4, <1>6, ViewsAre DEF GraphOK, StatesOK
    <3> QED BY <3>1
  <2>2. LinkCt(g, n) = 1 /\ Sib(g, n, 1) = left /\ LinkCt(g, left) = LinkCt(gss, left)
    BY <1>4, <1>8 DEF NodePushed
  <2>3. ToSet(<<n>>) = {n}
    <3>1. n \in Nodes(g) /\ IsLive(g, n)
      <4>1. Len(gss) \in Nat
        BY <1>1, ShapeIs
      <4> QED BY <1>8, <4>1 DEF NodePushed, Nodes
    <3> QED BY <3>1, OneList
  <2> QED BY <2>1, <2>2, <2>3 DEF OnSymbols
<1>12. PhaseOK'
  <2>1. <<>> \in Seq(Paths(gss', tables'))
    OBVIOUS
  <2>2. pc' = "cleanup" => OnSymbols(gss', topmostParsers')
    BY <1>2, <1>11
  <2>3. pc' # "shift"
    BY <1>2
  <2> QED BY <1>2, <2>1, <2>2, <2>3 DEF PhaseOK
<1> QED BY <1>2, <1>9, <1>10, <1>12 DEF Sound

\* The mini-LR reduction keeps the invariant if what it pops is referred to once.
LEMMA MiniReduceKeeps ==
  ASSUME TypesOK, Sound, MiniReduce, ~sharedPops'
  PROVE  Sound'
<1> DEFINE n == Parser
           p == ReduceBy(Action)
           len == tables.prods[p].len
           lhs == tables.prods[p].lhs
           ch == Chain(gss, n, len)
           left == ch[len + 1]
           popped == {ch[k] : k \in 1..len}
           args == [k \in 1..len |-> gss[ch[len + 1 - k]].links[1].val]
           val == Value(nextVal, Build(p, args))
           st == Goto(gss[left].state, lhs)
           h1 == Pop(gss, popped)
           g == Append(h1, Pushed(gss, st, column, left, val))
<1>1. /\ StackOK(gss, tables, topmostParsers, prevTopmost) /\ ValuesOK(gss, spent, nextVal)
      /\ prevTopmost = <<>> /\ pathQueue = <<>> /\ nextVal \in Nat \ {0} /\ column \in Int
      /\ GraphOK(gss, tables) /\ Held(gss) /\ Shape(gss) /\ CountedBy(gss, OccOf(gss, topmostParsers, prevTopmost))
      /\ StatesOK(gss, tables) /\ Inward(gss) /\ DepthRight(gss) /\ Downward(gss)
  BY Zenon DEF Sound, PhaseOK, MiniReduce, ValuesOK, TypesOK, StackOK, GraphOK
<1>2. /\ CanMiniReduce /\ gss' = g /\ topmostParsers' = <<Len(gss) + 1>> /\ nextVal' = nextVal + 1
      /\ tables' = tables /\ prevTopmost' = <<>> /\ pathQueue' = <<>> /\ spent' = spent \cup Ids(args)
      /\ (pc' = "token" \/ pc' = "rejected") /\ PopsUnshared
  BY <1>1, Zenon DEF MiniReduce, given
<1>3. /\ Len(topmostParsers) = 1 /\ Len(Entry(gss[n].state)) = 1 /\ IsReduce(Action)
      /\ Action = Entry(gss[n].state)[1] /\ n = topmostParsers[1]
      /\ len <= DepthOf(gss, n)
  BY <1>2, Zenon DEF CanMiniReduce, Deterministic, Action, Parser, DepthOf
<1>4. \A k \in DOMAIN ch : gss[ch[k]].refct = 1
  BY <1>2, Zenon DEF PopsUnshared
<1> HIDE DEF n
<1>5. /\ n \in Nodes(gss) /\ IsLive(gss, n) /\ StateOf(gss, n) \in States(tables)
      /\ Sole(gss, OccOf(gss, topmostParsers, <<>>), n)
  BY <1>1, <1>3, OnlyParser
<1>6. Action \in ToSet(Entry(StateOf(gss, n)))
  <2>1. Entry(StateOf(gss, n)) \in Seq(Int)
    BY <1>5, TablesFit DEF Automaton, TokenFits, Entry
  <2>2. 1 \in DOMAIN Entry(StateOf(gss, n))
    BY <1>3, <2>1 DEF StateOf
  <2> QED BY <1>3, <2>2 DEF ToSet, StateOf
<1>7. /\ len \in Nat
      /\ \A k \in 0..(len - 1) : tables.start \notin Behind(tables, StateOf(gss, n), len)[k]
      /\ \A q \in Behind(tables, StateOf(gss, n), len)[len] :
            lhs \in DOMAIN tables.goto[q] /\ tables.goto[q][lhs] \in States(tables)
  BY <1>3, <1>5, <1>6, ReduceFits, ZenonT(60)
<1> HIDE DEF p, len, lhs
<1>8. Poppable(gss, tables, n, len)
  BY <1>3, <1>5, <1>7 DEF Poppable
<1>9. PICK f : Stretch(gss, tables, n, len, f) /\ ch = [k \in 1..len+1 |-> f[k-1]]
  BY <1>1, <1>8, ChainIs
<1> HIDE DEF ch
<1> DEFINE F == Popped(f, len)
<1>10. /\ \A k \in 0..len : k + 1 \in DOMAIN ch /\ ch[k + 1] = f[k]
       /\ left = f[len]
       /\ \A k \in 1..len : ch[k] = f[k - 1] /\ ch[len + 1 - k] = f[len - k]
  <2>1. \A k \in 1..(len + 1) : ch[k] = f[k - 1]
    BY <1>9
  <2>2. DOMAIN ch = 1..(len + 1)
    BY <1>9
  <2>3. \A k \in 0..len : k + 1 \in 1..(len + 1) /\ (k + 1) - 1 = k
    BY <1>7
  <2>4. \A k \in 1..len : k \in 1..(len + 1) /\ (len + 1 - k) \in 1..(len + 1) /\ (len + 1 - k) - 1 = len - k
    BY <1>7
  <2>5. len + 1 \in 1..(len + 1) /\ (len + 1) - 1 = len
    BY <1>7
  <2> QED BY <2>1, <2>2, <2>3, <2>4, <2>5
<1>11. \A k \in 0..len : RefOf(gss, f[k]) = 1
  BY <1>4, <1>10 DEF RefOf
<1>12. popped = F
  <2>1. \A k \in 1..len : k - 1 \in 0..(len - 1)
    BY <1>7
  <2>2. \A k \in 0..(len - 1) : k + 1 \in 1..len /\ k \in 0..len
    BY <1>7
  <2>3. \A x \in popped : x \in F
    BY <1>10, <2>1 DEF Popped
  <2>4. \A x \in F : x \in popped
    BY <1>10, <2>2 DEF Popped
  <2> QED BY <2>3, <2>4
<1> HIDE DEF left, popped
<1>13. /\ Part(F, Nodes(gss)) /\ f[len] \in Nodes(gss) \ F /\ IsLive(gss, f[len])
       /\ \A m \in F : /\ IsLive(gss, m)
                       /\ \A x \in Nodes(gss) : \A k \in 1..LinkCt(gss, x) : Sib(gss, x, k) = m => x \in F
       /\ \A m \in Nodes(gss) \ F : IsLive(gss, m) =>
             RefOf(gss, m) = LinksInto(gss, Nodes(gss) \ F, m) + (IF m = f[len] THEN 1 ELSE 0)
  <2> DEFINE occ == OccOf(gss, topmostParsers, <<>>)
  <2>1. Sole(gss, occ, n) /\ CountedBy(gss, occ)
    BY <1>1, <1>5
  <2> HIDE DEF occ
  <2> QED BY <1>1, <1>7, <1>9, <1>11, <2>1, StretchIsOurs
<1>14. StateOf(gss, f[len]) \in Behind(tables, StateOf(gss, n), len)[len]
       /\ StateOf(gss, f[len]) \in States(tables)
  <2>1. len \in 0..len
    BY <1>7
  <2> QED BY <1>1, <1>9, <1>13, <2>1 DEF Stretch, StatesOK
<1>15. \A k \in 1..len : LinkCt(gss, f[k - 1]) = 1
  BY <1>9 DEF Stretch
<1> HIDE DEF F
<1>16. Released(gss, h1, F) /\ SameRefs(gss, h1)
  BY <1>1, <1>12, <1>13, PopReleases
<1>17. /\ st \in States(tables) /\ st \in Int /\ LeadsTo(tables, StateOf(gss, left), st)
       /\ left \in Nodes(gss) \ F /\ IsLive(gss, left)
  <2>1. left = f[len] /\ gss[left].state = StateOf(gss, f[len])
    BY <1>10 DEF StateOf
  <2>2. lhs \in DOMAIN tables.goto[StateOf(gss, f[len])] /\ tables.goto[StateOf(gss, f[len])][lhs] \in States(tables)
    BY <1>7, <1>14
  <2> QED BY <1>13, <1>14, <2>1, <2>2, GotoFits
<1> HIDE DEF h1, st
<1>18. /\ Shape(h1) /\ Len(h1) = Len(gss) /\ Nodes(h1) = Nodes(gss)
       /\ \A m \in Nodes(gss) : /\ StateOf(h1, m) = StateOf(gss, m) /\ DepthOf(h1, m) = DepthOf(gss, m)
                                /\ RefOf(h1, m) = RefOf(gss, m)
                                /\ IsLive(h1, m) => m \notin F /\ IsLive(gss, m)
       /\ IsLive(h1, left) /\ left \in Nodes(h1)
  BY <1>16, <1>17 DEF Released, SameRefs, Nodes
<1>19. GraphOK(h1, tables)
  <2>1. F \in SUBSET Nodes(gss)
    BY <1>13 DEF Part
  <2> QED BY <1>1, <1>13, <1>16, <2>1, ReleasedKeeps
<1>20. Held(h1)
  BY <1>1, <1>18 DEF Held
<1>21. \A m \in Nodes(h1) : IsLive(h1, m) =>
            RefOf(h1, m) = LinksInto(h1, Nodes(h1), m) + (IF m = left THEN 1 ELSE 0)
  <2> SUFFICES ASSUME NEW m \in Nodes(gss), IsLive(h1, m)
      PROVE  RefOf(h1, m) = LinksInto(h1, Nodes(h1), m) + (IF m = left THEN 1 ELSE 0)
    BY <1>18
  <2>1. m \in Nodes(gss) \ F /\ IsLive(gss, m) /\ RefOf(h1, m) = RefOf(gss, m)
    BY <1>18
  <2>2. LinksInto(h1, Nodes(h1), m) = LinksInto(gss, Nodes(gss) \ F, m)
    <3>1. F \in SUBSET Nodes(gss)
      BY <1>13 DEF Part
    <3> QED BY <1>1, <1>16, <3>1, ReleasedCount
  <2> QED BY <1>10, <1>13, <2>1, <2>2
<1>22. val.id = nextVal /\ IsValue(val)
  BY <1>1, ValueIs
<1> HIDE DEF val
<1>23. NodePushed(h1, g, st, left, nextVal, 0)
  <2>1. Pushed(gss, st, column, left, val) = Pushed(h1, st, column, left, val)
    BY <1>17, <1>18 DEF Pushed, DepthOf
  <2>2. g = Append(h1, Pushed(h1, st, column, left, val))
    BY <2>1
  <2> HIDE DEF g
  <2> QED BY <1>1, <1>17, <1>18, <1>22, <2>2, PushedPushes
<1> HIDE DEF g
<1>24. StackOK(g, tables, <<Len(h1) + 1>>, <<>>)
  BY <1>17, <1>18, <1>19, <1>20, <1>21, <1>23, OnlyTop
<1>25. Ids(args) = IdsOf(gss, F)
  <2>1. Ids(args) = {IdOf(gss, f[len - k], 1) : k \in 1..len}
    <3>1. DOMAIN args = 1..len
      OBVIOUS
    <3>2. \A k \in 1..len : args[k].id = IdOf(gss, f[len - k], 1)
      BY <1>10 DEF IdOf
    <3> HIDE DEF args
    <3> QED BY <3>1, <3>2 DEF Ids
  <2>2. \A m \in F : \A k \in 1..LinkCt(gss, m) : IdOf(gss, m, k) \in Nat
    BY <1>1, <1>13, ViewsAre DEF Part
  <2>3. \A k \in 1..len : len - k \in 0..(len - 1)
    BY <1>7
  <2>4. \A j \in 0..(len - 1) : len - j \in 1..len /\ len - (len - j) = j /\ j + 1 \in 1..len /\ (j + 1) - 1 = j
    BY <1>7
  <2>5. ASSUME NEW j \in 0..(len - 1) PROVE f[j] \in F /\ LinkCt(gss, f[j]) = 1
    <3>1. LinkCt(gss, f[(j + 1) - 1]) = 1
      BY <1>15, <2>4
    <3> QED BY <2>4, <3>1 DEF F, Popped
  <2>6. \A m \in F : \E j \in 0..(len - 1) : m = f[j]
    BY DEF F, Popped
  <2>7. \A k \in 1..1 : k = 1
    OBVIOUS
  <2>8. ASSUME NEW i \in Ids(args) PROVE i \in IdsOf(gss, F)
    <3>1. PICK k \in 1..len : i = IdOf(gss, f[len - k], 1)
      BY <2>1, <2>8
    <3>2. f[len - k] \in F /\ LinkCt(gss, f[len - k]) = 1 /\ 1 \in 1..1
      BY <2>3, <2>5
    <3> QED BY <2>2, <3>1, <3>2 DEF IdsOf
  <2>9. ASSUME NEW i \in IdsOf(gss, F) PROVE i \in Ids(args)
    <3>1. PICK m \in F : \E k \in 1..LinkCt(gss, m) : i = IdOf(gss, m, k)
      BY <2>9 DEF IdsOf
    <3>2. PICK j \in 0..(len - 1) : m = f[j]
      BY <2>6
    <3>3. i = IdOf(gss, f[j], 1)
      BY <2>5, <2>7, <3>1, <3>2
    <3>4. len - j \in 1..len /\ i = IdOf(gss, f[len - (len - j)], 1)
      BY <2>4, <3>3
    <3> QED BY <2>1, <3>4
  <2> QED BY <2>8, <2>9, Zenon
<1>26. ValuesOK(g, spent \cup Ids(args), nextVal + 1)
  <2>1. ValuesOK(h1, spent \cup IdsOf(gss, F), nextVal)
    BY <1>1, <1>13, <1>16, ReleasedValues
  <2> QED BY <1>18, <1>23, <1>25, <2>1, PushedValue, Zenon
<1> HIDE DEF args
<1>27. PhaseOK'
  <2>1. <<>> \in Seq(Paths(gss', tables'))
    OBVIOUS
  <2>2. pc' # "shift" /\ pc' # "cleanup"
    BY <1>2
  <2> QED BY <1>2, <2>1, <2>2 DEF PhaseOK
<1> QED BY <1>2, <1>18, <1>24, <1>26, <1>27 DEF Sound

------------------------
(* The shifts keep the invariant *)

\* Enqueueing the reductions keeps the invariant.
LEMMA StartReductionsKeeps ==
  ASSUME TypesOK, Sound, StartReductions
  PROVE  Sound'
<1> DEFINE ps == PathsOfAll(gss, topmostParsers, {})
           V == Paths(gss, tables)
<1>1. /\ StackOK(gss, tables, topmostParsers, prevTopmost) /\ ValuesOK(gss, spent, nextVal)
      /\ prevTopmost = <<>> /\ pathQueue \in Seq(V)
      /\ GraphOK(gss, tables) /\ LiveList(gss, topmostParsers)
  BY DEF Sound, PhaseOK, StartReductions, StackOK
<1>2. /\ gss' = gss /\ tables' = tables /\ topmostParsers' = topmostParsers /\ prevTopmost' = prevTopmost
      /\ spent' = spent /\ nextVal' = nextVal /\ pc' = "reduce"
      /\ pathQueue' = InsertAll(pathQueue, ps)
  BY DEF StartReductions, given
<1>3. ps \in Seq(V)
  BY <1>1, TablesFit, PathsOfAllAre
<1> HIDE DEF ps, V
<1>4. pathQueue' \in Seq(V)
  BY <1>1, <1>2, <1>3, InsertAllIs
<1>5. PhaseOK'
  BY <1>1, <1>2, <1>4 DEF PhaseOK, V
<1> QED BY <1>1, <1>2, <1>5 DEF Sound

\* The parsers move to the other worklist, and their references with them.
LEMMA StartShiftsKeeps ==
  ASSUME TypesOK, Sound, StartShifts
  PROVE  Sound'
<1>1. /\ StackOK(gss, tables, topmostParsers, prevTopmost) /\ ValuesOK(gss, spent, nextVal)
      /\ prevTopmost = <<>> /\ pathQueue = <<>>
  BY DEF Sound, PhaseOK, StartShifts
<1>2. /\ gss' = gss /\ tables' = tables /\ topmostParsers' = <<>> /\ prevTopmost' = topmostParsers
      /\ spent' = spent /\ nextVal' = nextVal /\ pc' = "shift" /\ pathQueue' = <<>>
  BY <1>1 DEF StartShifts, given
<1>3. StackOK(gss, tables, <<>>, topmostParsers)
  <2>1. \A m : Occurs(m, <<>>) = 0
    BY OccursFew
  <2>2. \A m : Occurs(m, topmostParsers) \in Nat
    BY <1>1, ListIs DEF StackOK
  <2>3. OccOf(gss, <<>>, topmostParsers) = OccOf(gss, topmostParsers, <<>>)
    BY <2>1, <2>2 DEF OccOf
  <2>4. Closed(gss, {})
    BY DEF Closed
  <2> QED BY <1>1, <2>3, <2>4, EmptyList DEF StackOK
<1>4. PhaseOK'
  <2>1. <<>> \in Seq(Paths(gss', tables'))
    OBVIOUS
  <2>2. Shifting(gss, <<>>, topmostParsers) /\ OnSymbols(gss, <<>>)
    BY EmptyList DEF Shifting, OnSymbols
  <2> QED BY <1>2, <2>1, <2>2 DEF PhaseOK
<1> QED BY <1>1, <1>2, <1>3, <1>4 DEF Sound

\* The end of the shifts keeps the invariant.
LEMMA FinishShiftsKeeps ==
  ASSUME TypesOK, Sound, FinishShifts
  PROVE  Sound'
<1>1. /\ StackOK(gss, tables, topmostParsers, prevTopmost) /\ ValuesOK(gss, spent, nextVal)
      /\ prevTopmost = <<>> /\ pathQueue = <<>> /\ pc = "shift"
      /\ Token = EOF => OnSymbols(gss, topmostParsers)
  BY DEF Sound, PhaseOK, FinishShifts
<1>2. /\ gss' = gss /\ tables' = tables /\ topmostParsers' = topmostParsers /\ prevTopmost' = prevTopmost
      /\ spent' = spent /\ nextVal' = nextVal /\ pathQueue' = pathQueue
      /\ (pc' = "rejected" \/ pc' = "token" \/ (pc' = "cleanup" /\ Token = EOF))
  BY DEF FinishShifts, TokenDone, given
<1>3. PhaseOK'
  <2>1. <<>> \in Seq(Paths(gss', tables'))
    OBVIOUS
  <2> QED BY <1>1, <1>2, <2>1 DEF PhaseOK
<1> QED BY <1>1, <1>2, <1>3 DEF Sound

\* The member that is taken is a member.
LEMMA OneIn ==
  ASSUME NEW S, S # {}
  PROVE  TheOne(S) \in S
BY Zenon DEF TheOne

\* A shift keeps the invariant: the reference of the worklist becomes that of the link.
LEMMA ShiftParserKeeps ==
  ASSUME TypesOK, Sound, ShiftParser
  PROVE  Sound'
<1> DEFINE left == Last(prevTopmost)
           rest == Front(prevTopmost)
           shift == Shifts(gss[left].state)
           a == TheOne(shift)
           dest == ShiftDest(a)
           found == InState(gss, topmostParsers, dest)
           n == IF found = {} THEN Len(gss) + 1 ELSE TheOne(found)
           h == IF found # {} THEN gss ELSE Append(gss, NewTop(dest))
           linked == AddLink(h, n, left, TokenValue)
           g == [linked EXCEPT ![left].refct = @ - 1]
           top2 == IF found = {} THEN Append(topmostParsers, n) ELSE topmostParsers
<1>1. /\ StackOK(gss, tables, topmostParsers, prevTopmost) /\ ValuesOK(gss, spent, nextVal)
      /\ pathQueue = <<>> /\ pc = "shift" /\ nextVal \in Nat \ {0} /\ column \in Int
      /\ GraphOK(gss, tables) /\ Shape(gss) /\ LiveList(gss, topmostParsers) /\ LiveList(gss, prevTopmost)
      /\ Increasing(prevTopmost) /\ prevTopmost # <<>>
      /\ Shifting(gss, topmostParsers, prevTopmost)
      /\ Token = EOF => OnSymbols(gss, topmostParsers)
  BY DEF Sound, PhaseOK, ShiftParser, ShiftStep, TypesOK, ValuesOK, StackOK, GraphOK
<1>2. /\ shift # {} /\ topmostParsers' = top2 /\ gss' = g
      /\ prevTopmost' = rest /\ nextVal' = nextVal + 1
      /\ tables' = tables /\ pathQueue' = pathQueue /\ spent' = spent /\ pc' = pc /\ toks' = toks /\ pos' = pos
  BY DEF ShiftParser, given
<1>3. left \in Nodes(gss) /\ IsLive(gss, left) /\ StateOf(gss, left) \in States(tables)
      /\ gss[left].state = StateOf(gss, left)
  BY <1>1, ListFront DEF GraphOK, StatesOK, StateOf
<1>4. a \in ToSet(Entry(StateOf(gss, left))) /\ IsShift(a)
  BY <1>2, <1>3, OneIn DEF Shifts
<1>5. /\ dest \in States(tables) /\ dest # tables.start /\ LeadsTo(tables, StateOf(gss, left), dest) /\ dest \in Int
      /\ Token = EOF => StateOf(gss, left) # tables.start
  BY <1>3, <1>4, ShiftFits
<1>6. IsValue(TokenValue) /\ TokenValue.id = nextVal
  BY <1>1, ValueIs DEF TokenValue
<1> HIDE DEF dest, a, shift
<1>7. Token = EOF => LinkCt(gss, left) > 0
  <2>1. LinkCt(gss, left) \in Nat /\ (Token = EOF => LinkCt(gss, left) # 0)
    BY <1>1, <1>3, <1>5, ViewsAre DEF GraphOK, StatesOK
  <2> QED BY <2>1
<1>8. /\ StackOK(g, tables, top2, rest) /\ Shifting(g, top2, rest) /\ ValuesOK(g, spent, nextVal + 1)
      /\ Token = EOF => OnSymbols(g, top2)
  <2>1. CASE found = {}
    <3>1. /\ n = Len(gss) + 1 /\ h = Append(gss, NewTop(dest)) /\ top2 = Append(topmostParsers, n)
      BY <2>1
    <3>2. NewTop(dest) = TopNode(dest, column)
      BY DEF NewTop, TopNode
    <3>3. NodePushed(gss, linked, dest, left, nextVal, 1)
      BY <1>1, <1>3, <1>5, <1>6, <3>1, <3>2, LinkedPushes
    <3>4. g = LetGo(linked, left)
      BY DEF LetGo
    <3> HIDE DEF g, linked, h, n, top2, found
    <3>5. NodePushed(gss, g, dest, left, nextVal, 0)
      BY <1>1, <1>3, <3>3, <3>4, LetGoPushes
    <3>6. StackOK(g, tables, top2, rest) /\ Shifting(g, top2, rest)
      BY <1>1, <1>5, <3>1, <3>5, ShiftedNew
    <3>7. ValuesOK(g, spent, nextVal + 1)
      BY <1>1, <3>5, PushedValue
    <3>8. ASSUME Token = EOF PROVE OnSymbols(g, top2)
      <4>1. Len(gss) \in Nat
        BY <1>1, ShapeIs
      <4>2. ToSet(top2) = ToSet(topmostParsers) \cup {n}
        <5>1. /\ Len(g) = Len(gss) + 1 /\ IsLive(g, Len(gss) + 1)
              /\ \A m \in Nodes(gss) : IsLive(gss, m) => IsLive(g, m)
          BY <3>5 DEF NodePushed
        <5> QED BY <1>1, <3>1, <4>1, <5>1, ListAppend DEF StackOK
      <4>3. LinkCt(g, n) = 1 /\ Sib(g, n, 1) = left /\ LinkCt(g, left) = LinkCt(gss, left)
        BY <1>3, <3>1, <3>5 DEF NodePushed
      <4>4. OnSymbols(gss, topmostParsers)
        BY <1>1, <3>8
      <4>5. \A m \in ToSet(topmostParsers) :
               /\ LinkCt(gss, m) > 0 /\ LinkCt(gss, m) \in Nat
               /\ LinkCt(gss, Sib(gss, m, 1)) > 0 /\ m \in Nodes(gss) /\ 1 \in 1..LinkCt(gss, m)
        BY <1>1, <4>4, ListIs, ViewsAre DEF OnSymbols
      <4>6. \A m \in ToSet(topmostParsers) : Sib(gss, m, 1) \in Nodes(gss)
        BY <1>1, <4>5 DEF GraphOK, Inward
      <4>7. \A m \in ToSet(topmostParsers) :
               LinkCt(g, m) > 0 /\ Sib(g, m, 1) = Sib(gss, m, 1) /\ LinkCt(g, Sib(gss, m, 1)) > 0
        BY <3>5, <4>5, <4>6 DEF NodePushed
      <4> QED BY <1>7, <3>8, <4>2, <4>3, <4>7 DEF OnSymbols
    <3> QED BY <3>6, <3>7, <3>8
  <2>2. CASE found # {}
    <3>1. /\ n \in found /\ h = gss /\ top2 = topmostParsers
      BY <2>2, OneIn
    <3>2. n \in ToSet(topmostParsers) /\ StateOf(gss, n) = dest
      BY <3>1 DEF InState, StateOf
    <3>3. n \in Nodes(gss)
      BY <1>1, <3>2, ListIs
    <3>4. g = LetGo(linked, left)
      BY DEF LetGo
    <3> HIDE DEF found, n
    <3>5. LinkAdded(gss, linked, n, left, nextVal)
      BY <1>1, <1>3, <1>6, <3>1, <3>3, AddLinkAdds
    <3> HIDE DEF g, linked, h, top2
    <3>6. StackOK(g, tables, top2, rest) /\ Shifting(g, top2, rest)
      BY <1>1, <1>5, <3>1, <3>2, <3>4, <3>5, ShiftedOnto
    <3>7. ValuesOK(linked, spent, nextVal + 1)
      BY <1>1, <3>3, <3>5, LinkedValue
    <3>8. SameLinks(linked, g) /\ SameIds(linked, g) /\ Nodes(linked) = Nodes(gss) /\ Shape(linked)
      <4>1. Shape(linked) /\ Nodes(linked) = Nodes(gss)
        BY <3>5 DEF LinkAdded, Nodes
      <4> QED BY <1>3, <3>4, <4>1, LetGoLowers
    <3>9. ValuesOK(g, spent, nextVal + 1)
      BY <3>7, <3>8, ValuesSame
    <3>10. ASSUME Token = EOF PROVE OnSymbols(g, top2)
      <4>1. OnSymbols(gss, topmostParsers)
        BY <1>1, <3>10
      <4>2. \A m \in ToSet(topmostParsers) :
               /\ LinkCt(gss, m) > 0 /\ LinkCt(gss, m) \in Nat
               /\ LinkCt(gss, Sib(gss, m, 1)) > 0 /\ m \in Nodes(gss) /\ 1 \in 1..LinkCt(gss, m)
        BY <1>1, <4>1, ListIs, ViewsAre DEF OnSymbols
      <4>3. \A m \in ToSet(topmostParsers) : Sib(gss, m, 1) \in Nodes(gss)
        BY <1>1, <4>2 DEF GraphOK, Inward
      <4>4. ASSUME NEW m \in Nodes(gss)
            PROVE  /\ LinkCt(gss, m) \in Nat /\ LinkCt(g, m) \in Nat
                   /\ LinkCt(g, m) >= LinkCt(gss, m)
        <5>1. /\ LinkCt(gss, m) \in Nat /\ LinkCt(g, m) = LinkCt(linked, m)
              /\ LinkCt(linked, m) = LinkCt(gss, m) + (IF m = n THEN 1 ELSE 0)
          BY <1>1, <3>5, <3>8, ViewsAre DEF LinkAdded, SameLinks
        <5> QED BY <5>1
      <4>5. ASSUME NEW m \in ToSet(topmostParsers) PROVE Sib(g, m, 1) = Sib(gss, m, 1)
        <5>1. Sib(linked, m, 1) = Sib(gss, m, 1) /\ LinkCt(linked, m) = LinkCt(g, m)
          BY <3>5, <3>8, <4>2 DEF LinkAdded, SameLinks
        <5>2. 1 \in 1..LinkCt(linked, m)
          BY <4>2, <4>4, <5>1
        <5> QED BY <3>8, <4>2, <5>1, <5>2 DEF SameLinks
      <4>6. \A m \in Nodes(gss) : LinkCt(gss, m) > 0 => LinkCt(g, m) > 0
        BY <4>4
      <4> QED BY <3>1, <4>2, <4>3, <4>5, <4>6 DEF OnSymbols
    <3> QED BY <3>6, <3>9, <3>10
  <2> QED BY <2>1, <2>2
<1> HIDE DEF g, top2, rest
<1>9. PhaseOK'
  <2>1. <<>> \in Seq(Paths(gss', tables'))
    OBVIOUS
  <2> QED BY <1>1, <1>2, <1>8, <2>1 DEF PhaseOK, Token
<1> QED BY <1>2, <1>8, <1>9 DEF Sound

------------------------
(* Dropping a parser, and the final reduction, keep it *)

\* What is freed is not under the parsers that stay.
LEMMA SymbolsSurvive ==
  ASSUME NEW h, NEW T, GraphOK(h, T), NEW top, LiveList(h, top), OnSymbols(h, top), NEW g, NEW F,
         Released(h, g, F), \A m \in ToSet(top) : m \notin F,
         \A m \in F : \A x \in Nodes(h) : \A k \in 1..LinkCt(h, x) : Sib(h, x, k) = m => x \in F
  PROVE  OnSymbols(g, top)
<1> SUFFICES ASSUME NEW t \in ToSet(top)
    PROVE LinkCt(g, t) > 0 /\ LinkCt(g, Sib(g, t, 1)) > 0
  BY DEF OnSymbols
<1>1. /\ LinkCt(h, t) > 0 /\ LinkCt(h, Sib(h, t, 1)) > 0 /\ t \in Nodes(h) /\ t \notin F
      /\ Shape(h) /\ Inward(h)
  BY ListIs DEF OnSymbols, GraphOK
<1>2. LinkCt(h, t) \in Nat
  BY <1>1, ViewsAre
<1>3. 1 \in 1..LinkCt(h, t)
  BY <1>1, <1>2
<1>4. Sib(h, t, 1) \in Nodes(h) /\ Sib(h, t, 1) \notin F
  BY <1>1, <1>3 DEF Inward
<1> QED BY <1>1, <1>3, <1>4 DEF Released

\* During the shifts nothing links to a new parser, whatever is freed.
LEMMA ShiftingSurvives ==
  ASSUME NEW h, Shape(h), NEW top, NEW prev, NEW rest, Shifting(h, top, prev),
         ToSet(rest) \subseteq ToSet(prev), NEW g, NEW F, Released(h, g, F)
  PROVE  Shifting(g, top, rest)
<1>1. ToSet(top) \cap ToSet(rest) = {}
  BY DEF Shifting
<1>2. ASSUME NEW n \in Nodes(g), NEW k \in 1..LinkCt(g, n)
      PROVE /\ Sib(g, n, k) \notin ToSet(top)
            /\ n \in ToSet(top) => Sib(g, n, k) \notin ToSet(rest)
  <2>1. n \in Nodes(h)
    BY <1>2 DEF Released, Nodes
  <2>2. n \notin F
    BY <1>2, <2>1 DEF Released
  <2>3. LinkCt(g, n) = LinkCt(h, n) /\ Sib(g, n, k) = Sib(h, n, k)
    BY <1>2, <2>1, <2>2 DEF Released
  <2> QED BY <1>2, <2>1, <2>3 DEF Shifting
<1> QED BY <1>1, <1>2 DEF Shifting

\* beside the links and the lists there is one reference to n
OneToGo(h, top, rest, n) ==
    \A m \in Nodes(h) : IsLive(h, m) =>
        RefOf(h, m) = LinksInto(h, Nodes(h), m) + OccOf(h, top, rest)[m] + (IF m = n THEN 1 ELSE 0)

\* g is what is left of h when some nodes that no parser needs are freed, and gone their values
WellDropped(h, g, gone, T, top, rest) ==
    \E F \in SUBSET Nodes(h) :
        /\ Released(h, g, F) /\ gone = IdsOf(h, F)
        /\ StackOK(g, T, top, rest)
        /\ \A m \in ToSet(top) : m \notin F
        /\ \A m \in F : \A x \in Nodes(h) : \A k \in 1..LinkCt(h, x) : Sib(h, x, k) = m => x \in F

\* The reference of n goes, and with it what only n held.
LEMMA LastGoes ==
  ASSUME NEW h, NEW T, NEW top, NEW rest, NEW n,
         GraphOK(h, T), Held(h), Closed(h, ToSet(top)), LiveList(h, top), LiveList(h, rest),
         Increasing(top), Increasing(rest), n \in Nodes(h), IsLive(h, n), OneToGo(h, top, rest, n)
  PROVE  WellDropped(h, DecRefCt(h, n), DroppedBy(h, n), T, top, rest)
<1>1. \A m \in Nodes(h) : IsLive(h, m) =>
        RefOf(h, m) = LinksInto(h, Nodes(h), m) + OccOf(h, top, rest)[m] + (IF m = n THEN 1 ELSE 0)
  BY DEF OneToGo
<1> QED BY <1>1, DroppedKeeps, SMTT(30) DEF WellDropped

\* Dropping a parser keeps the invariant.
LEMMA DropParserKeeps ==
  ASSUME TypesOK, Sound, DropParser
  PROVE  Sound'
<1> DEFINE n == Last(prevTopmost)
           rest == Front(prevTopmost)
           g == DecRefCt(gss, n)
<1>1. /\ StackOK(gss, tables, topmostParsers, prevTopmost) /\ ValuesOK(gss, spent, nextVal)
      /\ pathQueue = <<>> /\ pc = "shift" /\ prevTopmost # <<>>
      /\ GraphOK(gss, tables) /\ Shape(gss) /\ LiveList(gss, topmostParsers) /\ LiveList(gss, prevTopmost)
      /\ Increasing(prevTopmost) /\ Increasing(topmostParsers) /\ Held(gss) /\ Closed(gss, ToSet(topmostParsers))
      /\ Shifting(gss, topmostParsers, prevTopmost)
      /\ Token = EOF => OnSymbols(gss, topmostParsers)
  BY DEF Sound, PhaseOK, DropParser, ShiftStep, StackOK, GraphOK
<1>2. /\ gss' = g /\ prevTopmost' = rest /\ spent' = spent \cup DroppedBy(gss, n)
      /\ topmostParsers' = topmostParsers /\ nextVal' = nextVal
      /\ tables' = tables /\ pathQueue' = pathQueue /\ pc' = pc /\ toks' = toks /\ pos' = pos
  BY DEF DropParser, given
<1>3. /\ LiveList(gss, rest) /\ Increasing(rest) /\ n \in Nodes(gss) /\ IsLive(gss, n)
      /\ ToSet(rest) \subseteq ToSet(prevTopmost)
      /\ \A m : Occurs(m, prevTopmost) = Occurs(m, rest) + (IF m = n THEN 1 ELSE 0)
  BY <1>1, ListFront
<1>4. ASSUME NEW m \in Nodes(gss), IsLive(gss, m)
      PROVE RefOf(gss, m) = LinksInto(gss, Nodes(gss), m) + OccOf(gss, topmostParsers, rest)[m]
                               + (IF m = n THEN 1 ELSE 0)
  <2>1. RefOf(gss, m) = LinksInto(gss, Nodes(gss), m) + OccOf(gss, topmostParsers, prevTopmost)[m]
    BY <1>1, <1>4 DEF StackOK, CountedBy
  <2>2. /\ OccOf(gss, topmostParsers, prevTopmost)[m] = Occurs(m, topmostParsers) + Occurs(m, prevTopmost)
        /\ OccOf(gss, topmostParsers, rest)[m] = Occurs(m, topmostParsers) + Occurs(m, rest)
    BY <1>4 DEF OccOf
  <2>3. Occurs(m, topmostParsers) \in Nat /\ Occurs(m, rest) \in Nat /\ LinksInto(gss, Nodes(gss), m) \in Nat
    BY <1>1, <1>3, ListIs, LinksAreNat
  <2> HIDE DEF n, rest
  <2> QED BY <1>3, <2>1, <2>2, <2>3
<1> HIDE DEF n, rest
<1>5. PICK F \in SUBSET Nodes(gss) :
         /\ Released(gss, g, F) /\ DroppedBy(gss, n) = IdsOf(gss, F)
         /\ StackOK(g, tables, topmostParsers, rest)
         /\ \A m \in ToSet(topmostParsers) : m \notin F
         /\ \A m \in F : \A x \in Nodes(gss) : \A k \in 1..LinkCt(gss, x) : Sib(gss, x, k) = m => x \in F
  <2>1. OneToGo(gss, topmostParsers, rest, n)
    BY <1>4 DEF OneToGo
  <2>2. WellDropped(gss, g, DroppedBy(gss, n), tables, topmostParsers, rest)
    BY <1>1, <1>3, <2>1, LastGoes
  <2> HIDE DEF g
  <2> QED BY <2>2 DEF WellDropped
<1> HIDE DEF g
<1>6. Part(F, Nodes(gss))
  BY DEF Part
<1>7. ValuesOK(g, spent', nextVal)
  BY <1>1, <1>2, <1>5, <1>6, ReleasedValues
<1>8. Shifting(g, topmostParsers, rest)
  BY <1>1, <1>3, <1>5, ShiftingSurvives
<1>9. Token = EOF => OnSymbols(g, topmostParsers)
  BY <1>1, <1>5, SymbolsSurvive
<1>10. PhaseOK'
  <2>1. <<>> \in Seq(Paths(gss', tables'))
    OBVIOUS
  <2> QED BY <1>1, <1>2, <1>8, <1>9, <2>1 DEF PhaseOK, Token
<1> QED BY <1>2, <1>5, <1>7, <1>10 DEF Sound

\* The final reduction keeps the invariant.
LEMMA CleanupKeeps ==
  ASSUME TypesOK, Sound, CleanupAfterParse
  PROVE  Sound'
<1> DEFINE n == topmostParsers[1]
           links == << <<gss[n].links[1].sib, 1>>, <<n, 1>> >>
           y == Yield(gss, links, nextVal)
           g == DecRefCt(y.h, n)
<1>1. /\ StackOK(gss, tables, topmostParsers, <<>>) /\ ValuesOK(gss, spent, nextVal)
      /\ pathQueue = <<>> /\ prevTopmost = <<>> /\ pc = "cleanup"
      /\ GraphOK(gss, tables) /\ Shape(gss) /\ Inward(gss)
      /\ OnSymbols(gss, topmostParsers)
      /\ nextVal \in Nat \ {0} /\ nextVal \in Nat /\ Owned(gss, spent, nextVal) /\ Accounted(gss, spent, nextVal)
  BY DEF Sound, PhaseOK, CleanupAfterParse, StackOK, GraphOK, ValuesOK
<1>2. /\ prevTopmost' = prevTopmost /\ tables' = tables /\ pathQueue' = pathQueue
      /\ toks' = toks /\ pos' = pos
  BY DEF CleanupAfterParse, given
<1>3. <<>> \in Seq(Paths(gss', tables'))
  OBVIOUS
<1>4. CASE Len(topmostParsers) # 1
  <2>1. /\ gss' = gss /\ topmostParsers' = topmostParsers /\ nextVal' = nextVal /\ spent' = spent
        /\ pc' = "rejected"
    BY <1>4 DEF CleanupAfterParse
  <2>2. PhaseOK'
    BY <1>1, <1>2, <1>3, <2>1 DEF PhaseOK
  <2> QED BY <1>1, <1>2, <2>1, <2>2 DEF Sound
<1>5. CASE Len(topmostParsers) = 1
  <2>1. /\ gss' = g /\ topmostParsers' = <<>> /\ nextVal' = y.next /\ pc' = "accepted"
        /\ spent' = spent \cup Ids(y.args) \cup DroppedBy(y.h, n)
    BY <1>5, Zenon DEF CleanupAfterParse
  <2>2. /\ n \in Nodes(gss) /\ IsLive(gss, n) /\ ToSet(topmostParsers) = {n}
        /\ \A m \in Nodes(gss) : IsLive(gss, m) =>
              RefOf(gss, m) = LinksInto(gss, Nodes(gss), m) + (IF m = n THEN 1 ELSE 0)
    BY <1>1, <1>5, OnlyParser
  <2> HIDE DEF n
  <2>3. LinkCt(gss, n) > 0 /\ LinkCt(gss, Sib(gss, n, 1)) > 0
    BY <1>1, <2>2 DEF OnSymbols
  <2>4. 1 \in 1..LinkCt(gss, n)
    <3>1. LinkCt(gss, n) \in Nat
      BY <1>1, <2>2, ViewsAre
    <3> QED BY <2>3, <3>1
  <2>5. Sib(gss, n, 1) \in Nodes(gss)
    BY <1>1, <2>2, <2>4 DEF Inward
  <2>6. 1 \in 1..LinkCt(gss, Sib(gss, n, 1))
    <3>1. LinkCt(gss, Sib(gss, n, 1)) \in Nat
      BY <1>1, <2>5, ViewsAre
    <3> QED BY <2>3, <3>1
  <2>7. PathLinks(gss, links)
    <3>1. links = << <<Sib(gss, n, 1), 1>>, <<n, 1>> >>
      BY DEF Sib
    <3> HIDE DEF links
    <3>2. Nodes(gss) \subseteq Nat
      BY DEF Nodes
    <3> DEFINE s == Sib(gss, n, 1)
    <3>3. s \in Nat /\ n \in Nat
      BY <2>2, <2>5, <3>2
    <3>4. s \in Nodes(gss) /\ n \in Nodes(gss) /\ 1 \in 1..LinkCt(gss, s) /\ 1 \in 1..LinkCt(gss, n)
      BY <2>2, <2>4, <2>5, <2>6
    <3>5. links = << <<s, 1>>, <<n, 1>> >>
      BY <3>1
    <3> HIDE DEF s
    <3>6. links \in Seq(Nat \X Nat) /\ Len(links) = 2 /\ links[1] = <<s, 1>> /\ links[2] = <<n, 1>>
      BY <3>3, <3>5
    <3>7. ASSUME NEW i \in 1..2
          PROVE  links[i][1] \in Nodes(gss) /\ links[i][2] \in 1..LinkCt(gss, links[i][1])
      <4>1. CASE i = 1
        <5>1. links[i] = <<s, 1>> /\ links[i][1] = s /\ links[i][2] = 1
          BY <3>6, <4>1
        <5> QED BY <3>4, <5>1
      <4>2. CASE i = 2
        <5>1. links[i] = <<n, 1>> /\ links[i][1] = n /\ links[i][2] = 1
          BY <3>6, <4>2
        <5> QED BY <3>4, <5>1
      <4> QED BY <4>1, <4>2
    <3> QED BY <3>6, <3>7 DEF PathLinks
  <2> HIDE DEF links
  <2>8. YieldsFrom(gss, y, links, nextVal)
    BY <1>1, <2>7, YieldYields
  <2> HIDE DEF y
  <2>9. SameLinks(gss, y.h) /\ SameRefs(gss, y.h) /\ SameDepths(gss, y.h)
    BY <2>8 DEF YieldsFrom
  <2>10. ValuesOK(y.h, spent \cup Ids(y.args), y.next)
    BY <1>1, <2>7, <2>8, YieldOwns, Zenon DEF ValuesOK
  <2>11. GraphOK(y.h, tables) /\ Held(y.h) /\ Shape(y.h) /\ Nodes(y.h) = Nodes(gss)
    <3>1. StackOK(y.h, tables, topmostParsers, <<>>)
      BY <1>1, <2>9, SameStack
    <3> QED BY <2>9, <3>1 DEF StackOK, GraphOK, SameLinks, Nodes
  <2>12. n \in Nodes(y.h) /\ IsLive(y.h, n)
    BY <2>2, <2>9, <2>11 DEF SameLinks
  <2>13. ASSUME NEW m \in Nodes(y.h), IsLive(y.h, m)
         PROVE RefOf(y.h, m) = LinksInto(y.h, Nodes(y.h), m) + OccOf(y.h, <<>>, <<>>)[m]
                                  + (IF m = n THEN 1 ELSE 0)
    <3>1. m \in Nodes(gss) /\ IsLive(gss, m) /\ RefOf(y.h, m) = RefOf(gss, m)
      BY <2>9, <2>11, <2>13 DEF SameLinks, SameRefs
    <3>2. LinksInto(y.h, Nodes(gss), m) = LinksInto(gss, Nodes(gss), m)
      BY <1>1, <2>9, SameLinksTo
    <3>3. OccOf(y.h, <<>>, <<>>)[m] = 0 + 0
      BY <2>13, OccursFew DEF OccOf
    <3>4. LinksInto(gss, Nodes(gss), m) \in Nat
      BY <1>1, LinksAreNat
    <3> QED BY <2>2, <2>11, <3>1, <3>2, <3>3, <3>4
  <2>14. Closed(y.h, ToSet(<<>>))
    BY EmptyList DEF Closed
  <2>15. PICK F \in SUBSET Nodes(y.h) :
           /\ Released(y.h, g, F) /\ DroppedBy(y.h, n) = IdsOf(y.h, F)
           /\ StackOK(g, tables, <<>>, <<>>)
    <3>1. OneToGo(y.h, <<>>, <<>>, n)
      BY <2>13 DEF OneToGo
    <3>2. WellDropped(y.h, g, DroppedBy(y.h, n), tables, <<>>, <<>>)
      BY <2>11, <2>12, <3>1, <2>14, EmptyList, LastGoes
    <3> HIDE DEF g
    <3> QED BY <3>2 DEF WellDropped
  <2> HIDE DEF g
  <2>16. Part(F, Nodes(y.h))
    BY DEF Part
  <2>17. ValuesOK(g, spent', y.next)
    BY <2>1, <2>10, <2>11, <2>15, <2>16, ReleasedValues
  <2>18. PhaseOK'
    BY <1>1, <1>2, <1>3, <2>1 DEF PhaseOK
  <2> QED BY <1>1, <1>2, <2>1, <2>15, <2>17, <2>18 DEF Sound
<1> QED BY <1>4, <1>5

------------------------
(* The reduction at the front of the queue *)

\* The head and the tail of a sequence over V.
LEMMA HeadAndTail ==
  ASSUME NEW V, NEW q \in Seq(V), q # <<>>
  PROVE  Head(q) \in V /\ Tail(q) \in Seq(V)
OBVIOUS

\* the reduction r can be handled: its value is new, its link would be a transition
Ready(r) ==
    /\ StackOK(r.h, tables, topmostParsers, <<>>) /\ SameLinks(gss, r.h)
    /\ ValuesOK(r.h, spent \cup r.used, r.val.id)
    /\ r.left \in Nodes(r.h) /\ IsLive(r.h, r.left)
    /\ r.state \in States(tables) /\ r.state # tables.start /\ r.state \in Int
    /\ LeadsTo(tables, StateOf(r.h, r.left), r.state)
    /\ IsValue(r.val)
    /\ \A n \in r.found : n \in ToSet(topmostParsers) /\ StateOf(r.h, n) = r.state
    /\ Tail(pathQueue) \in Seq(Paths(r.h, tables))

\* The same links are not fewer.
LEMMA SameGrown ==
  ASSUME NEW h, Shape(h), NEW g, SameLinks(h, g)
  PROVE  Grown(h, g)
<1> SUFFICES ASSUME NEW m \in Nodes(h) PROVE GrownAt(h, g, m)
  BY DEF Grown
<1>1. LinkCt(h, m) \in Nat
  BY ViewsAre
<1>2. /\ m \in Nodes(g) /\ StateOf(g, m) = StateOf(h, m) /\ (IsLive(g, m) <=> IsLive(h, m))
      /\ LinkCt(g, m) = LinkCt(h, m)
  BY DEF SameLinks, Nodes
<1>3. LinkCt(h, m) <= LinkCt(g, m) /\ LinkCt(g, m) \in Nat
  BY <1>1, <1>2
<1> QED BY <1>1, <1>2, <1>3 DEF GrownAt

\* The reduction at the front of the queue is ready, whatever was done since it was enqueued.
LEMMA ReducedIsReady ==
  ASSUME TypesOK, Sound, ProcessPath
  PROVE  Ready(Reduced)
<1> DEFINE path == Head(pathQueue)
           y == Yield(gss, path.links, nextVal)
           q == StateOf(gss, path.left)
           dest == Goto(q, tables.prods[path.prod].lhs)
           r == Reduced
<1>1. /\ StackOK(gss, tables, topmostParsers, <<>>) /\ ValuesOK(gss, spent, nextVal)
      /\ pathQueue \in Seq(Paths(gss, tables)) /\ pathQueue # <<>>
      /\ GraphOK(gss, tables) /\ Shape(gss) /\ LiveList(gss, topmostParsers)
      /\ nextVal \in Nat \ {0} /\ nextVal \in Nat /\ Owned(gss, spent, nextVal) /\ Accounted(gss, spent, nextVal)
  BY DEF Sound, PhaseOK, ProcessPath, StackOK, GraphOK, ValuesOK
<1>2. path \in Paths(gss, tables) /\ Tail(pathQueue) \in Seq(Paths(gss, tables))
  BY <1>1, HeadAndTail
<1>3. /\ r.h = y.h /\ r.used = Ids(y.args) /\ r.val = Value(y.next, Build(path.prod, y.args))
      /\ r.left = path.left /\ r.state = dest
      /\ r.found = InState(gss, topmostParsers, dest)
  BY DEF Reduced, StateOf
<1> HIDE DEF r, path
<1>4. path \in PathShape(gss) /\ Fits(gss, tables, path)
  BY <1>2 DEF Paths
<1>5. path.left \in Nodes(gss) /\ path.links \in Seq(Nat \X Nat)
  BY <1>4 DEF PathShape
<1>6. /\ IsLive(gss, path.left) /\ tables.prods[path.prod].lhs \in DOMAIN tables.goto[q]
      /\ tables.goto[q][tables.prods[path.prod].lhs] \in States(tables)
      /\ \A i \in 1..Len(path.links) : IsLinkOf(gss, path.links[i])
  BY <1>4 DEF Fits
<1>7. PathLinks(gss, path.links)
  BY <1>5, <1>6, Zenon DEF PathLinks, IsLinkOf
<1>8. q \in States(tables)
  BY <1>1, <1>5, <1>6 DEF GraphOK, StatesOK
<1> HIDE DEF q
<1>9. /\ dest \in States(tables) /\ dest # tables.start /\ dest \in Int
      /\ LeadsTo(tables, q, dest)
  BY <1>6, <1>8, GotoFits
<1> HIDE DEF dest
<1>10. YieldsFrom(gss, y, path.links, nextVal)
  BY <1>1, <1>7, YieldYields
<1> HIDE DEF y
<1>11. SameLinks(gss, y.h) /\ SameRefs(gss, y.h) /\ SameDepths(gss, y.h)
  BY <1>10 DEF YieldsFrom
<1>12. ValuesOK(y.h, spent \cup Ids(y.args), y.next) /\ y.next \in Nat
  BY <1>1, <1>7, <1>10, YieldOwns, Zenon DEF ValuesOK
<1>13. IsValue(r.val) /\ r.val.id = y.next
  BY <1>3, <1>12, ValueIs
<1>14. StackOK(y.h, tables, topmostParsers, <<>>)
  BY <1>1, <1>11, SameStack
<1>15. path.left \in Nodes(y.h) /\ IsLive(y.h, path.left) /\ StateOf(y.h, path.left) = q
  BY <1>5, <1>6, <1>11 DEF SameLinks, Nodes, q
<1>16. ASSUME NEW n \in r.found PROVE n \in ToSet(topmostParsers) /\ StateOf(y.h, n) = dest
  <2>1. n \in ToSet(topmostParsers) /\ StateOf(gss, n) = dest
    BY <1>3, <1>16 DEF InState, StateOf
  <2>2. n \in Nodes(gss)
    BY <1>1, <2>1, ListIs
  <2> QED BY <1>11, <2>1, <2>2 DEF SameLinks
<1>17. Tail(pathQueue) \in Seq(Paths(y.h, tables))
  BY <1>1, <1>2, <1>11, SameGrown, PathsStay
<1>18. Ready(r)
  BY <1>3, <1>9, <1>11, <1>12, <1>13, <1>14, <1>15, <1>16, <1>17 DEF Ready
<1> QED BY <1>18 DEF r

\* the values used up by the reduction r and its handling
LEMMA HandledKeeps ==
  ASSUME TypesOK, Sound, ProcessPath, NEW r, Ready(r), NEW h, NEW ids, NEW ps,
         Handled(r, h, ids, ps), Grown(r.h, h), ps \in Seq(Paths(h, tables)),
         StackOK(h, tables, topmostParsers', <<>>),
         ValuesOK(h, (spent \cup r.used) \cup ids, nextVal')
  PROVE  Sound'
<1>1. /\ gss' = h /\ tables' = tables /\ prevTopmost' = prevTopmost /\ prevTopmost = <<>>
      /\ spent' = (spent \cup r.used) \cup ids
      /\ pc' = pc /\ pc = "reduce" /\ pathQueue' = InsertAll(Tail(pathQueue), ps)
  BY DEF Handled, given, ProcessPath, Sound, PhaseOK
<1>2. Tail(pathQueue) \in Seq(Paths(r.h, tables))
  BY DEF Ready
<1>3. Tail(pathQueue) \in Seq(Paths(h, tables))
  BY <1>2, PathsStay
<1> DEFINE V == Paths(h, tables)
<1>4. Tail(pathQueue) \in Seq(V) /\ ps \in Seq(V)
  BY <1>3
<1> HIDE DEF V
<1>5. InsertAll(Tail(pathQueue), ps) \in Seq(V)
  BY <1>4, InsertAllIs, Zenon
<1>6. PhaseOK'
  BY <1>1, <1>5 DEF PhaseOK, V
<1>7. StackOK(gss, tables, topmostParsers, prevTopmost)'
  BY <1>1
<1>8. ValuesOK(gss, spent, nextVal)'
  BY <1>1
<1> QED BY <1>6, <1>7, <1>8 DEF Sound

\* What a reduction that is ready has, by name.
LEMMA ReadyIs ==
  ASSUME NEW r, Ready(r)
  PROVE  /\ GraphOK(r.h, tables) /\ Shape(r.h) /\ Nodes(r.h) = Nodes(gss) /\ LiveList(r.h, topmostParsers)
         /\ Grown(r.h, r.h) /\ r.val.id \in Nat \ {0}
<1>1. GraphOK(r.h, tables) /\ Shape(r.h) /\ Nodes(r.h) = Nodes(gss) /\ LiveList(r.h, topmostParsers)
      /\ r.val.id \in Nat \ {0}
  BY DEF Ready, StackOK, GraphOK, ValuesOK, SameLinks, Nodes
<1>2. SameLinks(r.h, r.h)
  BY <1>1 DEF SameLinks
<1> QED BY <1>1, <1>2, SameGrown

\* Cancelling a reduction keeps the invariant, and so does dropping a merge into a dead parser.
LEMMA CancelReductionKeeps ==
  ASSUME TypesOK, Sound, CancelReduction \/ DropDeadMerge
  PROVE  Sound'
<1> DEFINE r == Reduced
<1>1. /\ ProcessPath /\ Handled(r, r.h, {r.val.id}, <<>>) /\ nextVal' = r.val.id + 1
      /\ topmostParsers' = topmostParsers
  BY DEF CancelReduction, DropDeadMerge
<1>2. Ready(r)
  BY <1>1, ReducedIsReady
<1> HIDE DEF r
<1>3. ValuesOK(r.h, (spent \cup r.used) \cup {r.val.id}, nextVal')
  BY <1>1, <1>2, UnusedValue DEF Ready
<1>4. <<>> \in Seq(Paths(r.h, tables))
  OBVIOUS
<1>5. StackOK(r.h, tables, topmostParsers', <<>>)
  BY <1>1, <1>2 DEF Ready
<1> QED BY <1>1, <1>2, <1>3, <1>4, <1>5, ReadyIs, HandledKeeps, Zenon

\* getLinkTo
LEMMA LinkToIs ==
  ASSUME NEW h, Shape(h), NEW n \in Nodes(h), NEW sib
  PROVE  /\ LinkTo(h, n, sib) # 0 => LinkTo(h, n, sib) \in 1..LinkCt(h, n)
         /\ LinkTo(h, n, sib) = 0 => \A k \in 1..LinkCt(h, n) : Sib(h, n, k) # sib
<1>1. DOMAIN h[n].links = 1..LinkCt(h, n) /\ LinkCt(h, n) \in Nat
  BY ShapeIs, LinksAre DEF LinkCt
<1> DEFINE K == {k \in 1..LinkCt(h, n) : Sib(h, n, k) = sib}
<1>2. LinkTo(h, n, sib) = IF \E k \in 1..LinkCt(h, n) : Sib(h, n, k) = sib
                          THEN CHOOSE k \in 1..LinkCt(h, n) : Sib(h, n, k) = sib ELSE 0
  BY <1>1, Zenon DEF LinkTo, Sib
<1>3. CASE \E k \in 1..LinkCt(h, n) : Sib(h, n, k) = sib
  <2>1. LinkTo(h, n, sib) = CHOOSE k \in 1..LinkCt(h, n) : Sib(h, n, k) = sib
    BY <1>2, <1>3
  <2>2. LinkTo(h, n, sib) \in 1..LinkCt(h, n)
    BY <1>3, <2>1, Zenon
  <2> QED BY <1>1, <2>2
<1>4. CASE ~\E k \in 1..LinkCt(h, n) : Sib(h, n, k) = sib
  BY <1>2, <1>4
<1> QED BY <1>3, <1>4

------------------------
(* The full core keeps the invariant *)

\* Merging keeps the invariant: one value takes the place of two.
LEMMA MergeParsesKeeps ==
  ASSUME TypesOK, Sound, MergeParses
  PROVE  Sound'
<1> DEFINE r == Reduced
           n == TheOne(r.found)
           k == Existing(r)
           old == r.h[n].links[k]
           trees == old.val.trees \cup r.val.trees
           v == Value(r.val.id + 1, trees)
           g == ValuePut(r.h, n, k, v)
           i == IdOf(r.h, n, k)
<1>1. /\ ProcessPath /\ Handled(r, g, {i, r.val.id}, <<>>) /\ nextVal' = r.val.id + 2
      /\ topmostParsers' = topmostParsers /\ k # 0
  BY Zenon DEF MergeParses, ValuePut, IdOf
<1>2. Ready(r)
  BY <1>1, ReducedIsReady
<1>3. r.found # {} /\ k = LinkTo(r.h, n, r.left)
  BY <1>1, Zenon DEF Existing
<1> HIDE DEF r
<1>4. n \in ToSet(topmostParsers)
  BY <1>2, <1>3, OneIn DEF Ready
<1> HIDE DEF n
<1>5. /\ n \in Nodes(r.h) /\ Shape(r.h) /\ r.val.id \in Nat \ {0} /\ LiveList(r.h, topmostParsers)
      /\ Nodes(r.h) = Nodes(gss)
  BY <1>2, <1>4, ReadyIs, ListIs
<1>6. k \in 1..LinkCt(r.h, n)
  BY <1>1, <1>3, <1>5, LinkToIs
<1> HIDE DEF k, trees
<1>7. IsValue(v) /\ v.id = r.val.id + 1
  <2>1. r.val.id + 1 \in Nat
    BY <1>5
  <2> QED BY <2>1, ValueIs
<1> HIDE DEF v
<1>8. /\ SameLinks(r.h, g) /\ SameRefs(r.h, g) /\ SameDepths(r.h, g)
      /\ \A m \in Nodes(r.h) : \A j \in 1..LinkCt(r.h, m) :
            IdOf(g, m, j) = IF m = n /\ j = k THEN v.id ELSE IdOf(r.h, m, j)
  BY <1>5, <1>6, <1>7, ValueSet
<1> HIDE DEF g, i
<1>9. ValuesOK(g, (spent \cup r.used) \cup {i, r.val.id}, nextVal')
  <2>1. ValuesOK(r.h, spent \cup r.used, r.val.id)
    BY <1>2 DEF Ready
  <2>2. \A m \in Nodes(r.h) : \A j \in 1..LinkCt(r.h, m) :
            IdOf(g, m, j) = IF m = n /\ j = k THEN r.val.id + 1 ELSE IdOf(r.h, m, j)
    BY <1>7, <1>8
  <2> QED BY <1>1, <1>5, <1>6, <1>8, <2>1, <2>2, MergedValue, Zenon DEF i
<1>10. StackOK(g, tables, topmostParsers', <<>>)
  BY <1>1, <1>2, <1>8, SameStack DEF Ready
<1>11. Grown(r.h, g)
  BY <1>5, <1>8, SameGrown
<1>12. <<>> \in Seq(Paths(g, tables))
  OBVIOUS
<1> QED BY <1>1, <1>2, <1>9, <1>10, <1>11, <1>12, HandledKeeps, Zenon

\* A link more.
LEMMA LinkGrown ==
  ASSUME NEW h, Shape(h), NEW g, NEW n, NEW sib, NEW id, LinkAdded(h, g, n, sib, id)
  PROVE  Grown(h, g)
<1> SUFFICES ASSUME NEW m \in Nodes(h) PROVE GrownAt(h, g, m)
  BY DEF Grown
<1>1. LinkCt(h, m) \in Nat
  BY ViewsAre
<1>2. /\ m \in Nodes(g) /\ StateOf(g, m) = StateOf(h, m) /\ (IsLive(g, m) <=> IsLive(h, m))
      /\ LinkCt(g, m) = LinkCt(h, m) + (IF m = n THEN 1 ELSE 0)
  BY DEF LinkAdded, Nodes
<1>3. LinkCt(h, m) <= LinkCt(g, m) /\ LinkCt(g, m) \in Nat
  BY <1>1, <1>2
<1> QED BY <1>1, <1>2, <1>3 DEF GrownAt

\* A node more.
LEMMA NodeGrown ==
  ASSUME NEW h, Shape(h), NEW g, NEW state, NEW left, NEW id, NEW b, NodePushed(h, g, state, left, id, b)
  PROVE  Grown(h, g)
<1> SUFFICES ASSUME NEW m \in Nodes(h) PROVE GrownAt(h, g, m)
  BY DEF Grown
<1>1. LinkCt(h, m) \in Nat /\ Len(h) \in Nat
  BY ViewsAre, ShapeIs
<1>2. /\ StateOf(g, m) = StateOf(h, m) /\ (IsLive(g, m) <=> IsLive(h, m))
      /\ LinkCt(g, m) = LinkCt(h, m)
  BY DEF NodePushed
<1>3. m \in Nodes(g)
  BY <1>1 DEF NodePushed, Nodes
<1>4. LinkCt(h, m) <= LinkCt(g, m) /\ LinkCt(g, m) \in Nat
  BY <1>1, <1>2
<1> QED BY <1>1, <1>2, <1>3, <1>4 DEF GrownAt

\* More, and more again.
LEMMA GrownTwice ==
  ASSUME NEW h, NEW h1, NEW g, Grown(h, h1), Grown(h1, g)
  PROVE  Grown(h, g)
<1> SUFFICES ASSUME NEW m \in Nodes(h) PROVE GrownAt(h, g, m)
  BY DEF Grown
<1>1. /\ m \in Nodes(h1) /\ StateOf(h1, m) = StateOf(h, m) /\ (IsLive(h, m) => IsLive(h1, m))
      /\ LinkCt(h, m) \in Nat /\ LinkCt(h1, m) \in Nat /\ (IsLive(h, m) => LinkCt(h, m) <= LinkCt(h1, m))
  BY DEF Grown, GrownAt
<1>2. /\ m \in Nodes(g) /\ StateOf(g, m) = StateOf(h1, m) /\ (IsLive(h1, m) => IsLive(g, m))
      /\ LinkCt(g, m) \in Nat /\ (IsLive(h1, m) => LinkCt(h1, m) <= LinkCt(g, m))
  BY <1>1 DEF Grown, GrownAt
<1> QED BY <1>1, <1>2 DEF GrownAt

\* A new link between parsers keeps the invariant.
LEMMA AddNewLinkKeeps ==
  ASSUME TypesOK, Sound, AddNewLink
  PROVE  Sound'
<1> DEFINE r == Reduced
           n == TheOne(r.found)
           h1 == AddLink(r.h, n, r.left, r.val)
           g == IF h1[n].refct > 1 THEN RecomputeDepths(h1, topmostParsers) ELSE h1
           must == {<<n, Len(g[n].links)>>}
           ps == PathsOfAll(g, topmostParsers, must)
<1>1. /\ ProcessPath /\ Handled(r, g, {}, ps) /\ nextVal' = r.val.id + 1
      /\ topmostParsers' = topmostParsers /\ r.found # {} /\ Existing(r) = 0
  BY DEF AddNewLink
<1>2. Ready(r)
  BY <1>1, ReducedIsReady
<1>3. LinkTo(r.h, n, r.left) = 0
  BY <1>1 DEF Existing
<1>4. Automaton(tables) /\ TokenFits
  BY TablesFit
<1> HIDE DEF r
<1>5. n \in ToSet(topmostParsers) /\ StateOf(r.h, n) = r.state
  BY <1>1, <1>2, OneIn DEF Ready
<1> HIDE DEF n
<1>6. /\ n \in Nodes(r.h) /\ Shape(r.h) /\ r.val.id \in Nat \ {0} /\ LiveList(r.h, topmostParsers)
      /\ r.left \in Nodes(r.h) /\ IsLive(r.h, r.left) /\ IsValue(r.val)
      /\ StackOK(r.h, tables, topmostParsers, <<>>)
  BY <1>2, <1>5, ReadyIs, ListIs, Zenon DEF Ready
<1>7. \A k \in 1..LinkCt(r.h, n) : Sib(r.h, n, k) # r.left
  BY <1>3, <1>6, LinkToIs
<1>8. LinkAdded(r.h, h1, n, r.left, r.val.id)
  BY <1>6, AddLinkAdds
<1>9. Relinked(h1, g, n, topmostParsers)
  BY DEF Relinked
<1>10. StateOf(r.h, n) # tables.start /\ LeadsTo(tables, StateOf(r.h, r.left), StateOf(r.h, n))
  BY <1>2, <1>5 DEF Ready
<1> HIDE DEF h1, g, must
<1>11. StackOK(g, tables, topmostParsers, <<>>) /\ SameLinks(h1, g) /\ SameIds(h1, g)
  BY <1>5, <1>6, <1>7, <1>8, <1>9, <1>10, NewLinkKeeps
<1>12. ValuesOK(h1, spent \cup r.used, nextVal')
  <2>1. ValuesOK(r.h, spent \cup r.used, r.val.id)
    BY <1>2 DEF Ready
  <2> QED BY <1>1, <1>6, <1>8, <2>1, LinkedValue
<1>13. ValuesOK(g, (spent \cup r.used) \cup {}, nextVal')
  <2>1. ValuesOK(g, spent \cup r.used, nextVal')
    BY <1>11, <1>12, ValuesSame
  <2>2. (spent \cup r.used) \cup {} = spent \cup r.used
    OBVIOUS
  <2> QED BY <2>1, <2>2
<1>14. Grown(r.h, g)
  <2>1. Shape(h1)
    BY <1>8 DEF LinkAdded
  <2>2. Grown(r.h, h1) /\ Grown(h1, g)
    BY <1>6, <1>8, <1>11, <2>1, LinkGrown, SameGrown
  <2> QED BY <2>2, GrownTwice
<1>15. ps \in Seq(Paths(g, tables))
  BY <1>4, <1>11, PathsOfAllAre DEF StackOK
<1> HIDE DEF ps
<1>16. StackOK(g, tables, topmostParsers', <<>>)
  BY <1>1, <1>11
<1> QED BY <1>1, <1>2, <1>13, <1>14, <1>15, <1>16, HandledKeeps

\* A new parser keeps the invariant.
LEMMA AddNewParserKeeps ==
  ASSUME TypesOK, Sound, AddNewParser
  PROVE  Sound'
<1> DEFINE r == Reduced
           n == Len(r.h) + 1
           g == AddLink(Append(r.h, NewTop(r.state)), n, r.left, r.val)
           entry == Entry(r.state)
           ps == NewPaths(g, n, entry, {})
<1>1. /\ ProcessPath /\ Handled(r, g, {}, ps) /\ nextVal' = r.val.id + 1
      /\ topmostParsers' = Append(topmostParsers, n)
  BY DEF AddNewParser
<1>2. Ready(r)
  BY <1>1, ReducedIsReady
<1>3. Automaton(tables) /\ TokenFits /\ column \in Int
  BY TablesFit DEF TypesOK
<1> HIDE DEF r
<1>4. /\ Shape(r.h) /\ r.val.id \in Nat \ {0} /\ r.state \in Int /\ r.state \in States(tables)
      /\ r.left \in Nodes(r.h) /\ IsLive(r.h, r.left) /\ IsValue(r.val)
      /\ StackOK(r.h, tables, topmostParsers, <<>>)
      /\ LeadsTo(tables, StateOf(r.h, r.left), r.state)
  BY <1>2, ReadyIs, Zenon DEF Ready
<1>5. NewTop(r.state) = TopNode(r.state, column)
  BY DEF NewTop, TopNode
<1>6. NodePushed(r.h, g, r.state, r.left, r.val.id, 1)
  BY <1>3, <1>4, <1>5, LinkedPushes
<1> HIDE DEF g
<1>7. StackOK(g, tables, topmostParsers', <<>>)
  BY <1>1, <1>4, <1>6, NewTopKeeps
<1>8. ValuesOK(g, (spent \cup r.used) \cup {}, nextVal')
  <2>1. ValuesOK(r.h, spent \cup r.used, r.val.id)
    BY <1>2 DEF Ready
  <2>2. ValuesOK(g, spent \cup r.used, nextVal')
    BY <1>1, <1>4, <1>6, <2>1, PushedValue
  <2>3. (spent \cup r.used) \cup {} = spent \cup r.used
    OBVIOUS
  <2> QED BY <2>2, <2>3
<1>9. n \in Nodes(g) /\ IsLive(g, n) /\ StateOf(g, n) = r.state
  <2>1. Len(r.h) \in Nat
    BY <1>4, ShapeIs
  <2> QED BY <1>6, <2>1 DEF NodePushed, Nodes
<1> HIDE DEF n
<1>10. Token \in DOMAIN tables.action[StateOf(g, n)] /\ entry = tables.action[StateOf(g, n)][Token]
  BY <1>3, <1>4, <1>9 DEF TokenFits, Entry
<1> HIDE DEF entry
<1>11. ps \in Seq(Paths(g, tables))
  BY <1>3, <1>7, <1>9, <1>10, NewPathsAre, Zenon DEF StackOK
<1> HIDE DEF ps
<1>12. Grown(r.h, g)
  BY <1>4, <1>6, NodeGrown
<1> QED BY <1>1, <1>2, <1>7, <1>8, <1>11, <1>12, HandledKeeps

\* Once the mini-LR core has popped a shared node, that is remembered.
LEMMA PopsStay ==
  ASSUME sharedPops, [Next]_vars
  PROVE  sharedPops'
<1> USE DEF ghosts
<1>1. CASE MiniReduce
  BY <1>1, ZenonT(60) DEF MiniReduce
<1>2. CASE MiniShift \/ StartReductions \/ StartShifts \/ ShiftParser \/ DropParser
  BY <1>2, Zenon DEF MiniShift, StartReductions, StartShifts, ShiftParser, DropParser
<1>3. CASE FinishShifts \/ CleanupAfterParse
  BY <1>3, Zenon DEF FinishShifts, CleanupAfterParse
<1>4. CASE CancelReduction \/ DropDeadMerge
  BY <1>4, ZenonT(60) DEF CancelReduction, DropDeadMerge, Handled
<1>5. CASE MergeParses
  BY <1>5 DEF MergeParses, Handled
<1>6. CASE AddNewLink
  BY <1>6, Zenon DEF AddNewLink, Handled
<1>7. CASE AddNewParser
  BY <1>7 DEF AddNewParser, Handled
<1>8. CASE UNCHANGED vars
  BY <1>8 DEF vars
<1> QED BY <1>1, <1>2, <1>3, <1>4, <1>5, <1>6, <1>7, <1>8 DEF Next, Done

\* Every step keeps the invariant, or is a pop of a shared node.
LEMMA GraphKept ==
  ASSUME GraphInv, [Next]_vars
  PROVE  GraphInv'
<1>1. TypesOK'
  BY TypesKept DEF GraphInv
<1>2. sharedPops' \/ Sound'
  <2>1. CASE sharedPops
    BY <2>1, PopsStay
  <2>2. CASE ~sharedPops
    <3>1. TypesOK /\ Sound
      BY <2>2 DEF GraphInv
    <3>2. ASSUME vars' = vars PROVE Sound'
      <4>1. /\ gss' = gss /\ tables' = tables /\ topmostParsers' = topmostParsers /\ prevTopmost' = prevTopmost
            /\ spent' = spent /\ nextVal' = nextVal /\ pc' = pc /\ pathQueue' = pathQueue
            /\ toks' = toks /\ pos' = pos
        BY <3>2 DEF vars
      <4>2. PhaseOK'
        BY <3>1, <4>1 DEF Sound, PhaseOK, Token
      <4> QED BY <3>1, <4>1, <4>2 DEF Sound
    <3>3. ASSUME MiniReduce PROVE sharedPops' \/ Sound'
      BY <3>1, <3>3, MiniReduceKeeps
    <3> QED BY <3>1, <3>2, <3>3, MiniShiftKeeps, StartReductionsKeeps, CancelReductionKeeps,
            MergeParsesKeeps, AddNewLinkKeeps, AddNewParserKeeps, StartShiftsKeeps, ShiftParserKeeps,
            DropParserKeeps, FinishShiftsKeeps, CleanupKeeps DEF Next, Done
  <2> QED BY <2>1, <2>2
<1> QED BY <1>1, <1>2 DEF GraphInv

\* The inductive invariant holds: the references are counted, the depths are right, the values
\* are owned and accounted for, what the queue refers to is live, until the mini-LR core
\* pops, or pushes on, a node that others refer to (glr.cc:1123).
THEOREM GraphHolds == Spec => []GraphInv
<1>1. Init => GraphInv
  BY InitialGraph
<1>2. GraphInv /\ [Next]_vars => GraphInv'
  BY GraphKept
<1> QED BY <1>1, <1>2, PTL DEF Spec

------------------------
(* What the invariant says *)

\* The live nodes are nodes.
LEMMA LiveAre ==
  ASSUME Shape(gss)
  PROVE  /\ Part(LiveNodes, Nodes(gss)) /\ \A n : n \in LiveNodes <=> n \in Nodes(gss) /\ IsLive(gss, n)
         /\ LiveNodes \in SUBSET Nodes(gss)
<1>1. DOMAIN gss = Nodes(gss)
  BY ShapeIs
<1> QED BY <1>1 DEF LiveNodes, IsLive, Part

\* The nodes in the pool have no links.
LEMMA LiveLinks ==
  ASSUME Shape(gss), DeadBare(gss), NEW m
  PROVE  LinksInto(gss, LiveNodes, m) = LinksInto(gss, Nodes(gss), m)
<1> DEFINE N == Nodes(gss)
           D == N \ LiveNodes
<1>1. Part(LiveNodes, N) /\ Part(N, N) /\ Part(D, N)
  BY LiveAre DEF Part
<1>2. \A x \in D : x \in N /\ ~IsLive(gss, x)
  BY LiveAre
<1>3. \A x \in D : LinkCt(gss, x) = 0
  BY <1>2 DEF DeadBare
<1>4. \A x \in D : \A k \in 1..LinkCt(gss, x) : Sib(gss, x, k) # m
  BY <1>3
<1> HIDE DEF D, N
<1>5. LinksInto(gss, D, m) = 0
  BY <1>1, <1>4, NoLinksInto DEF N
<1>6. /\ LinksInto(gss, N, m) = LinksInto(gss, LiveNodes, m) + LinksInto(gss, N \ LiveNodes, m)
      /\ LinksInto(gss, LiveNodes, m) \in Nat
  BY <1>1, LinksSplit DEF N
<1> QED BY <1>5, <1>6 DEF D, N

\* The reference count of a node is the number of links to it and of the worklists it is on
\* (glr.h:132), after every step, for every grammar, table, input and answer of keepNontermValue.
THEOREM ReferencesCounted == Spec => [](sharedPops \/ RefCountExact)
<1>1. GraphInv => sharedPops \/ RefCountExact
  <2> SUFFICES ASSUME Sound PROVE RefCountExact
    BY DEF GraphInv
  <2> SUFFICES ASSUME NEW n \in LiveNodes
      PROVE RefOf(gss, n) = LinksInto(gss, LiveNodes, n) + Occurs(n, topmostParsers) + Occurs(n, prevTopmost)
    BY DEF RefCountExact, RefOf
  <2>1. /\ Shape(gss) /\ DeadBare(gss) /\ CountedBy(gss, OccOf(gss, topmostParsers, prevTopmost))
        /\ LiveList(gss, topmostParsers) /\ LiveList(gss, prevTopmost)
    BY DEF Sound, StackOK, GraphOK
  <2>2. n \in Nodes(gss) /\ IsLive(gss, n)
    BY <2>1, LiveAre
  <2>3. RefOf(gss, n) = LinksInto(gss, Nodes(gss), n) + OccOf(gss, topmostParsers, prevTopmost)[n]
    BY <2>1, <2>2 DEF CountedBy
  <2>4. OccOf(gss, topmostParsers, prevTopmost)[n] = Occurs(n, topmostParsers) + Occurs(n, prevTopmost)
    BY <2>2 DEF OccOf
  <2>5. /\ Occurs(n, topmostParsers) \in Nat /\ Occurs(n, prevTopmost) \in Nat
        /\ LinksInto(gss, Nodes(gss), n) \in Nat
    BY <2>1, ListIs, LinksAreNat
  <2>6. LinksInto(gss, LiveNodes, n) = LinksInto(gss, Nodes(gss), n)
    BY <2>1, LiveLinks
  <2> QED BY <2>3, <2>4, <2>5, <2>6
<1> QED BY <1>1, GraphHolds, PTL

\* What the queue refers to is in the graph.
LEMMA QueueIs ==
  ASSUME NEW h, NEW T, NEW q \in Seq(Paths(h, T))
  PROVE  \A i \in DOMAIN q :
            /\ q[i].left \in Nodes(h) /\ IsLive(h, q[i].left)
            /\ \A j \in DOMAIN q[i].links : q[i].links[j][1] \in Nodes(h) /\ IsLive(h, q[i].links[j][1])
<1> SUFFICES ASSUME NEW i \in DOMAIN q
    PROVE /\ q[i].left \in Nodes(h) /\ IsLive(h, q[i].left)
          /\ \A j \in DOMAIN q[i].links : q[i].links[j][1] \in Nodes(h) /\ IsLive(h, q[i].links[j][1])
  OBVIOUS
<1> DEFINE p == q[i]
<1>1. p \in Paths(h, T)
  OBVIOUS
<1> HIDE DEF p
<1>2. p \in PathShape(h) /\ Fits(h, T, p)
  BY <1>1 DEF Paths
<1>3. /\ p.left \in Nodes(h) /\ p.links \in Seq(Nat \X Nat) /\ IsLive(h, p.left)
      /\ \A j \in 1..Len(p.links) : IsLinkOf(h, p.links[j])
  BY <1>2 DEF PathShape, Fits
<1>4. DOMAIN p.links = 1..Len(p.links)
  BY <1>3
<1>5. \A j \in DOMAIN p.links : p.links[j][1] \in Nodes(h) /\ IsLive(h, p.links[j][1])
  BY <1>3, <1>4, Zenon DEF IsLinkOf
<1> QED BY <1>3, <1>5 DEF p

\* Nothing that is looked at again has been freed: parsers, siblings, queued paths.
THEOREM NoDanglingNodes == Spec => []NothingDangles
<1>1. GraphInv => NothingDangles
  <2> SUFFICES ASSUME Sound PROVE NothingDangles
    BY DEF GraphInv, NothingDangles
  <2>1. /\ Shape(gss) /\ Inward(gss) /\ LiveList(gss, topmostParsers) /\ LiveList(gss, prevTopmost)
        /\ pathQueue \in Seq(Paths(gss, tables))
    BY DEF Sound, StackOK, GraphOK, PhaseOK
  <2>2. ToSet(topmostParsers) \cup ToSet(prevTopmost) \subseteq LiveNodes
    BY <2>1, ListIs, LiveAre
  <2>3. ASSUME NEW n \in LiveNodes, NEW l \in ToSet(gss[n].links) PROVE l.sib \in LiveNodes
    <3>1. n \in Nodes(gss) /\ IsLinks(gss[n].links)
      BY <2>1, LiveAre, ShapeIs
    <3>2. DOMAIN gss[n].links = 1..LinkCt(gss, n)
      BY <3>1, LinksAre DEF LinkCt
    <3>3. PICK k \in 1..LinkCt(gss, n) : l = gss[n].links[k]
      BY <2>3, <3>2 DEF ToSet
    <3>4. Sib(gss, n, k) \in Nodes(gss) /\ IsLive(gss, Sib(gss, n, k))
      BY <2>1, <3>1 DEF Inward
    <3> QED BY <2>1, <3>3, <3>4, LiveAre DEF Sib
  <2>4. \A i \in DOMAIN pathQueue :
             /\ pathQueue[i].left \in LiveNodes
             /\ \A j \in DOMAIN pathQueue[i].links : pathQueue[i].links[j][1] \in LiveNodes
    <3>1. \A n : n \in LiveNodes <=> n \in Nodes(gss) /\ IsLive(gss, n)
      BY <2>1, LiveAre
    <3> QED BY <2>1, <3>1, QueueIs
  <2> QED BY <2>2, <2>3, <2>4 DEF NothingDangles
<1> QED BY <1>1, GraphHolds, PTL

\* determinDepth is what computeDeterminDepth would say, at every live node (glr.cc:516).
THEOREM CachedDepthsAreRight == Spec => [](sharedPops \/ DepthExact)
<1>1. GraphInv => sharedPops \/ DepthExact
  <2> SUFFICES ASSUME Sound PROVE DepthExact
    BY DEF GraphInv
  <2> SUFFICES ASSUME NEW n \in LiveNodes
      PROVE /\ gss[n].depth = DeterminDepth(gss, Depths(gss), n)
            /\ \A j, k \in DOMAIN gss[n].links :
                  gss[n].links[j].sib = gss[n].links[k].sib => j = k
    BY DEF DepthExact
  <2>1. Shape(gss) /\ DepthRight(gss) /\ SibsDiffer(gss) /\ Inward(gss)
    BY DEF Sound, StackOK, GraphOK
  <2>2. n \in Nodes(gss) /\ IsLive(gss, n)
    BY <2>1, LiveAre
  <2>3. /\ IsLinks(gss[n].links) /\ DOMAIN gss[n].links = 1..LinkCt(gss, n) /\ LinkCt(gss, n) \in Nat
        /\ DOMAIN gss = Nodes(gss)
    BY <2>1, <2>2, ShapeIs, LinksAre DEF LinkCt
  <2>4. \A j, k \in DOMAIN gss[n].links : gss[n].links[j].sib = gss[n].links[k].sib => j = k
    BY <2>1, <2>2, <2>3 DEF SibsDiffer, Sib
  <2>5. DepthOf(gss, n) = IF LinkCt(gss, n) = 0 THEN 1
                          ELSE IF LinkCt(gss, n) = 1 THEN DepthOf(gss, Sib(gss, n, 1)) + 1 ELSE 0
    BY <2>1, <2>2 DEF DepthRight
  <2>6. \A m \in Nodes(gss) : Depths(gss)[m] = DepthOf(gss, m)
    BY <2>3 DEF Depths, DepthOf
  <2>7. LinkCt(gss, n) = 1 => Sib(gss, n, 1) \in Nodes(gss)
    BY <2>1, <2>2 DEF Inward
  <2>8. DeterminDepth(gss, Depths(gss), n)
          = IF LinkCt(gss, n) = 0 THEN 1
            ELSE IF LinkCt(gss, n) = 1 THEN Depths(gss)[Sib(gss, n, 1)] + 1 ELSE 0
    BY DEF DeterminDepth, LinkCt, Sib
  <2>9. DepthOf(gss, n) = DeterminDepth(gss, Depths(gss), n)
    BY <2>5, <2>6, <2>7, <2>8
  <2> QED BY <2>4, <2>9 DEF DepthOf
<1> QED BY <1>1, GraphHolds, PTL

\* No value is held by two links, or held after it was given away or deallocated.
THEOREM ValuesHaveOneOwner == Spec => [](sharedPops \/ OneOwner)
<1>1. GraphInv => sharedPops \/ OneOwner
  <2> SUFFICES ASSUME Sound PROVE OneOwner
    BY DEF GraphInv
  <2>1. Shape(gss) /\ Owned(gss, spent, nextVal)
    BY DEF Sound, StackOK, GraphOK, ValuesOK
  <2> DEFINE held == {l \in LiveNodes \X (1..Len(gss)) : l[2] \in DOMAIN gss[l[1]].links}
             id(l) == gss[l[1]].links[l[2]].val.id
  <2>2. ASSUME NEW l \in held
        PROVE /\ l = <<l[1], l[2]>> /\ l[1] \in Nodes(gss) /\ l[2] \in 1..LinkCt(gss, l[1])
              /\ id(l) = IdOf(gss, l[1], l[2])
    <3>1. l = <<l[1], l[2]>> /\ l[1] \in LiveNodes /\ l[2] \in DOMAIN gss[l[1]].links
      BY <2>2
    <3>2. l[1] \in Nodes(gss) /\ IsLinks(gss[l[1]].links)
      BY <2>1, <3>1, LiveAre, ShapeIs
    <3>3. DOMAIN gss[l[1]].links = 1..LinkCt(gss, l[1])
      BY <3>2, LinksAre DEF LinkCt
    <3> QED BY <3>1, <3>2, <3>3 DEF IdOf
  <2> HIDE DEF held, id
  <2>3. \A l \in held : id(l) \notin spent
    BY <2>1, <2>2 DEF Owned
  <2>4. ASSUME NEW l \in held, NEW m \in held, id(l) = id(m) PROVE l = m
    <3>1. l[1] = m[1] /\ l[2] = m[2]
      BY <2>1, <2>2, <2>4 DEF Owned
    <3>2. l = <<l[1], l[2]>> /\ m = <<m[1], m[2]>>
      BY <2>2
    <3> QED BY <3>1, <3>2
  <2> QED BY <2>3, <2>4 DEF OneOwner, held, id
<1> QED BY <1>1, GraphHolds, PTL

------------------------
(* Sets that grow in a finite set *)

\* the sets that G makes, one from another, each no smaller than the one before
Growing(X, C, G, f) ==
    /\ G \in [SUBSET X -> SUBSET X] /\ \A S \in SUBSET X : S \subseteq G[S]
    /\ f \in [0..C -> SUBSET X] /\ \A k \in 1..C : f[k] = G[f[k - 1]]

\* A set that grows inside a finite one stops growing.
LEMMA GrowthStops ==
  ASSUME NEW X, IsFiniteSet(X), NEW C \in Nat, C = Cardinality(X), NEW G, NEW f, Growing(X, C, G, f)
  PROVE  G[f[C]] = f[C]
<1>10. /\ G \in [SUBSET X -> SUBSET X] /\ \A S \in SUBSET X : S \subseteq G[S]
      /\ f \in [0..C -> SUBSET X] /\ \A k \in 1..C : f[k] = G[f[k - 1]]
  BY DEF Growing
<1> SUFFICES ASSUME G[f[C]] # f[C] PROVE FALSE
  OBVIOUS
<1>1. \A k \in 0..C : G[f[k]] # f[k]
  <2> DEFINE Fix == {k \in 0..C : G[f[k]] = f[k]}
  <2> SUFFICES ASSUME Fix # {} PROVE FALSE
    OBVIOUS
  <2>1. PICK k \in Fix : \A j \in Fix : j <= k
    <3>1. Fix \in SUBSET (0..C)
      OBVIOUS
    <3> HIDE DEF Fix
    <3> QED BY <3>1, Greatest
  <2>2. k \in 0..C /\ G[f[k]] = f[k] /\ k # C
    OBVIOUS
  <2>3. k + 1 \in 1..C /\ (k + 1) - 1 = k
    BY <2>2
  <2>4. f[k + 1] = f[k]
    BY <1>10, <2>2, <2>3
  <2>5. k + 1 \in Fix
    BY <2>2, <2>3, <2>4
  <2> QED BY <2>1, <2>3, <2>5
<1>2. ASSUME NEW S \in SUBSET X
      PROVE  /\ IsFiniteSet(S) /\ Cardinality(S) \in Nat /\ Cardinality(S) <= C
             /\ \A T \in SUBSET S : T # S => Cardinality(T) < Cardinality(S) /\ Cardinality(T) \in Nat
  <2>1. IsFiniteSet(S) /\ Cardinality(S) <= C
    BY FS_Subset
  <2>2. Cardinality(S) \in Nat
    BY <2>1, FS_CardinalityType
  <2>3. ASSUME NEW T \in SUBSET S, T # S PROVE Cardinality(T) < Cardinality(S) /\ Cardinality(T) \in Nat
    <3>1. IsFiniteSet(T) /\ Cardinality(T) <= Cardinality(S) /\ Cardinality(T) # Cardinality(S)
      BY <2>1, <2>3, FS_Subset
    <3>2. Cardinality(T) \in Nat
      BY <3>1, FS_CardinalityType
    <3> QED BY <2>2, <3>1, <3>2
  <2> QED BY <2>1, <2>2, <2>3
<1>3. \A k \in 0..C : f[k] \in SUBSET X /\ G[f[k]] \in SUBSET X /\ Part(f[k], G[f[k]])
  BY <1>10 DEF Part
<1>4. ASSUME NEW k \in 0..C
      PROVE  Cardinality(f[k]) < Cardinality(G[f[k]]) /\ Cardinality(f[k]) \in Nat
             /\ Cardinality(G[f[k]]) \in Nat /\ Cardinality(G[f[k]]) <= C
  <2> DEFINE A == f[k]
             B == G[A]
  <2>1. A \in SUBSET B /\ A # B /\ B \in SUBSET X
    BY <1>1, <1>3 DEF Part
  <2> HIDE DEF A, B
  <2>2. Cardinality(A) < Cardinality(B) /\ Cardinality(A) \in Nat
        /\ Cardinality(B) \in Nat /\ Cardinality(B) <= C
    BY <1>2, <2>1
  <2> QED BY <2>2 DEF A, B
<1> DEFINE Small == {k \in 0..C : Cardinality(f[k]) < k}
<1>5. Small = {}
  <2> SUFFICES ASSUME Small # {} PROVE FALSE
    OBVIOUS
  <2>1. PICK k \in Small : \A j \in Small : k <= j
    <3>1. Small \in SUBSET Nat
      OBVIOUS
    <3> HIDE DEF Small
    <3> QED BY <3>1, Least
  <2>2. k \in 0..C /\ Cardinality(f[k]) < k
    BY <2>1
  <2>3. k # 0
    BY <1>4, <2>2
  <2>4. k \in 1..C /\ k - 1 \in 0..C /\ k - 1 \notin Small
    BY <2>1, <2>2, <2>3
  <2>5. ~(Cardinality(f[k - 1]) < k - 1)
    BY <2>4
  <2>6. f[k] = G[f[k - 1]]
    BY <1>10, <2>4
  <2>7. Cardinality(f[k - 1]) < Cardinality(f[k]) /\ Cardinality(f[k - 1]) \in Nat /\ Cardinality(f[k]) \in Nat
    BY <1>4, <2>4, <2>6
  <2> QED BY <2>2, <2>4, <2>5, <2>7
<1>6. C \in 0..C
  OBVIOUS
<1>7. ~(Cardinality(f[C]) < C)
  BY <1>5, <1>6
<1>8. Cardinality(f[C]) < Cardinality(G[f[C]]) /\ Cardinality(f[C]) \in Nat
      /\ Cardinality(G[f[C]]) \in Nat /\ Cardinality(G[f[C]]) <= C
  BY <1>4, <1>6
<1> DEFINE a == Cardinality(f[C])
           b == Cardinality(G[f[C]])
<1>9. a < b /\ a \in Nat /\ b \in Nat /\ b <= C /\ ~(a < C)
  BY <1>7, <1>8
<1> HIDE DEF a, b, Small
<1> QED BY <1>9

------------------------
(* Reachability, and cycles *)

\* CycleLeaks's: what n reaches in one link or more
Reach(n) ==
    LET from[k \in 0..Cardinality(LiveNodes)] ==
            IF k = 0 THEN Linked({n})
                     ELSE LET S == from[k - 1] IN S \cup Linked(S)
    IN  from[Cardinality(LiveNodes)]

\* The nodes that S links to, by index.
LEMMA LinkedIs ==
  ASSUME Shape(gss), NEW S, Part(S, LiveNodes)
  PROVE  /\ Linked(S) \in SUBSET LiveNodes
         /\ \A u : u \in Linked(S) <=> u \in LiveNodes /\ \E n \in S : \E k \in 1..LinkCt(gss, n) : Sib(gss, n, k) = u
<1>1. Linked(S) \in SUBSET LiveNodes
  BY DEF Linked
<1>2. ASSUME NEW u, NEW n \in S
      PROVE (\E k \in DOMAIN gss[n].links : gss[n].links[k].sib = u) <=> \E k \in 1..LinkCt(gss, n) : Sib(gss, n, k) = u
  <2>1. n \in Nodes(gss)
    BY LiveAre DEF Part
  <2>2. DOMAIN gss[n].links = 1..LinkCt(gss, n)
    BY <2>1, ShapeIs, LinksAre DEF LinkCt
  <2> QED BY <2>2 DEF Sib
<1>3. \A u : u \in Linked(S) <=> u \in LiveNodes /\ \E n \in S : \E k \in DOMAIN gss[n].links : gss[n].links[k].sib = u
  BY DEF Linked
<1> QED BY <1>1, <1>2, <1>3

\* There are finitely many live nodes.
LEMMA LiveFinite ==
  ASSUME Shape(gss)
  PROVE  IsFiniteSet(LiveNodes) /\ Cardinality(LiveNodes) \in Nat
<1>1. LiveNodes \in SUBSET Nodes(gss) /\ Len(gss) \in Nat
  BY LiveAre, ShapeIs
<1>2. IsFiniteSet(Nodes(gss))
  BY <1>1, FS_Interval DEF Nodes
<1>3. IsFiniteSet(LiveNodes)
  BY <1>1, <1>2, FS_Subset
<1> QED BY <1>3, FS_CardinalityType

\* Reach, step by step.
LEMMA ReachSteps ==
  ASSUME Shape(gss), NEW n \in LiveNodes, NEW C, C = Cardinality(LiveNodes)
  PROVE  \E f \in [0..C -> SUBSET LiveNodes] :
            /\ f[0] = Linked({n}) /\ \A k \in 1..C : f[k] = f[k - 1] \cup Linked(f[k - 1])
            /\ Reach(n) = f[C]
<1> DEFINE X == SUBSET LiveNodes
           x0 == Linked({n})
           G == [p \in (1..C) \X X |-> p[2] \cup Linked(p[2])]
           Is(f) == f = [k \in 0..C |->
                           IF k = 0 THEN Linked({n})
                           ELSE LET S == f[k - 1] IN S \cup Linked(S)]
<1>1. C \in Nat
  BY LiveFinite
<1>2. Reach(n) = (CHOOSE f : Is(f))[C]
  BY Zenon DEF Reach
<1>3. \A S : Linked(S) \in X
  BY DEF Linked
<1>4. IsStep(G, C, X) /\ x0 \in X
  BY <1>3 DEF IsStep
<1> HIDE DEF X, x0
<1>5. PICK f \in [0..C -> X] : f[0] = x0 /\ \A k \in 1..C : f[k] = G[<<k, f[k - 1]>>]
  <2> HIDE DEF G
  <2>1. PICK f : Iterated(f, C, X, x0, G)
    BY <1>1, <1>4, Iterate
  <2> QED BY <2>1 DEF Iterated
<1>6. ASSUME NEW k \in 1..C PROVE f[k] = f[k - 1] \cup Linked(f[k - 1])
  <2>1. <<k, f[k - 1]>> \in (1..C) \X X
    BY <1>1, <1>5, SMTT(30)
  <2> QED BY <1>5, <2>1
<1>7. f[0] = Linked({n})
  BY <1>5 DEF x0
<1> HIDE DEF G
<1>8. Is(f)
  <2>1. f = [k \in 0..C |-> f[k]]
    BY <1>5
  <2>2. \A k \in 0..C : f[k] = IF k = 0 THEN Linked({n}) ELSE f[k - 1] \cup Linked(f[k - 1])
    BY <1>1, <1>6, <1>7
  <2> QED BY <2>1, <2>2, Zenon
<1> DEFINE c == CHOOSE g : Is(g)
<1>9. Is(c)
  BY <1>8, Zenon
<1>10. c = f
  <2>1. DOMAIN c = 0..C /\ c = [k \in 0..C |-> c[k]]
    BY <1>9, Zenon
  <2>2. \A k \in 0..C : c[k] = IF k = 0 THEN Linked({n}) ELSE c[k - 1] \cup Linked(c[k - 1])
    BY <1>9, Zenon
  <2> DEFINE Bad == {k \in 0..C : c[k] # f[k]}
  <2> HIDE DEF c, Is
  <2>3. Bad = {}
    <3> SUFFICES ASSUME Bad # {} PROVE FALSE
      OBVIOUS
    <3>1. PICK k \in Bad : \A j \in Bad : k <= j
      <4>1. Bad \in SUBSET Nat
        BY <1>1
      <4> HIDE DEF Bad
      <4> QED BY <4>1, Least
    <3>2. k \in 0..C /\ k # 0
      BY <1>7, <2>2, <3>1
    <3>3. k \in 1..C /\ k - 1 \in 0..C /\ k - 1 \notin Bad
      BY <1>1, <3>1, <3>2
    <3>4. c[k - 1] = f[k - 1]
      BY <3>3
    <3>5. c[k] = f[k]
      BY <1>6, <2>2, <3>2, <3>3, <3>4
    <3> QED BY <3>1, <3>5
  <2>4. \A k \in 0..C : c[k] = f[k]
    BY <2>3
  <2> QED BY <1>5, <2>1, <2>4
<1>11. Reach(n) = f[C]
  BY <1>2, <1>10
<1>12. f \in [0..C -> SUBSET LiveNodes]
  BY <1>5 DEF X
<1> QED BY <1>6, <1>7, <1>11, <1>12

\* What n reaches is closed, and the least such set.
LEMMA ReachIs ==
  ASSUME Shape(gss), NEW n \in LiveNodes
  PROVE  /\ Reach(n) \in SUBSET LiveNodes /\ Part(Linked({n}), Reach(n)) /\ Part(Linked(Reach(n)), Reach(n))
         /\ \A S : Part(S, LiveNodes) /\ Part(Linked({n}), S) /\ Part(Linked(S), S) => Part(Reach(n), S)
<1> DEFINE C == Cardinality(LiveNodes)
           G == [S \in SUBSET LiveNodes |-> S \cup Linked(S)]
           R == Reach(n)
<1>1. C \in Nat /\ IsFiniteSet(LiveNodes)
  BY LiveFinite
<1>2. PICK f \in [0..C -> SUBSET LiveNodes] :
            /\ f[0] = Linked({n}) /\ \A k \in 1..C : f[k] = f[k - 1] \cup Linked(f[k - 1])
            /\ R = f[C]
  BY ReachSteps
<1>13. C = Cardinality(LiveNodes)
  OBVIOUS
<1> HIDE DEF C
<1>3. G \in [SUBSET LiveNodes -> SUBSET LiveNodes] /\ \A S \in SUBSET LiveNodes : S \subseteq G[S]
  BY DEF Linked
<1>4. ASSUME NEW k \in 1..C PROVE f[k] = G[f[k - 1]]
  <2>1. f[k - 1] \in SUBSET LiveNodes
    BY <1>1, <1>2
  <2> QED BY <1>2, <2>1
<1>5. G[f[C]] = f[C]
  <2>1. Growing(LiveNodes, C, G, f)
    BY <1>2, <1>3, <1>4, Zenon DEF Growing
  <2> HIDE DEF G
  <2> QED BY <1>1, <1>13, <2>1, GrowthStops
<1>6. f[C] \in SUBSET LiveNodes
  BY <1>1, <1>2
<1>7. Part(Linked(R), R) /\ R \in SUBSET LiveNodes
  BY <1>2, <1>5, <1>6 DEF Part
<1>8. \A k \in 0..C : Part(Linked({n}), f[k])
  <2> DEFINE Bad == {k \in 0..C : ~Part(Linked({n}), f[k])}
  <2> SUFFICES ASSUME Bad # {} PROVE FALSE
    OBVIOUS
  <2>1. PICK k \in Bad : \A j \in Bad : k <= j
    <3>1. Bad \in SUBSET Nat
      BY <1>1
    <3> HIDE DEF Bad
    <3> QED BY <3>1, Least
  <2>2. k \in 0..C /\ k # 0
    BY <1>2, <2>1 DEF Part
  <2>3. k \in 1..C /\ k - 1 \in 0..C /\ k - 1 \notin Bad
    <3>1. k \in 1..C /\ k - 1 \in 0..C /\ ~(k <= k - 1)
      BY <1>1, <2>2
    <3> HIDE DEF Bad
    <3> QED BY <2>1, <3>1
  <2>4. Part(Linked({n}), f[k])
    BY <1>2, <2>3 DEF Part
  <2> QED BY <2>1, <2>4
<1>9. ASSUME NEW S, Part(S, LiveNodes), Part(Linked({n}), S), Part(Linked(S), S)
      PROVE Part(R, S)
  <2> DEFINE Bad == {k \in 0..C : ~Part(f[k], S)}
  <2>1. Bad = {}
    <3> SUFFICES ASSUME Bad # {} PROVE FALSE
      OBVIOUS
    <3>1. PICK k \in Bad : \A j \in Bad : k <= j
      <4>1. Bad \in SUBSET Nat
        BY <1>1
      <4> HIDE DEF Bad
      <4> QED BY <4>1, Least
    <3>2. k \in 0..C /\ k # 0
      BY <1>2, <1>9, <3>1
    <3>3. k \in 1..C /\ k - 1 \in 0..C /\ k - 1 \notin Bad
      BY <1>1, <3>1, <3>2
    <3>4. Part(f[k - 1], S)
      BY <3>3
    <3>5. Part(Linked(f[k - 1]), Linked(S))
      BY <3>4 DEF Part, Linked
    <3>6. f[k] = f[k - 1] \cup Linked(f[k - 1])
      BY <1>2, <3>3
    <3>7. Part(f[k], S)
      BY <1>9, <3>4, <3>5, <3>6 DEF Part
    <3> QED BY <3>1, <3>7
  <2>2. C \in 0..C
    BY <1>1
  <2>3. Part(f[C], S)
    BY <2>1, <2>2
  <2> QED BY <1>2, <2>3
<1>10. C \in 0..C
  BY <1>1
<1> QED BY <1>2, <1>7, <1>8, <1>9, <1>10, Zenon

\* Live nodes that are all linked to from one another: there is a cycle.
LEMMA CycleFound ==
  ASSUME Shape(gss), NEW U, U # {}, Part(U, LiveNodes),
         \A u \in U : \E x \in U : \E k \in 1..LinkCt(gss, x) : Sib(gss, x, k) = u
  PROVE  CycleLeaks
<1> DEFINE C == Cardinality(LiveNodes)
           Size(u) == Cardinality(Reach(u))
<1>1. C \in Nat /\ IsFiniteSet(LiveNodes)
  BY LiveFinite
<1>2. \A u \in U : u \in LiveNodes
  BY DEF Part
<1>3. ASSUME NEW u \in U PROVE IsFiniteSet(Reach(u)) /\ Size(u) \in 0..C
  <2>1. Reach(u) \in SUBSET LiveNodes
    BY <1>2, ReachIs
  <2>2. IsFiniteSet(Reach(u)) /\ Size(u) <= C
    BY <1>1, <2>1, FS_Subset
  <2>3. Size(u) \in Nat
    BY <2>2, FS_CardinalityType
  <2> QED BY <1>1, <2>2, <2>3
<1>4. PICK u \in U : \A x \in U : Size(x) <= Size(u)
  <2> DEFINE S == {Size(x) : x \in U}
  <2>1. S \in SUBSET (0..C) /\ S # {}
    BY <1>3
  <2>2. PICK m \in S : \A j \in S : j <= m
    <3> HIDE DEF S
    <3> QED BY <1>1, <2>1, Greatest
  <2> QED BY <2>2
<1>5. PICK x \in U : \E k \in 1..LinkCt(gss, x) : Sib(gss, x, k) = u
  OBVIOUS
<1>6. u \in Linked({x})
  <2>1. Part({x}, LiveNodes)
    BY <1>2 DEF Part
  <2> QED BY <1>2, <1>5, <2>1, LinkedIs
<1>7. /\ u \in Reach(x) /\ Reach(x) \in SUBSET LiveNodes /\ Part(Linked(Reach(x)), Reach(x))
  BY <1>2, <1>6, ReachIs DEF Part
<1>8. Part(Linked({u}), Linked(Reach(x)))
  BY <1>7 DEF Part, Linked
<1>9. Part(Linked({u}), Reach(x)) /\ Part(Reach(x), LiveNodes)
  BY <1>7, <1>8 DEF Part
<1>10. Part(Reach(u), Reach(x))
  BY <1>2, <1>7, <1>9, ReachIs
<1>11. Reach(u) = Reach(x)
  <2>1. Reach(u) \in SUBSET Reach(x) /\ IsFiniteSet(Reach(x))
    BY <1>3, <1>10 DEF Part
  <2>2. Size(u) <= Size(x) /\ Size(x) <= Size(u) /\ Size(u) \in 0..C /\ Size(x) \in 0..C
    BY <1>3, <1>4, <2>1, FS_Subset
  <2>3. Size(x) = Size(u)
    BY <1>1, <2>2
  <2> QED BY <2>1, <2>3, FS_Subset
<1>12. u \in LiveNodes /\ u \in Reach(u)
  BY <1>2, <1>7, <1>11
<1> QED BY <1>12 DEF CycleLeaks, Reach

------------------------
(* A shared node on the only stack means a cycle *)

\* a node without a reference but links has a predecessor
LEMMA Predecessor ==
  ASSUME Shape(gss), DeadBare(gss), NEW m, LinksInto(gss, Nodes(gss), m) # 0
  PROVE  \E x \in LiveNodes : \E k \in 1..LinkCt(gss, x) : Sib(gss, x, k) = m
<1>1. Part(Nodes(gss), Nodes(gss))
  BY DEF Part
<1>2. PICK x \in Nodes(gss) : \E k \in 1..LinkCt(gss, x) : Sib(gss, x, k) = m
  BY <1>1, NoLinksInto
<1>3. IsLive(gss, x)
  <2>1. ASSUME ~IsLive(gss, x) PROVE FALSE
    <3>1. LinkCt(gss, x) = 0
      BY <2>1 DEF DeadBare
    <3> QED BY <1>2, <3>1
  <2> QED BY <2>1
<1> QED BY <1>2, <1>3, LiveAre

\* Where a node of the stretch is referred to more than once, the nodes above it on the stretch
\* are set aside: all others are linked to from one another.
LEMMA SharedMeansCycle ==
  ASSUME Shape(gss), DeadBare(gss), Held(gss), NEW T, NEW n, NEW len \in Nat, NEW f,
         Stretch(gss, T, n, len, f),
         \A m \in Nodes(gss) : IsLive(gss, m) =>
            RefOf(gss, m) = LinksInto(gss, Nodes(gss), m) + (IF m = n THEN 1 ELSE 0),
         NEW d \in 0..len, RefOf(gss, f[d]) # 1
  PROVE  CycleLeaks
<1> DEFINE Above == {f[k] : k \in 0..(d - 1)}
           U == LiveNodes \ Above
           In(m) == LinksInto(gss, Nodes(gss), m)
<1>1. \A m \in LiveNodes : /\ In(m) \in Nat /\ RefOf(gss, m) \in Int /\ RefOf(gss, m) > 0
                           /\ RefOf(gss, m) = In(m) + (IF m = n THEN 1 ELSE 0)
                           /\ m \in Nodes(gss)
  BY LiveAre, LinksAreNat, ViewsAre DEF Held
<1>2. \A i, j \in 0..len : i < j => f[j] < f[i]
  BY StretchFalls
<1>3. /\ f[0] = n /\ \A k \in 0..len : f[k] \in LiveNodes
      /\ \A k \in 1..len : LinkCt(gss, f[k - 1]) = 1 /\ f[k] = Sib(gss, f[k - 1], 1)
  BY LiveAre DEF Stretch
<1>4. \A i, j \in 0..len : f[i] = f[j] => i = j
  <2> SUFFICES ASSUME NEW i \in 0..len, NEW j \in 0..len, f[i] = f[j] PROVE i = j
    OBVIOUS
  <2>1. f[i] \in Int /\ f[j] \in Int
    BY <1>1, <1>3 DEF Nodes
  <2> QED BY <1>2, <2>1
<1>5. f[d] \in U
  <2>1. \A k \in 0..(d - 1) : k \in 0..len /\ k # d
    OBVIOUS
  <2> QED BY <1>3, <1>4, <2>1
<1>6. ASSUME NEW x \in Above, NEW k \in 1..LinkCt(gss, x)
      PROVE Sib(gss, x, k) \in Above \cup {f[d]}
            /\ (Sib(gss, x, k) = f[d] => d # 0 /\ x = f[d - 1] /\ k = 1)
  <2>1. PICK i \in 0..(d - 1) : x = f[i]
    OBVIOUS
  <2> HIDE DEF Above
  <2>2. i + 1 \in 1..len /\ (i + 1) - 1 = i /\ i + 1 \in 0..len
    OBVIOUS
  <2>3. LinkCt(gss, x) = 1 /\ f[i + 1] = Sib(gss, x, 1)
    BY <1>3, <2>1, <2>2
  <2>4. k = 1
    BY <1>6, <2>3
  <2>5. CASE i + 1 = d
    <3>1. i = d - 1 /\ d # 0
      BY <2>5
    <3> QED BY <2>1, <2>3, <2>4, <2>5, <3>1
  <2>6. CASE i + 1 # d
    <3>1. i + 1 \in 0..(d - 1)
      BY <2>6
    <3>2. f[i + 1] \in Above
      BY <3>1 DEF Above
    <3>3. f[i + 1] # f[d]
      BY <1>4, <2>2, <2>6
    <3> QED BY <2>3, <2>4, <3>2, <3>3
  <2> QED BY <2>5, <2>6
<1>7. ASSUME NEW u \in U, u # f[d]
      PROVE \E x \in U : \E k \in 1..LinkCt(gss, x) : Sib(gss, x, k) = u
  <2>1. u \in LiveNodes /\ u \notin Above
    OBVIOUS
  <2>2. u # n
    <3>1. CASE d = 0
      BY <1>3, <1>7, <3>1
    <3>2. CASE d # 0
      <4>1. 0 \in 0..(d - 1)
        BY <3>2
      <4>2. n \in Above
        BY <1>3, <4>1
      <4> QED BY <2>1, <4>2
    <3> QED BY <3>1, <3>2
  <2>3. In(u) # 0
    BY <1>1, <2>1, <2>2
  <2>4. PICK x \in LiveNodes : \E k \in 1..LinkCt(gss, x) : Sib(gss, x, k) = u
    BY <2>3, Predecessor
  <2> HIDE DEF Above
  <2>5. x \notin Above
    BY <1>6, <1>7, <2>1, <2>4
  <2> QED BY <2>4, <2>5
<1>8. \E x \in U : \E k \in 1..LinkCt(gss, x) : Sib(gss, x, k) = f[d]
  <2>1. f[d] \in LiveNodes /\ f[d] \in Nodes(gss)
    BY <1>1, <1>3
  <2>2. CASE d = 0
    <3>1. f[d] = n /\ Above = {}
      BY <1>3, <2>2
    <3>2. In(f[d]) # 0
      BY <1>1, <2>1, <3>1
    <3> HIDE DEF Above, In
    <3> QED BY <3>1, <3>2, Predecessor DEF In
  <2>3. CASE d # 0
    <3>1. f[d] # n
      <4>1. 0 \in 0..len
        OBVIOUS
      <4> QED BY <1>3, <1>4, <2>3, <4>1
    <3>2. In(f[d]) # 0 /\ In(f[d]) # 1
      BY <1>1, <2>1, <3>1
    <3> DEFINE A == LinksTo(gss, Nodes(gss), f[d])
    <3>3. /\ \A e : e \in A <=> \E y \in Nodes(gss) : \E j \in 1..LinkCt(gss, y) : e = <<y, j>> /\ Sib(gss, y, j) = f[d]
          /\ In(f[d]) = Cardinality(A)
      <4>1. Nodes(gss) \in SUBSET Nodes(gss)
        OBVIOUS
      <4> QED BY <4>1, LinksToIs
    <3> HIDE DEF A, Above
    <3> SUFFICES ASSUME \A x \in U : \A k \in 1..LinkCt(gss, x) : Sib(gss, x, k) # f[d]
                 PROVE  FALSE
      OBVIOUS
    <3>4. ASSUME NEW e \in A PROVE e = <<f[d - 1], 1>>
      <4>1. PICK y \in Nodes(gss) : \E j \in 1..LinkCt(gss, y) : e = <<y, j>> /\ Sib(gss, y, j) = f[d]
        BY <3>3, <3>4
      <4>2. PICK j \in 1..LinkCt(gss, y) : e = <<y, j>> /\ Sib(gss, y, j) = f[d]
        BY <4>1
      <4>3. y \in LiveNodes
        <5>1. ASSUME ~IsLive(gss, y) PROVE FALSE
          <6>1. LinkCt(gss, y) = 0
            BY <5>1 DEF DeadBare
          <6> QED BY <4>2, <6>1
        <5> QED BY <5>1, LiveAre
      <4>4. y \in Above
        BY <4>2, <4>3
      <4> QED BY <1>6, <4>2, <4>4
    <3>5. A = {} \/ A = {<<f[d - 1], 1>>}
      BY <3>4
    <3>6. Cardinality(A) = 0 \/ Cardinality(A) = 1
      BY <3>5, FS_EmptySet, FS_Singleton
    <3> QED BY <3>2, <3>3, <3>6
  <2> QED BY <2>2, <2>3
<1> HIDE DEF Above
<1>9. Part(U, LiveNodes) /\ U # {}
  BY <1>5 DEF Part
<1>10. \A u \in U : \E x \in U : \E k \in 1..LinkCt(gss, x) : Sib(gss, x, k) = u
  BY <1>7, <1>8
<1> HIDE DEF U
<1> QED BY <1>9, <1>10, CycleFound

------------------------
(* What the counts give *)

\* The assertions of the mini-LR core (glr.cc:1123) hold wherever no cycle has leaked: every node
\* it pops, and the one it uncovers, is referred to once.
THEOREM PopsAreUnshared == Spec => []PopsUnsharedUnlessCycle
<1>1. GraphInv => PopsUnsharedUnlessCycle
  <2> SUFFICES ASSUME TypesOK, Sound, pc = "token", CanMiniReduce, ~PopsUnshared PROVE CycleLeaks
    BY DEF GraphInv, PopsUnsharedUnlessCycle, MiniPopsUnshared
  <2> DEFINE n == Parser
             p == ReduceBy(Action)
             len == tables.prods[p].len
             ch == Chain(gss, n, len)
  <2>1. /\ StackOK(gss, tables, topmostParsers, <<>>) /\ Shape(gss) /\ Held(gss) /\ DeadBare(gss)
        /\ StatesOK(gss, tables) /\ Inward(gss) /\ DepthRight(gss) /\ Downward(gss)
    BY DEF Sound, PhaseOK, StackOK, GraphOK
  <2>2. /\ Len(topmostParsers) = 1 /\ Len(Entry(gss[n].state)) = 1 /\ IsReduce(Action)
        /\ Action = Entry(gss[n].state)[1] /\ n = topmostParsers[1]
        /\ len <= DepthOf(gss, n)
    BY DEF CanMiniReduce, Deterministic, Action, Parser, DepthOf
  <2>3. PICK c \in DOMAIN ch : RefOf(gss, ch[c]) # 1
    BY DEF PopsUnshared, RefOf
  <2> HIDE DEF n
  <2>4. /\ n \in Nodes(gss) /\ IsLive(gss, n) /\ StateOf(gss, n) \in States(tables)
        /\ \A m \in Nodes(gss) : IsLive(gss, m) =>
               RefOf(gss, m) = LinksInto(gss, Nodes(gss), m) + (IF m = n THEN 1 ELSE 0)
    BY <2>1, <2>2, OnlyParser
  <2>5. Action \in ToSet(Entry(StateOf(gss, n)))
    <3>1. Entry(StateOf(gss, n)) \in Seq(Int)
      BY <2>4, TablesFit DEF Automaton, TokenFits, Entry
    <3>2. 1 \in DOMAIN Entry(StateOf(gss, n))
      BY <2>2, <3>1 DEF StateOf
    <3> QED BY <2>2, <3>2 DEF ToSet, StateOf
  <2>6. len \in Nat /\ \A k \in 0..(len - 1) : tables.start \notin Behind(tables, StateOf(gss, n), len)[k]
    BY <2>2, <2>4, <2>5, ReduceFits, Zenon
  <2> HIDE DEF p, len
  <2>7. Poppable(gss, tables, n, len)
    BY <2>2, <2>4, <2>6 DEF Poppable
  <2>8. PICK f : Stretch(gss, tables, n, len, f) /\ ch = [k \in 1..len+1 |-> f[k-1]]
    BY <2>1, <2>7, ChainIs
  <2> HIDE DEF ch
  <2>9. c \in 1..(len + 1) /\ ch[c] = f[c - 1]
    BY <2>3, <2>8
  <2>10. c - 1 \in 0..len /\ RefOf(gss, f[c - 1]) # 1
    BY <2>3, <2>6, <2>9
  <2> DEFINE d == c - 1
  <2>11. d \in 0..len /\ RefOf(gss, f[d]) # 1
    BY <2>10
  <2> HIDE DEF d
  <2> QED BY <2>1, <2>4, <2>6, <2>8, <2>11, SharedMeansCycle, ZenonT(60)
<1> QED BY <1>1, GraphHolds, PTL

\* What glrParse leaves when it accepts: no parser.
NothingLeft == pc = "accepted" => topmostParsers = <<>>

\* After acceptance there is no parser.
LEMMA NothingLeftHolds == Spec => []NothingLeft
<1>1. Init => NothingLeft
  BY DEF Init, NothingLeft
<1>2. NothingLeft /\ [Next]_vars => NothingLeft'
  <2> SUFFICES ASSUME NothingLeft, [Next]_vars, pc' = "accepted" PROVE topmostParsers' = <<>>
    BY DEF NothingLeft
  <2>1. CASE MiniReduce
    <3>1. pc' = "token" \/ pc' = "rejected"
      BY <2>1, Zenon DEF MiniReduce
    <3> QED BY <3>1
  <2>2. CASE MiniShift
    <3>1. pc' = "token" \/ pc' = "cleanup"
      BY <2>2, Zenon DEF MiniShift, TokenDone
    <3> QED BY <3>1
  <2>3. CASE StartReductions \/ StartShifts
    <3>1. pc' = "reduce" \/ pc' = "shift"
      BY <2>3, Zenon DEF StartReductions, StartShifts
    <3> QED BY <3>1
  <2>4. CASE CancelReduction \/ DropDeadMerge \/ MergeParses \/ AddNewLink \/ AddNewParser
    <3>1. pc = "reduce"
      BY <2>4, Zenon DEF CancelReduction, DropDeadMerge, MergeParses, AddNewLink, AddNewParser, ProcessPath
    <3>2. pc' = pc
      <4>1. CASE CancelReduction
        BY <4>1 DEF CancelReduction, Handled
      <4>2. CASE DropDeadMerge
        BY <4>2, SMTT(30) DEF DropDeadMerge, Handled
      <4>3. CASE MergeParses
        BY <4>3 DEF MergeParses, Handled
      <4>4. CASE AddNewLink
        BY <4>4, Zenon DEF AddNewLink, Handled
      <4>5. CASE AddNewParser
        BY <4>5 DEF AddNewParser, Handled
      <4> QED BY <2>4, <4>1, <4>2, <4>3, <4>4, <4>5
    <3> QED BY <3>1, <3>2
  <2>5. CASE ShiftParser \/ DropParser
    <3>1. pc' = pc /\ pc = "shift"
      BY <2>5 DEF ShiftParser, DropParser, ShiftStep
    <3> QED BY <3>1, SMTT(30)
  <2>6. CASE FinishShifts
    <3>1. pc' = "rejected" \/ pc' = "token" \/ pc' = "cleanup"
      BY <2>6, Zenon DEF FinishShifts, TokenDone
    <3> QED BY <3>1
  <2>7. CASE CleanupAfterParse
    <3>1. pc' = "rejected" \/ topmostParsers' = <<>>
      BY <2>7, Zenon DEF CleanupAfterParse
    <3> QED BY <3>1
  <2>8. CASE UNCHANGED vars
    BY <2>8 DEF vars, NothingLeft
  <2> QED BY <2>1, <2>2, <2>3, <2>4, <2>5, <2>6, <2>7, <2>8 DEF Next, Done
<1> QED BY <1>1, <1>2, PTL DEF Spec

\* After acceptance every value has been given away or deallocated, unless a cycle leaks.
THEOREM ValuesAreReleased == Spec => [](sharedPops \/ NoValueLeaks)
<1>1. GraphInv /\ NothingLeft => sharedPops \/ NoValueLeaks
  <2> SUFFICES ASSUME Sound, NothingLeft, pc = "accepted", ~CycleLeaks PROVE spent = 1..(nextVal - 1)
    BY DEF GraphInv, NoValueLeaks
  <2>1. topmostParsers = <<>> /\ prevTopmost = <<>>
    BY DEF NothingLeft, Sound, PhaseOK
  <2>2. /\ Shape(gss) /\ DeadBare(gss) /\ Held(gss) /\ CountedBy(gss, OccOf(gss, <<>>, <<>>))
        /\ Owned(gss, spent, nextVal) /\ Accounted(gss, spent, nextVal)
    BY <2>1 DEF Sound, StackOK, GraphOK, ValuesOK
  <2>3. ASSUME NEW m \in LiveNodes
        PROVE \E x \in LiveNodes : \E k \in 1..LinkCt(gss, x) : Sib(gss, x, k) = m
    <3>1. m \in Nodes(gss) /\ IsLive(gss, m)
      BY <2>2, LiveAre
    <3>2. OccOf(gss, <<>>, <<>>)[m] = 0 + 0
      BY <3>1, OccursFew DEF OccOf
    <3>3. RefOf(gss, m) = LinksInto(gss, Nodes(gss), m) + (0 + 0) /\ RefOf(gss, m) > 0
          /\ LinksInto(gss, Nodes(gss), m) \in Nat
      BY <2>2, <3>1, <3>2, LinksAreNat DEF CountedBy, Held
    <3>4. LinksInto(gss, Nodes(gss), m) # 0
      BY <3>3
    <3> QED BY <2>2, <3>4, Predecessor
  <2>4. LiveNodes = {}
    <3>1. Part(LiveNodes, LiveNodes)
      BY DEF Part
    <3> QED BY <2>2, <2>3, <3>1, CycleFound
  <2>5. \A n \in Nodes(gss) : LinkCt(gss, n) = 0
    <3>1. \A n \in Nodes(gss) : ~IsLive(gss, n)
      BY <2>2, <2>4, LiveAre
    <3> QED BY <2>2, <3>1 DEF DeadBare
  <2>6. \A i \in 1..(nextVal - 1) : i \in spent
    BY <2>2, <2>5 DEF Accounted
  <2> QED BY <2>2, <2>6 DEF Owned
<1> QED BY <1>1, GraphHolds, NothingLeftHolds, PTL

------------------------
(* The paths when the graph grows *)

SameColumns(h, g) == \A m \in Nodes(h) : g[m].column = h[m].column

\* g has the nodes of h, with their columns and links, and perhaps more
Extended(h, g) ==
    \A m \in Nodes(h) : /\ m \in Nodes(g) /\ (IsLive(g, m) <=> IsLive(h, m)) /\ g[m].column = h[m].column
                        /\ \A k \in 1..LinkCt(h, m) : k \in 1..LinkCt(g, m) /\ Sib(g, m, k) = Sib(h, m, k)

\* The paths of a graph are paths of the graph with more nodes and links.
LEMMA PathsKept ==
  ASSUME NEW h, NEW g, Extended(h, g), NEW n, NEW p, NEW must, NEW r, IsPathBy(h, n, p, must, r),
         tables.prods[p].len \in Nat
  PROVE  IsPathBy(g, n, p, must, r)
<1> DEFINE s == r.links
           q == TrailOf(r)
           k == tables.prods[p].len
<1>1. /\ r \in PathShape(h) /\ r.prod = p /\ r.right = n /\ r.column = h[r.left].column
      /\ IsTrail(h, n, k, q) /\ must \subseteq ToSet(s) /\ q.left = r.left /\ q.links = s
  BY DEF IsPathBy, TrailOf
<1>2. r.left \in Nodes(h) /\ r.left \in Nodes(g)
  BY <1>1 DEF PathShape, Extended
<1>3. r \in PathShape(g)
  BY <1>1, <1>2 DEF PathShape
<1>4. r.column = g[r.left].column
  BY <1>1, <1>2 DEF Extended
<1> HIDE DEF q, s, k
<1>5. /\ Len(s) = k /\ IsLive(h, r.left) /\ \A i \in 1..k : IsLinkOf(h, s[i])
      /\ k = 0 => r.left = n
      /\ k > 0 => s[k][1] = n /\ r.left = SibAt(h, s[1])
      /\ \A i \in 1..k : i < k => s[i][1] = SibAt(h, s[i + 1])
  BY <1>1 DEF IsTrail
<1>6. \A i \in 1..k : IsLinkOf(g, s[i]) /\ SibAt(g, s[i]) = SibAt(h, s[i])
  BY <1>5 DEF IsLinkOf, SibAt, Extended
<1>7. IsLive(g, r.left)
  BY <1>2, <1>5 DEF Extended
<1>8. k > 0 => r.left = SibAt(g, s[1])
  <2>1. k > 0 => 1 \in 1..k
    BY DEF k
  <2> QED BY <1>5, <1>6, <2>1
<1>9. \A i \in 1..k : i < k => s[i][1] = SibAt(g, s[i + 1])
  <2>1. \A i \in 1..k : i < k => i + 1 \in 1..k
    BY DEF k
  <2> QED BY <1>5, <1>6, <2>1
<1>10. IsTrail(g, n, k, q)
  BY <1>1, <1>5, <1>6, <1>7, <1>8, <1>9 DEF IsTrail
<1> QED BY <1>1, <1>3, <1>4, <1>10 DEF IsPathBy, q, k, s

\* A path of the graph with more is a path of the graph, if it uses nothing else.
LEMMA PathsOld ==
  ASSUME NEW h, NEW g, Extended(h, g), NEW n, NEW p, NEW must, NEW r, IsPathBy(g, n, p, must, r),
         tables.prods[p].len \in Nat,
         r.left \in Nodes(h), \A i \in 1..Len(r.links) : IsLinkOf(h, r.links[i])
  PROVE  IsPathBy(h, n, p, must, r)
<1> DEFINE s == r.links
           q == TrailOf(r)
           k == tables.prods[p].len
<1>1. /\ r \in PathShape(g) /\ r.prod = p /\ r.right = n /\ r.column = g[r.left].column
      /\ IsTrail(g, n, k, q) /\ must \subseteq ToSet(s) /\ q.left = r.left /\ q.links = s
  BY DEF IsPathBy, TrailOf
<1>2. r \in PathShape(h) /\ r.column = h[r.left].column
  BY <1>1 DEF PathShape, Extended
<1> HIDE DEF q, s, k
<1>3. /\ Len(s) = k /\ IsLive(g, r.left)
      /\ k = 0 => r.left = n
      /\ k > 0 => s[k][1] = n /\ r.left = SibAt(g, s[1])
      /\ \A i \in 1..k : i < k => s[i][1] = SibAt(g, s[i + 1])
  BY <1>1 DEF IsTrail
<1>4. \A i \in 1..k : IsLinkOf(h, s[i]) /\ SibAt(g, s[i]) = SibAt(h, s[i])
  BY <1>3 DEF IsLinkOf, SibAt, Extended, s
<1>5. IsLive(h, r.left)
  BY <1>3 DEF Extended
<1>6. k > 0 => r.left = SibAt(h, s[1])
  <2>1. k > 0 => 1 \in 1..k
    BY DEF k
  <2> QED BY <1>3, <1>4, <2>1
<1>7. \A i \in 1..k : i < k => s[i][1] = SibAt(h, s[i + 1])
  <2>1. \A i \in 1..k : i < k => i + 1 \in 1..k
    BY DEF k
  <2> QED BY <1>3, <1>4, <2>1
<1>8. IsTrail(h, n, k, q)
  BY <1>1, <1>3, <1>4, <1>5, <1>6, <1>7 DEF IsTrail
<1> QED BY <1>1, <1>2, <1>8 DEF IsPathBy, q, k, s

\* What a path is made of.
LEMMA PathParts ==
  ASSUME NEW h, NEW n, NEW p, NEW must, NEW r, IsPathBy(h, n, p, must, r), tables.prods[p].len \in Nat
  PROVE  /\ r.left \in Nodes(h) /\ r.right = n /\ r.prod = p
         /\ r.links \in Seq(Nat \X Nat) /\ Len(r.links) = tables.prods[p].len
         /\ \A i \in 1..Len(r.links) : IsLinkOf(h, r.links[i])
BY DEF IsPathBy, IsTrail, TrailOf, PathShape

\* In a graph with the same links the paths are the same.
LEMMA SamePathsBy ==
  ASSUME NEW h, Shape(h), NEW g, SameLinks(h, g), SameColumns(h, g),
         NEW n, NEW p, NEW must, NEW r, tables.prods[p].len \in Nat
  PROVE  IsPathBy(h, n, p, must, r) <=> IsPathBy(g, n, p, must, r)
<1>1. Nodes(g) = Nodes(h) /\ \A m \in Nodes(h) : LinkCt(h, m) \in Nat
  BY ViewsAre DEF SameLinks, Nodes
<1>2. Extended(h, g) /\ Extended(g, h)
  BY <1>1 DEF SameLinks, SameColumns, Extended
<1> QED BY <1>2, PathsKept

\* The production of a path has a length.
LEMMA PathLen ==
  ASSUME NEW h, NEW list, CellsFit(h, list), NEW n \in ToSet(list), NEW g, NEW must, NEW r,
         IsPath(g, n, Entry(StateOf(h, n)), must, r)
  PROVE  tables.prods[r.prod].len \in Nat /\ IsPathBy(g, n, r.prod, must, r)
<1>1. /\ IsReduce(-r.prod - 1) /\ -r.prod - 1 \in ToSet(Entry(StateOf(h, n)))
      /\ IsPathBy(g, n, r.prod, must, r)
  BY DEF IsPath
<1>2. r.prod \in Int
  BY <1>1 DEF IsPathBy, PathShape
<1>3. -r.prod - 1 \in Int /\ ReduceBy(-r.prod - 1) = r.prod
  BY <1>2 DEF ReduceBy
<1> QED BY <1>1, <1>3 DEF CellsFit

\* The same, for all the paths from the nodes of a list.
LEMMA SamePaths ==
  ASSUME NEW h, Shape(h), NEW g, SameLinks(h, g), SameColumns(h, g),
         NEW list, CellsFit(h, list), NEW must, NEW r
  PROVE  IsPathOfAll(h, list, must, r) <=> IsPathOfAll(g, list, must, r)
<1> SUFFICES ASSUME NEW n \in ToSet(list)
             PROVE  IsPath(h, n, Entry(StateOf(h, n)), must, r) <=> IsPath(g, n, Entry(StateOf(g, n)), must, r)
  BY DEF IsPathOfAll
<1>1. StateOf(g, n) = StateOf(h, n)
  BY DEF CellsFit, SameLinks
<1> DEFINE e == Entry(StateOf(h, n))
<1>2. ASSUME NEW f, IsPath(f, n, e, must, r) PROVE tables.prods[r.prod].len \in Nat
  BY <1>2, PathLen
<1>3. IsPath(h, n, e, must, r) <=> IsPath(g, n, e, must, r)
  <2> HIDE DEF e
  <2>1. ASSUME IsPath(h, n, e, must, r) PROVE IsPath(g, n, e, must, r)
    BY <1>2, <2>1, SamePathsBy DEF IsPath
  <2>2. ASSUME IsPath(g, n, e, must, r) PROVE IsPath(h, n, e, must, r)
    BY <1>2, <2>2, SamePathsBy DEF IsPath
  <2> QED BY <2>1, <2>2
<1> QED BY <1>1, <1>3

\* The paths that a new link opens are those that use it; the others were there before.
LEMMA PathsThroughLink ==
  ASSUME NEW h, Shape(h), NEW g, NEW n \in Nodes(h), NEW sib, NEW id, LinkAdded(h, g, n, sib, id),
         SameColumns(h, g), NEW list, CellsFit(h, list), NEW r
  PROVE  LET e == <<n, LinkCt(h, n) + 1>>
         IN  /\ IsPathOfAll(g, list, {}, r) <=> IsPathOfAll(h, list, {}, r) \/ IsPathOfAll(g, list, {e}, r)
             /\ ~(IsPathOfAll(h, list, {}, r) /\ IsPathOfAll(g, list, {e}, r))
<1> DEFINE e == <<n, LinkCt(h, n) + 1>>
           Cell(m) == Entry(StateOf(h, m))
<1>1. /\ Nodes(g) = Nodes(h) /\ \A m \in Nodes(h) : LinkCt(h, m) \in Nat
      /\ \A m \in Nodes(h) :
            /\ StateOf(g, m) = StateOf(h, m) /\ (IsLive(g, m) <=> IsLive(h, m))
            /\ LinkCt(g, m) = LinkCt(h, m) + (IF m = n THEN 1 ELSE 0)
            /\ \A k \in 1..LinkCt(h, m) : Sib(g, m, k) = Sib(h, m, k)
  BY ViewsAre DEF LinkAdded, Nodes
<1>2. Extended(h, g)
  BY <1>1 DEF Extended, SameColumns
<1>3. \A m : IsPathOfAll(g, list, m, r) <=> \E x \in ToSet(list) : IsPath(g, x, Cell(x), m, r)
  BY <1>1 DEF IsPathOfAll, CellsFit
<1>4. \A m : IsPathOfAll(h, list, m, r) <=> \E x \in ToSet(list) : IsPath(h, x, Cell(x), m, r)
  BY DEF IsPathOfAll
<1> HIDE DEF e
<1>5. ASSUME NEW x \in ToSet(list), IsPath(h, x, Cell(x), {}, r)
      PROVE  IsPath(g, x, Cell(x), {}, r) /\ e \notin ToSet(r.links)
  <2>1. tables.prods[r.prod].len \in Nat /\ IsPathBy(h, x, r.prod, {}, r)
    BY <1>5, PathLen
  <2>2. IsPathBy(g, x, r.prod, {}, r)
    BY <1>2, <2>1, PathsKept
  <2>3. r.links \in Seq(Nat \X Nat) /\ \A i \in 1..Len(r.links) : IsLinkOf(h, r.links[i])
    BY <2>1, PathParts
  <2>4. ~IsLinkOf(h, e)
    BY <1>1 DEF IsLinkOf, e
  <2>5. e \notin ToSet(r.links)
    <3>1. DOMAIN r.links = 1..Len(r.links)
      BY <2>3
    <3>2. e \in ToSet(r.links) => \E i \in 1..Len(r.links) : r.links[i] = e
      BY <3>1, Zenon DEF ToSet
    <3> QED BY <2>3, <2>4, <3>2, Zenon
  <2> QED BY <1>5, <2>2, <2>5 DEF IsPath
<1>6. ASSUME NEW x \in ToSet(list), IsPath(g, x, Cell(x), {}, r), e \notin ToSet(r.links)
      PROVE  IsPath(h, x, Cell(x), {}, r)
  <2>1. tables.prods[r.prod].len \in Nat /\ IsPathBy(g, x, r.prod, {}, r)
    BY <1>6, PathLen
  <2>2. /\ r.left \in Nodes(g) /\ r.links \in Seq(Nat \X Nat)
        /\ \A i \in 1..Len(r.links) : IsLinkOf(g, r.links[i])
    BY <2>1, PathParts
  <2>3. ASSUME NEW i \in 1..Len(r.links) PROVE IsLinkOf(h, r.links[i])
    <3> DEFINE a == r.links[i]
    <3>1. a \in Nat \X Nat /\ a # e /\ IsLinkOf(g, a)
      BY <1>6, <2>2 DEF ToSet
    <3> HIDE DEF a
    <3>2. /\ a[1] \in Nodes(h) /\ IsLive(h, a[1]) /\ a[2] \in 1..LinkCt(g, a[1])
          /\ a = <<a[1], a[2]>>
      BY <1>1, <3>1 DEF IsLinkOf
    <3>3. a[2] \in 1..LinkCt(h, a[1])
      <4>1. CASE a[1] = n
        <5>1. a[2] # LinkCt(h, n) + 1
          BY <3>1, <3>2, <4>1 DEF e
        <5>2. LinkCt(h, n) \in Nat /\ a[2] \in 1..(LinkCt(h, n) + 1)
          BY <1>1, <3>2, <4>1
        <5> QED BY <4>1, <5>1, <5>2
      <4>2. CASE a[1] # n
        BY <1>1, <3>2, <4>2
      <4> QED BY <4>1, <4>2
    <3> QED BY <3>2, <3>3 DEF IsLinkOf, a
  <2>4. IsPathBy(h, x, r.prod, {}, r)
    BY <1>1, <1>2, <2>1, <2>2, <2>3, PathsOld
  <2> QED BY <1>6, <2>4 DEF IsPath
<1>7. \A x : IsPath(g, x, Cell(x), {e}, r) <=> IsPath(g, x, Cell(x), {}, r) /\ e \in ToSet(r.links)
  BY DEF IsPath, IsPathBy
<1> HIDE DEF Cell
<1> QED BY <1>3, <1>4, <1>5, <1>6, <1>7 DEF e

\* The paths from the old nodes do not use a new one.
LEMMA PathsBesideNode ==
  ASSUME NEW h, Shape(h), Inward(h), NEW g, NEW state, NEW left, NEW id, NodePushed(h, g, state, left, id, 1),
         SameColumns(h, g), NEW list, CellsFit(h, list), list \in Seq(Nodes(h)), NEW r
  PROVE  LET N == Len(h) + 1
         IN  /\ IsPathOfAll(g, Append(list, N), {}, r)
                  <=> IsPathOfAll(h, list, {}, r) \/ IsPath(g, N, Entry(state), {}, r)
             /\ ~(IsPathOfAll(h, list, {}, r) /\ IsPath(g, N, Entry(state), {}, r))
<1> DEFINE N == Len(h) + 1
           Cell(m) == Entry(StateOf(h, m))
<1>1. /\ Nodes(g) = 1..N /\ Len(h) \in Nat /\ N \notin Nodes(h) /\ N \in Nat
      /\ \A m \in Nodes(h) : LinkCt(h, m) \in Nat /\ m \in Nodes(g)
      /\ \A m \in Nodes(h) :
            /\ StateOf(g, m) = StateOf(h, m) /\ (IsLive(g, m) <=> IsLive(h, m))
            /\ LinkCt(g, m) = LinkCt(h, m)
            /\ \A k \in 1..LinkCt(h, m) : Sib(g, m, k) = Sib(h, m, k)
      /\ StateOf(g, N) = state
  <2>1. Len(h) \in Nat
    BY ShapeIs
  <2> QED BY <2>1, ViewsAre DEF NodePushed, Nodes
<1>2. Extended(h, g)
  BY <1>1 DEF Extended, SameColumns
<1>3. ToSet(Append(list, N)) = ToSet(list) \cup {N} /\ ToSet(list) \subseteq Nodes(h)
  <2>1. /\ Len(list) \in Nat /\ DOMAIN list = 1..Len(list) /\ \A i \in 1..Len(list) : list[i] \in Nodes(h)
        /\ DOMAIN Append(list, N) = 1..(Len(list) + 1)
        /\ \A i \in 1..Len(list) : Append(list, N)[i] = list[i]
        /\ Append(list, N)[Len(list) + 1] = N
    BY <1>1
  <2> DEFINE b == Append(list, N)
  <2> HIDE DEF b
  <2>2. DOMAIN b = 1..(Len(list) + 1) /\ (\A i \in 1..Len(list) : b[i] = list[i]) /\ b[Len(list) + 1] = N
    BY <2>1 DEF b
  <2>3. 1..(Len(list) + 1) = (1..Len(list)) \cup {Len(list) + 1}
    BY <2>1
  <2>4. ToSet(b) = ToSet(list) \cup {N}
    BY <2>1, <2>2, <2>3 DEF ToSet
  <2> QED BY <2>1, <2>4 DEF ToSet, b
<1>4. \A m : IsPathOfAll(h, list, m, r) <=> \E x \in ToSet(list) : IsPath(h, x, Cell(x), m, r)
  BY DEF IsPathOfAll
<1>5. IsPathOfAll(g, Append(list, N), {}, r)
         <=> (\E x \in ToSet(list) : IsPath(g, x, Cell(x), {}, r)) \/ IsPath(g, N, Entry(state), {}, r)
  BY <1>1, <1>3 DEF IsPathOfAll
<1> HIDE DEF N
<1>6. ASSUME NEW x \in ToSet(list), IsPath(h, x, Cell(x), {}, r)
      PROVE  IsPath(g, x, Cell(x), {}, r) /\ r.right # N
  <2>1. tables.prods[r.prod].len \in Nat /\ IsPathBy(h, x, r.prod, {}, r)
    BY <1>6, PathLen
  <2>2. IsPathBy(g, x, r.prod, {}, r)
    BY <1>2, <2>1, PathsKept
  <2>3. r.right = x /\ x \in Nodes(h)
    BY <1>3, <2>1 DEF IsPathBy
  <2> QED BY <1>1, <1>6, <2>2, <2>3 DEF IsPath
<1>7. IsPath(g, N, Entry(state), {}, r) => r.right = N
  BY DEF IsPath, IsPathBy
<1>8. ASSUME NEW x \in ToSet(list), IsPath(g, x, Cell(x), {}, r)
      PROVE  IsPath(h, x, Cell(x), {}, r)
  <2> DEFINE s == r.links
             k == tables.prods[r.prod].len
  <2>1. k \in Nat /\ IsPathBy(g, x, r.prod, {}, r)
    BY <1>8, PathLen
  <2>2. Len(s) = k /\ \A i \in 1..k : IsLinkOf(g, s[i])
    BY <2>1, PathParts
  <2>3. /\ k = 0 => r.left = x
        /\ k > 0 => s[k][1] = x /\ r.left = SibAt(g, s[1])
        /\ \A i \in 1..k : i < k => s[i][1] = SibAt(g, s[i + 1])
    BY <2>1 DEF IsPathBy, IsTrail, TrailOf
  <2>4. x \in Nodes(h)
    BY <1>3
  <2> HIDE DEF s, k
  <2>5. \A i \in 1..k : s[i][1] \in Nodes(h) =>
            /\ IsLinkOf(h, s[i]) /\ SibAt(g, s[i]) \in Nodes(h)
    BY <1>1, <2>2 DEF IsLinkOf, SibAt, Inward
  <2> DEFINE Bad == {d \in 0..(k - 1) : s[k - d][1] \notin Nodes(h)}
  <2>6. Bad = {}
    <3> SUFFICES ASSUME Bad # {} PROVE FALSE
      OBVIOUS
    <3>1. PICK d \in Bad : \A j \in Bad : d <= j
      <4>1. Bad \in SUBSET Nat
        BY <2>1
      <4> HIDE DEF Bad
      <4> QED BY <4>1, Least
    <3>2. d \in 0..(k - 1) /\ s[k - d][1] \notin Nodes(h) /\ d \in Nat
      BY <2>1, <3>1
    <3>3. d # 0
      BY <2>1, <2>3, <2>4, <3>2
    <3>4. d - 1 \in 0..(k - 1) /\ ~(d <= d - 1)
      BY <2>1, <3>2, <3>3
    <3>5. s[k - (d - 1)][1] \in Nodes(h)
      BY <3>1, <3>4
    <3>6. k - d \in 1..k /\ k - d < k /\ k - (d - 1) \in 1..k /\ (k - d) + 1 = k - (d - 1)
      BY <2>1, <3>2, <3>3
    <3>7. s[k - d][1] = SibAt(g, s[k - (d - 1)])
      BY <2>3, <3>6
    <3> QED BY <2>5, <3>2, <3>5, <3>6, <3>7
  <2>7. ASSUME NEW i \in 1..k PROVE s[i][1] \in Nodes(h)
    <3>1. k - i \in 0..(k - 1) /\ k - (k - i) = i
      BY <2>1
    <3>2. s[k - (k - i)][1] \in Nodes(h)
      BY <2>6, <3>1
    <3> QED BY <3>1, <3>2
  <2>8. r.left \in Nodes(h)
    <3>1. CASE k = 0
      BY <2>3, <2>4, <3>1
    <3>2. CASE k # 0
      <4>1. k > 0 /\ 1 \in 1..k
        BY <2>1, <3>2
      <4> QED BY <2>3, <2>5, <2>7, <4>1
    <3> QED BY <3>1, <3>2
  <2>9. \A i \in 1..Len(r.links) : IsLinkOf(h, r.links[i])
    BY <2>2, <2>5, <2>7 DEF s
  <2>10. IsPathBy(h, x, r.prod, {}, r)
    BY <1>2, <2>1, <2>8, <2>9, PathsOld DEF k
  <2> QED BY <1>8, <2>10 DEF IsPath
<1> HIDE DEF Cell
<1>9. IsPathOfAll(g, Append(list, N), {}, r)
         <=> IsPathOfAll(h, list, {}, r) \/ IsPath(g, N, Entry(state), {}, r)
  BY <1>4, <1>5, <1>6, <1>8
<1>10. ~(IsPathOfAll(h, list, {}, r) /\ IsPath(g, N, Entry(state), {}, r))
  BY <1>4, <1>6, <1>7
<1> QED BY <1>9, <1>10 DEF N

------------------------
(* The column of a node is given to it once *)

\* Yielding values changes no column.

LEMMA YieldKeepsColumns ==
  ASSUME NEW h, Shape(h), NEW links, NEW next
  PROVE  SameColumns(h, Yield(h, links, next).h)
<1>1. DOMAIN h = Nodes(h) /\ \A m \in Nodes(h) : "column" \in DOMAIN h[m]
  BY ShapeIs DEF IsNode
<1> QED BY <1>1 DEF Yield, SameColumns

\* Nor does the merge of a value.
LEMMA ValueKeepsColumns ==
  ASSUME NEW h, Shape(h), NEW n \in Nodes(h), NEW k, NEW v
  PROVE  SameColumns(h, ValuePut(h, n, k, v))
<1>1. DOMAIN h = Nodes(h) /\ \A m \in Nodes(h) : "column" \in DOMAIN h[m]
  BY ShapeIs DEF IsNode
<1> QED BY <1>1 DEF ValuePut, SameColumns

LEMMA LinkKeepsColumns ==
  ASSUME NEW h, Shape(h), NEW n \in Nodes(h), NEW sib \in Nodes(h), NEW val
  PROVE  SameColumns(h, AddLink(h, n, sib, val))
<1> DEFINE d == IF h[n].links = <<>> THEN h[sib].depth + 1 ELSE 0
           r == [h[n] EXCEPT !.depth = d, !.links = Append(h[n].links, Link(sib, val))]
           h1 == [h EXCEPT ![n] = r]
           q == [h1[sib] EXCEPT !.refct = h1[sib].refct + 1]
           g == [h1 EXCEPT ![sib] = q]
<1>0. AddLink(h, n, sib, val) = g
  BY DEF AddLink
<1>1. DOMAIN h = Nodes(h) /\ \A m \in Nodes(h) : "column" \in DOMAIN h[m]
  BY ShapeIs DEF IsNode
<1>2. "column" \in DOMAIN r /\ r.column = h[n].column
  BY <1>1
<1> HIDE DEF r
<1>3. DOMAIN h1 = Nodes(h) /\ \A m \in Nodes(h) : "column" \in DOMAIN h1[m] /\ h1[m].column = h[m].column
  BY <1>1, <1>2
<1> HIDE DEF h1
<1>4. q.column = h[sib].column
  BY <1>3
<1> HIDE DEF q
<1>5. \A m \in Nodes(h) : g[m].column = h[m].column
  BY <1>3, <1>4
<1> QED BY <1>0, <1>5 DEF SameColumns

LEMMA RecomputeKeepsColumns ==
  ASSUME NEW h, Shape(h), NEW list
  PROVE  SameColumns(h, RecomputeDepths(h, list))
<1>1. DOMAIN h = Nodes(h) /\ \A m \in Nodes(h) : "column" \in DOMAIN h[m]
  BY ShapeIs DEF IsNode
<1> DEFINE d == SettledDepths(h, list)
<1> HIDE DEF d
<1>2. RecomputeDepths(h, list) = [n \in DOMAIN h |-> [h[n] EXCEPT !.depth = d[n]]]
  BY DEF RecomputeDepths, d
<1> QED BY <1>1, <1>2 DEF SameColumns

\* A new node leaves the others alone.
LEMMA NodeKeepsColumns ==
  ASSUME NEW h, Shape(h), NEW state \in Int, NEW col \in Int, NEW left \in Nodes(h), NEW val
  PROVE  SameColumns(h, AddLink(Append(h, TopNode(state, col)), Len(h) + 1, left, val))
<1> DEFINE h1 == Append(h, TopNode(state, col))
           N == Len(h) + 1
<1>1. Shape(h1) /\ Len(h1) = N /\ \A m \in Nodes(h) : h1[m] = h[m]
  BY NewNodeAdds DEF NodeAdded
<1>2. Len(h) \in Nat
  BY ShapeIs
<1> HIDE DEF h1
<1>3. N \in Nodes(h1) /\ \A m \in Nodes(h) : m \in Nodes(h1)
  BY <1>1, <1>2 DEF Nodes
<1> HIDE DEF N
<1>4. SameColumns(h1, AddLink(h1, N, left, val))
  BY <1>1, <1>3, LinkKeepsColumns
<1> QED BY <1>1, <1>3, <1>4 DEF SameColumns, h1, N

LEMMA ColumnsTwice ==
  ASSUME NEW h, NEW f, NEW g, SameColumns(h, f), SameColumns(f, g), Nodes(f) = Nodes(h)
  PROVE  SameColumns(h, g)
BY DEF SameColumns

------------------------
(* The cells are fit for the search *)

LEMMA CellsAreFit ==
  ASSUME TypesOK, NEW h, StatesOK(h, tables), NEW list, LiveList(h, list)
  PROVE  CellsFit(h, list) /\ CellsApart(h, list)
<1>1. ASSUME NEW n \in ToSet(list)
      PROVE  /\ n \in Nodes(h)
             /\ Entry(StateOf(h, n)) \in Seq(Int) /\ Distinct(Entry(StateOf(h, n)))
             /\ \A a \in ToSet(Entry(StateOf(h, n))) : IsReduce(a) => tables.prods[ReduceBy(a)].len \in Nat
  <2> DEFINE s == StateOf(h, n)
  <2>1. n \in Nodes(h) /\ IsLive(h, n)
    BY ListIs
  <2>2. s \in States(tables)
    BY <2>1 DEF StatesOK
  <2> HIDE DEF s
  <2>3. Token \in DOMAIN tables.action[s] /\ Entry(s) = tables.action[s][Token] /\ Entry(s) \in Seq(Int)
    BY <2>2, TablesFit DEF TokenFits, Entry, Automaton
  <2>4. IsInjective(Entry(s))
    BY <2>2, <2>3, CellsAssumption DEF TypesOK
  <2>5. Distinct(Entry(s))
    <3>1. DOMAIN Entry(s) = 1..Len(Entry(s))
      BY <2>3
    <3> QED BY <2>4, <3>1 DEF IsInjective, Distinct
  <2>6. \A a \in ToSet(Entry(s)) : IsReduce(a) => tables.prods[ReduceBy(a)].len \in Nat
    BY <2>2, ReduceFits
  <2> QED BY <2>1, <2>3, <2>5, <2>6 DEF s
<1> QED BY <1>1 DEF CellsFit, CellsApart

LEMMA IncreasingDistinct ==
  ASSUME NEW h, NEW list, list \in Seq(Nodes(h)), Increasing(list)
  PROVE  Distinct(list)
<1> SUFFICES ASSUME NEW i \in 1..Len(list), NEW j \in 1..Len(list), list[i] = list[j], i # j PROVE FALSE
  BY DEF Distinct
<1>1. list[i] \in Int /\ i \in Int /\ j \in Int
  BY DEF Nodes
<1>2. CASE i < j
  BY <1>1, <1>2 DEF Increasing
<1>3. CASE j < i
  BY <1>1, <1>3 DEF Increasing
<1> QED BY <1>1, <1>2, <1>3

------------------------
(* The paths enqueued for a token are those of the graph, each once *)

PathSpace == [prod : Int, right : Nat, left : Nat, links : Seq(Nat \X Nat), column : Int]

PathsInv ==
    /\ considered \in Seq(PathSpace) /\ Distinct(considered)
    /\ pc = "reduce" => \A r : r \in ToSet(considered) <=> IsPathOfAll(gss, topmostParsers, {}, r)

LEMMA InPathSpace ==
  ASSUME NEW h, NEW s, s \in Seq(PathShape(h))
  PROVE  s \in Seq(PathSpace)
<1>1. PathShape(h) \subseteq PathSpace
  BY DEF PathShape, PathSpace, Nodes
<1> HIDE DEF PathShape, PathSpace
<1> QED BY <1>1

\* The paths are those of the same tables.
LEMMA PathsNext ==
  ASSUME UNCHANGED <<tables, toks, pos>>, NEW r
  PROVE  IsPathOfAll(gss, topmostParsers, {}, r)' <=> IsPathOfAll(gss', topmostParsers', {}, r)
<1> DEFINE E(s) == tables.action[s][toks[pos]]
<1>1. \A s : Entry(s)' = Entry(s)
  BY DEF Entry, Token
<1>2. \A n : IsPathBy(gss, n, r.prod, {}, r)' <=> IsPathBy(gss', n, r.prod, {}, r)
  BY Zenon DEF IsPathBy
<1> QED BY <1>1, <1>2, Zenon DEF IsPathOfAll, IsPath

------------------------
(* The steps that reduce *)

\* What a reduction does to the list: the paths of the graph that are new are appended.
LEMMA HandledPaths ==
  ASSUME PathsInv, ProcessPath, NEW r, NEW g, NEW ids, NEW ps, Handled(r, g, ids, ps),
         ps \in Seq(PathShape(g)), Distinct(ps),
         \A x : IsPathOfAll(g, topmostParsers', {}, x)
                    <=> IsPathOfAll(gss, topmostParsers, {}, x) \/ x \in ToSet(ps),
         \A x : ~(IsPathOfAll(gss, topmostParsers, {}, x) /\ x \in ToSet(ps))
  PROVE  PathsInv'
<1>1. /\ considered' = considered \o ps /\ gss' = g /\ pc' = "reduce" /\ pc = "reduce"
      /\ UNCHANGED <<tables, toks, pos>>
  BY DEF Handled, given, ProcessPath
<1>2. /\ considered \in Seq(PathSpace) /\ Distinct(considered)
      /\ \A x : x \in ToSet(considered) <=> IsPathOfAll(gss, topmostParsers, {}, x)
  BY <1>1 DEF PathsInv
<1>3. ps \in Seq(PathSpace)
  BY InPathSpace
<1>4. \A x : ~(x \in ToSet(considered) /\ x \in ToSet(ps))
  BY <1>2
<1>5. /\ considered' \in Seq(PathSpace) /\ Distinct(considered')
      /\ \A x : x \in ToSet(considered') <=> x \in ToSet(considered) \/ x \in ToSet(ps)
  BY <1>1, <1>2, <1>3, <1>4, ConcatHas, Zenon
<1>6. ASSUME NEW x PROVE x \in ToSet(considered') <=> IsPathOfAll(gss, topmostParsers, {}, x)'
  <2>1. IsPathOfAll(gss, topmostParsers, {}, x)' <=> IsPathOfAll(g, topmostParsers', {}, x)
    BY <1>1, PathsNext
  <2> QED BY <1>2, <1>5, <2>1
<1> QED BY <1>5, <1>6 DEF PathsInv

\* A reduction that changes no link, or only values, enqueues nothing.
LEMMA NothingNew ==
  ASSUME TypesOK, Sound, PathsInv, ProcessPath, NEW r, Ready(r), SameColumns(gss, r.h),
         NEW g, SameLinks(r.h, g), SameColumns(r.h, g), NEW ids, Handled(r, g, ids, <<>>),
         topmostParsers' = topmostParsers
  PROVE  PathsInv'
<1>1. Shape(gss) /\ StatesOK(gss, tables) /\ LiveList(gss, topmostParsers)
  BY DEF Sound, StackOK, GraphOK
<1>2. SameLinks(gss, r.h) /\ Nodes(r.h) = Nodes(gss)
  BY ReadyIs DEF Ready
<1>3. SameColumns(gss, g)
  BY <1>2, ColumnsTwice
<1>4. SameLinks(gss, g)
  BY <1>2 DEF SameLinks, Nodes
<1>5. CellsFit(gss, topmostParsers)
  BY <1>1, CellsAreFit
<1>6. \A x : IsPathOfAll(gss, topmostParsers, {}, x) <=> IsPathOfAll(g, topmostParsers, {}, x)
  BY <1>1, <1>3, <1>4, <1>5, SamePaths
<1>7. <<>> \in Seq(PathShape(g)) /\ Distinct(<<>>) /\ ToSet(<<>>) = {}
  BY DEF Distinct, ToSet
<1> QED BY <1>6, <1>7, HandledPaths, Zenon

\* The links of the front path yield; the columns stay.
LEMMA ReducedColumns ==
  ASSUME Shape(gss)
  PROVE  SameColumns(gss, Reduced.h)
<1>1. Reduced.h = Yield(gss, Head(pathQueue).links, nextVal).h
  BY DEF Reduced
<1> QED BY <1>1, YieldKeepsColumns

LEMMA CancelReductionPaths ==
  ASSUME TypesOK, Sound, PathsInv, CancelReduction \/ DropDeadMerge
  PROVE  PathsInv'
<1> DEFINE r == Reduced
<1>1. ProcessPath /\ Handled(r, r.h, {r.val.id}, <<>>) /\ topmostParsers' = topmostParsers
  BY DEF CancelReduction, DropDeadMerge
<1>2. Ready(r)
  BY <1>1, ReducedIsReady
<1>3. SameColumns(gss, r.h)
  BY ReducedColumns DEF Sound, StackOK, GraphOK
<1> HIDE DEF r
<1>4. Shape(r.h)
  BY <1>2, ReadyIs
<1>5. SameLinks(r.h, r.h) /\ SameColumns(r.h, r.h)
  BY <1>4 DEF SameLinks, SameColumns
<1> QED BY <1>1, <1>2, <1>3, <1>5, NothingNew

LEMMA MergeParsesPaths ==
  ASSUME TypesOK, Sound, PathsInv, MergeParses
  PROVE  PathsInv'
<1> DEFINE r == Reduced
           n == TheOne(r.found)
           k == Existing(r)
           old == r.h[n].links[k]
           trees == old.val.trees \cup r.val.trees
           v == Value(r.val.id + 1, trees)
           g == ValuePut(r.h, n, k, v)
           i == IdOf(r.h, n, k)
<1>1. /\ ProcessPath /\ Handled(r, g, {i, r.val.id}, <<>>)
      /\ topmostParsers' = topmostParsers /\ k # 0
  BY Zenon DEF MergeParses, ValuePut, IdOf
<1>2. Ready(r)
  BY <1>1, ReducedIsReady
<1>3. r.found # {} /\ k = LinkTo(r.h, n, r.left)
  BY <1>1, Zenon DEF Existing
<1>4. SameColumns(gss, r.h)
  BY ReducedColumns DEF Sound, StackOK, GraphOK
<1> HIDE DEF r
<1>5. n \in ToSet(topmostParsers)
  BY <1>2, <1>3, OneIn DEF Ready
<1> HIDE DEF n
<1>6. n \in Nodes(r.h) /\ Shape(r.h) /\ r.val.id \in Nat \ {0}
  BY <1>2, <1>5, ReadyIs, ListIs
<1>7. k \in 1..LinkCt(r.h, n)
  BY <1>1, <1>3, <1>6, LinkToIs
<1> HIDE DEF k, trees
<1>8. IsValue(v)
  <2>1. r.val.id + 1 \in Nat
    BY <1>6
  <2> QED BY <2>1, ValueIs
<1> HIDE DEF v
<1>9. SameLinks(r.h, g)
  BY <1>6, <1>7, <1>8, ValueSet
<1>10. SameColumns(r.h, g)
  BY <1>6, ValueKeepsColumns
<1> HIDE DEF g, i
<1> QED BY <1>1, <1>2, <1>4, <1>9, <1>10, NothingNew

\* What the search at the parsers of a sound stack finds.
LEMMA SearchExact ==
  ASSUME TypesOK, NEW h, NEW top, NEW prev, StackOK(h, tables, top, prev), NEW must
  PROVE  /\ PathsOfAll(h, top, must) \in Seq(PathShape(h)) /\ Distinct(PathsOfAll(h, top, must))
         /\ \A x : x \in ToSet(PathsOfAll(h, top, must)) <=> IsPathOfAll(h, top, must, x)
<1>1. Shape(h) /\ Inward(h) /\ StatesOK(h, tables) /\ LiveList(h, top) /\ Increasing(top)
  BY DEF StackOK, GraphOK
<1>2. CellsFit(h, top) /\ CellsApart(h, top)
  BY <1>1, CellsAreFit
<1>3. Distinct(top)
  BY <1>1, IncreasingDistinct DEF LiveList
<1> QED BY <1>1, <1>2, <1>3, PathsOfAllExact

\* At the start of the reductions, all the paths are enqueued.
LEMMA StartReductionsPaths ==
  ASSUME TypesOK, Sound, StartReductions
  PROVE  PathsInv'
<1> DEFINE ps == PathsOfAll(gss, topmostParsers, {})
<1>1. StackOK(gss, tables, topmostParsers, prevTopmost)
  BY DEF Sound
<1>2. /\ ps \in Seq(PathShape(gss)) /\ Distinct(ps)
      /\ \A x : x \in ToSet(ps) <=> IsPathOfAll(gss, topmostParsers, {}, x)
  BY <1>1, SearchExact
<1>3. /\ considered' = ps /\ gss' = gss /\ topmostParsers' = topmostParsers
      /\ UNCHANGED <<tables, toks, pos>>
  BY DEF StartReductions, given
<1> HIDE DEF ps
<1>4. ps \in Seq(PathSpace)
  BY <1>2, InPathSpace
<1>5. ASSUME NEW x PROVE x \in ToSet(considered') <=> IsPathOfAll(gss, topmostParsers, {}, x)'
  <2>1. IsPathOfAll(gss, topmostParsers, {}, x)' <=> IsPathOfAll(gss, topmostParsers, {}, x)
    BY <1>3, PathsNext
  <2> QED BY <1>2, <1>3, <2>1
<1> QED BY <1>2, <1>3, <1>4, <1>5 DEF PathsInv

\* Through a new link go the paths that are enqueued for it, and no others.
LEMMA AddNewLinkPaths ==
  ASSUME TypesOK, Sound, PathsInv, AddNewLink
  PROVE  PathsInv'
<1> DEFINE r == Reduced
           n == TheOne(r.found)
           h1 == AddLink(r.h, n, r.left, r.val)
           g == IF h1[n].refct > 1 THEN RecomputeDepths(h1, topmostParsers) ELSE h1
           must == {<<n, Len(g[n].links)>>}
           ps == PathsOfAll(g, topmostParsers, must)
           top == topmostParsers
<1>1. /\ ProcessPath /\ Handled(r, g, {}, ps) /\ topmostParsers' = top /\ r.found # {} /\ Existing(r) = 0
  BY DEF AddNewLink
<1>2. Ready(r)
  BY <1>1, ReducedIsReady
<1>3. LinkTo(r.h, n, r.left) = 0
  BY <1>1 DEF Existing
<1>4. /\ Shape(gss) /\ StatesOK(gss, tables) /\ LiveList(gss, top) /\ SameColumns(gss, r.h)
  BY ReducedColumns DEF Sound, StackOK, GraphOK
<1> HIDE DEF r
<1>5. n \in ToSet(topmostParsers) /\ StateOf(r.h, n) = r.state
  BY <1>1, <1>2, OneIn DEF Ready
<1> HIDE DEF n
<1>6. /\ n \in Nodes(r.h) /\ Shape(r.h) /\ r.val.id \in Nat \ {0} /\ LiveList(r.h, topmostParsers)
      /\ r.left \in Nodes(r.h) /\ IsLive(r.h, r.left) /\ IsValue(r.val)
      /\ StackOK(r.h, tables, topmostParsers, <<>>) /\ SameLinks(gss, r.h)
  BY <1>2, <1>5, ReadyIs, ListIs, Zenon DEF Ready
<1>7. \A k \in 1..LinkCt(r.h, n) : Sib(r.h, n, k) # r.left
  BY <1>3, <1>6, LinkToIs
<1>8. LinkAdded(r.h, h1, n, r.left, r.val.id) /\ SameColumns(r.h, h1)
  BY <1>6, AddLinkAdds, LinkKeepsColumns
<1>9. Relinked(h1, g, n, topmostParsers)
  BY DEF Relinked
<1>10. StateOf(r.h, n) # tables.start /\ LeadsTo(tables, StateOf(r.h, r.left), StateOf(r.h, n))
  BY <1>2, <1>5 DEF Ready
<1>11. Shape(h1)
  BY <1>8 DEF LinkAdded
<1>12. SameColumns(h1, g)
  <2> HIDE DEF h1
  <2>1. SameColumns(h1, h1)
    BY DEF SameColumns
  <2> QED BY <1>11, <2>1, RecomputeKeepsColumns
<1> HIDE DEF h1, g
<1>13. StackOK(g, tables, topmostParsers, <<>>) /\ SameLinks(h1, g)
  BY <1>5, <1>6, <1>7, <1>8, <1>9, <1>10, NewLinkKeeps
<1> DEFINE e == <<n, LinkCt(r.h, n) + 1>>
<1>14. must = {e}
  <2>1. LinkCt(h1, n) = LinkCt(r.h, n) + 1 /\ n \in Nodes(h1)
    BY <1>6, <1>8, SMTT(30) DEF LinkAdded, Nodes
  <2>2. LinkCt(g, n) = LinkCt(h1, n)
    BY <1>13, <2>1 DEF SameLinks
  <2> QED BY <2>1, <2>2 DEF LinkCt
<1> HIDE DEF must
<1>15. CellsFit(gss, top) /\ CellsFit(r.h, top)
  <2>1. StatesOK(r.h, tables)
    BY <1>6 DEF StackOK, GraphOK
  <2> QED BY <1>4, <1>6, <2>1, CellsAreFit
<1>16. CellsFit(h1, top)
  <2>1. \A m \in Nodes(r.h) : m \in Nodes(h1) /\ StateOf(h1, m) = StateOf(r.h, m)
    BY <1>8 DEF LinkAdded, Nodes
  <2> QED BY <1>15, <2>1, Zenon DEF CellsFit
<1> HIDE DEF e, top
<1>17. \A x : IsPathOfAll(gss, top, {}, x) <=> IsPathOfAll(r.h, top, {}, x)
  BY <1>4, <1>6, <1>15, SamePaths
<1>18. \A x : /\ IsPathOfAll(h1, top, {}, x) <=> IsPathOfAll(r.h, top, {}, x) \/ IsPathOfAll(h1, top, {e}, x)
              /\ ~(IsPathOfAll(r.h, top, {}, x) /\ IsPathOfAll(h1, top, {e}, x))
  BY <1>6, <1>8, <1>15, PathsThroughLink DEF e
<1>19. \A x, m : IsPathOfAll(h1, top, m, x) <=> IsPathOfAll(g, top, m, x)
  BY <1>11, <1>12, <1>13, <1>16, SamePaths
<1>20. /\ ps \in Seq(PathShape(g)) /\ Distinct(ps)
       /\ \A x : x \in ToSet(ps) <=> IsPathOfAll(g, top, {e}, x)
  BY <1>13, <1>14, SearchExact DEF top
<1> HIDE DEF ps
<1>21. \A x : IsPathOfAll(g, topmostParsers', {}, x)
                  <=> IsPathOfAll(gss, topmostParsers, {}, x) \/ x \in ToSet(ps)
  BY <1>1, <1>17, <1>18, <1>19, <1>20 DEF top
<1>22. \A x : ~(IsPathOfAll(gss, topmostParsers, {}, x) /\ x \in ToSet(ps))
  BY <1>17, <1>18, <1>19, <1>20 DEF top
<1> QED BY <1>1, <1>20, <1>21, <1>22, HandledPaths

\* From a new parser go the paths that are enqueued at it, and no others.
LEMMA AddNewParserPaths ==
  ASSUME TypesOK, Sound, PathsInv, AddNewParser
  PROVE  PathsInv'
<1> DEFINE r == Reduced
           n == Len(r.h) + 1
           g == AddLink(Append(r.h, NewTop(r.state)), n, r.left, r.val)
           entry == Entry(r.state)
           ps == NewPaths(g, n, entry, {})
           top == topmostParsers
<1>1. /\ ProcessPath /\ Handled(r, g, {}, ps) /\ topmostParsers' = Append(top, n)
  BY DEF AddNewParser
<1>2. Ready(r)
  BY <1>1, ReducedIsReady
<1>3. column \in Int
  BY DEF TypesOK
<1>4. /\ Shape(gss) /\ StatesOK(gss, tables) /\ LiveList(gss, top) /\ SameColumns(gss, r.h)
  BY ReducedColumns DEF Sound, StackOK, GraphOK
<1> HIDE DEF r
<1>5. /\ Shape(r.h) /\ r.val.id \in Nat \ {0} /\ r.state \in Int /\ r.state \in States(tables)
      /\ r.left \in Nodes(r.h) /\ IsLive(r.h, r.left) /\ IsValue(r.val)
      /\ StackOK(r.h, tables, topmostParsers, <<>>)
      /\ LeadsTo(tables, StateOf(r.h, r.left), r.state)
      /\ SameLinks(gss, r.h)
  BY <1>2, ReadyIs, Zenon DEF Ready
<1>6. NewTop(r.state) = TopNode(r.state, column)
  BY DEF NewTop, TopNode
<1>7. NodePushed(r.h, g, r.state, r.left, r.val.id, 1) /\ SameColumns(r.h, g)
  BY <1>3, <1>5, <1>6, LinkedPushes, NodeKeepsColumns
<1> HIDE DEF g
<1>8. StackOK(g, tables, topmostParsers', <<>>)
  BY <1>1, <1>5, <1>7, NewTopKeeps
<1>9. /\ Inward(r.h) /\ LiveList(r.h, top) /\ StatesOK(r.h, tables) /\ top \in Seq(Nodes(r.h))
  BY <1>5 DEF StackOK, GraphOK, LiveList
<1>10. CellsFit(gss, top) /\ CellsFit(r.h, top)
  BY <1>4, <1>9, CellsAreFit
<1>11. n \in Nodes(g) /\ IsLive(g, n) /\ StateOf(g, n) = r.state /\ n \in ToSet(Append(top, n))
  <2>1. Len(r.h) \in Nat
    BY <1>5, ShapeIs
  <2>2. n \in Nodes(g) /\ IsLive(g, n) /\ StateOf(g, n) = r.state
    BY <1>7, <2>1 DEF NodePushed, Nodes
  <2>3. Len(top) \in Nat /\ DOMAIN Append(top, n) = 1..(Len(top) + 1) /\ Append(top, n)[Len(top) + 1] = n
    BY <1>9
  <2>4. Len(top) + 1 \in DOMAIN Append(top, n)
    BY <2>3
  <2> QED BY <2>2, <2>3, <2>4, Zenon DEF ToSet
<1>12. /\ Shape(g) /\ Inward(g) /\ CellsFit(g, Append(top, n)) /\ CellsApart(g, Append(top, n))
  <2>1. Shape(g) /\ Inward(g) /\ StatesOK(g, tables) /\ LiveList(g, Append(top, n))
    BY <1>1, <1>8 DEF StackOK, GraphOK
  <2> QED BY <2>1, CellsAreFit
<1> HIDE DEF top
<1>13. \A x : IsPathOfAll(gss, top, {}, x) <=> IsPathOfAll(r.h, top, {}, x)
  BY <1>4, <1>5, <1>10, SamePaths
<1>14. \A x : /\ IsPathOfAll(g, Append(top, n), {}, x)
                    <=> IsPathOfAll(r.h, top, {}, x) \/ IsPath(g, n, entry, {}, x)
              /\ ~(IsPathOfAll(r.h, top, {}, x) /\ IsPath(g, n, entry, {}, x))
  BY <1>5, <1>7, <1>9, <1>10, PathsBesideNode, SMTT(90)
<1> HIDE DEF n
<1>15. /\ ps \in Seq(PathShape(g)) /\ Distinct(ps)
       /\ \A x : x \in ToSet(ps) <=> IsPath(g, n, entry, {}, x)
  <2>1. /\ entry \in Seq(Int) /\ Distinct(entry)
        /\ \A a \in ToSet(entry) : IsReduce(a) => tables.prods[ReduceBy(a)].len \in Nat
    BY <1>11, <1>12, Zenon DEF CellsFit, CellsApart
  <2> HIDE DEF entry
  <2> QED BY <1>11, <1>12, <2>1, NewPathsExact
<1> HIDE DEF ps
<1>16. \A x : IsPathOfAll(g, topmostParsers', {}, x)
                  <=> IsPathOfAll(gss, topmostParsers, {}, x) \/ x \in ToSet(ps)
  BY <1>1, <1>13, <1>14, <1>15 DEF top
<1>17. \A x : ~(IsPathOfAll(gss, topmostParsers, {}, x) /\ x \in ToSet(ps))
  BY <1>13, <1>14, <1>15 DEF top
<1> QED BY <1>1, <1>15, <1>16, <1>17, HandledPaths

\* Elsewhere nothing is enqueued.
LEMMA OtherPaths ==
  ASSUME PathsInv, pc' # "reduce", considered' = considered \/ considered' = <<>>
  PROVE  PathsInv'
<1>1. <<>> \in Seq(PathSpace) /\ Distinct(<<>>)
  BY DEF Distinct
<1> QED BY <1>1 DEF PathsInv

\* Every step keeps the list that of the paths of the graph.
LEMMA PathsKeep ==
  ASSUME GraphInv, sharedPops \/ PathsInv, [Next]_vars
  PROVE  sharedPops' \/ PathsInv'
<1> USE DEF ghosts
<1>1. CASE sharedPops
  BY <1>1, PopsStay
<1>2. CASE ~sharedPops
  <2>1. TypesOK /\ Sound /\ PathsInv
    BY <1>2 DEF GraphInv
  <2>2. CASE MiniReduce
    <3>1. (pc' = "token" \/ pc' = "rejected") /\ considered' = considered
      BY <2>2, Zenon DEF MiniReduce
    <3> QED BY <2>1, <3>1, OtherPaths
  <2>3. CASE MiniShift
    <3>1. (pc' = "token" \/ pc' = "cleanup") /\ considered' = considered
      BY <2>3, Zenon DEF MiniShift, TokenDone
    <3> QED BY <2>1, <3>1, OtherPaths
  <2>4. CASE StartShifts
    <3>1. pc' = "shift" /\ considered' = considered
      BY <2>4, Zenon DEF StartShifts
    <3> QED BY <2>1, <3>1, OtherPaths
  <2>5. CASE ShiftParser \/ DropParser
    <3>1. pc = "shift" /\ pc' = pc /\ considered' = considered
      BY <2>5, Zenon DEF ShiftParser, DropParser, ShiftStep
    <3> QED BY <2>1, <3>1, OtherPaths
  <2>6. CASE FinishShifts
    <3>1. (pc' = "rejected" \/ pc' = "token" \/ pc' = "cleanup") /\ considered' = <<>>
      BY <2>6, Zenon DEF FinishShifts, TokenDone
    <3> QED BY <2>1, <3>1, OtherPaths
  <2>7. CASE CleanupAfterParse
    <3>1. (pc' = "rejected" \/ pc' = "accepted") /\ considered' = considered
      BY <2>7, Zenon DEF CleanupAfterParse
    <3> QED BY <2>1, <3>1, OtherPaths
  <2>8. CASE UNCHANGED vars
    <3>1. /\ considered' = considered /\ pc' = pc /\ gss' = gss /\ topmostParsers' = topmostParsers
          /\ UNCHANGED <<tables, toks, pos>>
      BY <2>8 DEF vars
    <3>2. \A x : IsPathOfAll(gss, topmostParsers, {}, x)' <=> IsPathOfAll(gss, topmostParsers, {}, x)
      BY <3>1, PathsNext
    <3> QED BY <2>1, <3>1, <3>2 DEF PathsInv
  <2> QED BY <2>1, <2>2, <2>3, <2>4, <2>5, <2>6, <2>7, <2>8, StartReductionsPaths, CancelReductionPaths,
          MergeParsesPaths, AddNewLinkPaths, AddNewParserPaths DEF Next, Done
<1> QED BY <1>1, <1>2

\* A list without repetitions is as long as the set of its elements is large.
LEMMA DistinctLength ==
  ASSUME NEW W, NEW s \in Seq(W), Distinct(s)
  PROVE  Len(s) = Cardinality(ToSet(s))
<1>1. Len(s) \in Nat /\ DOMAIN s = 1..Len(s) /\ s = [i \in 1..Len(s) |-> s[i]]
  OBVIOUS
<1>2. ToSet(s) = {s[i] : i \in 1..Len(s)}
  BY <1>1 DEF ToSet
<1> DEFINE L == Len(s)
<1>3. s \in Bijection(1..L, ToSet(s))
  <2>1. \A i, j \in 1..L : s[i] = s[j] => i = j
    BY DEF Distinct
  <2>2. s \in [1..L -> ToSet(s)]
    BY <1>1, <1>2
  <2> QED BY <1>2, <2>1, <2>2 DEF Bijection, Injection, Surjection, IsInjective
<1>4. ExistsBijection(1..L, ToSet(s))
  BY <1>3, Zenon DEF ExistsBijection
<1> QED BY <1>1, <1>4, FS_CountingElements

\* Of the reductions possible in the graph, each path is enqueued once, and none is missing
\* when the worklist is empty (glr.cc:94), until the mini-LR core pops a shared node.
THEOREM EveryPathIsConsideredOnce == Spec => [](sharedPops \/ EveryPathOnce)
<1>1. Init => PathsInv
  <2>1. <<>> \in Seq(PathSpace) /\ Distinct(<<>>)
    BY DEF Distinct
  <2> QED BY <2>1 DEF Init, PathsInv
<1>2. GraphInv /\ (sharedPops \/ PathsInv) /\ [Next]_vars => (sharedPops \/ PathsInv)'
  BY PathsKeep
<1>3. GraphInv /\ (sharedPops \/ PathsInv) => sharedPops \/ EveryPathOnce
  <2> SUFFICES ASSUME TypesOK, Sound, PathsInv PROVE EveryPathOnce
    BY DEF GraphInv
  <2>1. Len(considered) = Cardinality(ToSet(considered))
    BY DistinctLength DEF PathsInv
  <2>2. ASSUME pc = "reduce" PROVE ToSet(considered) = ToSet(PathsOfAll(gss, topmostParsers, {}))
    <3>1. StackOK(gss, tables, topmostParsers, prevTopmost)
      BY DEF Sound
    <3>2. \A x : x \in ToSet(considered) <=> IsPathOfAll(gss, topmostParsers, {}, x)
      BY <2>2 DEF PathsInv
    <3>3. \A x : x \in ToSet(PathsOfAll(gss, topmostParsers, {})) <=> IsPathOfAll(gss, topmostParsers, {}, x)
      BY <3>1, SearchExact
    <3> QED BY <3>2, <3>3
  <2> QED BY <2>1, <2>2 DEF EveryPathOnce
<1> QED BY <1>1, <1>2, <1>3, GraphHolds, PTL DEF Spec
=============================================================================
