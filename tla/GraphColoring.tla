---------------------------- MODULE GraphColoring ----------------------------
(***************************************************************************)
(* ParseTables::colorTheGraph (elkhound/parsetables.cc): a greedy coloring *)
(* of the graph of table columns, or rows, that may not share storage.     *)
(* Each round takes the uncolored node with the most colored neighbors,    *)
(* then the fewest uncolored ones, and gives it the lowest color that no   *)
(* neighbor has, found by a scan of the neighbors' sorted colors.          *)
(***************************************************************************)
EXTENDS Integers, Sequences, FiniteSets

CONSTANT Graphs     \* the graphs colored, on nodes 0..n-1: symmetric sets of edges <<i, j>>

UNASSIGNED == -1

GraphOK(g) ==
    /\ g.n \in Nat
    /\ \A e \in g.edges : <<e[2], e[1]>> \in g.edges
    /\ \A i \in 0..(g.n - 1) : <<i, i>> \notin g.edges
GraphsOK == \A g \in Graphs : GraphOK(g)

VARIABLES
    graph, color, blocked, usedColors,
    best,      \* the node of this round, UNASSIGNED between rounds
    adjColor,  \* its colored neighbors' colors, in ascending order
    j,         \* the scan's place in adjColor
    selColor,  \* the color the scan has come to
    pc         \* "choose", "scan", "assign" or "done"

vars == <<graph, color, blocked, usedColors, best, adjColor, j, selColor, pc>>

-----------------------------------------------------------------------------
N    == graph.n
Node == 0..(N - 1)
Adjacent(n)        == {k \in Node : <<n, k>> \in graph.edges}
degree(n)          == Cardinality(Adjacent(n))
Colored            == {n \in Node : color[n] # UNASSIGNED}
ColoredNeighbors(n) == Adjacent(n) \cap Colored
unblocked(n)       == degree(n) - blocked[n]

\* a is taken before b: more constrained, or as much and less constraining;
\* the loop keeps the first of equals
GoesBefore(a, b) ==
    \/ blocked[a] > blocked[b]
    \/ blocked[a] = blocked[b] /\ unblocked(a) < unblocked(b)
    \/ blocked[a] = blocked[b] /\ unblocked(a) = unblocked(b) /\ a < b

IsBest(n) == n \notin Colored /\ \A k \in Node \ (Colored \cup {n}) : GoesBefore(n, k)

\* s holds the colors of the nodes of S, once for each node
ColorsOf(s, S) ==
    LET colors == {color[n] : n \in S} IN
    /\ \A i \in DOMAIN s : s[i] \in colors
    /\ \A c \in colors :
          Cardinality({i \in DOMAIN s : s[i] = c}) = Cardinality({n \in S : color[n] = c})

\* (variation: the array is not sorted)
Sorted_not(s) == TRUE
Sorted(s)     == \A a, b \in DOMAIN s : a < b => s[a] <= s[b]

Init ==
    /\ graph \in Graphs
    /\ color = [n \in Node |-> UNASSIGNED]
    /\ blocked = [n \in Node |-> 0]
    /\ usedColors = 0
    /\ best = UNASSIGNED /\ adjColor = <<>> /\ j = 1 /\ selColor = 0
    /\ pc = IF N = 0 THEN "done" ELSE "choose"

\* (variation: the scan begins at the first color that was never used)
FirstColor_unused == usedColors
FirstColor        == 0

\* the next node, and its neighbors' colors collected and sorted; adjColor has
\* room for blocked[best] of them
Choose ==
    /\ pc = "choose"
    /\ \E n \in Node :
        /\ IsBest(n)
        /\ best' = n
        /\ \E s \in [1..blocked[n] -> 0..(N - 1)] :
              Sorted(s) /\ ColorsOf(s, ColoredNeighbors(n)) /\ adjColor' = s
    /\ j' = 1 /\ selColor' = FirstColor
    /\ pc' = "scan"
    /\ UNCHANGED <<graph, color, blocked, usedColors>>

\* one iteration of the scan: a neighbor has the color, a neighbor's color is
\* beyond it, or two neighbors have the same
Scan ==
    /\ pc = "scan"
    /\ IF j > Len(adjColor) THEN pc' = "assign" /\ UNCHANGED <<j, selColor>>
       ELSE IF selColor = adjColor[j]
            THEN j' = j + 1 /\ selColor' = selColor + 1 /\ UNCHANGED pc
       ELSE IF selColor < adjColor[j]
            THEN pc' = "assign" /\ UNCHANGED <<j, selColor>>
       ELSE j' = j + 1 /\ UNCHANGED <<selColor, pc>>
    /\ UNCHANGED <<graph, color, blocked, usedColors, best, adjColor>>

Blocks(k) == k \in Adjacent(best)

ColorsUsed == IF selColor + 1 > usedColors THEN selColor + 1 ELSE usedColors

Assign ==
    /\ pc = "assign"
    /\ color' = [color EXCEPT ![best] = selColor]
    /\ usedColors' = ColorsUsed
    /\ blocked' = [k \in Node |-> IF Blocks(k) THEN blocked[k] + 1 ELSE blocked[k]]
    /\ pc' = IF Colored \cup {best} = Node THEN "done" ELSE "choose"
    /\ best' = UNASSIGNED /\ adjColor' = <<>> /\ j' = 1 /\ selColor' = 0
    /\ UNCHANGED graph

Done == pc = "done" /\ UNCHANGED vars

Next == Choose \/ Scan \/ Assign \/ Done

Spec == Init /\ [][Next]_vars

-----------------------------------------------------------------------------

\* Nodes that conflict never have the same color: no two columns or rows with
\* different entries are stored in one.
Proper ==
    \A a, b \in Colored : <<a, b>> \in graph.edges => color[a] # color[b]

\* The color a node gets is the lowest that none of its neighbors has, although
\* the scan compares it with one neighbor at a time.
LowestFree ==
    pc = "assign" =>
        LET taken == {color[n] : n \in ColoredNeighbors(best)} IN
        /\ selColor \notin taken
        /\ \A c \in 0..(selColor - 1) : c \in taken

=============================================================================
