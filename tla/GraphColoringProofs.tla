------------------------- MODULE GraphColoringProofs -------------------------
(***************************************************************************)
(* For every graph: nodes that conflict never get the same color, and a    *)
(* node gets the lowest color that its neighbors leave free.  The scan     *)
(* looks at one neighbor at a time; what makes it right is that everything *)
(* before its place is below the color it has come to, and that the        *)
(* colors are in order.                                                    *)
(***************************************************************************)
EXTENDS GraphColoring, FiniteSetTheorems, TLAPS

Taken == {color[n] : n \in ColoredNeighbors(best)}

\* the array holds the neighbors' colors, in order
AdjInv ==
    /\ best \in Node /\ best \notin Colored
    /\ adjColor = [i \in 1..Len(adjColor) |-> adjColor[i]]
    /\ Len(adjColor) \in Nat
    /\ \A i \in 1..Len(adjColor) : adjColor[i] \in Taken \cap Nat
    /\ \A c \in Taken : \E i \in 1..Len(adjColor) : adjColor[i] = c
    /\ Sorted(adjColor)

\* what lies before the scan's place, and nothing else, is below selColor
ScanInv ==
    /\ j \in 1..(Len(adjColor) + 1)
    /\ \A i \in 1..(j - 1) : adjColor[i] < selColor
    /\ \A c \in 0..(selColor - 1) : c \in Taken

Inv ==
    /\ GraphOK(graph)
    /\ color \in [Node -> Nat \cup {UNASSIGNED}]
    /\ blocked \in [Node -> Nat]
    /\ selColor \in Nat
    /\ pc \in {"scan", "assign"} => AdjInv
    /\ pc = "scan" => ScanInv
    /\ LowestFree
    /\ Proper

-----------------------------------------------------------------------------
LEMMA NodesFinite == Inv => N \in Nat /\ IsFiniteSet(Node)
<1> SUFFICES ASSUME Inv PROVE N \in Nat /\ IsFiniteSet(Node)
  OBVIOUS
<1>1. N \in Nat
  BY DEF Inv, GraphOK, N
<1> QED BY <1>1, FS_Interval DEF Node

LEMMA InitInv == GraphsOK /\ Init => Inv
<1> SUFFICES ASSUME GraphsOK, Init PROVE Inv
  OBVIOUS
<1>1. GraphOK(graph) /\ pc \in {"done", "choose"} /\ selColor = 0
      /\ blocked \in [Node -> Nat]
  BY DEF Init, GraphsOK
<1>2. color \in [Node -> Nat \cup {UNASSIGNED}] /\ Colored = {}
  BY DEF Init, Colored, UNASSIGNED
<1> QED BY <1>1, <1>2 DEF Inv, Proper, LowestFree

LEMMA ChooseInv == Inv /\ Choose => Inv'
<1> SUFFICES ASSUME Inv, Choose PROVE Inv'
  OBVIOUS
<1>1. UNCHANGED <<graph, color, blocked>> /\ j' = 1 /\ selColor' = 0 /\ pc' = "scan"
  BY DEF Choose, FirstColor
<1>2. PICK n \in Node : /\ IsBest(n) /\ best' = n
                        /\ \E s \in [1..blocked[n] -> 0..(N - 1)] :
                              Sorted(s) /\ ColorsOf(s, ColoredNeighbors(n)) /\ adjColor' = s
  BY DEF Choose
<1>3. PICK s \in [1..blocked[n] -> 0..(N - 1)] :
              Sorted(s) /\ ColorsOf(s, ColoredNeighbors(n)) /\ adjColor' = s
  BY <1>2
<1>4. blocked[n] \in Nat /\ Len(s) = blocked[n] /\ DOMAIN s = 1..Len(s)
      /\ s = [i \in 1..Len(s) |-> s[i]] /\ \A i \in 1..Len(s) : s[i] \in Nat
  BY <1>3, NodesFinite DEF Inv
<1>5. ColoredNeighbors(n)' = ColoredNeighbors(n) /\ Colored' = Colored
  BY <1>1 DEF ColoredNeighbors, Adjacent, Colored, Node, N
<1>5a. Node' = Node
  BY <1>1 DEF Node, N
<1>6. Taken' = {color[k] : k \in ColoredNeighbors(n)}
  BY <1>1, <1>2, <1>5 DEF Taken
<1>7. IsFiniteSet(ColoredNeighbors(n))
  BY NodesFinite, FS_Subset DEF ColoredNeighbors, Adjacent, Colored
<1>8. \A c \in Taken' : \E i \in 1..Len(s) : s[i] = c
  <2> SUFFICES ASSUME NEW c \in Taken' PROVE \E i \in 1..Len(s) : s[i] = c
    OBVIOUS
  <2>1. PICK k \in ColoredNeighbors(n) : c = color[k]
    BY <1>6
  <2> DEFINE Places == {i \in DOMAIN s : s[i] = color[k]}
             Nodes  == {q \in ColoredNeighbors(n) : color[q] = color[k]}
  <2>2. Cardinality(Places) = Cardinality(Nodes)
    BY <1>3, <2>1 DEF ColorsOf
  <2>3. IsFiniteSet(Nodes) /\ Nodes # {}
    BY <1>7, <2>1, FS_Subset
  <2>4. Cardinality(Nodes) # 0
    <3> HIDE DEF Nodes
    <3> QED BY <2>3, FS_EmptySet
  <2>5. Places # {}
    <3> HIDE DEF Places
    <3> QED BY <2>2, <2>4, FS_EmptySet
  <2> QED BY <1>4, <2>1, <2>5
<1>9. \A i \in 1..Len(s) : s[i] \in Taken' \cap Nat
  BY <1>3, <1>4, <1>6 DEF ColorsOf
<1>10. AdjInv'
  BY <1>2, <1>3, <1>4, <1>5, <1>5a, <1>8, <1>9 DEF AdjInv, IsBest
<1>11. ScanInv'
  BY <1>1, <1>3, <1>4 DEF ScanInv
<1> QED BY <1>1, <1>5, <1>5a, <1>10, <1>11 DEF Inv, GraphOK, LowestFree, Proper

LEMMA ScanKeepsInv == Inv /\ Scan => Inv'
<1> SUFFICES ASSUME Inv, Scan PROVE Inv'
  OBVIOUS
<1>1. UNCHANGED <<graph, color, blocked, best, adjColor>> /\ AdjInv /\ ScanInv
  BY DEF Scan, Inv
<1>2. UNCHANGED <<Taken, Colored, Node>>
  BY <1>1 DEF Taken, ColoredNeighbors, Adjacent, Colored, Node, N
<1>3. AdjInv'
  BY <1>1, <1>2 DEF AdjInv, Sorted
<1>4. CASE j > Len(adjColor)
  <2>1. pc' = "assign" /\ UNCHANGED <<j, selColor>>
    BY <1>4 DEF Scan
  <2>2. \A i \in 1..Len(adjColor) : adjColor[i] < selColor
    BY <1>1, <1>4 DEF ScanInv, AdjInv
  <2>3. selColor \notin Taken
    BY <1>1, <2>2 DEF AdjInv, Inv
  <2> QED BY <1>1, <1>2, <1>3, <2>1, <2>3 DEF Inv, LowestFree, Proper, ScanInv, Taken
<1>5. CASE j <= Len(adjColor) /\ selColor = adjColor[j]
  <2>1. pc' = "scan" /\ j' = j + 1 /\ selColor' = selColor + 1
    BY <1>1, <1>5 DEF Scan, ScanInv, AdjInv
  <2>2. j \in 1..Len(adjColor) /\ selColor \in Taken
    BY <1>1, <1>5 DEF ScanInv, AdjInv
  <2>3. j' \in 1..(Len(adjColor) + 1) /\ selColor' \in Nat
    BY <2>1, <2>2, <1>1 DEF Inv, AdjInv
  <2>4. \A i \in 1..(j' - 1) : adjColor[i] < selColor'
    <3> SUFFICES ASSUME NEW i \in 1..(j' - 1) PROVE adjColor[i] < selColor'
      OBVIOUS
    <3>1. CASE i = j
      BY <1>5, <2>1, <3>1 DEF Inv
    <3>2. CASE i # j
      <4>1. i \in 1..(j - 1) /\ i \in 1..Len(adjColor)
        BY <2>1, <2>2, <3>2, <1>1 DEF AdjInv
      <4> QED BY <1>1, <2>1, <4>1 DEF ScanInv, AdjInv, Inv
    <3> QED BY <3>1, <3>2
  <2>5. \A c \in 0..(selColor' - 1) : c \in Taken'
    BY <1>1, <1>2, <2>1, <2>2 DEF ScanInv, Inv
  <2> QED BY <1>1, <1>2, <1>3, <2>1, <2>3, <2>4, <2>5 DEF Inv, LowestFree, Proper, ScanInv
<1>6. CASE j <= Len(adjColor) /\ selColor < adjColor[j]
  <2>1. j \in 1..Len(adjColor) /\ adjColor[j] \in Nat
    BY <1>1, <1>6 DEF ScanInv, AdjInv
  <2>2. pc' = "assign" /\ UNCHANGED <<j, selColor>>
    BY <1>1, <1>6, <2>1 DEF Scan, Inv, AdjInv
  <2>3. \A i \in 1..Len(adjColor) : adjColor[i] # selColor
    <3> SUFFICES ASSUME NEW i \in 1..Len(adjColor) PROVE adjColor[i] # selColor
      OBVIOUS
    <3>1. adjColor[i] \in Nat
      BY <1>1 DEF AdjInv
    <3>2. CASE i < j
      BY <1>1, <3>1, <3>2 DEF ScanInv, Inv
    <3>3. CASE i = j
      BY <1>6, <2>1, <3>3 DEF Inv
    <3>4. CASE i > j
      <4>1. adjColor[j] <= adjColor[i]
        BY <1>1, <2>1, <3>4 DEF AdjInv, Sorted
      <4> QED BY <1>6, <2>1, <3>1, <4>1 DEF Inv
    <3> QED BY <2>1, <3>2, <3>3, <3>4
  <2>4. selColor \notin Taken
    BY <1>1, <2>3 DEF AdjInv
  <2> QED BY <1>1, <1>2, <1>3, <2>2, <2>4 DEF Inv, LowestFree, Proper, ScanInv, Taken
<1>7. CASE j <= Len(adjColor) /\ selColor > adjColor[j]
  <2>1. j \in 1..Len(adjColor) /\ adjColor[j] \in Nat
    BY <1>1, <1>7 DEF ScanInv, AdjInv
  <2>2. pc' = "scan" /\ j' = j + 1 /\ selColor' = selColor
    BY <1>1, <1>7, <2>1 DEF Scan, Inv, AdjInv
  <2>3. \A i \in 1..(j' - 1) : adjColor[i] < selColor'
    <3> SUFFICES ASSUME NEW i \in 1..(j' - 1) PROVE adjColor[i] < selColor'
      OBVIOUS
    <3>1. CASE i = j
      BY <1>7, <2>1, <2>2, <3>1 DEF Inv
    <3>2. CASE i # j
      <4>1. i \in 1..(j - 1)
        BY <2>1, <2>2, <3>2, <1>1 DEF AdjInv
      <4> QED BY <1>1, <2>2, <4>1 DEF ScanInv
    <3> QED BY <3>1, <3>2
  <2>4. j' \in 1..(Len(adjColor') + 1)
    BY <1>1, <2>1, <2>2 DEF AdjInv
  <2> QED BY <1>1, <1>2, <1>3, <2>2, <2>3, <2>4 DEF Inv, LowestFree, Proper, ScanInv
<1>8. j \in 1..(Len(adjColor) + 1) /\ Len(adjColor) \in Nat
  BY <1>1 DEF ScanInv, AdjInv
<1>9. j <= Len(adjColor) => adjColor[j] \in Nat
  BY <1>1, <1>8 DEF AdjInv
<1> QED BY <1>4, <1>5, <1>6, <1>7, <1>8, <1>9 DEF Inv

LEMMA AssignInv == Inv /\ Assign => Inv'
<1> SUFFICES ASSUME Inv, Assign PROVE Inv'
  OBVIOUS
<1>1. /\ best \in Node \ Colored /\ pc = "assign" /\ pc' \in {"done", "choose"}
      /\ color' = [color EXCEPT ![best] = selColor] /\ selColor' = 0
      /\ graph' = graph /\ selColor \in Nat /\ selColor \notin Taken
  BY DEF Assign, Inv, AdjInv, LowestFree, Taken
<1>1a. Node' = Node
  BY <1>1 DEF Node, N
<1>2. color' \in [Node' -> Nat \cup {UNASSIGNED}]
  BY <1>1, <1>1a DEF Inv
<1>3. blocked' \in [Node' -> Nat]
  BY <1>1a DEF Assign, Inv
<1>4. Colored' = Colored \cup {best}
  BY <1>1, <1>1a DEF Colored, Inv, UNASSIGNED
<1>5. \A n \in Colored : color'[n] = color[n] /\ n # best
  BY <1>1 DEF Colored, Inv
<1>6. color'[best] = selColor
  BY <1>1 DEF Inv
<1>7. \A n \in Colored : <<best, n>> \in graph.edges => color[n] # selColor
  BY <1>1 DEF Taken, ColoredNeighbors, Adjacent, Colored
<1>8. \A n \in Colored : <<n, best>> \in graph.edges => <<best, n>> \in graph.edges
  BY <1>1 DEF Inv, GraphOK
<1>9. <<best, best>> \notin graph.edges
  BY <1>1 DEF Inv, GraphOK, Node, N
<1>10. Proper'
  <2> SUFFICES ASSUME NEW a \in Colored', NEW b \in Colored', <<a, b>> \in graph.edges'
               PROVE  color'[a] # color'[b]
    BY DEF Proper
  <2>1. CASE a \in Colored /\ b \in Colored
    BY <1>1, <1>5, <2>1 DEF Inv, Proper
  <2>2. CASE a = best /\ b \in Colored
    BY <1>1, <1>5, <1>6, <1>7, <2>2
  <2>3. CASE a \in Colored /\ b = best
    BY <1>1, <1>5, <1>6, <1>7, <1>8, <2>3
  <2>4. CASE a = best /\ b = best
    BY <1>1, <1>9, <2>4
  <2> QED BY <1>4, <2>1, <2>2, <2>3, <2>4
<1> QED BY <1>1, <1>2, <1>3, <1>10 DEF Inv, LowestFree

LEMMA NextInv == Inv /\ [Next]_vars => Inv'
<1> SUFFICES ASSUME Inv, [Next]_vars PROVE Inv'
  OBVIOUS
<1>1. CASE Choose
  BY <1>1, ChooseInv
<1>2. CASE Scan
  BY <1>2, ScanKeepsInv
<1>3. CASE Assign
  BY <1>3, AssignInv
<1>4. CASE UNCHANGED vars
  <2>1. UNCHANGED <<graph, color, blocked, selColor, best, adjColor, j, pc>>
    BY <1>4 DEF vars
  <2>2. UNCHANGED <<Colored, Taken, Node>>
    BY <2>1 DEF Taken, ColoredNeighbors, Adjacent, Colored, Node, N
  <2>3. AdjInv => AdjInv'
    BY <2>1, <2>2 DEF AdjInv, Sorted
  <2>4. ScanInv => ScanInv'
    BY <2>1, <2>2 DEF ScanInv
  <2>5. Proper'
    BY <2>1, <2>2 DEF Inv, Proper
  <2>6. LowestFree'
    BY <2>1, <2>2 DEF Inv, LowestFree, Taken
  <2> QED BY <2>1, <2>2, <2>3, <2>4, <2>5, <2>6 DEF Inv, GraphOK
<1> QED BY <1>1, <1>2, <1>3, <1>4 DEF Next, Done

\* No two columns, or rows, with different entries are stored in one.
THEOREM ColoringIsProper == GraphsOK /\ Spec => []Proper
<1>1. Inv => Proper
  BY DEF Inv
<1> QED BY InitInv, NextInv, <1>1, PTL DEF Spec

\* The scan of the sorted neighbors ends at the lowest color that is free.
THEOREM ColorIsLowest == GraphsOK /\ Spec => []LowestFree
<1>1. Inv => LowestFree
  BY DEF Inv
<1> QED BY InitInv, NextInv, <1>1, PTL DEF Spec
=============================================================================
