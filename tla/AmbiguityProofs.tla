-------------------------- MODULE AmbiguityProofs --------------------------
(***************************************************************************)
(* Errors come out in the order of the root's steps, and an assertion is   *)
(* blamed on the input exactly if an error had been reported outside of    *)
(* any attempt, for every program: proofs about Ambiguity.                 *)
(*                                                                         *)
(* Error lists are put aside and taken back at every attempt, and a frame  *)
(* far below may be given errors as well (hiddenErrors).  What holds of    *)
(* every list is that it belongs to one step of the root's script, unless  *)
(* it is the outermost one.  Of the way out of a failed assertion it holds *)
(* that the lists outside of any attempt keep what they are to tell.       *)
(***************************************************************************)
EXTENDS Ambiguity, TLAPS, SequenceTheorems, WellFoundedInduction

(* The inductive invariant *)

Nodes(p) == DOMAIN p.body
Cut(s, n) == SubSeq(s, 1, n)
Under(s) == Cut(s, Len(s) - 1)
TopOf(s) == s[Len(s)]
Now(s) == s[1].at   \* where the root's script is
Keeps(s, t) == \A i \in 1..Len(s) : t[i] = s[i]
Given(s, h, x) == [s EXCEPT ![h] = [s[h] EXCEPT !.saved = s[h].saved \o x]]
SameKinds(s, t) == \A i \in 1..Len(s) : t[i].kind = s[i].kind

\* the errors of one step of the root's script; b: some may be marked as the errors
\* of an attempt
Whats == {"lookup", "complain", "isolated", "modified", "note", "several"}
Errs(b) == [what : Whats, disamb : BOOLEAN, fromDisamb : {FALSE, b}, step : Nat, by : Nat \X Nat]
ErrsAt(c, b) == {e \in Errs(b) : e.step = c}

BodyFrames(p) ==
    {f \in [kind : {"body"}, slot : Nat, node : Nodes(p), at : Nat \ {0}, upTo : Nat] :
        f.at <= f.upTo + 1 /\ f.upTo <= Len(p.body[f.node])}
Specials(p) == \E n \in DOMAIN p.mode : p.mode[n] \in {"special", "specialSwapped"}
ResolveFrames(p, b) ==
    {f \in [kind : {"resolve"}, slot : Nat, node : Nodes(p), alt : Nodes(p) \cup {NULL},
            saved : Seq(Errs(b)), altErrors : Seq(Seq(Errs(b))), ok : Seq(Nodes(p) \X Nat),
            before : Nat, priority : BOOLEAN] :
        \A i \in 1..Len(f.ok) : f.ok[i][2] \in 1..Len(f.altErrors)}
SpecialFrames(p, b) ==
    {f \in [kind : {"special"}, slot : Nat, node : Nodes(p), call : Nodes(p), ctor : Nodes(p),
            alt : Nodes(p), saved : Seq(Errs(b)), callErrors : Seq(Errs(b))] :
        /\ Specials(p)
        /\ p.body[f.call] # <<>> /\ p.body[f.ctor] # <<>>
        /\ f.alt \in {f.call, f.ctor}}
InstantiateFrames(b) == [kind : {"instantiate"}, at : Nat \ {0}, saved : Seq(Errs(b)), nesting : Int]
Frames(p, b) == BodyFrames(p) \cup ResolveFrames(p, b) \cup SpecialFrames(p, b) \cup InstantiateFrames(b)

\* what a list that lies on top of the frames s may contain
Sorted(list) == \A i, j \in 1..Len(list) : i < j => list[i].step <= list[j].step
Bounded(list, s) == s # <<>> => \A i \in 1..Len(list) : list[i].step <= Now(s)
Trapped(s) == \E k \in 1..Len(s) : IsTraps(s[k])
ListsFor(s, b) ==
    IF Trapped(s) THEN Seq(ErrsAt(Now(s), b))
    ELSE {list \in Seq(Errs(b)) : Sorted(list) /\ Bounded(list, s)}
Allows(s, t, b) == ListsFor(t, b) \subseteq ListsFor(s, b)

\* what a frame that lies on top of the frames s has put aside
FrameGood(f, s, b) ==
    /\ IsTraps(f) => f.saved \in ListsFor(s, b)
    /\ f.kind = "resolve" => f.altErrors \in Seq(Seq(ErrsAt(Now(s), b)))
    /\ f.kind = "special" => f.callErrors \in Seq(ErrsAt(Now(s), b))

Waiting(f) == f.kind = "resolve" => f.alt # NULL

StackGood(s, p, b) ==
    /\ s \in Seq(Frames(p, b))
    /\ s # <<>> => s[1].kind = "body"
    /\ \A j \in 2..Len(s) : FrameGood(s[j], Cut(s, j - 1), b)
    /\ \A j \in 1..(Len(s) - 1) : Waiting(s[j])

\* hiddenErrors points to what the outermost attempt has put aside
HiddenGood(s, h) ==
    /\ h = NULL => \A k \in 1..Len(s) : s[k].kind # "resolve"
    /\ h # NULL => /\ h \in 1..Len(s) /\ s[h].kind = "resolve"
                   /\ \A k \in 1..(h - 1) : s[k].kind # "resolve"

NonEmptyLinks(p, links) ==
    Specials(p) => \A n \in Nodes(p) : links[n] # NULL => p.body[n] # <<>> /\ p.body[links[n]] # <<>>

TypeInv ==
    /\ ast \in Programs
    /\ ambiguity \in [Nodes(ast) -> {NULL} \cup Nodes(ast)]
    /\ NonEmptyLinks(ast, ambiguity)
    /\ slot \in [DOMAIN ast.slot -> Nodes(ast)]
    /\ changeCount \in Nat /\ nesting \in Int /\ throwing \in BOOLEAN

\* the frames s, the list e of errors and hiddenErrors h
Whole(s, e, h, p, b) == StackGood(s, p, b) /\ e \in ListsFor(s, b) /\ HiddenGood(s, h)

ListInv == Whole(stack, errors, hidden, ast, throwing)

OrderInv == TypeInv /\ ListInv

-----------------------------------------------------------------------------
(* Sequences, and the lists of errors *)

\* The first n elements of a sequence.
LEMMA CutFacts ==
    ASSUME NEW F, NEW s \in Seq(F), NEW n \in 0..Len(s)
    PROVE  /\ Cut(s, n) \in Seq(F) /\ Len(Cut(s, n)) = n
           /\ \A i \in 1..n : Cut(s, n)[i] = s[i]
           /\ \A m \in 0..n : Cut(Cut(s, n), m) = Cut(s, m)
<1>1. Cut(s, n) \in Seq(F) /\ Len(Cut(s, n)) = n /\ \A i \in 1..n : Cut(s, n)[i] = s[i]
  BY SubSeqProperties, ElementOfSeq DEF Cut
<1>2. ASSUME NEW m \in 0..n
      PROVE  Cut(Cut(s, n), m) = Cut(s, m)
  <2>1. /\ Cut(s, m) \in Seq(F) /\ Len(Cut(s, m)) = m
        /\ \A i \in 1..m : Cut(s, m)[i] = s[i]
    BY SubSeqProperties, ElementOfSeq DEF Cut
  <2>2. /\ Cut(Cut(s, n), m) \in Seq(F) /\ Len(Cut(Cut(s, n), m)) = m
        /\ \A i \in 1..m : Cut(Cut(s, n), m)[i] = Cut(s, n)[i]
    <3> DEFINE t == Cut(s, n)
    <3>1. t \in Seq(F) /\ m \in 0..Len(t)
      BY <1>1
    <3> HIDE DEF t
    <3>2. Cut(t, m) \in Seq(F) /\ Len(Cut(t, m)) = m /\ \A i \in 1..m : Cut(t, m)[i] = t[i]
      BY <3>1, SubSeqProperties, ElementOfSeq DEF Cut
    <3> QED BY <3>2 DEF t
  <2>3. \A i \in 1..m : Cut(Cut(s, n), m)[i] = Cut(s, m)[i]
    BY <1>1, <2>1, <2>2
  <2> QED BY <2>1, <2>2, <2>3, SeqEqual
<1> QED BY <1>1, <1>2

\* One element on top.
LEMMA AppendFacts ==
    ASSUME NEW F, NEW s \in Seq(F), NEW f \in F
    PROVE  /\ Append(s, f) \in Seq(F) /\ Len(Append(s, f)) = Len(s) + 1
           /\ \A i \in 1..Len(s) : Append(s, f)[i] = s[i]
           /\ Append(s, f)[Len(s) + 1] = f
           /\ \A m \in 0..Len(s) : Cut(Append(s, f), m) = Cut(s, m)
<1>1. /\ Append(s, f) \in Seq(F) /\ Len(Append(s, f)) = Len(s) + 1
      /\ \A i \in 1..Len(s) : Append(s, f)[i] = s[i]
      /\ Append(s, f)[Len(s) + 1] = f
  OBVIOUS
<1>2. ASSUME NEW m \in 0..Len(s)
      PROVE  Cut(Append(s, f), m) = Cut(s, m)
  <2>1. /\ Cut(Append(s, f), m) \in Seq(F) /\ Len(Cut(Append(s, f), m)) = m
        /\ \A i \in 1..m : Cut(Append(s, f), m)[i] = Append(s, f)[i]
    <3> DEFINE t == Append(s, f)
    <3>1. t \in Seq(F) /\ m \in 0..Len(t)
      BY <1>1
    <3> HIDE DEF t
    <3>2. Cut(t, m) \in Seq(F) /\ Len(Cut(t, m)) = m /\ \A i \in 1..m : Cut(t, m)[i] = t[i]
      BY <3>1, CutFacts
    <3> QED BY <3>2 DEF t
  <2>2. Cut(s, m) \in Seq(F) /\ Len(Cut(s, m)) = m /\ \A i \in 1..m : Cut(s, m)[i] = s[i]
    BY CutFacts
  <2> QED BY <1>1, <2>1, <2>2, SeqEqual
<1> QED BY <1>1, <1>2

LEMMA Least ==
    ASSUME NEW S \in SUBSET Nat, S # {}
    PROVE  \E m \in S : \A n \in S : m <= n
<1> DEFINE R == OpToRel(<, Nat)
<1>1. IsWellFoundedOn(R, Nat)
  BY NatLessThanWellFounded
<1>2. PICK m \in S : \A n \in S : <<n, m>> \notin R
  <2> HIDE DEF R
  <2> QED BY <1>1, WFMin
<1>3. \A n \in S : ~(n < m)
  BY <1>2 DEF OpToRel
<1> QED BY <1>3

\* Lists of elements of S, put together, are a list of elements of S.
LEMMA FlattenInSeq ==
    ASSUME NEW S, NEW ss \in Seq(Seq(S))
    PROVE  FlattenSeq(ss) \in Seq(S)
<1> DEFINE n == Len(ss)
           Is(f, m) == f = [i \in 1..m |-> IF i = 1 THEN ss[i] ELSE f[i - 1] \o ss[i]]
           Missing == {m \in 0..n : ~\E f : Is(f, m)}
<1>1. n \in Nat /\ \A i \in 1..n : ss[i] \in Seq(S)
  BY LenProperties, ElementOfSeq
<1>5. CASE n = 0
  BY <1>5 DEF FlattenSeq
<1>6. FlattenSeq(ss) = IF n = 0 THEN ss ELSE (CHOOSE f : Is(f, n))[n]
  BY Zenon DEF FlattenSeq
<1> HIDE DEF n
<1>2. ASSUME NEW m \in 1..n, NEW f, Is(f, m - 1)
      PROVE  \E g : Is(g, m)
  <2> DEFINE g == [i \in 1..m |-> IF i = 1 THEN ss[i]
                                  ELSE IF i = m THEN f[m - 1] \o ss[m] ELSE f[i - 1] \o ss[i]]
  <2>0. m \in Nat \ {0} /\ \A i \in 1..(m - 1) : f[i] = IF i = 1 THEN ss[i] ELSE f[i - 1] \o ss[i]
    <3>1. m \in Nat \ {0}
      BY <1>1, <1>2
    <3>2. \A i \in 1..(m - 1) : f[i] = IF i = 1 THEN ss[i] ELSE f[i - 1] \o ss[i]
      BY <1>2
    <3> QED BY <3>1, <3>2
  <2>1. \A i \in 1..(m - 1) : g[i] = f[i]
    BY <2>0
  <2>2. \A i \in 1..m : g[i] = IF i = 1 THEN ss[i] ELSE g[i - 1] \o ss[i]
    BY <2>0, <2>1
  <2>3. DOMAIN g = 1..m /\ g = [i \in 1..m |-> g[i]]
    OBVIOUS
  <2> HIDE DEF g
  <2> QED BY <2>2, <2>3
<1>3. \E f : Is(f, n)
  <2>1. \E f : Is(f, 0)
    <3> DEFINE e == [i \in 1..0 |-> 0]
    <3>1. Is(e, 0)
      OBVIOUS
    <3> QED BY <3>1
  <2> HIDE DEF Is
  <2>7. n \in 0..n
    BY <1>1
  <2>2. SUFFICES ASSUME Missing # {} PROVE FALSE
    BY <2>7
  <2>3. PICK m \in Missing : \A k \in Missing : m <= k
    <3>1. Missing \in SUBSET Nat
      BY <1>1
    <3> HIDE DEF Missing
    <3> QED BY <2>2, <3>1, Least
  <2>4. m \in 1..n /\ m - 1 \in 0..n /\ m - 1 \notin Missing
    BY <1>1, <2>1, <2>3
  <2>5. PICK f : Is(f, m - 1)
    BY <1>1, <2>4
  <2>6. \E g : Is(g, m)
    BY <1>2, <2>4, <2>5
  <2> QED BY <1>1, <2>3, <2>6
<1>4. CASE n # 0
  <2> DEFINE flatten == CHOOSE f : Is(f, n)
  <2>1. Is(flatten, n)
    <3> HIDE DEF Is
    <3> QED BY <1>3
  <2>2. FlattenSeq(ss) = flatten[n]
    BY <1>4, <1>6
  <2> HIDE DEF flatten
  <2> DEFINE Bad == {m \in 1..n : flatten[m] \notin Seq(S)}
  <2>3. Bad = {}
    <3>1. SUFFICES ASSUME Bad # {} PROVE FALSE
      OBVIOUS
    <3>2. PICK m \in Bad : \A k \in Bad : m <= k
      <4>1. Bad \in SUBSET Nat
        BY <1>1
      <4> HIDE DEF Bad
      <4> QED BY <3>1, <4>1, Least
    <3>3. flatten[m] = IF m = 1 THEN ss[m] ELSE flatten[m - 1] \o ss[m]
      BY <1>1, <2>1, <3>2
    <3>4. ss[m] \in Seq(S)
      BY <1>1, <3>2
    <3>5. m # 1 => flatten[m - 1] \in Seq(S)
      BY <1>1, <3>2
    <3>6. m # 1 => flatten[m - 1] \o ss[m] \in Seq(S)
      <4> HIDE DEF Bad
      <4> QED BY <3>4, <3>5, ConcatProperties
    <3>7. flatten[m] \in Seq(S)
      <4> HIDE DEF Bad
      <4> QED BY <3>3, <3>4, <3>6
    <3> QED BY <3>2, <3>7
  <2> QED BY <1>1, <1>4, <2>2, <2>3
<1> QED BY <1>4, <1>5

USE DEF TopOf, Now

\* Errors of the current step go to any list.
LEMMA TakeBack ==
    ASSUME NEW b \in BOOLEAN, NEW s, s # <<>>, NEW a \in ListsFor(s, b),
           NEW x \in Seq(ErrsAt(Now(s), b))
    PROVE  /\ x \in ListsFor(s, b) /\ a \o x \in ListsFor(s, b)
           /\ a \in Seq(Errs(b)) /\ x \in Seq(Errs(b))
<1> DEFINE E == ErrsAt(Now(s), b)
<1>1. E \subseteq Errs(b) /\ \A e \in E : e.step = Now(s)
  BY DEF ErrsAt
<1>2. \A e \in Errs(b) : e.step \in Nat
  BY DEF Errs
<1>3. x \in Seq(E)
  OBVIOUS
<1> HIDE DEF E
<1>4. x \in Seq(Errs(b)) /\ Len(x) \in Nat /\ \A i \in 1..Len(x) : x[i] \in E
  BY <1>1, <1>3, SeqMonotonic, ElementOfSeq, LenProperties
<1>5. CASE Trapped(s)
  <2>1. ListsFor(s, b) = Seq(E)
    BY <1>5 DEF ListsFor, E
  <2> QED BY <1>1, <1>3, <1>4, <2>1, SeqMonotonic, ConcatProperties
<1>6. CASE ~Trapped(s)
  <2>1. \A list : list \in ListsFor(s, b) <=> list \in Seq(Errs(b)) /\ Sorted(list) /\ Bounded(list, s)
    BY <1>6 DEF ListsFor
  <2>2. Sorted(x) /\ Bounded(x, s)
    <3>1. \A i \in 1..Len(x) : x[i].step = Now(s) /\ x[i].step \in Nat
      BY <1>1, <1>2, <1>4
    <3> QED BY <3>1, <1>4 DEF Sorted, Bounded
  <2>3. a \in Seq(Errs(b)) /\ Sorted(a) /\ Bounded(a, s)
    BY <2>1
  <2>4. a \o x \in Seq(Errs(b)) /\ Len(a \o x) = Len(a) + Len(x)
        /\ \A i \in 1..(Len(a) + Len(x)) : (a \o x)[i] = IF i <= Len(a) THEN a[i] ELSE x[i - Len(a)]
    BY <1>4, <2>3, ConcatProperties
  <2> DEFINE y == a \o x
  <2>5. Len(a) \in Nat /\ \A i \in 1..Len(a) : a[i].step \in Nat /\ a[i].step <= Now(s)
    BY <1>2, <2>3, LenProperties, ElementOfSeq DEF Bounded
  <2>6. \A i \in 1..Len(x) : x[i].step = Now(s) /\ x[i].step \in Nat
    BY <1>1, <1>2, <1>4
  <2>7. \A i \in 1..Len(y) : y[i].step <= Now(s) /\ y[i].step \in Nat
    <3> SUFFICES ASSUME NEW i \in 1..Len(y) PROVE y[i].step <= Now(s) /\ y[i].step \in Nat
      OBVIOUS
    <3>1. CASE i <= Len(a)
      BY <1>4, <2>4, <2>5, <3>1
    <3>2. CASE ~(i <= Len(a))
      <4>1. i - Len(a) \in 1..Len(x) /\ y[i] = x[i - Len(a)]
        BY <1>4, <2>4, <2>5, <3>2
      <4> QED BY <2>6, <4>1
    <3> QED BY <3>1, <3>2
  <2>8. ASSUME NEW i \in 1..Len(y), NEW j \in 1..Len(y), i < j
        PROVE  y[i].step <= y[j].step
    <3>1. CASE j <= Len(a)
      BY <1>4, <2>3, <2>4, <2>5, <2>8, <3>1 DEF Sorted
    <3>2. CASE ~(j <= Len(a))
      <4>1. j - Len(a) \in 1..Len(x) /\ y[j] = x[j - Len(a)]
        BY <1>4, <2>4, <2>5, <3>2
      <4> QED BY <2>6, <2>7, <4>1
    <3> QED BY <3>1, <3>2
  <2> HIDE DEF y
  <2>9. Sorted(y) /\ Bounded(y, s)
    BY <2>7, <2>8 DEF Sorted, Bounded
  <2> QED BY <1>4, <2>1, <2>2, <2>3, <2>4, <2>9 DEF y
<1> QED BY <1>5, <1>6

\* What a list may contain is told by the root and by whether there is an attempt.
LEMMA SameLists ==
    ASSUME NEW b, NEW s, NEW t, s # <<>>, t # <<>>, Now(s) = Now(t), Trapped(s) <=> Trapped(t)
    PROVE  ListsFor(s, b) = ListsFor(t, b)
<1>1. \A list : Bounded(list, s) <=> Bounded(list, t)
  BY DEF Bounded
<1> QED BY <1>1 DEF ListsFor

-----------------------------------------------------------------------------
(* The stack *)

LEMMA FrameKinds ==
    ASSUME NEW p, NEW b, NEW f \in Frames(p, b)
    PROVE  /\ f.kind = "body" => f \in BodyFrames(p)
           /\ f.kind = "resolve" => f \in ResolveFrames(p, b)
           /\ f.kind = "special" => f \in SpecialFrames(p, b)
           /\ f.kind = "instantiate" => f \in InstantiateFrames(b)
           /\ f.kind \in {"body", "resolve", "special", "instantiate"}
BY DEF Frames, BodyFrames, ResolveFrames, SpecialFrames, InstantiateFrames

\* What is left when frames are removed.
LEMMA GoodCut ==
    ASSUME NEW p, NEW b, NEW s, StackGood(s, p, b), NEW n \in 0..Len(s)
    PROVE  /\ StackGood(Cut(s, n), p, b) /\ Len(Cut(s, n)) = n /\ (n = 0 => Cut(s, n) = <<>>)
           /\ \A i \in 1..n : Cut(s, n)[i] = s[i]
           /\ \A i \in 1..Len(s) : s[i] \in Frames(p, b)
<1> DEFINE F == Frames(p, b)
<1>1. s \in Seq(F) /\ Len(s) \in Nat /\ \A i \in 1..Len(s) : s[i] \in F
  BY LenProperties, ElementOfSeq DEF StackGood
<1> HIDE DEF F
<1>2. /\ Cut(s, n) \in Seq(F) /\ Len(Cut(s, n)) = n
      /\ \A i \in 1..n : Cut(s, n)[i] = s[i]
      /\ \A m \in 0..n : Cut(Cut(s, n), m) = Cut(s, m)
  BY <1>1, CutFacts
<1>3. n = 0 => Cut(s, n) = <<>>
  BY <1>2
<1>4. n # 0 => Cut(s, n)[1].kind = "body"
  <2>1. n # 0 => 1 \in 1..n /\ s # <<>>
    BY <1>1
  <2> QED BY <1>2, <2>1 DEF StackGood
<1>5. \A j \in 2..n : FrameGood(Cut(s, n)[j], Cut(Cut(s, n), j - 1), b)
  <2> SUFFICES ASSUME NEW j \in 2..n PROVE FrameGood(Cut(s, n)[j], Cut(Cut(s, n), j - 1), b)
    OBVIOUS
  <2>1. Cut(s, n)[j] = s[j] /\ Cut(Cut(s, n), j - 1) = Cut(s, j - 1) /\ j \in 2..Len(s)
    BY <1>1, <1>2
  <2> QED BY <2>1 DEF StackGood
<1>6. \A j \in 1..(n - 1) : Waiting(Cut(s, n)[j])
  BY <1>1, <1>2 DEF StackGood
<1> QED BY <1>1, <1>2, <1>3, <1>4, <1>5, <1>6 DEF StackGood, F

\* A frame is put on top.
LEMMA GoodPush ==
    ASSUME NEW p, NEW b, NEW s, StackGood(s, p, b), s # <<>>, Waiting(TopOf(s)),
           NEW f \in Frames(p, b), FrameGood(f, s, b)
    PROVE  /\ StackGood(Append(s, f), p, b)
           /\ ListsFor(Append(s, f), b) = IF IsTraps(f) THEN Seq(ErrsAt(Now(s), b)) ELSE ListsFor(s, b)
           /\ Len(s) \in Nat \ {0} /\ Len(Append(s, f)) = Len(s) + 1
           /\ Append(s, f) # <<>> /\ TopOf(Append(s, f)) = f /\ Now(Append(s, f)) = Now(s)
           /\ Keeps(s, Append(s, f))
<1> DEFINE F == Frames(p, b)
           t == Append(s, f)
<1>1. s \in Seq(F) /\ Len(s) \in Nat \ {0}
  BY LenProperties, EmptySeq DEF StackGood
<1>2. f \in F
  OBVIOUS
<1> HIDE DEF F
<1>3. /\ t \in Seq(F) /\ Len(t) = Len(s) + 1
      /\ \A i \in 1..Len(s) : t[i] = s[i]
      /\ t[Len(s) + 1] = f
      /\ \A m \in 0..Len(s) : Cut(t, m) = Cut(s, m)
  BY <1>1, <1>2, AppendFacts
<1>4. Cut(s, Len(s)) = s
  BY <1>1, SubSeqFull DEF Cut
<1>5. t # <<>> /\ t[1].kind = "body" /\ t[1] = s[1]
  BY <1>1, <1>3 DEF StackGood
<1> HIDE DEF t
<1>6. ASSUME NEW j \in 2..Len(t)
      PROVE  FrameGood(t[j], Cut(t, j - 1), b)
  <2>1. CASE j = Len(s) + 1
    BY <1>1, <1>3, <1>4, <2>1
  <2>2. CASE j # Len(s) + 1
    <3>1. j \in 2..Len(s) /\ t[j] = s[j] /\ Cut(t, j - 1) = Cut(s, j - 1)
      BY <1>1, <1>3, <2>2
    <3> QED BY <3>1 DEF StackGood
  <2> QED BY <2>1, <2>2
<1>7. ASSUME NEW j \in 1..(Len(t) - 1)
      PROVE  Waiting(t[j])
  <2>1. j \in 1..Len(s) /\ t[j] = s[j]
    BY <1>1, <1>3
  <2>2. CASE j = Len(s)
    BY <2>1, <2>2
  <2>3. CASE j # Len(s)
    BY <1>1, <2>1, <2>3 DEF StackGood
  <2> QED BY <2>2, <2>3
<1>8. StackGood(t, p, b)
  BY <1>3, <1>5, <1>6, <1>7 DEF StackGood, F
<1>9. Trapped(t) <=> Trapped(s) \/ IsTraps(f)
  BY <1>1, <1>3 DEF Trapped
<1>10. ListsFor(t, b) = IF IsTraps(f) THEN Seq(ErrsAt(Now(s), b)) ELSE ListsFor(s, b)
  <2>1. CASE IsTraps(f)
    BY <1>5, <1>9, <2>1 DEF ListsFor
  <2>2. CASE ~IsTraps(f)
    BY <1>5, <1>9, <2>2, SameLists
  <2> QED BY <2>1, <2>2
<1>11. TopOf(t) = f /\ Now(t) = Now(s) /\ Keeps(s, t)
  BY <1>3, <1>5 DEF Keeps
<1> QED BY <1>1, <1>3, <1>5, <1>8, <1>10, <1>11 DEF t

\* The script on top goes on.
LEMMA GoodAdvance ==
    ASSUME NEW p, NEW b \in BOOLEAN, NEW s, StackGood(s, p, b), s # <<>>,
           NEW f \in Frames(p, b), f.kind = TopOf(s).kind, f.kind \in {"body", "instantiate"},
           f.at = TopOf(s).at + 1, f.kind = "instantiate" => f.saved = TopOf(s).saved
    PROVE  LET t == Append(Under(s), f)
           IN  /\ StackGood(t, p, b) /\ Allows(t, s, b)
               /\ Len(t) = Len(s) /\ TopOf(t) = f /\ t # <<>>
               /\ SameKinds(s, t)
<1> DEFINE c == Cut(s, Len(s) - 1)
           t == Append(c, f)
           n == Len(s)
<1>0. Under(s) = c
  BY DEF Under
<1>1. s \in Seq(Frames(p, b)) /\ n \in Nat \ {0} /\ n - 1 \in 0..n
  BY LenProperties, EmptySeq DEF StackGood
<1>2. /\ StackGood(c, p, b) /\ Len(c) = n - 1 /\ (n = 1 => c = <<>>)
      /\ \A i \in 1..(n - 1) : c[i] = s[i]
      /\ \A i \in 1..n : s[i] \in Frames(p, b)
  BY <1>1, GoodCut
<1>3. s[1].kind = "body"
  BY DEF StackGood
<1>4. CASE n = 1
  <2>1. t = <<f>> /\ f.kind = "body" /\ s[1] \in BodyFrames(p)
    <3>1. s[1] \in Frames(p, b) /\ f.kind = "body"
      BY <1>1, <1>2, <1>3, <1>4
    <3>2. s[1] \in BodyFrames(p)
      BY <1>3, <3>1, FrameKinds
    <3>3. c = <<>>
      BY <1>2, <1>4
    <3> HIDE DEF c
    <3>4. t = <<f>>
      BY <3>3
    <3> QED BY <3>1, <3>2, <3>4
  <2>2. StackGood(t, p, b)
    <3> DEFINE F == Frames(p, b)
    <3>1. f \in F
      OBVIOUS
    <3> HIDE DEF F
    <3>2. <<f>> \in Seq(F) /\ Len(<<f>>) = 1 /\ <<f>>[1] = f
      BY <3>1
    <3> HIDE DEF t
    <3> QED BY <2>1, <3>2 DEF StackGood, F
  <2>3. ~Trapped(s) /\ ~Trapped(t)
    BY <1>3, <1>4, <2>1 DEF Trapped, IsTraps
  <2>4. ASSUME NEW list \in ListsFor(s, b) PROVE list \in ListsFor(t, b)
    <3>1. list \in Seq(Errs(b)) /\ Sorted(list) /\ Bounded(list, s)
      BY <2>3 DEF ListsFor
    <3>2. \A i \in 1..Len(list) : list[i].step \in Nat /\ list[i].step <= Now(s)
      <4>1. \A i \in 1..Len(list) : list[i] \in Errs(b)
        BY <3>1, ElementOfSeq
      <4>2. \A e \in Errs(b) : e.step \in Nat
        BY DEF Errs
      <4> QED BY <3>1, <4>1, <4>2 DEF Bounded
    <3>3. Now(t) = Now(s) + 1 /\ Now(s) \in Nat
      BY <1>4, <2>1 DEF BodyFrames
    <3> HIDE DEF t
    <3>4. \A i \in 1..Len(list) : list[i].step <= Now(t)
      BY <3>2, <3>3
    <3> QED BY <2>3, <3>1, <3>4 DEF ListsFor, Bounded
  <2>5. SameKinds(s, t) /\ Len(t) = Len(s) /\ TopOf(t) = f /\ t # <<>>
    BY <1>4, <2>1 DEF SameKinds
  <2> HIDE DEF t
  <2> QED BY <1>0, <2>2, <2>4, <2>5 DEF t, Allows
<1>5. CASE n # 1
  <2>1. n \in 2..n /\ FrameGood(s[n], c, b) /\ c # <<>>
    BY <1>1, <1>2, <1>5 DEF StackGood
  <2>2. FrameGood(f, c, b)
    <3>1. f.kind = "instantiate" => f.saved = s[n].saved /\ IsTraps(s[n])
      BY DEF IsTraps
    <3> HIDE DEF n, c
    <3> QED BY <2>1, <3>1 DEF FrameGood, IsTraps
  <2>3. Waiting(TopOf(c))
    BY <1>1, <1>2, <1>5 DEF StackGood
  <2>4. c[1] = s[1]
    BY <1>1, <1>2, <1>5
  <2> HIDE DEF c
  <2>5. /\ StackGood(t, p, b)
        /\ ListsFor(t, b) = IF IsTraps(f) THEN Seq(ErrsAt(Now(c), b)) ELSE ListsFor(c, b)
        /\ Len(t) = Len(c) + 1 /\ TopOf(t) = f /\ Keeps(c, t)
    BY <1>2, <2>1, <2>2, <2>3, GoodPush
  <2> HIDE DEF t
  <2>6. t[1] = s[1] /\ t # <<>> /\ (Trapped(t) <=> Trapped(s))
    <3>1. t[1] = s[1] /\ t # <<>>
      BY <1>1, <1>2, <1>5, <2>4, <2>5 DEF Keeps
    <3>2. \A i \in 1..Len(t) : IsTraps(t[i]) <=> IsTraps(s[i])
      BY <1>1, <1>2, <2>5 DEF IsTraps, Keeps
    <3> QED BY <1>1, <1>2, <2>5, <3>1, <3>2 DEF Trapped
  <2>7. ListsFor(t, b) = ListsFor(s, b)
    BY <2>6, SameLists
  <2>8. SameKinds(s, t)
    BY <1>1, <1>2, <2>5 DEF SameKinds, Keeps
  <2>9. Len(t) = Len(s) /\ TopOf(t) = f
    BY <1>1, <1>2, <2>5
  <2> QED BY <1>0, <2>5, <2>6, <2>7, <2>8, <2>9 DEF t, c, Allows
<1> QED BY <1>4, <1>5

\* The frame on top is left.
LEMMA GoodPop ==
    ASSUME NEW p, NEW b \in BOOLEAN, NEW s, StackGood(s, p, b), s # <<>>
    PROVE  /\ StackGood(Under(s), p, b) /\ Len(Under(s)) \in Nat /\ Len(s) = Len(Under(s)) + 1
           /\ TopOf(s) \in Frames(p, b)
           /\ Keeps(Under(s), s)
           /\ IsTraps(TopOf(s)) => /\ Under(s) # <<>> /\ Now(s) \in Nat
                                    /\ FrameGood(TopOf(s), Under(s), b)
                                    /\ Trapped(s)
           /\ ~IsTraps(TopOf(s)) => Allows(Under(s), s, b)
           /\ Under(s) # <<>> => /\ Waiting(TopOf(Under(s)))
                                 /\ Now(Under(s)) = Now(s) /\ Len(Under(s)) # 0
<1> DEFINE n == Len(s)
           c == Cut(s, n - 1)
<1>1. s \in Seq(Frames(p, b)) /\ n \in Nat \ {0} /\ n - 1 \in 0..n
  BY LenProperties, EmptySeq DEF StackGood
<1>2. /\ StackGood(c, p, b) /\ Len(c) = n - 1 /\ (n - 1 = 0 => c = <<>>)
      /\ \A i \in 1..(n - 1) : c[i] = s[i]
      /\ \A i \in 1..n : s[i] \in Frames(p, b)
  BY <1>1, GoodCut
<1>3. s[1].kind = "body" /\ Now(s) \in Nat
  <2>1. s[1].kind = "body" /\ s[1] \in Frames(p, b)
    BY <1>1, <1>2 DEF StackGood
  <2> QED BY <2>1, FrameKinds DEF BodyFrames
<1>4. n > 1 => Waiting(s[n - 1]) /\ c # <<>> /\ c[1] = s[1]
  BY <1>1, <1>2 DEF StackGood
<1>7. Under(s) = c
  BY DEF Under
<1>8. (c # <<>> <=> n > 1) /\ (n > 1 => TopOf(c) = s[n - 1])
  <2> HIDE DEF c
  <2> QED BY <1>1, <1>2
<1>9. /\ Len(c) \in Nat /\ n = Len(c) + 1
      /\ \A i \in 1..Len(c) : c[i] = s[i]
      /\ c # <<>> => Waiting(TopOf(c)) /\ c[1] = s[1] /\ Len(c) # 0
  <2> HIDE DEF c
  <2> QED BY <1>1, <1>2, <1>4, <1>8
<1>10. Keeps(c, s)
  <2> HIDE DEF c
  <2> QED BY <1>9 DEF Keeps
<1>5. CASE IsTraps(s[n])
  <2>1. n > 1
    BY <1>1, <1>3, <1>5 DEF IsTraps
  <2>2. FrameGood(s[n], c, b)
    BY <1>1, <2>1 DEF StackGood
  <2>3. Trapped(s)
    BY <1>1, <1>5 DEF Trapped
  <2> HIDE DEF c
  <2> QED BY <1>1, <1>2, <1>3, <1>5, <1>7, <1>8, <1>9, <1>10, <2>1, <2>2, <2>3
<1>6. CASE ~IsTraps(s[n])
  <2>1. Trapped(c) <=> Trapped(s)
    <3> HIDE DEF c
    <3> QED BY <1>1, <1>2, <1>6 DEF Trapped
  <2>2. ListsFor(s, b) \subseteq ListsFor(c, b)
    <3>1. CASE n > 1
      BY <1>4, <2>1, <3>1, SameLists
    <3>2. CASE ~(n > 1)
      <4>1. c = <<>> /\ ~Trapped(c) /\ ~Trapped(s)
        BY <1>1, <1>2, <2>1, <3>2 DEF Trapped
      <4> HIDE DEF c
      <4> QED BY <4>1 DEF ListsFor, Bounded
    <3> QED BY <3>1, <3>2
  <2> HIDE DEF c
  <2> QED BY <1>1, <1>2, <1>6, <1>7, <1>9, <1>10, <2>2 DEF Allows
<1> QED BY <1>5, <1>6

\* hiddenErrors as a frame is put on top, or as the frame on top is left.
LEMMA HiddenPush ==
    ASSUME NEW s, NEW t, NEW h, HiddenGood(s, h), Len(s) \in Nat, Len(t) = Len(s) + 1,
           Keeps(s, t)
    PROVE  /\ TopOf(t).kind # "resolve" => HiddenGood(t, h)
           /\ TopOf(t).kind = "resolve" => HiddenGood(t, IF h = NULL THEN Len(t) ELSE h)
BY DEF HiddenGood, NULL, Keeps, TopOf

LEMMA HiddenPop ==
    ASSUME NEW s, NEW t, NEW h, HiddenGood(s, h), Len(t) \in Nat, Len(s) = Len(t) + 1,
           Keeps(t, s)
    PROVE  /\ HiddenGood(t, IF h = Len(s) THEN NULL ELSE h)
           /\ TopOf(s).kind # "resolve" => HiddenGood(t, h)
BY DEF HiddenGood, NULL, Keeps, TopOf

LEMMA HiddenSame ==
    ASSUME NEW s, NEW t, NEW h, HiddenGood(s, h), Len(s) \in Nat, Len(t) = Len(s),
           SameKinds(s, t)
    PROVE  HiddenGood(t, h)
BY DEF HiddenGood, SameKinds

LEMMA NowIsNat ==
    ASSUME NEW p, NEW b, NEW s, StackGood(s, p, b), s # <<>>
    PROVE  Now(s) \in Nat
<1>1. s[1].kind = "body" /\ Len(s) \in Nat \ {0} /\ \A i \in 1..Len(s) : s[i] \in Frames(p, b)
  BY LenProperties, EmptySeq, ElementOfSeq DEF StackGood
<1>2. s[1] \in Frames(p, b)
  BY <1>1
<1> QED BY <1>1, <1>2, FrameKinds DEF BodyFrames

\* Errors of the current step are given to a frame of an attempt.
LEMMA GoodGive ==
    ASSUME NEW p, NEW b \in BOOLEAN, NEW s, StackGood(s, p, b), s # <<>>,
           NEW h \in 1..Len(s), s[h].kind = "resolve", NEW x \in Seq(ErrsAt(Now(s), b))
    PROVE  /\ StackGood(Given(s, h, x), p, b) /\ ListsFor(Given(s, h, x), b) = ListsFor(s, b)
           /\ HiddenGood(s, h) => HiddenGood(Given(s, h, x), h)
<1> DEFINE f == [s[h] EXCEPT !.saved = s[h].saved \o x]
           t == [s EXCEPT ![h] = f]
           F == Frames(p, b)
<1>0. t = Given(s, h, x)
  BY DEF Given
<1>1. s \in Seq(F) /\ Len(s) \in Nat \ {0} /\ \A i \in 1..Len(s) : s[i] \in F
  BY LenProperties, EmptySeq, ElementOfSeq DEF StackGood
<1>2. s[h] \in ResolveFrames(p, b) /\ h # 1 /\ s[1].kind = "body"
  BY <1>1, FrameKinds DEF StackGood
<1>3. FrameGood(s[h], Cut(s, h - 1), b)
  BY <1>1, <1>2 DEF StackGood
<1>4. /\ StackGood(Cut(s, h - 1), p, b) /\ Len(Cut(s, h - 1)) = h - 1 /\ Cut(s, h - 1) # <<>>
      /\ Cut(s, h - 1)[1] = s[1]
  <2>1. h - 1 \in 0..Len(s) /\ h - 1 # 0
    BY <1>1, <1>2
  <2> QED BY <2>1, GoodCut
<1>5. s[h].saved \in ListsFor(Cut(s, h - 1), b) /\ s[h].altErrors \in Seq(Seq(ErrsAt(Now(s), b)))
  BY <1>3, <1>4 DEF FrameGood, IsTraps
<1>6. s[h].saved \o x \in ListsFor(Cut(s, h - 1), b) /\ s[h].saved \o x \in Seq(Errs(b))
  <2>1. /\ s[h].saved \o x \in ListsFor(Cut(s, h - 1), b)
        /\ s[h].saved \in Seq(Errs(b)) /\ x \in Seq(Errs(b))
    BY <1>4, <1>5, TakeBack
  <2> QED BY <2>1, ConcatProperties
<1>7. f \in ResolveFrames(p, b) /\ f \in F /\ f.kind = "resolve" /\ f.saved = s[h].saved \o x
      /\ f.alt = s[h].alt /\ f.altErrors = s[h].altErrors
  <2>1. f \in ResolveFrames(p, b)
    BY <1>2, <1>6 DEF ResolveFrames
  <2> QED BY <1>2, <2>1 DEF ResolveFrames, Frames
<1> HIDE DEF f, F
<1>8. /\ t \in Seq(F) /\ Len(t) = Len(s)
      /\ \A i \in 1..Len(s) : t[i] = IF i = h THEN f ELSE s[i]
  BY <1>1, <1>7, ExceptSeq
<1>9. t # <<>> /\ t[1] = s[1]
  BY <1>1, <1>2, <1>8
<1> HIDE DEF t
<1>10. \A n \in 1..Len(s) : ListsFor(Cut(t, n), b) = ListsFor(Cut(s, n), b)
                            /\ Cut(t, n)[1] = s[1] /\ Cut(s, n)[1] = s[1]
  <2> SUFFICES ASSUME NEW n \in 1..Len(s)
               PROVE  ListsFor(Cut(t, n), b) = ListsFor(Cut(s, n), b)
                      /\ Cut(t, n)[1] = s[1] /\ Cut(s, n)[1] = s[1]
    OBVIOUS
  <2>1. Len(Cut(s, n)) = n /\ \A i \in 1..n : Cut(s, n)[i] = s[i]
    BY <1>1, CutFacts
  <2>2. Len(Cut(t, n)) = n /\ \A i \in 1..n : Cut(t, n)[i] = t[i]
    BY <1>1, <1>8, CutFacts
  <2>3. \A i \in 1..n : IsTraps(Cut(t, n)[i]) <=> IsTraps(Cut(s, n)[i])
    BY <1>1, <1>7, <1>8, <2>1, <2>2 DEF IsTraps
  <2>4. Cut(t, n) # <<>> /\ Cut(s, n) # <<>> /\ Cut(t, n)[1] = s[1] /\ Cut(s, n)[1] = s[1]
    BY <1>9, <2>1, <2>2
  <2>5. Trapped(Cut(t, n)) <=> Trapped(Cut(s, n))
    BY <2>1, <2>2, <2>3 DEF Trapped
  <2> QED BY <2>4, <2>5, SameLists
<1>11. ASSUME NEW j \in 2..Len(t)
       PROVE  FrameGood(t[j], Cut(t, j - 1), b)
  <2>1. j - 1 \in 1..Len(s) /\ j \in 1..Len(s) /\ j \in 2..Len(s)
    BY <1>1, <1>8
  <2>2. /\ ListsFor(Cut(t, j - 1), b) = ListsFor(Cut(s, j - 1), b)
        /\ Cut(t, j - 1)[1] = s[1] /\ Cut(s, j - 1)[1] = s[1]
    BY <1>10, <2>1
  <2>3. FrameGood(s[j], Cut(s, j - 1), b)
    BY <2>1 DEF StackGood
  <2>4. CASE j = h
    BY <1>5, <1>6, <1>7, <1>8, <2>1, <2>2, <2>4 DEF FrameGood
  <2>5. CASE j # h
    BY <1>8, <2>1, <2>2, <2>3, <2>5 DEF FrameGood
  <2> QED BY <2>4, <2>5
<1>12. ASSUME NEW j \in 1..(Len(t) - 1)
       PROVE  Waiting(t[j])
  BY <1>1, <1>2, <1>7, <1>8 DEF StackGood, Waiting
<1>13. StackGood(t, p, b)
  BY <1>2, <1>8, <1>9, <1>11, <1>12 DEF StackGood, F
<1>14. ListsFor(t, b) = ListsFor(s, b)
  <2>1. Cut(t, Len(s)) = t /\ Cut(s, Len(s)) = s
    BY <1>1, <1>8, SubSeqFull DEF Cut
  <2> QED BY <1>1, <1>10, <2>1
<1>15. SameKinds(s, t)
  BY <1>2, <1>7, <1>8 DEF SameKinds
<1>16. HiddenGood(s, h) => HiddenGood(t, h)
  BY <1>1, <1>8, <1>15, HiddenSame
<1> QED BY <1>0, <1>13, <1>14, <1>16

HIDE DEF TopOf, Now

-----------------------------------------------------------------------------
(* What the steps do to the frames, the errors and hiddenErrors *)

LEMMA WholeAdvance ==
    ASSUME NEW p, NEW b \in BOOLEAN, NEW s, NEW e, NEW h, Whole(s, e, h, p, b), s # <<>>,
           NEW f \in Frames(p, b), f.kind = TopOf(s).kind, f.kind \in {"body", "instantiate"},
           f.at = TopOf(s).at + 1, f.kind = "instantiate" => f.saved = TopOf(s).saved
    PROVE  /\ Whole(Append(Under(s), f), e, h, p, b)
           /\ Append(Under(s), f) # <<>> /\ Waiting(TopOf(Append(Under(s), f)))
<1> DEFINE t == Append(Under(s), f)
<1>1. StackGood(s, p, b) /\ e \in ListsFor(s, b) /\ HiddenGood(s, h)
  BY DEF Whole
<1>2. StackGood(t, p, b) /\ Allows(t, s, b)
      /\ Len(t) = Len(s) /\ TopOf(t) = f /\ t # <<>> /\ SameKinds(s, t)
  BY <1>1, GoodAdvance
<1> HIDE DEF t
<1>3. Len(s) \in Nat
  BY <1>1, GoodPop
<1>4. HiddenGood(t, h)
  BY <1>1, <1>2, <1>3, HiddenSame
<1>5. Waiting(TopOf(t))
  BY <1>2 DEF Waiting
<1> QED BY <1>1, <1>2, <1>4, <1>5 DEF Whole, t, Allows

LEMMA WholeReport ==
    ASSUME NEW p, NEW b \in BOOLEAN, NEW s, NEW e, NEW h, Whole(s, e, h, p, b), s # <<>>,
           NEW x \in ErrsAt(Now(s), b)
    PROVE  Whole(s, Append(e, x), h, p, b)
<1>1. <<x>> \in Seq(ErrsAt(Now(s), b))
  OBVIOUS
<1>2. e \o <<x>> \in ListsFor(s, b) /\ e \in Seq(Errs(b)) /\ x \in Errs(b)
  BY <1>1, TakeBack DEF Whole, ErrsAt
<1>3. Append(e, x) = e \o <<x>>
  BY <1>2
<1> QED BY <1>2, <1>3 DEF Whole

LEMMA WholePushBody ==
    ASSUME NEW p, NEW b \in BOOLEAN, NEW s, NEW e, NEW h, Whole(s, e, h, p, b), s # <<>>,
           Waiting(TopOf(s)), NEW f \in BodyFrames(p)
    PROVE  Whole(Append(s, f), e, h, p, b)
<1>1. f \in Frames(p, b) /\ FrameGood(f, s, b) /\ ~IsTraps(f) /\ f.kind = "body"
  BY DEF Frames, BodyFrames, FrameGood, IsTraps
<1> DEFINE t == Append(s, f)
<1>2. StackGood(s, p, b) /\ e \in ListsFor(s, b) /\ HiddenGood(s, h)
  BY DEF Whole
<1>3. StackGood(t, p, b) /\ ListsFor(t, b) = ListsFor(s, b)
      /\ Len(s) \in Nat \ {0} /\ Len(t) = Len(s) + 1 /\ TopOf(t) = f /\ Keeps(s, t)
  BY <1>1, <1>2, GoodPush
<1> HIDE DEF t
<1>4. HiddenGood(t, h)
  BY <1>1, <1>2, <1>3, HiddenPush
<1> QED BY <1>2, <1>3, <1>4 DEF Whole, t

LEMMA WholePushTrap ==
    ASSUME NEW p, NEW b \in BOOLEAN, NEW s, NEW e, NEW h, Whole(s, e, h, p, b), s # <<>>,
           Waiting(TopOf(s)), NEW f \in Frames(p, b), IsTraps(f), f.saved = e,
           f.kind = "resolve" => f.altErrors = <<>>, f.kind = "special" => f.callErrors = <<>>
    PROVE  /\ f.kind # "resolve" => Whole(Append(s, f), <<>>, h, p, b)
           /\ f.kind = "resolve" => Whole(Append(s, f), <<>>, IF h = NULL THEN Len(s) + 1 ELSE h, p, b)
           /\ Append(s, f) # <<>> /\ TopOf(Append(s, f)) = f
<1>1. StackGood(s, p, b) /\ e \in ListsFor(s, b) /\ HiddenGood(s, h)
  BY DEF Whole
<1>2. FrameGood(f, s, b)
  <2>1. <<>> \in Seq(ErrsAt(Now(s), b)) /\ <<>> \in Seq(Seq(ErrsAt(Now(s), b)))
    BY EmptySeq
  <2> QED BY <1>1, <2>1 DEF FrameGood
<1> DEFINE t == Append(s, f)
<1>3. StackGood(t, p, b) /\ ListsFor(t, b) = Seq(ErrsAt(Now(s), b)) /\ t # <<>>
      /\ Len(s) \in Nat \ {0} /\ Len(t) = Len(s) + 1 /\ TopOf(t) = f /\ Keeps(s, t)
  BY <1>1, <1>2, GoodPush
<1> HIDE DEF t
<1>4. /\ f.kind # "resolve" => HiddenGood(t, h)
      /\ f.kind = "resolve" => HiddenGood(t, IF h = NULL THEN Len(s) + 1 ELSE h)
  BY <1>1, <1>3, HiddenPush
<1>5. <<>> \in ListsFor(t, b)
  BY <1>3, EmptySeq
<1> QED BY <1>3, <1>4, <1>5 DEF Whole, t

LEMMA WholePopBody ==
    ASSUME NEW p, NEW b \in BOOLEAN, NEW s, NEW e, NEW h, Whole(s, e, h, p, b), s # <<>>,
           ~IsTraps(TopOf(s))
    PROVE  Whole(Under(s), e, h, p, b)
<1>1. StackGood(s, p, b) /\ e \in ListsFor(s, b) /\ HiddenGood(s, h)
  BY DEF Whole
<1>2. /\ StackGood(Under(s), p, b) /\ Len(Under(s)) \in Nat /\ Len(s) = Len(Under(s)) + 1
      /\ Keeps(Under(s), s) /\ Allows(Under(s), s, b)
  BY <1>1, GoodPop
<1>3. HiddenGood(Under(s), h)
  <2>1. TopOf(s).kind # "resolve"
    BY DEF IsTraps
  <2> QED BY <1>1, <1>2, <2>1, HiddenPop
<1> QED BY <1>1, <1>2, <1>3 DEF Whole, Allows

LEMMA WholePopTrap ==
    ASSUME NEW p, NEW b \in BOOLEAN, NEW s, NEW e, NEW h, Whole(s, e, h, p, b), s # <<>>,
           IsTraps(TopOf(s))
    PROVE  /\ Whole(Under(s), TopOf(s).saved, IF h = Len(s) THEN NULL ELSE h, p, b)
           /\ TopOf(s).kind # "resolve" => Whole(Under(s), TopOf(s).saved, h, p, b)
           /\ Under(s) # <<>> /\ Now(Under(s)) = Now(s) /\ Waiting(TopOf(Under(s))) /\ Now(s) \in Nat
           /\ e \in Seq(ErrsAt(Now(s), b)) /\ FrameGood(TopOf(s), Under(s), b)
           /\ TopOf(s) \in Frames(p, b)
<1>1. StackGood(s, p, b) /\ e \in ListsFor(s, b) /\ HiddenGood(s, h)
  BY DEF Whole
<1>2. /\ StackGood(Under(s), p, b) /\ Len(Under(s)) \in Nat /\ Len(s) = Len(Under(s)) + 1
      /\ Keeps(Under(s), s) /\ TopOf(s) \in Frames(p, b)
  BY <1>1, GoodPop
<1>7. FrameGood(TopOf(s), Under(s), b) /\ Trapped(s) /\ Under(s) # <<>> /\ Now(s) \in Nat
  BY <1>1, GoodPop
<1>3. /\ FrameGood(TopOf(s), Under(s), b) /\ ListsFor(s, b) = Seq(ErrsAt(Now(s), b))
      /\ Under(s) # <<>> /\ Now(s) \in Nat
  BY <1>7 DEF ListsFor
<1>4. Waiting(TopOf(Under(s))) /\ Now(Under(s)) = Now(s)
  BY <1>1, <1>3, GoodPop
<1>5. /\ HiddenGood(Under(s), IF h = Len(s) THEN NULL ELSE h)
      /\ TopOf(s).kind # "resolve" => HiddenGood(Under(s), h)
  BY <1>1, <1>2, HiddenPop
<1>6. TopOf(s).saved \in ListsFor(Under(s), b)
  BY <1>3 DEF FrameGood
<1> QED BY <1>1, <1>2, <1>3, <1>4, <1>5, <1>6 DEF Whole

\* Errors of the current step are taken back after the older ones.
LEMMA WholeTakeBack ==
    ASSUME NEW p, NEW b \in BOOLEAN, NEW s, NEW e, NEW h, Whole(s, e, h, p, b), s # <<>>,
           NEW x \in Seq(ErrsAt(Now(s), b))
    PROVE  Whole(s, e \o x, h, p, b)
<1>1. e \in ListsFor(s, b)
  BY DEF Whole
<1>2. e \o x \in ListsFor(s, b)
  BY <1>1, TakeBack
<1> QED BY <1>2 DEF Whole

\* The frame of an attempt goes on to the next alternative.
LEMMA WholeRetop ==
    ASSUME NEW p, NEW b \in BOOLEAN, NEW s, NEW e, NEW h, Whole(s, e, h, p, b), s # <<>>,
           IsTraps(TopOf(s)), NEW f \in Frames(p, b), f.kind = TopOf(s).kind,
           f.saved = TopOf(s).saved,
           f.kind = "resolve" => f.altErrors \in Seq(Seq(ErrsAt(Now(s), b))),
           f.kind = "special" => f.callErrors \in Seq(ErrsAt(Now(s), b))
    PROVE  /\ Whole(Append(Under(s), f), <<>>, h, p, b)
           /\ Append(Under(s), f) # <<>> /\ TopOf(Append(Under(s), f)) = f
<1> DEFINE c == Under(s)
           t == Append(c, f)
<1>1. StackGood(s, p, b) /\ HiddenGood(s, h)
  BY DEF Whole
<1>2. /\ StackGood(c, p, b) /\ Len(c) \in Nat /\ Len(s) = Len(c) + 1
      /\ FrameGood(TopOf(s), c, b) /\ Keeps(c, s) /\ c # <<>>
  BY <1>1, GoodPop
<1>3. Waiting(TopOf(c)) /\ Now(c) = Now(s)
  BY <1>1, <1>2, GoodPop
<1>4. FrameGood(f, c, b) /\ IsTraps(f)
  BY <1>2, <1>3 DEF FrameGood, IsTraps
<1> HIDE DEF c
<1>5. /\ StackGood(t, p, b) /\ ListsFor(t, b) = Seq(ErrsAt(Now(c), b))
      /\ Len(t) = Len(c) + 1 /\ TopOf(t) = f /\ t # <<>> /\ Keeps(c, t)
  BY <1>2, <1>3, <1>4, GoodPush
<1> HIDE DEF t
<1>6. SameKinds(s, t)
  BY <1>2, <1>5 DEF SameKinds, Keeps, TopOf
<1>7. HiddenGood(t, h)
  BY <1>1, <1>2, <1>5, <1>6, HiddenSame
<1>8. <<>> \in ListsFor(t, b)
  BY <1>5, EmptySeq
<1> QED BY <1>5, <1>7, <1>8 DEF Whole, t, c

\* The isolator puts the errors of the instantiation where they belong.
LEMMA WholeIsolated ==
    ASSUME NEW p, NEW b \in BOOLEAN, NEW s, NEW e, NEW h, Whole(s, e, h, p, b), s # <<>>,
           TopOf(s).kind = "instantiate"
    PROVE  /\ h = NULL => Whole(Under(s), TopOf(s).saved \o e, h, p, b)
           /\ h # NULL => Whole(Given(Under(s), h, e), TopOf(s).saved, h, p, b)
<1> DEFINE c == Under(s)
           f == TopOf(s)
<1>1. IsTraps(f) /\ f.kind # "resolve"
  BY DEF IsTraps
<1>2. /\ e \in Seq(ErrsAt(Now(s), b)) /\ c # <<>> /\ Now(c) = Now(s)
      /\ Whole(c, f.saved, h, p, b)
  BY <1>1, WholePopTrap
<1> HIDE DEF c, f
<1>3. Whole(c, f.saved \o e, h, p, b)
  <2> DEFINE y == f.saved
  <2>1. Whole(c, y, h, p, b) /\ e \in Seq(ErrsAt(Now(c), b))
    BY <1>2
  <2> HIDE DEF y
  <2>2. Whole(c, y \o e, h, p, b)
    BY <1>2, <2>1, WholeTakeBack
  <2> QED BY <2>2 DEF y
<1>4. ASSUME h # NULL
      PROVE  Whole(Given(c, h, e), f.saved, h, p, b)
  <2>1. StackGood(c, p, b) /\ HiddenGood(c, h) /\ f.saved \in ListsFor(c, b)
    BY <1>2 DEF Whole
  <2>2. h \in 1..Len(c) /\ c[h].kind = "resolve"
    BY <1>4, <2>1 DEF HiddenGood
  <2>3. e \in Seq(ErrsAt(Now(c), b))
    BY <1>2
  <2>4. StackGood(Given(c, h, e), p, b) /\ ListsFor(Given(c, h, e), b) = ListsFor(c, b) /\ HiddenGood(Given(c, h, e), h)
    BY <1>2, <2>1, <2>2, <2>3, GoodGive
  <2> QED BY <2>1, <2>4 DEF Whole
<1> QED BY <1>2, <1>3, <1>4 DEF c, f

-----------------------------------------------------------------------------
(* Errors come out in the order of the root's steps *)

LEMMA InitOrder ==
    ASSUME Init PROVE OrderInv
<1>1. Program(ast) /\ ast \in Programs
  BY ProgramsAssumption DEF Init
<1>2. 1 \in Nodes(ast)
  BY <1>1, EmptySeq, LenProperties DEF Program, Nodes
<1> DEFINE f == Body(NULL, 1, 1, Len(ast.body[1]))
<1>3. f \in BodyFrames(ast) /\ f.kind = "body" /\ f \in Frames(ast, FALSE)
  <2>1. Len(ast.body[1]) \in Nat
    BY <1>1, <1>2, LenProperties, ElementOfSeq DEF Program, Nodes
  <2> DEFINE n == Len(ast.body[1])
  <2>2. f = [kind |-> "body", slot |-> 0, node |-> 1, at |-> 1, upTo |-> n]
    BY DEF Body, NULL
  <2>3. n \in Nat /\ f.node = 1 /\ f.upTo = n
    BY <2>1, <2>2
  <2> HIDE DEF n
  <2>4. f \in [kind : {"body"}, slot : Nat, node : Nodes(ast), at : Nat \ {0}, upTo : Nat]
    BY <1>2, <2>2, <2>3
  <2>5. f.at <= f.upTo + 1 /\ f.upTo <= Len(ast.body[f.node])
    BY <2>2, <2>3 DEF n
  <2> HIDE DEF f
  <2> QED BY <2>4, <2>5 DEF BodyFrames, Frames
<1> HIDE DEF f
<1>4. StackGood(<<f>>, ast, FALSE)
  <2> DEFINE F == Frames(ast, FALSE)
  <2>1. f \in F
    BY <1>3
  <2> HIDE DEF F
  <2>2. <<f>> \in Seq(F) /\ Len(<<f>>) = 1 /\ <<f>>[1] = f
    BY <2>1
  <2> DEFINE t == <<f>>
  <2>3. t \in Seq(F) /\ Len(t) = 1 /\ t[1].kind = "body"
    BY <1>3, <2>2
  <2> HIDE DEF t
  <2>5. (\A j \in 2..Len(t) : FrameGood(t[j], Cut(t, j - 1), FALSE)) /\ \A j \in 1..(Len(t) - 1) : Waiting(t[j])
    BY <2>3
  <2>4. StackGood(t, ast, FALSE)
    BY <2>3, <2>5 DEF StackGood, F
  <2> QED BY <2>4 DEF t
<1>5. ~Trapped(<<f>>) /\ HiddenGood(<<f>>, NULL)
  BY <1>3 DEF Trapped, IsTraps, HiddenGood, NULL
<1>6. <<>> \in ListsFor(<<f>>, FALSE)
  BY <1>5, EmptySeq DEF ListsFor, Sorted, Bounded
<1>7. ListInv
  BY <1>4, <1>5, <1>6 DEF Init, ListInv, Whole, f
<1>8. TypeInv
  <2>1. NonEmptyLinks(ast, ast.ambiguity)
    BY <1>1 DEF Program, NonEmptyLinks, Nodes, Specials
  <2>2. ast.slot \in [DOMAIN ast.slot -> Nodes(ast)]
    BY <1>1, LenProperties DEF Program, Nodes
  <2>3. ast.ambiguity \in [Nodes(ast) -> {NULL} \cup Nodes(ast)]
    BY <1>1 DEF Program, Nodes
  <2>4. slot = ast.slot /\ ambiguity = ast.ambiguity
    BY DEF Init
  <2>5. changeCount = 0 /\ nesting = 0 /\ throwing = FALSE
    BY DEF Init
  <2>6. NonEmptyLinks(ast, ambiguity) /\ slot \in [DOMAIN ast.slot -> Nodes(ast)]
        /\ ambiguity \in [Nodes(ast) -> {NULL} \cup Nodes(ast)]
    BY <2>1, <2>2, <2>3, <2>4
  <2>7. changeCount \in Nat /\ nesting \in Int
    BY <2>5
  <2>8. throwing \in BOOLEAN
    BY <2>5
  <2> QED BY <1>1, <2>6, <2>7, <2>8 DEF TypeInv
<1> QED BY <1>7, <1>8 DEF OrderInv

\* A step of a script.
LEMMA StepFacts ==
    ASSUME OrderInv, InBody \/ InTemplate
    PROVE  /\ stack # <<>> /\ ~throwing /\ throwing = FALSE
           /\ Step \in Steps /\ (Step[1] = "check" => Step[2] \in DOMAIN ast.slot)
           /\ Visit \in Nat \X Nat /\ Now(stack) \in Nat
           /\ [Top EXCEPT !.at = @ + 1] \in Frames(ast, FALSE)
           /\ Top.kind \in {"body", "instantiate"}
           /\ Advance = Append(Under(stack), [Top EXCEPT !.at = @ + 1])
<1>1. stack # <<>> /\ ~throwing /\ throwing = FALSE /\ Program(ast)
  BY ProgramsAssumption DEF InBody, InTemplate, Running, OrderInv, TypeInv
<1>2. StackGood(stack, ast, FALSE)
  BY <1>1 DEF OrderInv, ListInv, Whole
<1>3. Top \in Frames(ast, FALSE) /\ Top = TopOf(stack)
  <2>1. TopOf(stack) \in Frames(ast, FALSE)
    BY <1>1, <1>2, GoodPop
  <2> QED BY <2>1 DEF Top, TopOf
<1>4. Now(stack) \in Nat
  BY <1>1, <1>2, NowIsNat
<1>5. Advance = Append(Under(stack), [Top EXCEPT !.at = @ + 1])
  BY DEF Advance, SetTop, Pop, Under, Cut
<1>6. CASE InBody
  <2>1. Top.kind = "body" /\ Top \in BodyFrames(ast) /\ Top.at <= Top.upTo
    BY <1>3, <1>6, FrameKinds DEF InBody
  <2>2. /\ Top.node \in Nodes(ast) /\ Top.at \in Nat \ {0} /\ Top.upTo \in Nat /\ Top.slot \in Nat
        /\ Top.upTo <= Len(ast.body[Top.node])
    BY <2>1 DEF BodyFrames
  <2>3. ast.body[Top.node] \in Seq(Steps) /\ Len(ast.body[Top.node]) \in Nat
    BY <1>1, <2>2, LenProperties, ElementOfSeq DEF Program, Nodes
  <2>4. Top.at \in 1..Len(ast.body[Top.node]) /\ Top.node \in Nat
    BY <1>1, <2>1, <2>2, <2>3, LenProperties DEF Program, Nodes
  <2>5. Step = ast.body[Top.node][Top.at] /\ Visit = <<Top.slot, Top.node>>
    BY <2>1 DEF Step, Visit
  <2>6. Step \in Steps
    BY <2>3, <2>4, <2>5, ElementOfSeq
  <2>7. Step[1] = "check" => Step[2] \in DOMAIN ast.slot
    <3>1. Script(ast.body[Top.node], ast)
      BY <1>1, <2>2 DEF Program, Nodes
    <3>2. Top.at \in DOMAIN ast.body[Top.node]
      BY <2>3, <2>4, LenProperties
    <3> QED BY <2>5, <3>1, <3>2 DEF Script
  <2>8. [Top EXCEPT !.at = @ + 1] \in BodyFrames(ast)
    BY <2>1, <2>2 DEF BodyFrames
  <2> QED BY <1>1, <1>4, <1>5, <2>1, <2>2, <2>4, <2>5, <2>6, <2>7, <2>8 DEF Frames
<1>7. CASE InTemplate
  <2>1. Top.kind = "instantiate" /\ Top \in InstantiateFrames(FALSE) /\ Top.at <= Len(ast.template)
    BY <1>3, <1>7, FrameKinds DEF InTemplate
  <2>2. Top.at \in Nat \ {0}
    BY <2>1 DEF InstantiateFrames
  <2>3. ast.template \in Seq(Steps) /\ Len(ast.template) \in Nat /\ Script(ast.template, ast)
    BY <1>1, LenProperties DEF Program, Script
  <2>4. Top.at \in 1..Len(ast.template)
    BY <2>1, <2>2, <2>3
  <2>5. Step = ast.template[Top.at] /\ Visit = <<NULL, NULL>>
    BY <2>1 DEF Step, Visit
  <2>6. Step \in Steps
    BY <2>3, <2>4, <2>5, ElementOfSeq
  <2>7. Step[1] = "check" => Step[2] \in DOMAIN ast.slot
    <3>1. Top.at \in DOMAIN ast.template
      BY <2>3, <2>4, LenProperties
    <3> QED BY <2>3, <2>5, <3>1 DEF Script
  <2>8. [Top EXCEPT !.at = @ + 1] \in InstantiateFrames(FALSE)
    <3> DEFINE f == Top
    <3>1. f \in InstantiateFrames(FALSE)
      BY <2>1
    <3> HIDE DEF f
    <3>3. f.at \in Nat \ {0}
      BY <2>2 DEF f
    <3>4. f.at + 1 \in Nat \ {0}
      BY <3>3
    <3>2. [f EXCEPT !.at = f.at + 1] \in InstantiateFrames(FALSE)
      BY <3>1, <3>4 DEF InstantiateFrames
    <3> QED BY <3>2 DEF f
  <2> QED BY <1>1, <1>4, <1>5, <2>1, <2>5, <2>6, <2>7, <2>8 DEF Frames, NULL
<1> QED BY <1>6, <1>7

\* The frames after a step of a script.
LEMMA AdvanceFacts ==
    ASSUME OrderInv, InBody \/ InTemplate, NEW e, Whole(stack, e, hidden, ast, FALSE)
    PROVE  Whole(Advance, e, hidden, ast, FALSE) /\ Advance # <<>> /\ Waiting(TopOf(Advance))
<1> DEFINE f == [Top EXCEPT !.at = @ + 1]
<1>1. /\ stack # <<>> /\ f \in Frames(ast, FALSE) /\ Top.kind \in {"body", "instantiate"}
      /\ Advance = Append(Under(stack), f)
  BY StepFacts
<1>2. Top \in Frames(ast, FALSE) /\ Top = TopOf(stack)
  <2>1. TopOf(stack) \in Frames(ast, FALSE)
    BY <1>1, GoodPop DEF Whole
  <2> QED BY <2>1 DEF Top, TopOf
<1>3. f.kind = Top.kind /\ f.at = Top.at + 1 /\ (f.kind = "instantiate" => f.saved = Top.saved)
  BY <1>1, <1>2, FrameKinds DEF BodyFrames, InstantiateFrames
<1> HIDE DEF f
<1> QED BY <1>1, <1>2, <1>3, WholeAdvance

LEMMA ListTyped ==
    ASSUME NEW p, NEW b \in BOOLEAN, NEW s, NEW e, NEW h, Whole(s, e, h, p, b)
    PROVE  e \in Seq(Errs(b))
<1>1. CASE Trapped(s)
  <2>1. e \in Seq(ErrsAt(Now(s), b)) /\ ErrsAt(Now(s), b) \subseteq Errs(b)
    BY <1>1 DEF Whole, ListsFor, ErrsAt
  <2> QED BY <2>1, SeqMonotonic
<1>2. CASE ~Trapped(s)
  BY <1>2 DEF Whole, ListsFor
<1> QED BY <1>1, <1>2

LEMMA ErrorNow ==
    ASSUME NEW b \in BOOLEAN, Now(stack) \in Nat,
           NEW what \in Whats, NEW disamb \in BOOLEAN, NEW visit \in Nat \X Nat
    PROVE  Error(what, disamb, visit) \in ErrsAt(Now(stack), b)
<1>1. Error(what, disamb, visit) =
          [what |-> what, disamb |-> disamb, fromDisamb |-> FALSE, step |-> Now(stack), by |-> visit]
  BY DEF Error, Now
<1>2. Error(what, disamb, visit) \in Errs(b)
  BY <1>1 DEF Errs
<1> QED BY <1>1, <1>2 DEF ErrsAt

LEMMA DeclareOrder ==
    ASSUME OrderInv, Declare PROVE OrderInv'
<1>1. (InBody \/ InTemplate) /\ stack' = Advance
      /\ UNCHANGED <<ast, ambiguity, slot, errors, nesting, hidden, instantiated, throwing, blame, diagnosed>>
  BY DEF Declare, AtStep
<1>2. Whole(stack, errors, hidden, ast, FALSE) /\ throwing = FALSE
  BY <1>1, StepFacts DEF OrderInv, ListInv
<1>3. Whole(Advance, errors, hidden, ast, FALSE)
  BY <1>1, <1>2, AdvanceFacts
<1>4. ListInv'
  BY <1>1, <1>2, <1>3 DEF ListInv
<1>5. TypeInv'
  <2>1. changeCount' \in Nat
    BY DEF Declare, OrderInv, TypeInv
  <2> QED BY <1>1, <2>1 DEF OrderInv, TypeInv
<1> QED BY <1>4, <1>5 DEF OrderInv

LEMMA LookupOrder ==
    ASSUME OrderInv, Lookup PROVE OrderInv'
<1> DEFINE x == Error(IF InTemplate THEN "isolated" ELSE Step[1], Step[1] = "lookup", Visit)
<1>1. (InBody \/ InTemplate) /\ stack' = Advance /\ Step[1] \in {"lookup", "complain"}
      /\ errors' \in {errors, Append(errors, x)}
      /\ UNCHANGED <<ast, ambiguity, slot, scope, changeCount, nesting, hidden, instantiated, throwing, diagnosed>>
  BY DEF Lookup, AtStep
<1>2. Whole(stack, errors, hidden, ast, FALSE) /\ throwing = FALSE /\ stack # <<>>
      /\ Visit \in Nat \X Nat /\ Now(stack) \in Nat
  BY <1>1, StepFacts DEF OrderInv, ListInv
<1>3. x \in ErrsAt(Now(stack), FALSE)
  <2> DEFINE what == IF InTemplate THEN "isolated" ELSE Step[1]
  <2>1. what \in Whats
    BY <1>1 DEF Whats
  <2>2. (Step[1] = "lookup") \in BOOLEAN
    OBVIOUS
  <2> HIDE DEF what
  <2>3. Error(what, Step[1] = "lookup", Visit) \in ErrsAt(Now(stack), FALSE)
    BY <1>2, <2>1, <2>2, ErrorNow
  <2> QED BY <2>3 DEF what
<1> HIDE DEF x
<1>4. Whole(stack, errors', hidden, ast, FALSE)
  BY <1>1, <1>2, <1>3, WholeReport
<1>5. Whole(Advance, errors', hidden, ast, FALSE)
  BY <1>1, <1>4, AdvanceFacts
<1>6. ListInv'
  BY <1>1, <1>2, <1>5 DEF ListInv
<1>7. TypeInv'
  BY <1>1 DEF OrderInv, TypeInv
<1> QED BY <1>6, <1>7 DEF OrderInv

LEMMA BeginInstantiateOrder ==
    ASSUME OrderInv, BeginInstantiate PROVE OrderInv'
<1> DEFINE f == Instantiate(errors, nesting)
<1>1. (InBody \/ InTemplate)
      /\ \/ stack' = Advance /\ errors' = errors /\ nesting' = nesting
         \/ stack' = Append(Advance, f) /\ errors' = <<>> /\ nesting' = 0
      /\ UNCHANGED <<ast, ambiguity, slot, scope, changeCount, hidden, throwing, ghosts>>
  BY DEF BeginInstantiate, AtStep
<1>2. Whole(stack, errors, hidden, ast, FALSE) /\ throwing = FALSE
  BY <1>1, StepFacts DEF OrderInv, ListInv
<1>3. Whole(Advance, errors, hidden, ast, FALSE) /\ Advance # <<>> /\ Waiting(TopOf(Advance))
  BY <1>1, <1>2, AdvanceFacts
<1>4. f \in Frames(ast, FALSE) /\ f.kind = "instantiate" /\ f.saved = errors
  <2>1. errors \in Seq(Errs(FALSE)) /\ nesting \in Int
    BY <1>2, ListTyped DEF OrderInv, TypeInv
  <2>2. ASSUME NEW e \in Seq(Errs(FALSE)), NEW level \in Int
        PROVE  Instantiate(e, level) \in InstantiateFrames(FALSE)
    <3> DEFINE L == Seq(Errs(FALSE))
    <3>1. e \in L
      OBVIOUS
    <3> HIDE DEF L
    <3>2. [kind |-> "instantiate", at |-> 1, saved |-> e, nesting |-> level]
             \in [kind : {"instantiate"}, at : Nat \ {0}, saved : L, nesting : Int]
      BY <3>1
    <3> QED BY <3>2 DEF Instantiate, InstantiateFrames, L
  <2>3. f \in InstantiateFrames(FALSE)
    BY <2>1, <2>2
  <2> QED BY <2>3 DEF Instantiate, Frames
<1> HIDE DEF f
<1>5. IsTraps(f)
  BY <1>4 DEF IsTraps
<1>6. Whole(Append(Advance, f), <<>>, hidden, ast, FALSE)
  BY <1>3, <1>4, <1>5, WholePushTrap
<1>7. Whole(stack', errors', hidden, ast, FALSE)
  BY <1>1, <1>3, <1>6
<1>8. ListInv'
  BY <1>1, <1>2, <1>7 DEF ListInv
<1>9. TypeInv'
  <2>1. nesting' \in Int
    BY <1>1 DEF OrderInv, TypeInv
  <2> QED BY <1>1, <2>1 DEF OrderInv, TypeInv
<1> QED BY <1>8, <1>9 DEF OrderInv

\* What the isolator does, and who is left under it.
LEMMA IsolatedFacts ==
    ASSUME NEW b \in BOOLEAN, Whole(stack, errors, hidden, ast, b), stack # <<>>,
           Top.kind = "instantiate", Isolated(Pop, Top)
    PROVE  Whole(stack', errors', hidden, ast, b) /\ nesting' = Top.nesting /\ Top \in Frames(ast, b)
<1>1. Top = TopOf(stack) /\ Pop = Under(stack)
  BY DEF Top, TopOf, Pop, Under, Cut
<1>2. /\ hidden = NULL => Whole(Under(stack), TopOf(stack).saved \o errors, hidden, ast, b)
      /\ hidden # NULL => Whole(Given(Under(stack), hidden, errors), TopOf(stack).saved, hidden, ast, b)
  BY <1>1, WholeIsolated
<1>3. TopOf(stack) \in Frames(ast, b)
  BY GoodPop DEF Whole
<1>4. CASE hidden = NULL
  BY <1>1, <1>2, <1>3, <1>4 DEF Isolated
<1>5. CASE hidden # NULL
  <2>1. stack' = Given(Under(stack), hidden, errors) /\ errors' = TopOf(stack).saved /\ nesting' = Top.nesting
    BY <1>1, <1>5 DEF Isolated, Given
  <2> QED BY <1>1, <1>2, <1>3, <1>5, <2>1
<1> QED BY <1>4, <1>5

LEMMA EndInstantiateOrder ==
    ASSUME OrderInv, EndInstantiate PROVE OrderInv'
<1>1. stack # <<>> /\ throwing = FALSE /\ Top.kind = "instantiate" /\ Isolated(Pop, Top)
      /\ UNCHANGED <<ast, ambiguity, slot, scope, changeCount, hidden, instantiated, throwing, ghosts>>
  BY DEF EndInstantiate, Running, OrderInv, TypeInv
<1>2. Whole(stack', errors', hidden, ast, FALSE) /\ nesting' = Top.nesting /\ Top \in Frames(ast, FALSE)
  <2>1. Whole(stack, errors, hidden, ast, FALSE)
    BY <1>1 DEF OrderInv, ListInv
  <2> QED BY <1>1, <2>1, IsolatedFacts
<1>3. nesting' \in Int
  <2> DEFINE f == Top
  <2>1. f \in Frames(ast, FALSE) /\ f.kind = "instantiate"
    BY <1>1, <1>2
  <2> HIDE DEF f
  <2>2. f \in InstantiateFrames(FALSE)
    BY <2>1, FrameKinds
  <2>3. f.nesting \in Int
    BY <2>2 DEF InstantiateFrames
  <2> QED BY <1>2, <2>3 DEF f
<1> QED BY <1>1, <1>2, <1>3 DEF OrderInv, TypeInv, ListInv

\* Two frames on top.
LEMMA AppendTwo ==
    ASSUME NEW F, NEW s \in Seq(F), NEW f \in F, NEW g \in F
    PROVE  s \o <<f, g>> = Append(Append(s, f), g)
<1> DEFINE a == s \o <<f, g>>
           b == Append(Append(s, f), g)
<1>1. a \in Seq(F) /\ Len(a) = Len(s) + 2
      /\ \A i \in 1..(Len(s) + 2) : a[i] = IF i <= Len(s) THEN s[i] ELSE <<f, g>>[i - Len(s)]
  <2> DEFINE t == <<f, g>>
  <2>1. t \in Seq(F) /\ Len(t) = 2
    OBVIOUS
  <2> HIDE DEF t
  <2>2. s \o t \in Seq(F) /\ Len(s \o t) = Len(s) + 2
        /\ \A i \in 1..(Len(s) + 2) : (s \o t)[i] = IF i <= Len(s) THEN s[i] ELSE t[i - Len(s)]
    <3>1. s \o t \in Seq(F) /\ Len(s \o t) = Len(s) + Len(t)
          /\ \A i \in 1..(Len(s) + Len(t)) : (s \o t)[i] = IF i <= Len(s) THEN s[i] ELSE t[i - Len(s)]
      BY <2>1, ConcatProperties
    <3> QED BY <2>1, <3>1
  <2> QED BY <2>2 DEF t
<1>2. b \in Seq(F) /\ Len(b) = Len(s) + 2 /\ (\A i \in 1..Len(s) : b[i] = s[i])
      /\ b[Len(s) + 1] = f /\ b[Len(s) + 2] = g
  <2> DEFINE t == Append(s, f)
  <2>1. t \in Seq(F) /\ Len(t) = Len(s) + 1 /\ (\A i \in 1..Len(s) : t[i] = s[i]) /\ t[Len(s) + 1] = f
    BY AppendFacts
  <2>2. Len(s) \in Nat
    BY LenProperties
  <2> HIDE DEF t
  <2>3. Append(t, g) \in Seq(F) /\ Len(Append(t, g)) = Len(t) + 1
        /\ (\A i \in 1..Len(t) : Append(t, g)[i] = t[i]) /\ Append(t, g)[Len(t) + 1] = g
    BY <2>1, AppendFacts
  <2>4. Append(t, g) \in Seq(F) /\ Len(Append(t, g)) = Len(s) + 2
        /\ (\A i \in 1..Len(s) : Append(t, g)[i] = s[i])
        /\ Append(t, g)[Len(s) + 1] = f /\ Append(t, g)[Len(s) + 2] = g
    BY <2>1, <2>2, <2>3
  <2> QED BY <2>4 DEF t
<1>3. \A i \in 1..Len(a) : a[i] = b[i]
  <2>1. Len(s) \in Nat /\ Len(a) = Len(s) + 2
    BY <1>1, LenProperties
  <2>2. ASSUME NEW i \in 1..Len(a)
        PROVE  i \in 1..Len(s) \/ i = Len(s) + 1 \/ i = Len(s) + 2
    BY <2>1
  <2>3. <<f, g>>[1] = f /\ <<f, g>>[2] = g
    OBVIOUS
  <2>4. a[Len(s) + 1] = f
    <3>1. a[Len(s) + 1] = <<f, g>>[(Len(s) + 1) - Len(s)]
      BY <1>1, <2>1
    <3> HIDE DEF a
    <3> QED BY <2>1, <2>3, <3>1
  <2>5. a[Len(s) + 2] = g
    <3>1. a[Len(s) + 2] = <<f, g>>[(Len(s) + 2) - Len(s)]
      BY <1>1, <2>1
    <3> HIDE DEF a
    <3> QED BY <2>1, <2>3, <3>1
  <2>6. \A i \in 1..Len(s) : a[i] = s[i]
    BY <1>1, <2>1
  <2> HIDE DEF a, b
  <2> QED BY <1>2, <2>2, <2>4, <2>5, <2>6
<1> HIDE DEF a, b
<1>4. a = b
  BY <1>1, <1>2, <1>3, SeqEqual
<1> QED BY <1>4 DEF a, b

\* A script to be run.
LEMMA BodyTyped ==
    ASSUME NEW p, NEW n \in Nodes(p), NEW sl \in Nat, NEW at \in Nat \ {0}, NEW upTo \in Nat,
           at <= upTo + 1, upTo <= Len(p.body[n])
    PROVE  Body(sl, n, at, upTo) \in BodyFrames(p)
<1>1. Body(sl, n, at, upTo) \in [kind : {"body"}, slot : Nat, node : Nodes(p), at : Nat \ {0}, upTo : Nat]
  BY DEF Body
<1> QED BY <1>1 DEF Body, BodyFrames

LEMMA WholeCheckNode ==
    ASSUME NEW p, Program(p), NEW b \in BOOLEAN, NEW s, NEW e, NEW h, Whole(s, e, h, p, b), s # <<>>,
           Waiting(TopOf(s)), NEW n \in Nodes(p), NEW sl \in Nat
    PROVE  Whole(Append(s, Body(sl, n, 1, Len(p.body[n]))), e, h, p, b)
<1>1. Len(p.body[n]) \in Nat
  BY LenProperties, ElementOfSeq DEF Program, Nodes
<1>2. Body(sl, n, 1, Len(p.body[n])) \in BodyFrames(p)
  BY <1>1, BodyTyped
<1> QED BY <1>2, WholePushBody

LEMMA WholePushTwo ==
    ASSUME NEW p, NEW b \in BOOLEAN, NEW s, NEW e, NEW h, Whole(s, e, h, p, b), s # <<>>,
           Waiting(TopOf(s)), NEW f \in Frames(p, b), IsTraps(f), f.saved = e, Waiting(f),
           f.kind = "resolve" => f.altErrors = <<>>, f.kind = "special" => f.callErrors = <<>>,
           NEW g \in BodyFrames(p)
    PROVE  /\ f.kind # "resolve" => Whole(s \o <<f, g>>, <<>>, h, p, b)
           /\ f.kind = "resolve" => Whole(s \o <<f, g>>, <<>>, IF h = NULL THEN Len(s) + 1 ELSE h, p, b)
<1>1. s \o <<f, g>> = Append(Append(s, f), g)
  <2>1. s \in Seq(Frames(p, b)) /\ g \in Frames(p, b)
    BY DEF Whole, StackGood, Frames
  <2> QED BY <2>1, AppendTwo
<1>2. /\ f.kind # "resolve" => Whole(Append(s, f), <<>>, h, p, b)
      /\ f.kind = "resolve" => Whole(Append(s, f), <<>>, IF h = NULL THEN Len(s) + 1 ELSE h, p, b)
      /\ Append(s, f) # <<>> /\ TopOf(Append(s, f)) = f
  BY WholePushTrap
<1> QED BY <1>1, <1>2, WholePushBody

LEMMA ResolveOrder ==
    ASSUME OrderInv, Program(ast), NEW s, Whole(s, errors, hidden, ast, FALSE), s # <<>>, Waiting(TopOf(s)),
           NEW sl \in Nat, NEW first \in Nodes(ast), NEW priority \in BOOLEAN,
           BeginResolve(s, sl, first, priority)
    PROVE  Whole(stack', errors', hidden', ast, FALSE) /\ nesting' \in Int
<1> DEFINE f == Resolve(sl, first, errors, changeCount, priority)
           g == Body(sl, first, 1, Len(ast.body[first]))
<1>1. g \in BodyFrames(ast)
  <2>1. Len(ast.body[first]) \in Nat
    BY LenProperties, ElementOfSeq DEF Program, Nodes
  <2> QED BY <2>1, BodyTyped
<1>2. f \in Frames(ast, FALSE) /\ f.kind = "resolve" /\ f.saved = errors /\ f.altErrors = <<>> /\ f.alt = first
  <2>1. errors \in Seq(Errs(FALSE)) /\ changeCount \in Nat
    BY ListTyped DEF OrderInv, TypeInv
  <2>2. ASSUME NEW e \in Seq(Errs(FALSE)), NEW change \in Nat
        PROVE  Resolve(sl, first, e, change, priority) \in ResolveFrames(ast, FALSE)
    <3> DEFINE L == Seq(Errs(FALSE))
               K == Seq(L)
               O == Seq(Nodes(ast) \X Nat)
               N == Nodes(ast)
               r == Resolve(sl, first, e, change, priority)
    <3>1. e \in L /\ <<>> \in K /\ <<>> \in O /\ first \in N
      BY EmptySeq
    <3> HIDE DEF L, K, O, N
    <3>2. r \in [kind : {"resolve"}, slot : Nat, node : N, alt : N \cup {NULL},
                 saved : L, altErrors : K, ok : O, before : Nat, priority : BOOLEAN]
      BY <3>1 DEF Resolve
    <3>3. r.ok = <<>>
      BY DEF Resolve
    <3>4. \A i \in 1..Len(r.ok) : r.ok[i][2] \in 1..Len(r.altErrors)
      BY <3>3
    <3> HIDE DEF r
    <3>5. r \in ResolveFrames(ast, FALSE)
      BY <3>2, <3>4 DEF ResolveFrames, L, K, O, N
    <3> QED BY <3>5 DEF r
  <2>3. f \in ResolveFrames(ast, FALSE)
    BY <2>1, <2>2
  <2>4. f.kind = "resolve" /\ f.saved = errors /\ f.altErrors = <<>> /\ f.alt = first
    BY DEF Resolve
  <2> QED BY <2>3, <2>4 DEF Frames
<1>3. stack' = s \o <<f, g>> /\ errors' = <<>> /\ hidden' = (IF hidden = NULL THEN Len(s) + 1 ELSE hidden)
      /\ nesting' = nesting + 1
  BY DEF BeginResolve, Hides
<1> HIDE DEF f, g
<1>4. IsTraps(f) /\ Waiting(f)
  <2>1. first # NULL
    BY LenProperties DEF Nodes, Program, NULL
  <2> QED BY <1>2, <2>1 DEF IsTraps, Waiting
<1>5. Whole(s \o <<f, g>>, <<>>, IF hidden = NULL THEN Len(s) + 1 ELSE hidden, ast, FALSE)
  BY <1>1, <1>2, <1>4, WholePushTwo
<1>6. nesting' \in Int
  BY <1>3 DEF OrderInv, TypeInv
<1> QED BY <1>3, <1>5, <1>6

LEMMA SpecialOrder ==
    ASSUME OrderInv, Program(ast), NEW s, Whole(s, errors, hidden, ast, FALSE), s # <<>>, Waiting(TopOf(s)),
           NEW sl \in Nat, NEW first \in Nodes(ast), NEW call \in Nodes(ast), NEW ctor \in Nodes(ast),
           Specials(ast), ast.body[call] # <<>>, ast.body[ctor] # <<>>,
           BeginSpecial(s, sl, first, call, ctor)
    PROVE  Whole(stack', errors', hidden', ast, FALSE) /\ nesting' \in Int
<1> DEFINE f == Special(sl, first, call, ctor, errors)
           g == Body(sl, call, 1, 1)
<1>1. g \in BodyFrames(ast)
  <2>1. Len(ast.body[call]) \in Nat \ {0}
    BY LenProperties, ElementOfSeq, EmptySeq DEF Program, Nodes
  <2> QED BY <2>1, BodyTyped
<1>2. f \in Frames(ast, FALSE) /\ f.kind = "special" /\ f.saved = errors /\ f.callErrors = <<>>
  <2>1. errors \in Seq(Errs(FALSE))
    BY ListTyped
  <2>2. ASSUME NEW e \in Seq(Errs(FALSE))
        PROVE  Special(sl, first, call, ctor, e) \in SpecialFrames(ast, FALSE)
    <3> DEFINE L == Seq(Errs(FALSE))
               N == Nodes(ast)
               r == Special(sl, first, call, ctor, e)
    <3>1. e \in L /\ <<>> \in L /\ first \in N /\ call \in N /\ ctor \in N
      BY EmptySeq
    <3> HIDE DEF L, N
    <3>2. r \in [kind : {"special"}, slot : Nat, node : N, call : N, ctor : N, alt : N, saved : L, callErrors : L]
      BY <3>1 DEF Special
    <3>3. r.call = call /\ r.ctor = ctor /\ r.alt = call
      BY DEF Special
    <3> HIDE DEF r
    <3>5. r \in SpecialFrames(ast, FALSE)
      BY <3>2, <3>3 DEF SpecialFrames, L, N
    <3> QED BY <3>5 DEF r
  <2>3. f \in SpecialFrames(ast, FALSE)
    BY <2>1, <2>2
  <2>4. f.kind = "special" /\ f.saved = errors /\ f.callErrors = <<>>
    BY DEF Special
  <2> QED BY <2>3, <2>4 DEF Frames
<1>3. stack' = s \o <<f, g>> /\ errors' = <<>> /\ hidden' = hidden /\ nesting' = nesting
  BY DEF BeginSpecial
<1> HIDE DEF f, g
<1>4. IsTraps(f) /\ Waiting(f)
  BY <1>2 DEF IsTraps, Waiting
<1>5. Whole(s \o <<f, g>>, <<>>, hidden, ast, FALSE)
  BY <1>1, <1>2, <1>4, WholePushTwo
<1>6. nesting' \in Int
  BY <1>3 DEF OrderInv, TypeInv
<1> QED BY <1>3, <1>5, <1>6

LEMMA CheckOrder ==
    ASSUME OrderInv, Check PROVE OrderInv'
<1> DEFINE sl == Step[2]
           n == slot[sl]
           b == ambiguity[n]
<1>1. (InBody \/ InTemplate) /\ Step[1] = "check"
      /\ UNCHANGED <<ast, slot, scope, changeCount, instantiated, throwing, diagnosed>>
  BY DEF Check, AtStep
<1>2. Program(ast) /\ throwing = FALSE /\ Whole(stack, errors, hidden, ast, FALSE)
  BY <1>1, StepFacts, ProgramsAssumption DEF OrderInv, TypeInv, ListInv
<1>3. Whole(Advance, errors, hidden, ast, FALSE) /\ Advance # <<>> /\ Waiting(TopOf(Advance))
  BY <1>1, <1>2, AdvanceFacts
<1>4. sl \in DOMAIN ast.slot /\ sl \in Nat
  <2>1. sl \in DOMAIN ast.slot
    BY <1>1, StepFacts
  <2>2. DOMAIN ast.slot = 1..Len(ast.slot)
    BY <1>2, LenProperties DEF Program
  <2> QED BY <2>1, <2>2
<1>5. n \in Nodes(ast)
  BY <1>4 DEF OrderInv, TypeInv
<1>6. b \in {NULL} \cup Nodes(ast) /\ NULL \notin Nodes(ast)
  <2>1. b \in {NULL} \cup Nodes(ast)
    BY <1>5 DEF OrderInv, TypeInv
  <2>2. NULL \notin Nodes(ast)
    BY <1>2, LenProperties DEF Program, Nodes, NULL
  <2> QED BY <2>1, <2>2
<1>7. /\ ambiguity \in [Nodes(ast) -> {NULL} \cup Nodes(ast)] /\ NonEmptyLinks(ast, ambiguity)
      /\ slot \in [DOMAIN ast.slot -> Nodes(ast)] /\ ast \in Programs /\ changeCount \in Nat /\ nesting \in Int
  BY DEF OrderInv, TypeInv
<1>8. SUFFICES /\ Whole(stack', errors', hidden', ast, FALSE) /\ nesting' \in Int
               /\ ambiguity' \in [Nodes(ast) -> {NULL} \cup Nodes(ast)] /\ NonEmptyLinks(ast, ambiguity')
  <2> HIDE DEF sl, n, b
  <2>1. ListInv'
    BY <1>1, <1>2, <1>8 DEF ListInv
  <2>2. throwing' \in BOOLEAN
    BY <1>1, <1>2
  <2>3. TypeInv'
    BY <1>1, <1>7, <1>8, <2>2 DEF TypeInv
  <2> QED BY <2>1, <2>3 DEF OrderInv
<1>9. CASE b = NULL /\ CheckNode(Advance, sl, n) /\ UNCHANGED <<ambiguity, errors, nesting, hidden>>
  <2> HIDE DEF n
  <2> HIDE DEF sl
  <2>1. Whole(Append(Advance, Body(sl, n, 1, Len(ast.body[n]))), errors, hidden, ast, FALSE)
    BY <1>2, <1>3, <1>4, <1>5, WholeCheckNode
  <2>2. stack' = Append(Advance, Body(sl, n, 1, Len(ast.body[n])))
    BY <1>9 DEF CheckNode
  <2> QED BY <1>7, <1>9, <2>1, <2>2
<1>10. CASE b # NULL /\ BeginResolve(Advance, sl, n, ast.mode[n] = "priority") /\ UNCHANGED ambiguity
  <2>1. (ast.mode[n] = "priority") \in BOOLEAN
    OBVIOUS
  <2> DEFINE priority == ast.mode[n] = "priority"
  <2> HIDE DEF priority
  <2>2. priority \in BOOLEAN /\ BeginResolve(Advance, sl, n, priority)
    BY <1>10, <2>1 DEF priority
  <2> HIDE DEF n, b, sl
  <2>3. Whole(stack', errors', hidden', ast, FALSE) /\ nesting' \in Int
    BY <1>2, <1>3, <1>4, <1>5, <2>2, ResolveOrder
  <2> QED BY <1>7, <1>10, <2>3
<1>11. CASE b # NULL /\ ambiguity' = Swapped(n) /\ BeginResolve(Advance, sl, b, TRUE)
  <2>1. ambiguity' = [ambiguity EXCEPT ![n] = ambiguity[b], ![b] = n]
    BY <1>11 DEF Swapped
  <2> HIDE DEF n, b, sl
  <2>2. b \in Nodes(ast)
    BY <1>6, <1>11
  <2>3. Whole(stack', errors', hidden', ast, FALSE) /\ nesting' \in Int
    BY <1>2, <1>3, <1>4, <1>11, <2>2, ResolveOrder
  <2>4. ambiguity' \in [Nodes(ast) -> {NULL} \cup Nodes(ast)]
    BY <1>5, <1>7, <2>1, <2>2
  <2>5. NonEmptyLinks(ast, ambiguity')
    <3>1. SUFFICES ASSUME Specials(ast), NEW k \in Nodes(ast), ambiguity'[k] # NULL
                   PROVE  ast.body[k] # <<>> /\ ast.body[ambiguity'[k]] # <<>>
      BY DEF NonEmptyLinks
    <3>2. ast.body[n] # <<>> /\ ast.body[b] # <<>>
      BY <1>5, <1>7, <1>11, <3>1 DEF NonEmptyLinks, n, b
    <3>3. CASE k = b
      BY <1>5, <1>7, <2>1, <2>2, <3>2, <3>3
    <3>4. CASE k # b /\ k = n
      <4>1. ambiguity'[k] = ambiguity[b]
        BY <1>7, <2>1, <3>4
      <4>2. ast.body[ambiguity[b]] # <<>>
        BY <1>7, <2>2, <3>1, <4>1 DEF NonEmptyLinks
      <4> QED BY <3>2, <3>4, <4>1, <4>2
    <3>5. CASE k # b /\ k # n
      <4>1. ambiguity'[k] = ambiguity[k]
        BY <1>7, <2>1, <3>5
      <4> QED BY <1>7, <3>1, <4>1 DEF NonEmptyLinks
    <3> QED BY <3>3, <3>4, <3>5
  <2> QED BY <2>3, <2>4, <2>5
<1>12. CASE /\ b # NULL /\ UNCHANGED ambiguity
            /\ \/ ast.mode[n] = "special" /\ BeginSpecial(Advance, sl, n, n, b)
               \/ ast.mode[n] = "specialSwapped" /\ BeginSpecial(Advance, sl, n, b, n)
  <2>1. Specials(ast)
    <3>1. n \in DOMAIN ast.mode
      BY <1>2, <1>5 DEF Program, Nodes
    <3> QED BY <1>12, <3>1 DEF Specials
  <2>2. b \in Nodes(ast)
    BY <1>6, <1>12
  <2>3. ast.body[n] # <<>> /\ ast.body[b] # <<>>
    BY <1>5, <1>7, <1>12, <2>1 DEF NonEmptyLinks
  <2> HIDE DEF n, b, sl
  <2>4. Whole(stack', errors', hidden', ast, FALSE) /\ nesting' \in Int
    BY <1>2, <1>3, <1>4, <1>5, <1>12, <2>1, <2>2, <2>3, SpecialOrder
  <2> QED BY <1>7, <1>12, <2>4
<1>13. \/ b = NULL /\ CheckNode(Advance, sl, n) /\ UNCHANGED <<ambiguity, errors, nesting, hidden>>
       \/ b # NULL /\ BeginResolve(Advance, sl, n, ast.mode[n] = "priority") /\ UNCHANGED ambiguity
       \/ b # NULL /\ ambiguity' = Swapped(n) /\ BeginResolve(Advance, sl, b, TRUE)
       \/ /\ b # NULL /\ UNCHANGED ambiguity
          /\ \/ ast.mode[n] = "special" /\ BeginSpecial(Advance, sl, n, n, b)
             \/ ast.mode[n] = "specialSwapped" /\ BeginSpecial(Advance, sl, n, b, n)
  BY Zenon DEF Check
<1> QED BY <1>9, <1>10, <1>11, <1>12, <1>13

LEMMA EndBodyOrder ==
    ASSUME OrderInv, EndBody PROVE OrderInv'
<1>1. stack # <<>> /\ throwing = FALSE /\ TopOf(stack).kind = "body" /\ stack' = Under(stack)
      /\ UNCHANGED <<ast, ambiguity, slot, envVars, throwing, ghosts>>
  <2>1. stack # <<>> /\ Top.kind = "body" /\ stack' = Pop
        /\ UNCHANGED <<ast, ambiguity, slot, envVars, throwing, ghosts>>
    BY DEF EndBody, Ended, Running
  <2>2. throwing = FALSE
    BY DEF EndBody, Ended, Running, OrderInv, TypeInv
  <2>3. TopOf(stack) = Top /\ Under(stack) = Pop
    BY DEF Top, TopOf, Pop, Under, Cut
  <2> QED BY <2>1, <2>2, <2>3
<1>2. Whole(stack, errors, hidden, ast, FALSE) /\ ~IsTraps(TopOf(stack))
  BY <1>1 DEF OrderInv, ListInv, IsTraps
<1>3. Whole(Under(stack), errors, hidden, ast, FALSE)
  BY <1>1, <1>2, WholePopBody
<1>4. ListInv'
  BY <1>1, <1>3 DEF ListInv, envVars
<1>5. TypeInv'
  BY <1>1 DEF TypeInv, OrderInv, envVars
<1> QED BY <1>4, <1>5 DEF OrderInv

\* The script on top is done, and an attempt below it goes on.
LEMMA BelowFacts ==
    ASSUME OrderInv, Ended, Len(stack) > 1, Below(1).kind # "body"
    PROVE  /\ throwing = FALSE /\ stack # <<>>
           /\ Whole(Under(stack), errors, hidden, ast, FALSE) /\ Under(stack) # <<>>
           /\ TopOf(Under(stack)) = Below(1) /\ IsTraps(Below(1))
           /\ SubSeq(stack, 1, Len(stack) - 2) = Under(Under(stack))
           /\ Below(1) \in Frames(ast, FALSE) /\ Waiting(Below(1))
           /\ Now(Under(stack)) = Now(stack) /\ Now(stack) \in Nat
           /\ FrameGood(Below(1), Under(Under(stack)), FALSE)
           /\ errors \in Seq(ErrsAt(Now(stack), FALSE)) /\ Now(Under(Under(stack))) = Now(stack)
           /\ Under(Under(stack)) # <<>>
<1>1. stack # <<>> /\ throwing = FALSE /\ TopOf(stack).kind = "body"
  <2>1. stack # <<>> /\ Top.kind = "body"
    BY DEF Ended, Running
  <2>2. throwing = FALSE
    BY DEF Ended, Running, OrderInv, TypeInv
  <2>3. TopOf(stack) = Top
    BY DEF Top, TopOf
  <2> QED BY <2>1, <2>2, <2>3
<1>2. Whole(stack, errors, hidden, ast, FALSE) /\ ~IsTraps(TopOf(stack)) /\ StackGood(stack, ast, FALSE)
  BY <1>1 DEF OrderInv, ListInv, IsTraps, Whole
<1>3. Whole(Under(stack), errors, hidden, ast, FALSE)
  BY <1>1, <1>2, WholePopBody
<1>4. /\ Len(Under(stack)) \in Nat /\ Len(stack) = Len(Under(stack)) + 1 /\ Keeps(Under(stack), stack)
      /\ (Under(stack) # <<>> => Waiting(TopOf(Under(stack))) /\ Now(Under(stack)) = Now(stack))
  BY <1>1, <1>2, GoodPop
<1>5. Under(stack) # <<>>
  BY <1>4
<1>6. TopOf(Under(stack)) = Below(1)
  <2>1. Len(Under(stack)) = Len(stack) - 1 /\ Len(Under(stack)) \in 1..Len(Under(stack))
    BY <1>4
  <2>2. Under(stack)[Len(Under(stack))] = stack[Len(Under(stack))]
    BY <1>4, <2>1 DEF Keeps
  <2> QED BY <2>1, <2>2 DEF TopOf, Below
<1>7. IsTraps(Below(1))
  BY DEF IsTraps
<1>8. SubSeq(stack, 1, Len(stack) - 2) = Under(Under(stack))
  <2>0. stack \in Seq(Frames(ast, FALSE))
    BY <1>2 DEF StackGood
  <2>1. Len(Under(stack)) - 1 = Len(stack) - 2
        /\ Len(stack) - 1 \in 0..Len(stack) /\ Len(stack) - 2 \in 0..(Len(stack) - 1)
    BY <1>4
  <2>2. Cut(Cut(stack, Len(stack) - 1), Len(stack) - 2) = Cut(stack, Len(stack) - 2)
    BY <2>0, <2>1, CutFacts
  <2> QED BY <2>1, <2>2 DEF Under, Cut
<1>9. /\ Under(Under(stack)) # <<>> /\ Now(Under(Under(stack))) = Now(Under(stack)) /\ Now(Under(stack)) \in Nat
      /\ errors \in Seq(ErrsAt(Now(Under(stack)), FALSE))
      /\ FrameGood(TopOf(Under(stack)), Under(Under(stack)), FALSE)
      /\ TopOf(Under(stack)) \in Frames(ast, FALSE)
  BY <1>3, <1>5, <1>6, <1>7, WholePopTrap
<1> QED BY <1>1, <1>3, <1>4, <1>5, <1>6, <1>7, <1>8, <1>9

\* The search notes the outcome of an alternative and goes on to the next.
Tried(r, x, ok, next, change) ==
    [r EXCEPT !.altErrors = Append(r.altErrors, x), !.ok = ok, !.alt = next, !.before = change]

\* f is what such a frame becomes.
Follows(f, r, x, next, p, b) ==
    /\ f \in ResolveFrames(p, b) /\ f.kind = "resolve" /\ f.saved = r.saved /\ f.slot = r.slot
    /\ f.altErrors = Append(r.altErrors, x) /\ f.alt = next
\* r is trying an alternative, and ok is what its list of successes becomes.
IsTried(r, p) == r.alt \in Nodes(p)
Outcome(r, ok) == ok \in {r.ok, Append(r.ok, <<r.alt, Len(r.altErrors) + 1>>)}

LEMMA ResolveTyped ==
    ASSUME NEW p, NEW b \in BOOLEAN, NEW r \in ResolveFrames(p, b), NEW x \in Seq(Errs(b)), IsTried(r, p),
           NEW ok, Outcome(r, ok), NEW next \in Nodes(p) \cup {NULL}, NEW change \in Nat,
           NEW f, f = Tried(r, x, ok, next, change)
    PROVE  Follows(f, r, x, next, p, b)
<1> DEFINE L == Seq(Errs(b))
           K == Seq(L)
           N == Nodes(p)
           O == Seq(N \X Nat)
<1>1. /\ r \in [kind : {"resolve"}, slot : Nat, node : N, alt : N \cup {NULL},
                saved : L, altErrors : K, ok : O, before : Nat, priority : BOOLEAN]
      /\ \A i \in 1..Len(r.ok) : r.ok[i][2] \in 1..Len(r.altErrors)
  BY DEF ResolveFrames
<1>2. r.altErrors \in K /\ r.ok \in O
  <2> HIDE DEF K, L, N, O
  <2> QED BY <1>1
<1>3. Len(r.altErrors) \in Nat /\ Len(r.ok) \in Nat
  BY <1>2, LenProperties
<1>4. Append(r.altErrors, x) \in K /\ Len(Append(r.altErrors, x)) = Len(r.altErrors) + 1
  <2> HIDE DEF L
  <2>1. x \in L
    BY DEF L
  <2> QED BY <1>2, <2>1, AppendFacts
<1>5. ok \in O /\ \A i \in 1..Len(ok) : ok[i][2] \in 1..(Len(r.altErrors) + 1)
  <2> DEFINE pair == <<r.alt, Len(r.altErrors) + 1>>
  <2>1. pair \in N \X Nat /\ pair[2] = Len(r.altErrors) + 1
    BY <1>3 DEF IsTried
  <2> HIDE DEF pair, N
  <2>0. ok = r.ok \/ ok = Append(r.ok, pair)
    BY DEF Outcome, pair
  <2>2. CASE ok = r.ok
    BY <1>1, <1>2, <1>3, <2>2
  <2>3. CASE ok = Append(r.ok, pair)
    <3>1. Append(r.ok, pair) \in O /\ Len(Append(r.ok, pair)) = Len(r.ok) + 1
          /\ (\A i \in 1..Len(r.ok) : Append(r.ok, pair)[i] = r.ok[i]) /\ Append(r.ok, pair)[Len(r.ok) + 1] = pair
      BY <1>2, <2>1, AppendFacts
    <3>2. ASSUME NEW i \in 1..Len(ok)
          PROVE  ok[i][2] \in 1..(Len(r.altErrors) + 1)
      <4>1. i \in 1..Len(r.ok) \/ i = Len(r.ok) + 1
        BY <1>3, <2>3, <3>1
      <4>2. CASE i \in 1..Len(r.ok)
        <5>1. ok[i] = r.ok[i]
          BY <2>3, <3>1, <4>2
        <5> QED BY <1>1, <1>3, <4>2, <5>1
      <4>3. CASE i = Len(r.ok) + 1
        <5>1. ok[i] = pair
          BY <2>3, <3>1, <4>3
        <5> QED BY <1>3, <2>1, <5>1
      <4> QED BY <4>1, <4>2, <4>3
    <3> QED BY <2>3, <3>1, <3>2
  <2> QED BY <2>0, <2>2, <2>3
<1> DEFINE y == Append(r.altErrors, x)
<1>6. y \in K /\ Len(y) = Len(r.altErrors) + 1 /\ f = [r EXCEPT !.altErrors = y, !.ok = ok, !.alt = next, !.before = change]
  BY <1>4 DEF Tried
<1>7. next \in N \cup {NULL}
  OBVIOUS
<1> HIDE DEF y, K, L, O, N
<1>8. /\ f \in [kind : {"resolve"}, slot : Nat, node : N, alt : N \cup {NULL},
                saved : L, altErrors : K, ok : O, before : Nat, priority : BOOLEAN]
      /\ f.kind = "resolve" /\ f.saved = r.saved /\ f.slot = r.slot
      /\ f.altErrors = y /\ f.alt = next /\ f.ok = ok
  BY <1>1, <1>5, <1>6, <1>7
<1>9. \A i \in 1..Len(f.ok) : f.ok[i][2] \in 1..Len(f.altErrors)
  BY <1>5, <1>6, <1>8
<1>10. f \in ResolveFrames(p, b)
  BY <1>8, <1>9 DEF ResolveFrames, K, L, O, N
<1> QED BY <1>8, <1>10 DEF y, Follows

LEMMA EndAlternativeOrder ==
    ASSUME OrderInv, EndAlternative PROVE OrderInv'
<1> DEFINE r == Below(1)
           s == Under(stack)
           x == OfThisAlternative(r)
           ok == IF noDisambErrors(errors) THEN Append(r.ok, <<r.alt, Len(r.altErrors) + 1>>) ELSE r.ok
           next == ambiguity[r.alt]
           f == Tried(r, x, ok, next, changeCount)
<1>1. /\ Ended /\ Len(stack) > 1 /\ Below(1).kind = "resolve" /\ Below(1).kind # "body"
      /\ \/ Stops(f) /\ stack' = Append(SubSeq(stack, 1, Len(stack) - 2), f)
         \/ ~Stops(f) /\ CheckNode(Append(SubSeq(stack, 1, Len(stack) - 2), f), f.slot, f.alt)
      /\ errors' = <<>>
      /\ UNCHANGED <<ast, ambiguity, slot, scope, changeCount, nesting, hidden, instantiated, throwing, diagnosed>>
  BY DEF EndAlternative, Tried
<1>2. /\ throwing = FALSE /\ Whole(s, errors, hidden, ast, FALSE) /\ s # <<>>
      /\ TopOf(s) = r /\ IsTraps(r) /\ SubSeq(stack, 1, Len(stack) - 2) = Under(s)
      /\ r \in Frames(ast, FALSE) /\ Waiting(r) /\ Now(s) = Now(stack) /\ Now(stack) \in Nat
      /\ FrameGood(r, Under(s), FALSE) /\ errors \in Seq(ErrsAt(Now(s), FALSE)) /\ Now(Under(s)) = Now(s)
  BY <1>1, BelowFacts
<1>3. r \in ResolveFrames(ast, FALSE) /\ r.alt \in Nodes(ast) /\ r.altErrors \in Seq(Seq(ErrsAt(Now(s), FALSE)))
      /\ r.slot \in Nat
  <2>1. r \in ResolveFrames(ast, FALSE)
    BY <1>1, <1>2, FrameKinds
  <2>2. r.alt # NULL /\ r.altErrors \in Seq(Seq(ErrsAt(Now(s), FALSE)))
    BY <1>1, <1>2 DEF Waiting, FrameGood
  <2>3. r.alt \in Nodes(ast) \cup {NULL} /\ r.slot \in Nat
    <3> HIDE DEF r
    <3> QED BY <2>1 DEF ResolveFrames
  <2> QED BY <2>1, <2>2, <2>3
<1>4. Program(ast)
  BY ProgramsAssumption DEF OrderInv, TypeInv
<1> HIDE DEF r, s
<1>5. x \in Seq(ErrsAt(Now(s), FALSE)) /\ x \in Seq(Errs(FALSE))
  <2> DEFINE E == ErrsAt(Now(s), FALSE)
  <2>1. Error("modified", FALSE, <<r.slot, r.alt>>) \in E
    <3>1. <<r.slot, r.alt>> \in Nat \X Nat
      BY <1>3, <1>4, LenProperties DEF Program, Nodes
    <3>2. "modified" \in Whats
      BY DEF Whats
    <3>3. FALSE \in BOOLEAN
      OBVIOUS
    <3>4. Error("modified", FALSE, <<r.slot, r.alt>>) \in ErrsAt(Now(stack), FALSE)
      BY <1>2, <3>1, <3>2, <3>3, ErrorNow
    <3> QED BY <1>2, <3>4
  <2>2. errors \in Seq(E)
    BY <1>2
  <2>3. E \subseteq Errs(FALSE)
    BY DEF ErrsAt
  <2> HIDE DEF E
  <2>4. Append(errors, Error("modified", FALSE, <<r.slot, r.alt>>)) \in Seq(E)
    BY <2>1, <2>2, AppendProperties
  <2>5. x \in Seq(E)
    BY <2>2, <2>4 DEF OfThisAlternative
  <2> QED BY <2>3, <2>5, SeqMonotonic DEF E
<1>6. next \in Nodes(ast) \cup {NULL} /\ changeCount \in Nat
  BY <1>3 DEF OrderInv, TypeInv
<1>7. Outcome(r, ok)
  BY DEF Outcome
<1> HIDE DEF x, ok, next
<1>8. /\ f \in ResolveFrames(ast, FALSE) /\ f.kind = "resolve" /\ f.saved = r.saved /\ f.slot = r.slot
      /\ f.altErrors = Append(r.altErrors, x) /\ f.alt = next
  <2>1. /\ f \in ResolveFrames(ast, FALSE) /\ f.kind = "resolve" /\ f.saved = r.saved /\ f.slot = r.slot
        /\ f.altErrors = Append(r.altErrors, x) /\ f.alt = next
    <3>1. r \in ResolveFrames(ast, FALSE) /\ x \in Seq(Errs(FALSE)) /\ IsTried(r, ast)
          /\ next \in Nodes(ast) \cup {NULL} /\ changeCount \in Nat
          /\ Outcome(r, ok) /\ FALSE \in BOOLEAN
      BY <1>3, <1>5, <1>6, <1>7 DEF IsTried
    <3> HIDE DEF f
    <3>2. f = Tried(r, x, ok, next, changeCount)
      BY DEF f
    <3>3. Follows(f, r, x, next, ast, FALSE)
      BY <3>1, <3>2, ResolveTyped
    <3> QED BY <3>3 DEF Follows
  <2> QED BY <2>1
<1> HIDE DEF f
<1>9. f.altErrors \in Seq(Seq(ErrsAt(Now(s), FALSE))) /\ f \in Frames(ast, FALSE)
  <2> DEFINE L == Seq(ErrsAt(Now(s), FALSE))
  <2>1. x \in L /\ r.altErrors \in Seq(L)
    BY <1>3, <1>5
  <2> HIDE DEF L
  <2>2. Append(r.altErrors, x) \in Seq(L)
    BY <2>1, AppendProperties
  <2> QED BY <1>8, <2>2 DEF L, Frames
<1>10. Whole(Append(Under(s), f), <<>>, hidden, ast, FALSE) /\ Append(Under(s), f) # <<>>
       /\ TopOf(Append(Under(s), f)) = f
  <2>1. f.kind = TopOf(s).kind /\ f.saved = TopOf(s).saved /\ IsTraps(TopOf(s)) /\ f.kind # "special"
    BY <1>1, <1>2, <1>8 DEF r
  <2> QED BY <1>2, <1>8, <1>9, <2>1, WholeRetop
<1>11. Whole(stack', <<>>, hidden, ast, FALSE)
  <2>1. CASE stack' = Append(Under(s), f)
    BY <1>10, <2>1
  <2>2. CASE ~Stops(f) /\ CheckNode(Append(Under(s), f), f.slot, f.alt)
    <3>1. f.alt # NULL
      BY <2>2 DEF Stops
    <3>2. Waiting(f) /\ f.alt \in Nodes(ast) /\ f.slot \in Nat
      BY <1>3, <1>6, <1>8, <3>1 DEF Waiting
    <3>3. Whole(Append(Append(Under(s), f), Body(f.slot, f.alt, 1, Len(ast.body[f.alt]))), <<>>, hidden, ast, FALSE)
      BY <1>4, <1>10, <3>2, WholeCheckNode
    <3>4. stack' = Append(Append(Under(s), f), Body(f.slot, f.alt, 1, Len(ast.body[f.alt])))
      BY <2>2 DEF CheckNode
    <3> QED BY <3>3, <3>4
  <2>3. stack' = Append(Under(s), f) \/ (~Stops(f) /\ CheckNode(Append(Under(s), f), f.slot, f.alt))
    BY <1>1, <1>2
  <2> QED BY <2>1, <2>2, <2>3
<1>12. ListInv'
  BY <1>1, <1>2, <1>11 DEF ListInv
<1>13. TypeInv'
  BY <1>1 DEF OrderInv, TypeInv
<1> QED BY <1>12, <1>13 DEF OrderInv

LEMMA EndResolveOrder ==
    ASSUME OrderInv, EndResolve PROVE OrderInv'
<1> DEFINE f == Top
           s == Under(stack)
           E == ErrsAt(Now(s), FALSE)
           chosen == IF Len(f.ok) = 1 THEN f.ok[1][1] ELSE f.node
           note == Error("note", FALSE, Parent)
           several == Error("several", TRUE, Parent)
           all == <<note>> \o FlattenSeq(f.altErrors) \o <<note>>
<1>1. /\ Running /\ Top.kind = "resolve" /\ stack' = s
      /\ slot' = [slot EXCEPT ![f.slot] = chosen]
      /\ ambiguity' = [ambiguity EXCEPT ![chosen] = NULL]
      /\ nesting' = nesting - 1 /\ hidden' = Released(Len(stack))
      /\ UNCHANGED <<ast, scope, changeCount, instantiated, throwing, diagnosed>>
  BY DEF EndResolve, Pop, Under, Cut
<1>2. /\ f.ok = <<>> => errors' = f.saved \o all
      /\ Len(f.ok) = 1 => errors' = f.saved \o ErrorsOfChosen(f)
      /\ f.ok # <<>> /\ Len(f.ok) # 1 => errors' = f.saved \o <<several>>
  <2>1. errors' = CASE f.ok = <<>> -> PutBack(f.saved, <<note>> \o FlattenSeq(f.altErrors) \o <<note>>)
                    [] Len(f.ok) = 1 -> PutBack(f.saved, ErrorsOfChosen(f))
                    [] OTHER -> PutBack(f.saved, <<several>>)
    BY DEF EndResolve
  <2>2. f.ok = <<>> => Len(f.ok) # 1
    BY EmptySeq
  <2> HIDE DEF f, note, several
  <2> QED BY <2>1, <2>2 DEF PutBack
<1>3. stack # <<>> /\ throwing = FALSE
  <2>1. stack # <<>>
    BY <1>1 DEF Running
  <2>2. throwing = FALSE
    BY <1>1 DEF Running, OrderInv, TypeInv
  <2> QED BY <2>1, <2>2
<1>4. Whole(stack, errors, hidden, ast, FALSE) /\ Top = TopOf(stack) /\ IsTraps(TopOf(stack))
  <2>1. Top = TopOf(stack)
    BY DEF Top, TopOf
  <2> QED BY <1>1, <1>3, <2>1 DEF OrderInv, ListInv, IsTraps
<1>5. /\ Whole(s, f.saved, IF hidden = Len(stack) THEN NULL ELSE hidden, ast, FALSE)
      /\ s # <<>> /\ Now(s) = Now(stack) /\ Now(s) \in Nat /\ FrameGood(f, Under(stack), FALSE)
      /\ f \in Frames(ast, FALSE) /\ StackGood(stack, ast, FALSE)
  BY <1>3, <1>4, WholePopTrap DEF Whole
<1>6. f \in ResolveFrames(ast, FALSE) /\ f.altErrors \in Seq(Seq(E))
  <2>1. f \in ResolveFrames(ast, FALSE)
    BY <1>1, <1>5, FrameKinds
  <2> QED BY <1>1, <1>5, <2>1 DEF FrameGood
<1>7. Program(ast)
  BY ProgramsAssumption DEF OrderInv, TypeInv
<1>8. Parent \in Nat \X Nat
  <2> DEFINE g == Below(1)
  <2>1. g.kind = "body" => g \in BodyFrames(ast)
    <3>1. Len(s) \in Nat /\ Len(stack) = Len(s) + 1 /\ stack \in Seq(Frames(ast, FALSE)) /\ Len(s) # 0
      <4>1. Len(s) \in Nat /\ Len(stack) = Len(s) + 1 /\ Len(s) # 0
        BY <1>3, <1>5, GoodPop
      <4> QED BY <1>5, <4>1 DEF StackGood
    <3>2. Len(stack) - 1 \in 1..Len(stack)
      BY <3>1
    <3>3. g \in Frames(ast, FALSE)
      BY <3>1, <3>2, ElementOfSeq DEF Below
    <3> HIDE DEF g
    <3> QED BY <3>3, FrameKinds
  <2>2. Parent = IF g.kind = "body" THEN <<g.slot, g.node>> ELSE <<NULL, NULL>>
    BY DEF Parent
  <2> HIDE DEF g
  <2>3. g.kind = "body" => g.slot \in Nat /\ g.node \in Nat
    <3>1. g.kind = "body" => g.slot \in Nat /\ g.node \in Nodes(ast)
      BY <2>1 DEF BodyFrames
    <3>2. Nodes(ast) \subseteq Nat
      BY <1>7, LenProperties DEF Program, Nodes
    <3> QED BY <3>1, <3>2
  <2> QED BY <2>2, <2>3 DEF NULL
<1>9. note \in E /\ several \in E
  <2>1. "note" \in Whats /\ "several" \in Whats
    BY DEF Whats
  <2>2. FALSE \in BOOLEAN /\ TRUE \in BOOLEAN
    OBVIOUS
  <2>3. Now(stack) \in Nat
    BY <1>5
  <2>4. Error("note", FALSE, Parent) \in ErrsAt(Now(stack), FALSE)
    BY <1>8, <2>1, <2>2, <2>3, ErrorNow
  <2>5. Error("several", TRUE, Parent) \in ErrsAt(Now(stack), FALSE)
    BY <1>8, <2>1, <2>2, <2>3, ErrorNow
  <2> QED BY <1>5, <2>4, <2>5
<1>10. chosen \in Nodes(ast) /\ f.slot \in Nat
  <2> HIDE DEF f
  <2>1. f.node \in Nodes(ast) /\ f.slot \in Nat /\ f.ok \in Seq(Nodes(ast) \X Nat)
    BY <1>6 DEF ResolveFrames
  <2>2. Len(f.ok) = 1 => f.ok[1] \in Nodes(ast) \X Nat
    BY <2>1, ElementOfSeq
  <2> QED BY <2>1, <2>2
<1>11. Len(f.ok) = 1 => ErrorsOfChosen(f) \in Seq(E)
  <2> HIDE DEF f
  <2>1. Len(f.ok) = 1 => f.ok[1][2] \in 1..Len(f.altErrors)
    BY <1>6 DEF ResolveFrames
  <2>2. Len(f.ok) = 1 => ErrorsOfChosen(f) = f.altErrors[f.ok[1][2]]
    BY DEF ErrorsOfChosen
  <2> DEFINE L == Seq(E)
             a == f.altErrors
  <2>3. a \in Seq(L)
    BY <1>6
  <2> HIDE DEF L, a
  <2>4. \A i \in 1..Len(a) : a[i] \in L
    BY <2>3, ElementOfSeq
  <2> QED BY <2>1, <2>2, <2>4 DEF L, a
<1>12. all \in Seq(E)
  <2> HIDE DEF note, E, f
  <2>1. FlattenSeq(f.altErrors) \in Seq(E)
    BY <1>6, FlattenInSeq
  <2>2. <<note>> \in Seq(E)
    BY <1>9
  <2> QED BY <2>1, <2>2, ConcatProperties
<1>13. <<several>> \in Seq(E)
  <2> HIDE DEF several, E
  <2> QED BY <1>9
<1> HIDE DEF E, all, several, note, chosen, s
<1>14. \E x \in Seq(E) : errors' = f.saved \o x
  <2> HIDE DEF f
  <2>1. CASE f.ok = <<>>
    BY <1>2, <1>12, <2>1
  <2>2. CASE Len(f.ok) = 1
    BY <1>2, <1>11, <2>2
  <2>3. CASE f.ok # <<>> /\ Len(f.ok) # 1
    BY <1>2, <1>13, <2>3
  <2> QED BY <2>1, <2>2, <2>3
<1>15. hidden' = IF hidden = Len(stack) THEN NULL ELSE hidden
  BY <1>1 DEF Released
<1>16. Whole(s, errors', hidden', ast, FALSE)
  <2> HIDE DEF f
  <2>1. Whole(s, f.saved, hidden', ast, FALSE)
    BY <1>5, <1>15
  <2>2. PICK x \in Seq(ErrsAt(Now(s), FALSE)) : errors' = f.saved \o x
    BY <1>14 DEF E
  <2>3. Whole(s, f.saved \o x, hidden', ast, FALSE)
    BY <1>5, <2>1, WholeTakeBack
  <2> QED BY <2>2, <2>3
<1>17. ListInv'
  BY <1>1, <1>3, <1>16 DEF ListInv
<1>18. TypeInv'
  <2> HIDE DEF f
  <2>1. /\ ambiguity \in [Nodes(ast) -> {NULL} \cup Nodes(ast)] /\ NonEmptyLinks(ast, ambiguity)
        /\ slot \in [DOMAIN ast.slot -> Nodes(ast)] /\ ast \in Programs /\ changeCount \in Nat /\ nesting \in Int
    BY DEF OrderInv, TypeInv
  <2>2. ambiguity' \in [Nodes(ast) -> {NULL} \cup Nodes(ast)] /\ slot' \in [DOMAIN ast.slot -> Nodes(ast)]
    BY <1>1, <1>10, <2>1
  <2>3. NonEmptyLinks(ast, ambiguity')
    BY <1>1, <1>10, <2>1 DEF NonEmptyLinks
  <2>4. nesting' \in Int
    BY <1>1, <2>1
  <2>5. throwing' \in BOOLEAN
    BY <1>1, <1>3
  <2> QED BY <1>1, <2>1, <2>2, <2>3, <2>4, <2>5 DEF TypeInv
<1> QED BY <1>17, <1>18 DEF OrderInv

\* The special case goes on to the other node.
OtherNode(f, list) == [f EXCEPT !.alt = f.ctor, !.callErrors = list]
\* g is what the frame f becomes.
GoesOnAfter(g, f, list, p, b) ==
    g \in SpecialFrames(p, b) /\ g.kind = "special" /\ g.saved = f.saved /\ g.callErrors = list

LEMMA OtherNodeTyped ==
    ASSUME NEW p, NEW b \in BOOLEAN, NEW f \in SpecialFrames(p, b), NEW list \in Seq(Errs(b)),
           NEW g, g = OtherNode(f, list)
    PROVE  GoesOnAfter(g, f, list, p, b)
<1> DEFINE L == Seq(Errs(b))
           N == Nodes(p)
<1>1. f \in [kind : {"special"}, slot : Nat, node : N, call : N, ctor : N, alt : N, saved : L, callErrors : L]
      /\ Specials(p) /\ p.body[f.call] # <<>> /\ p.body[f.ctor] # <<>> /\ list \in L
  BY DEF SpecialFrames
<1> HIDE DEF L, N
<1>2. g \in [kind : {"special"}, slot : Nat, node : N, call : N, ctor : N, alt : N, saved : L, callErrors : L]
      /\ g.kind = "special" /\ g.saved = f.saved /\ g.callErrors = list
      /\ g.call = f.call /\ g.ctor = f.ctor /\ g.alt = f.ctor
  BY <1>1 DEF OtherNode
<1>3. g \in SpecialFrames(p, b)
  BY <1>1, <1>2 DEF SpecialFrames, L, N
<1> QED BY <1>2, <1>3 DEF GoesOnAfter

LEMMA EndSpecialOrder ==
    ASSUME OrderInv, EndSpecial PROVE OrderInv'
<1> DEFINE f == Below(1)
           s == Under(stack)
           under == Under(s)
           E == ErrsAt(Now(s), FALSE)
           GoesOn == /\ errors' = f.saved \o errors
                     /\ ambiguity' = [ambiguity EXCEPT ![f.alt] = NULL]
                     /\ slot' = [slot EXCEPT ![f.slot] = f.alt]
                     /\ stack' = Append(under, Body(f.slot, f.alt, 2, Len(ast.body[f.alt])))
           TriesOther == /\ stack' = under \o <<OtherNode(f, errors), Body(f.slot, f.ctor, 1, 1)>>
                         /\ errors' = <<>>
                         /\ UNCHANGED <<ambiguity, slot>>
           GivesUp == /\ errors' = f.saved \o f.callErrors
                      /\ stack' = under
                      /\ UNCHANGED <<ambiguity, slot>>
<1>1. /\ Ended /\ Len(stack) > 1 /\ Below(1).kind = "special" /\ Below(1).kind # "body"
      /\ UNCHANGED <<ast, scope, changeCount, nesting, hidden, instantiated, throwing, diagnosed>>
  BY DEF EndSpecial
<1>2. /\ throwing = FALSE /\ Whole(s, errors, hidden, ast, FALSE) /\ s # <<>>
      /\ TopOf(s) = f /\ IsTraps(f) /\ SubSeq(stack, 1, Len(stack) - 2) = under
      /\ f \in Frames(ast, FALSE) /\ Now(s) \in Nat
      /\ FrameGood(f, under, FALSE) /\ errors \in Seq(E) /\ Now(under) = Now(s) /\ under # <<>>
  BY <1>1, BelowFacts
<1>3. GoesOn \/ TriesOther \/ GivesUp
  BY <1>2, Zenon DEF EndSpecial, PutBack, OtherNode
<1>4. f \in SpecialFrames(ast, FALSE)
  BY <1>1, <1>2, FrameKinds
<1>5. Program(ast) /\ Nodes(ast) \subseteq Nat
  <2>1. Program(ast)
    BY ProgramsAssumption DEF OrderInv, TypeInv
  <2>2. ast.body \in Seq(Seq(Steps))
    BY <2>1 DEF Program
  <2> QED BY <2>1, <2>2, LenProperties DEF Nodes
<1>6. f.kind = "special"
  BY <1>1
<1> HIDE DEF f, s
<1>7. /\ f.slot \in Nat /\ f.alt \in Nodes(ast) /\ f.ctor \in Nodes(ast)
      /\ ast.body[f.alt] # <<>> /\ ast.body[f.ctor] # <<>>
  <2>1. f.slot \in Nat /\ f.alt \in Nodes(ast) /\ f.ctor \in Nodes(ast)
    BY <1>4 DEF SpecialFrames
  <2>2. ast.body[f.call] # <<>> /\ ast.body[f.ctor] # <<>> /\ (f.alt = f.call \/ f.alt = f.ctor)
    BY <1>4 DEF SpecialFrames
  <2> QED BY <2>1, <2>2
<1>8. Len(ast.body[f.alt]) \in Nat \ {0} /\ Len(ast.body[f.ctor]) \in Nat \ {0}
  BY <1>5, <1>7, LenProperties, ElementOfSeq, EmptySeq DEF Program, Nodes
<1>9. Whole(under, f.saved, hidden, ast, FALSE) /\ Waiting(TopOf(under))
  <2>1. TopOf(s).kind # "resolve"
    BY <1>2, <1>6
  <2> QED BY <1>2, <2>1, WholePopTrap
<1>10. f.callErrors \in Seq(E)
  BY <1>2, <1>6 DEF FrameGood
<1>11. CASE GoesOn
  <2>1. Whole(under, f.saved \o errors, hidden, ast, FALSE)
    <3>1. errors \in Seq(ErrsAt(Now(under), FALSE))
      BY <1>2
    <3> QED BY <1>2, <1>9, <3>1, WholeTakeBack
  <2>2. Body(f.slot, f.alt, 2, Len(ast.body[f.alt])) \in BodyFrames(ast)
    <3> DEFINE n == Len(ast.body[f.alt])
    <3>1. n \in Nat /\ 2 <= n + 1 /\ n <= Len(ast.body[f.alt])
      BY <1>8
    <3> HIDE DEF n
    <3>2. Body(f.slot, f.alt, 2, n) \in BodyFrames(ast)
      BY <1>7, <3>1, BodyTyped
    <3> QED BY <3>2 DEF n
  <2>3. Whole(Append(under, Body(f.slot, f.alt, 2, Len(ast.body[f.alt]))), f.saved \o errors, hidden, ast, FALSE)
    BY <1>2, <1>9, <2>1, <2>2, WholePushBody
  <2>4. ListInv'
    BY <1>1, <1>2, <1>11, <2>3 DEF ListInv
  <2>5. TypeInv'
    <3>1. /\ ambiguity \in [Nodes(ast) -> {NULL} \cup Nodes(ast)] /\ NonEmptyLinks(ast, ambiguity)
          /\ slot \in [DOMAIN ast.slot -> Nodes(ast)] /\ ast \in Programs /\ changeCount \in Nat /\ nesting \in Int
      BY DEF OrderInv, TypeInv
    <3>2. ambiguity' \in [Nodes(ast) -> {NULL} \cup Nodes(ast)] /\ slot' \in [DOMAIN ast.slot -> Nodes(ast)]
      BY <1>7, <1>11, <3>1
    <3>3. NonEmptyLinks(ast, ambiguity')
      BY <1>7, <1>11, <3>1 DEF NonEmptyLinks
    <3>4. throwing' \in BOOLEAN
      BY <1>1, <1>2
    <3> QED BY <1>1, <3>1, <3>2, <3>3, <3>4 DEF TypeInv
  <2> QED BY <2>4, <2>5 DEF OrderInv
<1>12. CASE TriesOther
  <2> DEFINE g == OtherNode(f, errors)
             o == Body(f.slot, f.ctor, 1, 1)
  <2>1. errors \in Seq(Errs(FALSE))
    BY <1>2, ListTyped
  <2>2. g \in SpecialFrames(ast, FALSE) /\ g.kind = "special" /\ g.saved = f.saved /\ g.callErrors = errors
    <3>1. FALSE \in BOOLEAN /\ g = OtherNode(f, errors)
      OBVIOUS
    <3> HIDE DEF g
    <3>2. GoesOnAfter(g, f, errors, ast, FALSE)
      BY <1>4, <2>1, <3>1, OtherNodeTyped
    <3> QED BY <3>2 DEF GoesOnAfter
  <2>3. o \in BodyFrames(ast)
    BY <1>7, <1>8, BodyTyped
  <2> HIDE DEF g, o
  <2>4. Whole(Append(under, g), <<>>, hidden, ast, FALSE) /\ Append(under, g) # <<>>
        /\ TopOf(Append(under, g)) = g
    <3>1. g \in Frames(ast, FALSE) /\ g.kind = TopOf(s).kind /\ g.saved = TopOf(s).saved /\ IsTraps(TopOf(s))
          /\ g.kind # "resolve" /\ g.callErrors \in Seq(ErrsAt(Now(s), FALSE))
      BY <1>2, <1>6, <2>2 DEF Frames
    <3>2. Whole(s, errors, hidden, ast, FALSE) /\ s # <<>>
      BY <1>2
    <3> QED BY <3>1, <3>2, WholeRetop
  <2>5. Whole(Append(Append(under, g), o), <<>>, hidden, ast, FALSE)
    <3>1. Waiting(g)
      BY <2>2 DEF Waiting
    <3> QED BY <2>3, <2>4, <3>1, WholePushBody
  <2>6. under \o <<g, o>> = Append(Append(under, g), o)
    <3>1. under \in Seq(Frames(ast, FALSE)) /\ g \in Frames(ast, FALSE) /\ o \in Frames(ast, FALSE)
      BY <1>9, <2>2, <2>3 DEF Whole, StackGood, Frames
    <3> QED BY <3>1, AppendTwo
  <2>7. stack' = under \o <<g, o>> /\ errors' = <<>> /\ UNCHANGED <<ambiguity, slot>>
    BY <1>12 DEF g, o
  <2>8. ListInv'
    BY <1>1, <1>2, <2>5, <2>6, <2>7 DEF ListInv
  <2>9. TypeInv'
    BY <1>1, <2>7 DEF OrderInv, TypeInv
  <2> QED BY <2>8, <2>9 DEF OrderInv
<1>13. CASE GivesUp
  <2>1. Whole(under, f.saved \o f.callErrors, hidden, ast, FALSE)
    <3>1. f.callErrors \in Seq(ErrsAt(Now(under), FALSE))
      BY <1>2, <1>10
    <3> QED BY <1>2, <1>9, <3>1, WholeTakeBack
  <2>2. ListInv'
    BY <1>1, <1>2, <1>13, <2>1 DEF ListInv
  <2>3. TypeInv'
    BY <1>1, <1>13 DEF OrderInv, TypeInv
  <2> QED BY <2>2, <2>3 DEF OrderInv
<1> QED BY <1>3, <1>11, <1>12, <1>13

-----------------------------------------------------------------------------
(* A failed assertion *)

\* What holds when no error is marked holds when some may be.
LEMMA MayBeMarked ==
    ASSUME NEW p, NEW s, NEW e, NEW h, Whole(s, e, h, p, FALSE)
    PROVE  Whole(s, e, h, p, TRUE)
<1>1. Errs(FALSE) \subseteq Errs(TRUE) /\ \A c : ErrsAt(c, FALSE) \subseteq ErrsAt(c, TRUE)
  BY DEF Errs, ErrsAt
<1>2. /\ Seq(Errs(FALSE)) \subseteq Seq(Errs(TRUE)) /\ Seq(Seq(Errs(FALSE))) \subseteq Seq(Seq(Errs(TRUE)))
  BY <1>1, SeqMonotonic
<1>3. \A c : Seq(ErrsAt(c, FALSE)) \subseteq Seq(ErrsAt(c, TRUE))
  BY <1>1, SeqMonotonic
<1>4. \A c : Seq(Seq(ErrsAt(c, FALSE))) \subseteq Seq(Seq(ErrsAt(c, TRUE)))
  BY <1>3, SeqMonotonic
<1>5. \A t : ListsFor(t, FALSE) \subseteq ListsFor(t, TRUE)
  BY <1>2, <1>3 DEF ListsFor
<1>6. Frames(p, FALSE) \subseteq Frames(p, TRUE)
  <2>1. ResolveFrames(p, FALSE) \subseteq ResolveFrames(p, TRUE)
    <3> DEFINE L == Seq(Errs(FALSE))
               M == Seq(Errs(TRUE))
               K == Seq(Seq(Errs(FALSE)))
               J == Seq(Seq(Errs(TRUE)))
    <3>1. L \subseteq M /\ K \subseteq J
      BY <1>2
    <3> SUFFICES ASSUME NEW f \in ResolveFrames(p, FALSE) PROVE f \in ResolveFrames(p, TRUE)
      OBVIOUS
    <3>2. f \in [kind : {"resolve"}, slot : Nat, node : Nodes(p), alt : Nodes(p) \cup {NULL},
            saved : L, altErrors : K, ok : Seq(Nodes(p) \X Nat), before : Nat, priority : BOOLEAN]
          /\ \A i \in 1..Len(f.ok) : f.ok[i][2] \in 1..Len(f.altErrors)
      BY DEF ResolveFrames
    <3> HIDE DEF L, K, M, J
    <3>3. f \in [kind : {"resolve"}, slot : Nat, node : Nodes(p), alt : Nodes(p) \cup {NULL},
            saved : M, altErrors : J, ok : Seq(Nodes(p) \X Nat), before : Nat, priority : BOOLEAN]
      BY <3>1, <3>2
    <3> QED BY <3>2, <3>3 DEF ResolveFrames, M, J
  <2>2. SpecialFrames(p, FALSE) \subseteq SpecialFrames(p, TRUE)
    BY <1>2 DEF SpecialFrames
  <2>3. InstantiateFrames(FALSE) \subseteq InstantiateFrames(TRUE)
    BY <1>2 DEF InstantiateFrames
  <2> QED BY <2>1, <2>2, <2>3 DEF Frames
<1>7. StackGood(s, p, FALSE) /\ e \in ListsFor(s, FALSE) /\ HiddenGood(s, h)
  BY DEF Whole
<1>8. ASSUME NEW f, NEW t, FrameGood(f, t, FALSE)
      PROVE  FrameGood(f, t, TRUE)
  BY <1>3, <1>4, <1>5, <1>8 DEF FrameGood
<1>9. s \in Seq(Frames(p, TRUE))
  BY <1>6, <1>7, SeqMonotonic DEF StackGood
<1>10. StackGood(s, p, TRUE)
  <2>1. \A j \in 2..Len(s) : FrameGood(s[j], Cut(s, j - 1), TRUE)
    <3> SUFFICES ASSUME NEW j \in 2..Len(s) PROVE FrameGood(s[j], Cut(s, j - 1), TRUE)
      OBVIOUS
    <3>1. FrameGood(s[j], Cut(s, j - 1), FALSE)
      BY <1>7 DEF StackGood
    <3> QED BY <1>8, <3>1
  <2>2. (s # <<>> => s[1].kind = "body") /\ \A j \in 1..(Len(s) - 1) : Waiting(s[j])
    BY <1>7 DEF StackGood
  <2> QED BY <1>9, <2>1, <2>2 DEF StackGood
<1>11. e \in ListsFor(s, TRUE)
  BY <1>5, <1>7
<1> QED BY <1>7, <1>10, <1>11 DEF Whole

LEMMA FailOrder ==
    ASSUME OrderInv, Fail PROVE OrderInv'
<1>1. (InBody \/ InTemplate) /\ throwing' = TRUE
      /\ UNCHANGED <<ast, ambiguity, slot, envVars, stack, blame>>
  BY DEF Fail, AtStep
<1>2. Whole(stack, errors, hidden, ast, FALSE)
  BY <1>1, StepFacts DEF OrderInv, ListInv
<1>3. Whole(stack, errors, hidden, ast, TRUE)
  BY <1>2, MayBeMarked
<1>4. ListInv'
  BY <1>1, <1>3 DEF ListInv, envVars
<1>5. TypeInv'
  BY <1>1 DEF OrderInv, TypeInv, envVars
<1> QED BY <1>4, <1>5 DEF OrderInv

LEMMA UnwindOrder ==
    ASSUME OrderInv, Unwind PROVE OrderInv'
<1> DEFINE s == Under(stack)
           f == TopOf(stack)
           UnwindsBody == f.kind = "body" /\ stack' = s /\ UNCHANGED <<errors, nesting, hidden>>
           UnwindsSpecial == f.kind = "special" /\ stack' = s /\ UNCHANGED <<errors, nesting, hidden>>
           UnwindsResolve == /\ f.kind = "resolve" /\ errors' = f.saved \o markAllAsFromDisamb(errors)
                             /\ nesting' = nesting - 1 /\ stack' = s
                             /\ hidden' = IF hidden = Len(stack) THEN NULL ELSE hidden
           UnwindsInstantiate == Top.kind = "instantiate" /\ Isolated(Pop, Top) /\ UNCHANGED hidden
<1>1. Top = f /\ Pop = s
  BY DEF Top, TopOf, Pop, Under, Cut
<1>2. stack # <<>> /\ throwing /\ UNCHANGED <<ast, ambiguity, slot, scope, changeCount, instantiated, throwing, ghosts>>
  BY DEF Unwind
<1>3. UnwindsBody \/ UnwindsSpecial \/ UnwindsResolve \/ UnwindsInstantiate
  BY <1>1, Zenon DEF Unwind, PutBack, Marked, Released
<1>4. throwing = TRUE
  BY <1>2 DEF OrderInv, TypeInv
<1>5. Whole(stack, errors, hidden, ast, TRUE)
  BY <1>4 DEF OrderInv, ListInv
<1>6. nesting \in Int
  BY DEF OrderInv, TypeInv
<1>7. SUFFICES Whole(stack', errors', hidden', ast, TRUE) /\ nesting' \in Int
  <2>1. ListInv'
    BY <1>2, <1>4, <1>7 DEF ListInv
  <2>2. TypeInv'
    BY <1>2, <1>7 DEF OrderInv, TypeInv
  <2> QED BY <2>1, <2>2 DEF OrderInv
<1> HIDE DEF s, f
<1>8. CASE UnwindsBody
  <2>1. ~IsTraps(f)
    BY <1>8 DEF IsTraps
  <2>2. Whole(s, errors, hidden, ast, TRUE)
    BY <1>2, <1>5, <2>1, WholePopBody DEF s, f
  <2> QED BY <1>6, <1>8, <2>2
<1>9. IsTraps(f) =>
        /\ Whole(s, f.saved, IF hidden = Len(stack) THEN NULL ELSE hidden, ast, TRUE)
        /\ f.kind # "resolve" => Whole(s, f.saved, hidden, ast, TRUE)
        /\ s # <<>> /\ Now(s) = Now(stack) /\ errors \in Seq(ErrsAt(Now(stack), TRUE))
  BY <1>2, <1>5, WholePopTrap DEF s, f
<1>10. CASE UnwindsSpecial
  <2>1. IsTraps(f) /\ f.kind # "resolve"
    BY <1>10 DEF IsTraps
  <2>2. Whole(s, f.saved, hidden, ast, TRUE) /\ s # <<>> /\ errors \in Seq(ErrsAt(Now(s), TRUE))
    BY <1>9, <2>1
  <2>3. errors \in ListsFor(s, TRUE)
    BY <2>2, TakeBack DEF Whole
  <2>4. Whole(s, errors, hidden, ast, TRUE)
    BY <2>2, <2>3 DEF Whole
  <2>5. stack' = s /\ errors' = errors /\ hidden' = hidden /\ nesting' = nesting
    BY <1>10
  <2> QED BY <1>6, <2>4, <2>5
<1>11. CASE UnwindsResolve
  <2>1. IsTraps(f)
    BY <1>11 DEF IsTraps
  <2>2. Whole(s, f.saved, hidden', ast, TRUE) /\ s # <<>> /\ errors \in Seq(ErrsAt(Now(s), TRUE))
    BY <1>9, <1>11, <2>1
  <2>3. markAllAsFromDisamb(errors) \in Seq(ErrsAt(Now(s), TRUE))
    <3> DEFINE E == ErrsAt(Now(s), TRUE)
               n == Len(errors)
    <3>1. n \in Nat /\ DOMAIN errors = 1..n /\ \A i \in 1..n : errors[i] \in E
      BY <2>2, LenProperties, ElementOfSeq
    <3>2. ASSUME NEW e \in E
          PROVE  [e EXCEPT !.fromDisamb = TRUE] \in E
      BY DEF ErrsAt, Errs
    <3> HIDE DEF E, n
    <3>3. markAllAsFromDisamb(errors) = [i \in 1..n |-> [errors[i] EXCEPT !.fromDisamb = TRUE]]
      BY <3>1 DEF markAllAsFromDisamb
    <3>4. \A i \in 1..n : [errors[i] EXCEPT !.fromDisamb = TRUE] \in E
      BY <3>1, <3>2
    <3>5. markAllAsFromDisamb(errors) \in [1..n -> E]
      BY <3>3, <3>4
    <3>6. markAllAsFromDisamb(errors) \in Seq(E)
      BY <3>1, <3>5, SeqDef
    <3> QED BY <3>6 DEF E
  <2>4. Whole(s, f.saved \o markAllAsFromDisamb(errors), hidden', ast, TRUE)
    BY <2>2, <2>3, WholeTakeBack
  <2>5. stack' = s /\ errors' = f.saved \o markAllAsFromDisamb(errors) /\ nesting' = nesting - 1
    BY <1>11
  <2>6. nesting' \in Int
    BY <1>6, <2>5
  <2> DEFINE list == f.saved \o markAllAsFromDisamb(errors)
  <2>7. Whole(s, list, hidden', ast, TRUE) /\ errors' = list
    BY <2>4, <2>5
  <2> HIDE DEF list
  <2> QED BY <2>5, <2>6, <2>7
<1>12. CASE UnwindsInstantiate
  <2>1. Whole(stack', errors', hidden, ast, TRUE) /\ nesting' = Top.nesting /\ Top \in Frames(ast, TRUE)
    BY <1>2, <1>5, <1>12, IsolatedFacts
  <2>2. nesting' \in Int
    <3> DEFINE g == Top
    <3>1. g \in Frames(ast, TRUE) /\ g.kind = "instantiate"
      BY <1>12, <2>1
    <3> HIDE DEF g
    <3>2. g \in InstantiateFrames(TRUE)
      BY <3>1, FrameKinds
    <3>3. g.nesting \in Int
      BY <3>2 DEF InstantiateFrames
    <3> QED BY <2>1, <3>3 DEF g
  <2> QED BY <1>12, <2>1, <2>2
<1> QED BY <1>3, <1>8, <1>10, <1>11, <1>12

LEMMA NextOrder ==
    ASSUME OrderInv, [Next]_vars PROVE OrderInv'
<1>1. CASE UNCHANGED vars
  BY <1>1 DEF vars, envVars, ghosts, OrderInv, TypeInv, ListInv
<1>2. CASE Next
  <2>1. CASE Finished
    BY <1>1, <2>1 DEF Finished
  <2> QED BY <1>2, <2>1, DeclareOrder, LookupOrder, BeginInstantiateOrder, EndInstantiateOrder, CheckOrder,
             EndBodyOrder, EndAlternativeOrder, EndResolveOrder, EndSpecialOrder, FailOrder, UnwindOrder
             DEF Next
<1> QED BY <1>1, <1>2

\* The invariant: whatever has been put aside may be taken back where it will be.
THEOREM ListsAreKept == Spec => []OrderInv
<1>1. Init => OrderInv
  BY InitOrder
<1>2. OrderInv /\ [Next]_vars => OrderInv'
  BY NextOrder
<1> QED BY <1>1, <1>2, PTL DEF Spec

\* Errors come out in the order of the steps of the root's script that they belong to,
\* whatever their order within one step, for every program, also when an assertion
\* has failed half way through nested attempts and instantiations.
THEOREM ErrorsComeInOrder == Spec => []InOrder
<1>1. OrderInv => InOrder
  <2>1. SUFFICES ASSUME OrderInv, stack = <<>>, NEW i \in DOMAIN errors, NEW j \in DOMAIN errors, i < j
                 PROVE  errors[i].step <= errors[j].step
    BY DEF InOrder, Done
  <2>2. errors \in ListsFor(stack, throwing) /\ throwing \in BOOLEAN
    BY <2>1 DEF OrderInv, ListInv, TypeInv, Whole
  <2>3. ~Trapped(stack)
    BY <2>1, EmptySeq DEF Trapped
  <2>4. errors \in Seq(Errs(throwing)) /\ Sorted(errors)
    BY <2>2, <2>3 DEF ListsFor
  <2>5. DOMAIN errors = 1..Len(errors)
    BY <2>4, LenProperties
  <2> QED BY <2>1, <2>4, <2>5 DEF Sorted
<1> QED BY <1>1, ListsAreKept, PTL

-----------------------------------------------------------------------------
(* Blaming the input *)

Unmarked(list) == \E i \in 1..Len(list) : ~list[i].fromDisamb
\* among the first n frames one has put aside such an error, outside of any attempt
CountsBelow(s, n) == \E j \in 1..n : IsTraps(s[j]) /\ OutsideAttempts(s, j) /\ Unmarked(s[j].saved)
Counts(s, list) ==
    CountsBelow(s, Len(s)) \/ (OutsideAttempts(s, Len(s) + 1) /\ Unmarked(list))

\* From the throw on, what has been diagnosed is still to be seen.
BlameInv == throwing /\ ~UsesSpecial => (diagnosed <=> Counts(stack, errors))

KindsBefore(s, t, j) == \A k \in 1..(j - 1) : t[k].kind = s[k].kind

LEMMA OutsideSame ==
    ASSUME NEW s, NEW t, NEW j \in Nat, KindsBefore(s, t, j)
    PROVE  OutsideAttempts(s, j) <=> OutsideAttempts(t, j)
BY DEF KindsBefore, OutsideAttempts, IsTraps

\* The list above the frame on top is of an attempt, of an instantiation, or of what
\* is below.
LEMMA OutsideTop ==
    ASSUME NEW s, NEW n \in Nat \ {0}, Len(s) = n
    PROVE  /\ TopOf(s).kind = "body" => (OutsideAttempts(s, n + 1) <=> OutsideAttempts(s, n))
           /\ TopOf(s).kind = "resolve" => ~OutsideAttempts(s, n + 1)
           /\ TopOf(s).kind = "instantiate" => OutsideAttempts(s, n + 1)
<1>1. TopOf(s) = s[n]
  BY DEF TopOf
<1>2. CASE s[n].kind = "body"
  <2>1. ASSUME OutsideAttempts(s, n), NEW k \in 1..n, s[k].kind \in {"resolve", "special"}
        PROVE  \E m \in (k + 1)..n : IsTraps(s[m])
    <3>1. k \in 1..(n - 1)
      BY <1>2, <2>1
    <3>2. PICK m \in (k + 1)..(n - 1) : IsTraps(s[m])
      BY <2>1, <3>1 DEF OutsideAttempts
    <3> QED BY <3>1, <3>2
  <2>2. ASSUME OutsideAttempts(s, n + 1), NEW k \in 1..(n - 1), s[k].kind \in {"resolve", "special"}
        PROVE  \E m \in (k + 1)..(n - 1) : IsTraps(s[m])
    <3>1. k \in 1..((n + 1) - 1)
      OBVIOUS
    <3>2. PICK m \in (k + 1)..((n + 1) - 1) : IsTraps(s[m])
      BY <2>2, <3>1 DEF OutsideAttempts
    <3>3. m # n
      BY <1>2, <3>2 DEF IsTraps
    <3> QED BY <3>2, <3>3
  <2>3. (n + 1) - 1 = n
    OBVIOUS
  <2>4. OutsideAttempts(s, n + 1) <=> OutsideAttempts(s, n)
    BY <2>1, <2>2, <2>3 DEF OutsideAttempts
  <2> QED BY <1>1, <1>2, <2>4
<1>3. CASE s[n].kind = "resolve"
  <2>1. n \in 1..((n + 1) - 1) /\ (n + 1)..((n + 1) - 1) = {}
    OBVIOUS
  <2>2. ~OutsideAttempts(s, n + 1)
    BY <1>3, <2>1 DEF OutsideAttempts
  <2> QED BY <1>1, <1>3, <2>2
<1>4. CASE s[n].kind = "instantiate"
  <2>1. ASSUME NEW k \in 1..((n + 1) - 1), s[k].kind \in {"resolve", "special"}
        PROVE  \E m \in (k + 1)..((n + 1) - 1) : IsTraps(s[m])
    <3>1. k # n
      BY <1>4, <2>1
    <3>2. n \in (k + 1)..((n + 1) - 1)
      BY <3>1
    <3> QED BY <1>4, <3>2 DEF IsTraps
  <2>2. OutsideAttempts(s, n + 1)
    BY <2>1 DEF OutsideAttempts
  <2> QED BY <1>1, <1>4, <2>2
<1> QED BY <1>1, <1>2, <1>3, <1>4

LEMMA UnmarkedConcat ==
    ASSUME NEW S, NEW a \in Seq(S), NEW x \in Seq(S)
    PROVE  Unmarked(a \o x) <=> Unmarked(a) \/ Unmarked(x)
<1>1. /\ Len(a \o x) = Len(a) + Len(x) /\ Len(a) \in Nat /\ Len(x) \in Nat
      /\ \A i \in 1..(Len(a) + Len(x)) : (a \o x)[i] = IF i <= Len(a) THEN a[i] ELSE x[i - Len(a)]
  BY ConcatProperties, LenProperties
<1> DEFINE y == a \o x
<1>2. ASSUME NEW i \in 1..Len(y), ~y[i].fromDisamb
      PROVE  Unmarked(a) \/ Unmarked(x)
  <2>1. CASE i <= Len(a)
    <3>1. y[i] = a[i] /\ i \in 1..Len(a)
      BY <1>1, <2>1
    <3> QED BY <1>2, <3>1 DEF Unmarked
  <2>2. CASE ~(i <= Len(a))
    <3>1. y[i] = x[i - Len(a)] /\ i - Len(a) \in 1..Len(x)
      BY <1>1, <2>2
    <3> QED BY <1>2, <3>1 DEF Unmarked
  <2> QED BY <2>1, <2>2
<1>3. ASSUME NEW i \in 1..Len(a), ~a[i].fromDisamb
      PROVE  Unmarked(y)
  <2>1. i \in 1..Len(y) /\ y[i] = a[i]
    BY <1>1
  <2> HIDE DEF y
  <2> QED BY <1>3, <2>1 DEF Unmarked
<1>4. ASSUME NEW i \in 1..Len(x), ~x[i].fromDisamb
      PROVE  Unmarked(y)
  <2>1. i + Len(a) \in 1..Len(y) /\ y[i + Len(a)] = x[i]
    <3>1. i + Len(a) \in 1..(Len(a) + Len(x)) /\ ~(i + Len(a) <= Len(a)) /\ (i + Len(a)) - Len(a) = i
      BY <1>1
    <3>2. y[i + Len(a)] = x[(i + Len(a)) - Len(a)]
      BY <1>1, <3>1
    <3> QED BY <1>1, <3>1, <3>2
  <2> HIDE DEF y
  <2> QED BY <1>4, <2>1 DEF Unmarked
<1> HIDE DEF y
<1>5. Unmarked(y) <=> Unmarked(a) \/ Unmarked(x)
  BY <1>2, <1>3, <1>4 DEF Unmarked
<1> QED BY <1>5 DEF y

LEMMA MarkedAll ==
    ASSUME NEW b \in BOOLEAN, NEW list \in Seq(Errs(b))
    PROVE  ~Unmarked(markAllAsFromDisamb(list))
<1> DEFINE n == Len(list)
<1>1. n \in Nat /\ DOMAIN list = 1..n /\ \A i \in 1..n : list[i] \in Errs(b)
  BY LenProperties, ElementOfSeq
<1>2. ASSUME NEW e \in Errs(b)
      PROVE  [e EXCEPT !.fromDisamb = TRUE].fromDisamb = TRUE
  BY DEF Errs
<1> HIDE DEF n
<1> DEFINE t == markAllAsFromDisamb(list)
<1>3. t = [i \in 1..n |-> [list[i] EXCEPT !.fromDisamb = TRUE]]
  BY <1>1 DEF markAllAsFromDisamb
<1>4. Len(t) = n
  BY <1>1, <1>3
<1>5. \A i \in 1..n : t[i].fromDisamb = TRUE
  BY <1>1, <1>2, <1>3
<1> HIDE DEF t
<1>6. ~Unmarked(t)
  BY <1>4, <1>5 DEF Unmarked
<1> QED BY <1>6 DEF t

\* Without the frame on top.
LEMMA CountsPop ==
    ASSUME NEW p, NEW b \in BOOLEAN, NEW s, StackGood(s, p, b), s # <<>>
    PROVE  /\ CountsBelow(s, Len(s)) <=>
                  \/ CountsBelow(Under(s), Len(Under(s)))
                  \/ IsTraps(TopOf(s)) /\ OutsideAttempts(Under(s), Len(s)) /\ Unmarked(TopOf(s).saved)
           /\ OutsideAttempts(Under(s), Len(s)) <=> OutsideAttempts(s, Len(s))
           /\ Len(Under(s)) + 1 = Len(s) /\ Len(s) \in Nat \ {0}
<1> DEFINE c == Under(s)
           n == Len(s)
<1>1. Len(c) \in Nat /\ n = Len(c) + 1 /\ Keeps(c, s)
  BY GoodPop
<1> HIDE DEF c, n
<1>2. n \in Nat \ {0} /\ Len(c) = n - 1 /\ \A i \in 1..(n - 1) : s[i] = c[i]
  BY <1>1 DEF Keeps
<1>3. \A j \in 1..n : OutsideAttempts(c, j) <=> OutsideAttempts(s, j)
  <2> SUFFICES ASSUME NEW j \in 1..n PROVE OutsideAttempts(c, j) <=> OutsideAttempts(s, j)
    OBVIOUS
  <2>1. KindsBefore(c, s, j)
    BY <1>2 DEF KindsBefore
  <2>2. j \in Nat
    BY <1>2
  <2> QED BY <2>1, <2>2, OutsideSame
<1>4. TopOf(s) = s[n]
  BY DEF TopOf, n
<1>5. CountsBelow(s, n) <=>
          \/ CountsBelow(c, n - 1)
          \/ IsTraps(s[n]) /\ OutsideAttempts(c, n) /\ Unmarked(s[n].saved)
  <2>1. ASSUME NEW j \in 1..n, IsTraps(s[j]), OutsideAttempts(s, j), Unmarked(s[j].saved)
        PROVE  \/ CountsBelow(c, n - 1)
               \/ IsTraps(s[n]) /\ OutsideAttempts(c, n) /\ Unmarked(s[n].saved)
    <3>1. CASE j = n
      BY <1>3, <2>1, <3>1
    <3>2. CASE j # n
      <4>1. j \in 1..(n - 1) /\ s[j] = c[j]
        BY <1>2, <3>2
      <4> QED BY <1>3, <2>1, <4>1 DEF CountsBelow
    <3> QED BY <3>1, <3>2
  <2>2. ASSUME NEW j \in 1..(n - 1), IsTraps(c[j]), OutsideAttempts(c, j), Unmarked(c[j].saved)
        PROVE  CountsBelow(s, n)
    <3>1. j \in 1..n /\ s[j] = c[j]
      BY <1>2
    <3> QED BY <1>3, <2>2, <3>1 DEF CountsBelow
  <2>3. ASSUME IsTraps(s[n]), OutsideAttempts(c, n), Unmarked(s[n].saved)
        PROVE  CountsBelow(s, n)
    <3>1. n \in 1..n
      BY <1>2
    <3> QED BY <1>3, <2>3, <3>1 DEF CountsBelow
  <2> QED BY <2>1, <2>2, <2>3 DEF CountsBelow
<1>6. n \in 1..n
  BY <1>2
<1> QED BY <1>1, <1>2, <1>3, <1>4, <1>5, <1>6 DEF c, n

\* What a frame that nothing hides is given counts.
LEMMA CountsGive ==
    ASSUME NEW p, ~Specials(p), NEW b \in BOOLEAN, NEW s, StackGood(s, p, b), s # <<>>,
           NEW h, h # NULL, HiddenGood(s, h), NEW x \in Seq(ErrsAt(Now(s), b))
    PROVE  /\ Len(Given(s, h, x)) = Len(s)
           /\ CountsBelow(Given(s, h, x), Len(s)) <=> CountsBelow(s, Len(s)) \/ Unmarked(x)
           /\ OutsideAttempts(Given(s, h, x), Len(s) + 1) <=> OutsideAttempts(s, Len(s) + 1)
<1> DEFINE f == [s[h] EXCEPT !.saved = s[h].saved \o x]
           t == [s EXCEPT ![h] = f]
           n == Len(s)
<1>0. t = Given(s, h, x)
  BY DEF Given
<1>1. h \in 1..n /\ s[h].kind = "resolve" /\ \A k \in 1..(h - 1) : s[k].kind # "resolve"
  BY DEF HiddenGood
<1>2. s \in Seq(Frames(p, b)) /\ n \in Nat /\ \A i \in 1..n : s[i] \in Frames(p, b)
  BY LenProperties, ElementOfSeq DEF StackGood
<1>3. DOMAIN s = 1..n /\ s = [i \in 1..n |-> s[i]]
  BY <1>2, LenProperties
<1>4. \A k \in 1..(h - 1) : s[k].kind # "special"
  <2> SUFFICES ASSUME NEW k \in 1..(h - 1), s[k].kind = "special" PROVE FALSE
    OBVIOUS
  <2>1. s[k] \in Frames(p, b)
    BY <1>1, <1>2
  <2>2. s[k] \in SpecialFrames(p, b)
    BY <2>1, FrameKinds
  <2> QED BY <2>2 DEF SpecialFrames
<1>5. s[h].saved \in Seq(Errs(b)) /\ x \in Seq(Errs(b))
  <2>1. s[h] \in ResolveFrames(p, b)
    BY <1>1, <1>2, FrameKinds
  <2>2. ErrsAt(Now(s), b) \subseteq Errs(b)
    BY DEF ErrsAt
  <2>3. x \in Seq(Errs(b))
    BY <2>2, SeqMonotonic
  <2>4. s[h].saved \in Seq(Errs(b))
    <3> DEFINE g == s[h]
    <3>1. g \in ResolveFrames(p, b)
      BY <2>1
    <3> HIDE DEF g
    <3>2. g.saved \in Seq(Errs(b))
      BY <3>1 DEF ResolveFrames
    <3> QED BY <3>2 DEF g
  <2> QED BY <2>3, <2>4
<1>6. f.kind = "resolve" /\ f.saved = s[h].saved \o x
  <2>1. s[h] \in ResolveFrames(p, b)
    BY <1>1, <1>2, FrameKinds
  <2> QED BY <1>1, <2>1 DEF ResolveFrames
<1> HIDE DEF f
<1>7. Len(t) = n /\ \A i \in 1..n : t[i] = IF i = h THEN f ELSE s[i]
  <2>1. t = [i \in 1..n |-> IF i = h THEN f ELSE s[i]]
    BY <1>1, <1>3
  <2> HIDE DEF t
  <2> QED BY <1>2, <2>1
<1> HIDE DEF t, n
<1>8. \A i \in 1..n : t[i].kind = s[i].kind /\ (IsTraps(t[i]) <=> IsTraps(s[i]))
  BY <1>1, <1>6, <1>7 DEF IsTraps
<1>9. \A j \in 1..(n + 1) : OutsideAttempts(s, j) <=> OutsideAttempts(t, j)
  <2> SUFFICES ASSUME NEW j \in 1..(n + 1) PROVE OutsideAttempts(s, j) <=> OutsideAttempts(t, j)
    OBVIOUS
  <2>1. KindsBefore(s, t, j)
    BY <1>2, <1>8 DEF KindsBefore
  <2> QED BY <2>1, OutsideSame
<1>10. OutsideAttempts(s, h)
  BY <1>1, <1>4 DEF OutsideAttempts
<1>11. Unmarked(t[h].saved) <=> Unmarked(s[h].saved) \/ Unmarked(x)
  <2>1. t[h].saved = s[h].saved \o x
    BY <1>1, <1>6, <1>7
  <2> QED BY <1>5, <2>1, UnmarkedConcat
<1>12. IsTraps(s[h])
  BY <1>1 DEF IsTraps
<1>13. CountsBelow(t, n) <=> CountsBelow(s, n) \/ Unmarked(x)
  <2>1. ASSUME NEW j \in 1..n, IsTraps(t[j]), OutsideAttempts(t, j), Unmarked(t[j].saved)
        PROVE  CountsBelow(s, n) \/ Unmarked(x)
    <3>1. IsTraps(s[j]) /\ OutsideAttempts(s, j)
      BY <1>2, <1>8, <1>9, <2>1
    <3>2. CASE j = h
      BY <1>11, <2>1, <3>1, <3>2 DEF CountsBelow
    <3>3. CASE j # h
      <4>1. t[j] = s[j]
        BY <1>7, <3>3
      <4> QED BY <2>1, <3>1, <4>1 DEF CountsBelow
    <3> QED BY <3>2, <3>3
  <2>2. ASSUME NEW j \in 1..n, IsTraps(s[j]), OutsideAttempts(s, j), Unmarked(s[j].saved)
        PROVE  CountsBelow(t, n)
    <3>1. IsTraps(t[j]) /\ OutsideAttempts(t, j)
      BY <1>2, <1>8, <1>9, <2>2
    <3>2. CASE j = h
      BY <1>11, <2>2, <3>1, <3>2 DEF CountsBelow
    <3>3. CASE j # h
      <4>1. t[j] = s[j]
        BY <1>7, <3>3
      <4> QED BY <2>2, <3>1, <4>1 DEF CountsBelow
    <3> QED BY <3>2, <3>3
  <2>3. ASSUME Unmarked(x)
        PROVE  CountsBelow(t, n)
    <3>1. IsTraps(t[h]) /\ OutsideAttempts(t, h) /\ Unmarked(t[h].saved)
      BY <1>1, <1>2, <1>8, <1>9, <1>10, <1>11, <1>12, <2>3
    <3> QED BY <1>1, <3>1 DEF CountsBelow
  <2> QED BY <2>1, <2>2, <2>3 DEF CountsBelow
<1>14. n + 1 \in 1..(n + 1)
  BY <1>2
<1>15. OutsideAttempts(t, n + 1) <=> OutsideAttempts(s, n + 1)
  BY <1>9, <1>14
<1> QED BY <1>0, <1>7, <1>13, <1>15 DEF n

\* What a frame has put aside is a list of errors.
LEMMA SavedTyped ==
    ASSUME NEW p, NEW b \in BOOLEAN, NEW f \in Frames(p, b), IsTraps(f)
    PROVE  f.saved \in Seq(Errs(b))
<1>1. f \in ResolveFrames(p, b) \/ f \in SpecialFrames(p, b) \/ f \in InstantiateFrames(b)
  BY FrameKinds DEF IsTraps
<1>2. f \in ResolveFrames(p, b) => f.saved \in Seq(Errs(b))
  BY DEF ResolveFrames
<1>3. f \in SpecialFrames(p, b) => f.saved \in Seq(Errs(b))
  BY DEF SpecialFrames
<1>4. f \in InstantiateFrames(b) => f.saved \in Seq(Errs(b))
  BY DEF InstantiateFrames
<1> QED BY <1>1, <1>2, <1>3, <1>4

LEMMA UnmarkedIfAny ==
    ASSUME NEW list \in Seq(Errs(FALSE))
    PROVE  Unmarked(list) <=> list # <<>>
<1>1. Len(list) \in Nat /\ (list # <<>> => Len(list) # 0) /\ \A i \in 1..Len(list) : list[i] \in Errs(FALSE)
  BY LenProperties, EmptySeq, ElementOfSeq
<1>2. \A e \in Errs(FALSE) : e.fromDisamb = FALSE
  BY DEF Errs
<1>3. list # <<>> => Unmarked(list)
  <2>1. SUFFICES ASSUME list # <<>> PROVE Unmarked(list)
    OBVIOUS
  <2>2. 1 \in 1..Len(list)
    BY <1>1, <2>1
  <2>3. list[1].fromDisamb = FALSE
    BY <1>1, <1>2, <2>2
  <2> QED BY <2>2, <2>3 DEF Unmarked
<1>4. list = <<>> => ~Unmarked(list)
  BY EmptySeq DEF Unmarked
<1> QED BY <1>3, <1>4

LEMMA MarkedTyped ==
    ASSUME NEW list \in Seq(Errs(TRUE))
    PROVE  markAllAsFromDisamb(list) \in Seq(Errs(TRUE))
<1> DEFINE n == Len(list)
<1>1. n \in Nat /\ DOMAIN list = 1..n /\ \A i \in 1..n : list[i] \in Errs(TRUE)
  BY LenProperties, ElementOfSeq
<1>2. ASSUME NEW e \in Errs(TRUE)
      PROVE  [e EXCEPT !.fromDisamb = TRUE] \in Errs(TRUE)
  BY DEF Errs
<1> HIDE DEF n
<1>3. markAllAsFromDisamb(list) = [i \in 1..n |-> [list[i] EXCEPT !.fromDisamb = TRUE]]
  BY <1>1 DEF markAllAsFromDisamb
<1>4. markAllAsFromDisamb(list) \in [1..n -> Errs(TRUE)]
  BY <1>1, <1>2, <1>3
<1> QED BY <1>1, <1>4, SeqDef

LEMMA FailBlame ==
    ASSUME OrderInv, Fail PROVE BlameInv'
<1> DEFINE n == Len(stack)
<1>1. (InBody \/ InTemplate) /\ throwing' = TRUE /\ (diagnosed' = Diagnosed)
      /\ UNCHANGED <<ast, stack, errors>>
  BY DEF Fail, AtStep, envVars
<1>2. Whole(stack, errors, hidden, ast, FALSE)
  BY <1>1, StepFacts DEF OrderInv, ListInv
<1>3. errors \in Seq(Errs(FALSE)) /\ stack \in Seq(Frames(ast, FALSE)) /\ n \in Nat
  <2>1. stack \in Seq(Frames(ast, FALSE))
    BY <1>2 DEF Whole, StackGood
  <2> QED BY <1>2, <2>1, ListTyped, LenProperties
<1>4. \A j \in 1..n : IsTraps(stack[j]) => (Unmarked(stack[j].saved) <=> stack[j].saved # <<>>)
  <2> SUFFICES ASSUME NEW j \in 1..n, IsTraps(stack[j])
               PROVE  Unmarked(stack[j].saved) <=> stack[j].saved # <<>>
    OBVIOUS
  <2>1. stack[j] \in Frames(ast, FALSE)
    BY <1>3, ElementOfSeq
  <2>2. stack[j].saved \in Seq(Errs(FALSE))
    BY <2>1, SavedTyped
  <2> QED BY <2>2, UnmarkedIfAny
<1>5. Unmarked(errors) <=> errors # <<>>
  BY <1>3, UnmarkedIfAny
<1> HIDE DEF n
<1>6. ASSUME NEW j \in Lists(stack), OutsideAttempts(stack, j), ListAt(stack, errors, j) # <<>>
      PROVE  Counts(stack, errors)
  <2>1. j \in 1..(n + 1)
    BY DEF Lists, n
  <2>2. CASE j <= n
    <3>1. j \in 1..n /\ IsTraps(stack[j]) /\ stack[j].saved # <<>>
      BY <1>3, <1>6, <2>1, <2>2 DEF Lists, ListAt, n
    <3>2. CountsBelow(stack, n)
      BY <1>4, <1>6, <3>1 DEF CountsBelow
    <3> QED BY <3>2 DEF Counts, n
  <2>3. CASE ~(j <= n)
    <3>1. j = n + 1 /\ errors # <<>>
      BY <1>3, <1>6, <2>1, <2>3 DEF ListAt, n
    <3> QED BY <1>5, <1>6, <3>1 DEF Counts, n
  <2> QED BY <2>2, <2>3
<1>7. ASSUME CountsBelow(stack, n)
      PROVE  Diagnosed
  <2>1. PICK j \in 1..n : IsTraps(stack[j]) /\ OutsideAttempts(stack, j) /\ Unmarked(stack[j].saved)
    BY <1>7 DEF CountsBelow
  <2>2. j \in Lists(stack) /\ ListAt(stack, errors, j) = stack[j].saved
    BY <1>3, <2>1 DEF Lists, ListAt, n
  <2> QED BY <1>4, <2>1, <2>2 DEF Diagnosed
<1>8. ASSUME OutsideAttempts(stack, n + 1), Unmarked(errors)
      PROVE  Diagnosed
  <2>1. n + 1 \in Lists(stack) /\ ListAt(stack, errors, n + 1) = errors
    BY <1>3 DEF Lists, ListAt, n
  <2> QED BY <1>5, <1>8, <2>1 DEF Diagnosed
<1>9. Diagnosed <=> Counts(stack, errors)
  <2>1. Diagnosed => Counts(stack, errors)
    BY <1>6 DEF Diagnosed
  <2>2. Counts(stack, errors) => Diagnosed
    BY <1>7, <1>8 DEF Counts, n
  <2> QED BY <2>1, <2>2
<1>10. diagnosed' <=> Counts(stack, errors)
  BY <1>1, <1>9
<1>11. stack' = stack /\ errors' = errors
  BY <1>1
<1> QED BY <1>10, <1>11 DEF BlameInv

LEMMA UnwindBlame ==
    ASSUME OrderInv, BlameInv, Unwind PROVE BlameInv'
<1> DEFINE c == Under(stack)
           f == TopOf(stack)
           n == Len(stack)
<1>1. Top = f /\ Pop = c
  BY DEF Top, TopOf, Pop, Under, Cut
<1>2. stack # <<>> /\ throwing /\ UNCHANGED <<ast, throwing, diagnosed>>
  BY DEF Unwind, ghosts
<1>3. throwing = TRUE
  BY <1>2 DEF OrderInv, TypeInv
<1>4. Whole(stack, errors, hidden, ast, TRUE) /\ StackGood(stack, ast, TRUE) /\ HiddenGood(stack, hidden)
  BY <1>3 DEF OrderInv, ListInv, Whole
<1>5. SUFFICES ASSUME ~UsesSpecial
               PROVE  Counts(stack', errors') <=> Counts(stack, errors)
  <2>1. UsesSpecial' <=> UsesSpecial
    BY <1>2 DEF UsesSpecial
  <2> QED BY <1>2, <1>5, <2>1 DEF BlameInv
<1>6. ~Specials(ast)
  BY <1>5 DEF UsesSpecial, Specials
<1>7. /\ CountsBelow(stack, n) <=>
             \/ CountsBelow(c, Len(c))
             \/ IsTraps(f) /\ OutsideAttempts(c, n) /\ Unmarked(f.saved)
      /\ OutsideAttempts(c, n) <=> OutsideAttempts(stack, n)
      /\ Len(c) + 1 = n /\ n \in Nat \ {0}
  BY <1>2, <1>4, CountsPop
<1>8. /\ f.kind = "body" => (OutsideAttempts(stack, n + 1) <=> OutsideAttempts(stack, n))
      /\ f.kind = "resolve" => ~OutsideAttempts(stack, n + 1)
      /\ f.kind = "instantiate" => OutsideAttempts(stack, n + 1)
  BY <1>7, OutsideTop
<1>9. f \in Frames(ast, TRUE) /\ f.kind \in {"body", "resolve", "instantiate"}
  <2>1. f \in Frames(ast, TRUE)
    BY <1>2, <1>4, GoodPop
  <2> HIDE DEF f
  <2>2. f.kind = "special" => f \in SpecialFrames(ast, TRUE)
    BY <2>1, FrameKinds
  <2>3. f.kind # "special"
    BY <1>6, <2>2 DEF SpecialFrames
  <2> QED BY <2>1, <2>3, FrameKinds
<1>10. IsTraps(f) => /\ f.saved \in Seq(Errs(TRUE)) /\ errors \in Seq(Errs(TRUE))
                     /\ c # <<>> /\ Now(c) = Now(stack) /\ errors \in Seq(ErrsAt(Now(stack), TRUE))
  <2>1. SUFFICES ASSUME IsTraps(f)
                 PROVE  /\ f.saved \in Seq(Errs(TRUE)) /\ errors \in Seq(Errs(TRUE))
                        /\ c # <<>> /\ Now(c) = Now(stack) /\ errors \in Seq(ErrsAt(Now(stack), TRUE))
    OBVIOUS
  <2>2. c # <<>> /\ Now(c) = Now(stack) /\ errors \in Seq(ErrsAt(Now(stack), TRUE))
    BY <1>2, <1>4, <2>1, WholePopTrap
  <2>3. f.saved \in Seq(Errs(TRUE))
    <3> HIDE DEF f
    <3> QED BY <1>9, <2>1, SavedTyped
  <2>4. errors \in Seq(Errs(TRUE))
    BY <1>4, ListTyped
  <2> QED BY <2>2, <2>3, <2>4
<1>11. Counts(stack, errors) <=> CountsBelow(stack, n) \/ (OutsideAttempts(stack, n + 1) /\ Unmarked(errors))
  BY DEF Counts
<1>12. \A list : Counts(c, list) <=> CountsBelow(c, Len(c)) \/ (OutsideAttempts(c, n) /\ Unmarked(list))
  BY <1>7 DEF Counts
<1>13. \/ f.kind = "body" /\ stack' = c /\ errors' = errors
       \/ f.kind = "resolve" /\ stack' = c /\ errors' = f.saved \o markAllAsFromDisamb(errors)
       \/ f.kind = "special"
       \/ f.kind = "instantiate" /\ Isolated(Pop, Top)
  BY <1>1, Zenon DEF Unwind, PutBack, Marked
<1> HIDE DEF c, f, n
<1>14. CASE f.kind = "body" /\ stack' = c /\ errors' = errors
  <2>1. ~IsTraps(f)
    BY <1>14 DEF IsTraps
  <2> QED BY <1>7, <1>8, <1>11, <1>12, <1>14, <2>1
<1>15. CASE f.kind = "resolve" /\ stack' = c /\ errors' = f.saved \o markAllAsFromDisamb(errors)
  <2>1. IsTraps(f)
    BY <1>15 DEF IsTraps
  <2>2. ~Unmarked(markAllAsFromDisamb(errors))
    BY <1>10, <2>1, MarkedAll
  <2>3. markAllAsFromDisamb(errors) \in Seq(Errs(TRUE))
    BY <1>10, <2>1, MarkedTyped
  <2>4. Unmarked(f.saved \o markAllAsFromDisamb(errors)) <=> Unmarked(f.saved)
    BY <1>10, <2>1, <2>2, <2>3, UnmarkedConcat
  <2>5. Unmarked(errors') <=> Unmarked(f.saved)
    BY <1>15, <2>4
  <2>6. Counts(stack', errors') <=> CountsBelow(c, Len(c)) \/ (OutsideAttempts(c, n) /\ Unmarked(errors'))
    BY <1>12, <1>15
  <2> QED BY <1>7, <1>8, <1>11, <1>15, <2>1, <2>5, <2>6
<1>16. CASE f.kind = "instantiate" /\ Isolated(Pop, Top)
  <2>1. IsTraps(f)
    BY <1>16 DEF IsTraps
  <2>2. CASE hidden = NULL
    <3>1. stack' = c /\ errors' = f.saved \o errors
      BY <1>1, <1>16, <2>2 DEF Isolated
    <3>2. Unmarked(f.saved \o errors) <=> Unmarked(f.saved) \/ Unmarked(errors)
      BY <1>10, <2>1, UnmarkedConcat
    <3>3. OutsideAttempts(stack, n)
      <4>1. stack \in Seq(Frames(ast, TRUE))
        BY <1>4 DEF StackGood
      <4>2. \A k \in 1..n : stack[k].kind # "resolve"
        BY <1>4, <2>2 DEF HiddenGood, n
      <4>3. \A k \in 1..n : stack[k].kind # "special"
        <5> SUFFICES ASSUME NEW k \in 1..n, stack[k].kind = "special" PROVE FALSE
          OBVIOUS
        <5>1. stack[k] \in Frames(ast, TRUE)
          BY <4>1, ElementOfSeq DEF n
        <5>2. stack[k] \in SpecialFrames(ast, TRUE)
          BY <5>1, FrameKinds
        <5> QED BY <1>6, <5>2 DEF SpecialFrames
      <4> QED BY <1>7, <4>2, <4>3 DEF OutsideAttempts
    <3>4. Counts(stack', errors') <=> CountsBelow(c, Len(c)) \/ Unmarked(f.saved) \/ Unmarked(errors)
      <4>1. Counts(c, f.saved \o errors) <=>
                CountsBelow(c, Len(c)) \/ (OutsideAttempts(c, n) /\ Unmarked(f.saved \o errors))
        BY <1>12
      <4> QED BY <1>7, <3>1, <3>2, <3>3, <4>1
    <3> QED BY <1>7, <1>8, <1>11, <1>16, <2>1, <3>3, <3>4
  <2>3. CASE hidden # NULL
    <3> DEFINE g == Given(c, hidden, errors)
    <3>1. stack' = g /\ errors' = f.saved
      BY <1>1, <1>16, <2>3 DEF Isolated, Given
    <3>2. HiddenGood(c, hidden) /\ StackGood(c, ast, TRUE)
      <4>1. StackGood(c, ast, TRUE) /\ Len(c) \in Nat /\ n = Len(c) + 1 /\ Keeps(c, stack)
        BY <1>2, <1>4, GoodPop DEF c, n
      <4>2. TopOf(stack).kind # "resolve"
        BY <1>16 DEF f
      <4> QED BY <1>4, <4>1, <4>2, HiddenPop DEF n
    <3>3. /\ Len(g) = Len(c)
          /\ CountsBelow(g, Len(c)) <=> CountsBelow(c, Len(c)) \/ Unmarked(errors)
          /\ OutsideAttempts(g, Len(c) + 1) <=> OutsideAttempts(c, Len(c) + 1)
      <4>1. errors \in Seq(ErrsAt(Now(c), TRUE)) /\ c # <<>>
        BY <1>10, <2>1
      <4> QED BY <1>6, <2>3, <3>2, <4>1, CountsGive
    <3> HIDE DEF g
    <3>4. Counts(g, f.saved) <=> CountsBelow(g, Len(c)) \/ (OutsideAttempts(g, Len(c) + 1) /\ Unmarked(f.saved))
      BY <3>3 DEF Counts
    <3> QED BY <1>7, <1>8, <1>11, <1>16, <2>1, <3>1, <3>3, <3>4
  <2> QED BY <2>2, <2>3
<1> QED BY <1>9, <1>13, <1>14, <1>15, <1>16

LEMMA NextBlame ==
    ASSUME OrderInv, BlameInv, [Next]_vars PROVE BlameInv'
<1>1. CASE UNCHANGED vars
  <2>1. UNCHANGED <<ast, stack, errors, throwing, diagnosed>>
    BY <1>1 DEF vars, envVars, ghosts
  <2> QED BY <2>1 DEF BlameInv, UsesSpecial
<1>2. CASE Finished
  BY <1>1, <1>2 DEF Finished
<1>3. CASE ~throwing /\ throwing' = throwing
  BY <1>3 DEF BlameInv
<1>4. ASSUME Next PROVE Fail \/ Unwind \/ Finished \/ (~throwing /\ throwing' = throwing)
  BY <1>4 DEF Next, Declare, Lookup, BeginInstantiate, EndInstantiate, Check, EndBody, EndAlternative,
              EndResolve, EndSpecial, AtStep, InBody, InTemplate, Ended, Running
<1> QED BY <1>1, <1>2, <1>3, <1>4, FailBlame, UnwindBlame

\* "hasFromNonDisambErrors" tells whether an error had been reported outside of any
\* attempt when the assertion failed, whatever attempts and instantiations the
\* exception leaves on its way out.
THEOREM BlameIsRight == Spec => []ConfusedIffDiagnosed
<1>1. Init => OrderInv /\ BlameInv
  BY InitOrder DEF Init, BlameInv
<1>2. OrderInv /\ BlameInv /\ [Next]_vars => OrderInv' /\ BlameInv'
  BY NextOrder, NextBlame
<1>3. OrderInv /\ BlameInv => ConfusedIffDiagnosed
  <2>1. SUFFICES ASSUME OrderInv, BlameInv, stack = <<>>, throwing, ~UsesSpecial
                 PROVE  diagnosed <=> \E i \in DOMAIN errors : ~errors[i].fromDisamb
    BY DEF ConfusedIffDiagnosed, Done
  <2>2. diagnosed <=> Counts(stack, errors)
    BY <2>1 DEF BlameInv
  <2>3. Len(stack) = 0
    BY <2>1
  <2>4. ~CountsBelow(stack, Len(stack)) /\ OutsideAttempts(stack, Len(stack) + 1)
    BY <2>3 DEF CountsBelow, OutsideAttempts
  <2>5. DOMAIN errors = 1..Len(errors)
    <3>1. throwing \in BOOLEAN /\ Whole(stack, errors, hidden, ast, throwing)
      BY <2>1 DEF OrderInv, TypeInv, ListInv
    <3>2. errors \in Seq(Errs(throwing))
      BY <3>1, ListTyped
    <3> QED BY <3>2, LenProperties
  <2> QED BY <2>2, <2>4, <2>5 DEF Counts, Unmarked
<1> QED BY <1>1, <1>2, <1>3, PTL DEF Spec

=============================================================================
