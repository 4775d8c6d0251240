------------------------------ MODULE Ambiguity ------------------------------
(***************************************************************************)
(* How the type checker chooses among the interpretations of an ambiguous  *)
(* AST node: resolveAmbiguity (elsa/generic_amb.h) with the error trapper  *)
(* it uses, the special case of Expression::tcheck for E_funCall and       *)
(* E_constructor, and the isolation of template instantiations from them.  *)
(*                                                                         *)
(* What checking a node does is a script: it declares names, looks names   *)
(* up, reports errors, instantiates a template, checks its subtrees, or    *)
(* fails an assertion.  An error is disambiguating if a lookup failed.     *)
(* The error lists are written oldest message first.                       *)
(***************************************************************************)
EXTENDS Integers, Sequences, SequencesExt, FiniteSets

CONSTANTS Programs   \* see Program

NULL == 0
Modes == {"all", "priority", "swap", "special", "specialSwapped"}

\* nodes and slots (the pointers to nodes) are numbered; node 1 is the root.
\* body[n] is the script of n; ambiguity[n] the next alternative; slot[s] the first
\* alternative of a subtree; mode[n] how tcheck of n resolves; template the script
\* of the one template.  A function call or a constructor has a part to check first.
Steps == ({"declare", "lookup", "complain", "instantiate", "fail"} \X STRING) \cup ({"check"} \X Nat)
Script(script, p) == script \in Seq(Steps) /\ \A i \in DOMAIN script :
                         script[i][1] = "check" => script[i][2] \in DOMAIN p.slot
Program(p) ==
    /\ DOMAIN p = {"body", "ambiguity", "slot", "mode", "template"}
    /\ p.body \in Seq(Seq(Steps)) /\ p.body # <<>>
    /\ p.ambiguity \in [DOMAIN p.body -> {NULL} \cup DOMAIN p.body]
    /\ p.mode \in [DOMAIN p.body -> Modes]
    /\ p.slot \in Seq(DOMAIN p.body)
    /\ \A n \in DOMAIN p.body : Script(p.body[n], p)
    /\ Script(p.template, p)
    /\ {"special", "specialSwapped"} \cap {p.mode[n] : n \in DOMAIN p.body} # {} =>
           \A n \in DOMAIN p.body : p.ambiguity[n] # NULL => p.body[n] # <<>> /\ p.body[p.ambiguity[n]] # <<>>
ASSUME ProgramsAssumption == \A p \in Programs : Program(p)

VARIABLES
    ast,           \* the program, fixed by Init
    ambiguity,     \* node -> next alternative
    slot,          \* slot -> the node it points to
    scope,         \* the names declared
    changeCount,
    errors,        \* env.errors
    nesting,       \* disambiguationNestingLevel
    hidden,        \* the frame whose saved list hiddenErrors points to, or NULL
    instantiated,  \* the template has been instantiated
    stack,         \* the activations of the checker
    throwing,      \* an x_assert is on its way out
    (* for the properties only *)
    blame,         \* the visits <<slot, node>> whose latest check reported an error
    diagnosed      \* at the throw: an error had been reported outside of any attempt

envVars == <<scope, changeCount, errors, nesting, hidden, instantiated>>
ghosts  == <<blame, diagnosed>>
vars    == <<ast, ambiguity, slot, envVars, stack, throwing, ghosts>>

\* frames.  "body": a script being run; "resolve": resolveAmbiguity with its
\* trapper; "special": the attempt at E_funCall or E_constructor; "instantiate": an
\* InstantiationContextIsolator.  saved is the list of errors put aside.
Body(sl, n, at, upTo) == [kind |-> "body", slot |-> sl, node |-> n, at |-> at, upTo |-> upTo]
Resolve(sl, first, saved, change, priority) ==
    [kind |-> "resolve", slot |-> sl, node |-> first, alt |-> first, saved |-> saved,
     altErrors |-> <<>>, ok |-> <<>>, before |-> change, priority |-> priority]
Special(sl, first, call, ctor, saved) ==
    [kind |-> "special", slot |-> sl, node |-> first, call |-> call, ctor |-> ctor,
     alt |-> call, saved |-> saved, callErrors |-> <<>>]
Instantiate(saved, level) == [kind |-> "instantiate", at |-> 1, saved |-> saved, nesting |-> level]

Top == stack[Len(stack)]
Below(k) == stack[Len(stack) - k]
Pop == SubSeq(stack, 1, Len(stack) - 1)
SetTop(f) == Append(Pop, f)
IsTraps(f) == f.kind # "body"

\* step is where the root's script was when the error was reported, by the visit
Error(what, disamb, visit) ==
    [what |-> what, disamb |-> disamb, fromDisamb |-> FALSE, step |-> stack[1].at, by |-> visit]

hasDisambErrors(list) == \E i \in DOMAIN list : list[i].disamb

disambErrorsSuppressChanges == nesting > 0 /\ hasDisambErrors(errors)

Init ==
    /\ ast \in Programs
    /\ ambiguity = ast.ambiguity /\ slot = ast.slot
    /\ scope = {} /\ changeCount = 0 /\ errors = <<>> /\ nesting = 0 /\ hidden = NULL
    /\ instantiated = FALSE /\ throwing = FALSE
    /\ stack = <<Body(NULL, 1, 1, Len(ast.body[1]))>>
    /\ blame = {} /\ diagnosed = FALSE

-----------------------------------------------------------------------------
(* One step of a script *)

Running == stack # <<>> /\ ~throwing
InBody == Running /\ Top.kind = "body" /\ Top.at <= Top.upTo
InTemplate == Running /\ Top.kind = "instantiate" /\ Top.at <= Len(ast.template)
Step == IF Top.kind = "body" THEN ast.body[Top.node][Top.at] ELSE ast.template[Top.at]
Advance == SetTop([Top EXCEPT !.at = @ + 1])
Visit == IF Top.kind = "body" THEN <<Top.slot, Top.node>> ELSE <<NULL, NULL>>

AtStep(op) == (InBody \/ InTemplate) /\ Step[1] = op

\* Env::addVariable, addCompound, addEnum, addTypeTag
Declare ==
    /\ AtStep("declare")
    /\ IF disambErrorsSuppressChanges \/ Step[2] \in scope
       THEN UNCHANGED <<scope, changeCount>>
       ELSE /\ scope' = scope \cup {Step[2]}
            /\ changeCount' = changeCount + 1
    /\ stack' = Advance
    /\ UNCHANGED <<ast, ambiguity, slot, errors, nesting, hidden, instantiated, throwing, blame, diagnosed>>

\* a failed lookup, or an error that does not disambiguate
Lookup ==
    /\ AtStep("lookup") \/ AtStep("complain")
    /\ IF Step[1] = "lookup" /\ Step[2] \in scope
       THEN UNCHANGED <<errors, blame>>
       ELSE /\ errors' = Append(errors, Error(IF InTemplate THEN "isolated" ELSE Step[1],
                                              Step[1] = "lookup", Visit))
            /\ blame' = blame \cup {Visit}
    /\ stack' = Advance
    /\ UNCHANGED <<ast, ambiguity, slot, scope, changeCount, nesting, hidden, instantiated, throwing, diagnosed>>

\* the isolator's constructor; a template is instantiated once
BeginInstantiate ==
    /\ AtStep("instantiate")
    /\ IF instantiated
       THEN stack' = Advance /\ UNCHANGED <<errors, nesting, instantiated>>
       ELSE /\ stack' = Append(Advance, Instantiate(errors, nesting))
            /\ errors' = <<>> /\ nesting' = 0 /\ instantiated' = TRUE
    /\ UNCHANGED <<ast, ambiguity, slot, scope, changeCount, hidden, throwing, ghosts>>

\* its destructor, with the stack s under it: errors go to the outermost list if an
\* attempt has hidden it, else after those that were there
Isolated(s, f) ==
    /\ nesting' = f.nesting
    /\ errors' = IF hidden # NULL THEN f.saved ELSE f.saved \o errors
    /\ stack' = IF hidden # NULL THEN [s EXCEPT ![hidden].saved = @ \o errors] ELSE s

EndInstantiate ==
    /\ Running /\ Top.kind = "instantiate" /\ Top.at > Len(ast.template)
    /\ Isolated(Pop, Top)
    /\ UNCHANGED <<ast, ambiguity, slot, scope, changeCount, hidden, instantiated, throwing, ghosts>>

-----------------------------------------------------------------------------
(* resolveAmbiguity *)

CheckNode(s, sl, n) ==
    /\ stack' = Append(s, Body(sl, n, 1, Len(ast.body[n])))
    /\ blame' = blame \ {<<sl, n>>}

\* swap_then_resolveAmbiguity: b goes before a
Swapped(n) == [ambiguity EXCEPT ![n] = ambiguity[ambiguity[n]], ![ambiguity[n]] = n]

\* (variation: every trapper sets hiddenErrors)
Hides_each(depth) == depth
Hides(depth) == IF hidden = NULL THEN depth ELSE hidden

\* DisambiguationErrorTrapper; hiddenErrors is set by the outermost
BeginResolve(s, sl, first, priority) ==
    /\ stack' = s \o <<Resolve(sl, first, errors, changeCount, priority),
                       Body(sl, first, 1, Len(ast.body[first]))>>
    /\ hidden' = Hides(Len(s) + 1)
    /\ nesting' = nesting + 1
    /\ errors' = <<>>
    /\ blame' = blame \ {<<sl, first>>}

\* the special case: only the first step of a node is checked to choose
BeginSpecial(s, sl, first, call, ctor) ==
    /\ stack' = s \o <<Special(sl, first, call, ctor, errors), Body(sl, call, 1, 1)>>
    /\ errors' = <<>>
    /\ blame' = blame \ {<<sl, call>>}
    /\ UNCHANGED <<hidden, nesting>>

\* tcheck of the subtree a slot points to
Check ==
    /\ AtStep("check")
    /\ LET n == slot[Step[2]]
           b == ambiguity[n]
       IN  \/ /\ b = NULL
              /\ CheckNode(Advance, Step[2], n)
              /\ UNCHANGED <<ambiguity, errors, nesting, hidden>>
           \/ /\ b # NULL /\ ast.mode[n] \in {"all", "priority"}
              /\ BeginResolve(Advance, Step[2], n, ast.mode[n] = "priority")
              /\ UNCHANGED ambiguity
           \/ /\ b # NULL /\ ast.mode[n] = "swap"
              /\ ambiguity' = Swapped(n)
              /\ BeginResolve(Advance, Step[2], b, TRUE)
           \/ /\ b # NULL /\ ast.mode[n] = "special"
              /\ BeginSpecial(Advance, Step[2], n, n, b)
              /\ UNCHANGED ambiguity
           \/ /\ b # NULL /\ ast.mode[n] = "specialSwapped"
              /\ BeginSpecial(Advance, Step[2], n, b, n)
              /\ UNCHANGED ambiguity
    /\ UNCHANGED <<ast, slot, scope, changeCount, instantiated, throwing, diagnosed>>

noDisambErrors(list) == ~hasDisambErrors(list)

Ended == Running /\ Top.kind = "body" /\ Top.at > Top.upTo

\* the script of a node is done and no one is choosing
EndBody ==
    /\ Ended
    /\ Len(stack) > 1 => Below(1).kind = "body"
    /\ stack' = Pop
    /\ UNCHANGED <<ast, ambiguity, slot, envVars, throwing, ghosts>>

\* the errors of the alternative that has been checked, one more if it was rejected
\* after it changed the environment
OfThisAlternative(f) ==
    IF noDisambErrors(errors) \/ changeCount = f.before THEN errors
    ELSE Append(errors, Error("modified", FALSE, <<f.slot, f.alt>>))

Stops(f) == f.alt = NULL \/ (f.priority /\ f.ok # <<>>)

\* one alternative is done: the next is checked, or the search ends
EndAlternative ==
    /\ Ended /\ Len(stack) > 1 /\ Below(1).kind = "resolve"
    /\ LET r == Below(1)
           f == [r EXCEPT !.altErrors = Append(@, OfThisAlternative(r)),
                          !.ok = IF noDisambErrors(errors) THEN Append(@, <<r.alt, Len(r.altErrors) + 1>>) ELSE @,
                          !.alt = ambiguity[r.alt], !.before = changeCount]
           under == SubSeq(stack, 1, Len(stack) - 2)
       IN  IF Stops(f) THEN stack' = Append(under, f) /\ UNCHANGED blame
           ELSE CheckNode(Append(under, f), f.slot, f.alt)
    /\ errors' = <<>>
    /\ UNCHANGED <<ast, ambiguity, slot, scope, changeCount, nesting, hidden, instantiated, throwing, diagnosed>>

Released(depth) == IF hidden = depth THEN NULL ELSE hidden

\* (variation: the errors of the chosen alternative go before the older ones)
PutBack_before(old, new) == new \o old
PutBack(old, new) == old \o new

Parent == IF Below(1).kind = "body" THEN <<Below(1).slot, Below(1).node>> ELSE <<NULL, NULL>>

\* (variation: the errors of the last alternative are the ones put back)
ErrorsOfChosen_last(f) == f.altErrors[Len(f.altErrors)]
ErrorsOfChosen(f) == f.altErrors[f.ok[Len(f.ok)][2]]

\* none, one or several succeeded; the link of the chosen node is broken
EndResolve ==
    /\ Running /\ Top.kind = "resolve"
    /\ LET f == Top
           chosen == IF Len(f.ok) = 1 THEN f.ok[1][1] ELSE f.node
           note == Error("note", FALSE, Parent)
       IN  /\ errors' = CASE f.ok = <<>> -> PutBack(f.saved, <<note>> \o FlattenSeq(f.altErrors) \o <<note>>)
                          [] Len(f.ok) = 1 -> PutBack(f.saved, ErrorsOfChosen(f))
                          [] OTHER -> PutBack(f.saved, <<Error("several", TRUE, Parent)>>)
           /\ blame' = IF Len(f.ok) = 1 THEN blame ELSE blame \cup {Parent}
           /\ slot' = [slot EXCEPT ![f.slot] = chosen]
           /\ ambiguity' = [ambiguity EXCEPT ![chosen] = NULL]
           /\ nesting' = nesting - 1
           /\ hidden' = Released(Len(stack))
    /\ stack' = Pop
    /\ UNCHANGED <<ast, scope, changeCount, instantiated, throwing, diagnosed>>

Untried(f) == f.alt = f.call

\* the first part of one of the two nodes has been checked: go on with the rest of
\* it, try the other, or give up and leave the errors of the function call
EndSpecial ==
    /\ Ended /\ Len(stack) > 1 /\ Below(1).kind = "special"
    /\ LET f == Below(1)
           under == SubSeq(stack, 1, Len(stack) - 2)
       IN  \/ /\ noDisambErrors(errors)
              /\ errors' = PutBack(f.saved, errors)
              /\ ambiguity' = [ambiguity EXCEPT ![f.alt] = NULL]
              /\ slot' = [slot EXCEPT ![f.slot] = f.alt]
              /\ stack' = Append(under, Body(f.slot, f.alt, 2, Len(ast.body[f.alt])))
              /\ UNCHANGED blame
           \/ /\ hasDisambErrors(errors) /\ Untried(f)
              /\ stack' = under \o <<[f EXCEPT !.alt = f.ctor, !.callErrors = errors],
                                     Body(f.slot, f.ctor, 1, 1)>>
              /\ blame' = blame \ {<<f.slot, f.ctor>>}
              /\ errors' = <<>>
              /\ UNCHANGED <<ambiguity, slot>>
           \/ /\ hasDisambErrors(errors) /\ ~Untried(f)
              /\ errors' = PutBack(f.saved, f.callErrors)
              /\ stack' = under
              /\ blame' = blame \cup {<<f.slot, f.node>>}
              /\ UNCHANGED <<ambiguity, slot>>
    /\ UNCHANGED <<ast, scope, changeCount, nesting, hidden, instantiated, throwing, diagnosed>>

-----------------------------------------------------------------------------
(* A failed assertion *)

\* the lists of errors: the j-th is what the frame at j has put aside, the last one
\* env.errors.  Those that no frame of an attempt is the next one under were
\* accumulated outside of any attempt: the outermost one, and those of the
\* instantiations.
Lists(s) == {j \in 1..(Len(s) + 1) : j <= Len(s) => IsTraps(s[j])}
ListAt(s, list, j) == IF j <= Len(s) THEN s[j].saved ELSE list
OutsideAttempts(s, j) ==
    \A k \in 1..(j - 1) : s[k].kind \in {"resolve", "special"} => \E m \in (k + 1)..(j - 1) : IsTraps(s[m])
Diagnosed == \E j \in Lists(stack) : OutsideAttempts(stack, j) /\ ListAt(stack, errors, j) # <<>>

Fail ==
    /\ AtStep("fail")
    /\ throwing' = TRUE
    /\ diagnosed' = Diagnosed
    /\ UNCHANGED <<ast, ambiguity, slot, envVars, stack, blame>>

markAllAsFromDisamb(list) == [i \in DOMAIN list |-> [list[i] EXCEPT !.fromDisamb = TRUE]]

\* (variation: the exception is passed on untouched)
Marked_not(list) == list
Marked(list) == markAllAsFromDisamb(list)

\* the frame on top is left: its handlers and destructors run; the lists of the
\* special case are locals
Unwind ==
    /\ throwing /\ stack # <<>>
    /\ \/ /\ Top.kind = "body"
          /\ stack' = Pop /\ UNCHANGED <<errors, nesting, hidden>>
       \/ /\ Top.kind = "resolve"
          /\ errors' = PutBack(Top.saved, Marked(errors))
          /\ nesting' = nesting - 1
          /\ hidden' = Released(Len(stack))
          /\ stack' = Pop
       \/ /\ Top.kind = "instantiate"
          /\ Isolated(Pop, Top) /\ UNCHANGED hidden
       \/ /\ Top.kind = "special"
          /\ stack' = Pop /\ UNCHANGED <<errors, nesting, hidden>>
    /\ UNCHANGED <<ast, ambiguity, slot, scope, changeCount, instantiated, throwing, ghosts>>

Finished == stack = <<>> /\ UNCHANGED vars

Next == \/ Declare \/ Lookup \/ BeginInstantiate \/ EndInstantiate \/ Check \/ EndBody
        \/ EndAlternative \/ EndResolve \/ EndSpecial \/ Fail \/ Unwind \/ Finished

Spec == Init /\ [][Next]_vars

-----------------------------------------------------------------------------
(* Properties *)

Done == stack = <<>>
SlotsOf(n) == {ast.body[n][i][2] : i \in {k \in DOMAIN ast.body[n] : ast.body[n][k][1] = "check"}}
\* what the checked AST consists of, as visits
Reachable ==
    LET within[k \in 0..Len(ast.body)] ==
            IF k = 0 THEN {<<NULL, 1>>}
            ELSE within[k - 1] \cup {<<sl, slot[sl]>> : sl \in UNION {SlotsOf(v[2]) : v \in within[k - 1]}}
    IN  within[Len(ast.body)]

\* Neither the errors the special case puts aside nor those it has collected are
\* seen by a trapper, an isolator or a handler above it: what
\* ConfusedIffDiagnosed and IsolatedOnce say does not hold of it.
UsesSpecial == \E n \in DOMAIN ast.mode : ast.mode[n] \in {"special", "specialSwapped"}

\* No error of the AST that is left gets lost: when the latest check of a node in it,
\* or the choice among its alternatives, reported an error, the list has one, or
\* says that several alternatives succeeded.  (When both fail, the special case
\* keeps the errors of the call only, whichever node is left.)  An assertion that fails
\* there, or an instantiation done there, may lose errors: neither is covered.
NothingSwept ==
    Done /\ ~throwing => \A v \in blame \cap Reachable : \E i \in DOMAIN errors :
        \/ errors[i].by = v
        \/ errors[i].what = "several"
        \/ UsesSpecial /\ errors[i].what = "isolated"
        \/ errors[i].by[1] \in DOMAIN ast.slot
           /\ ast.mode[ast.slot[errors[i].by[1]]] \in {"special", "specialSwapped"}

\* "hasFromNonDisambErrors" (main.cc:589): when an assertion failure reaches the top,
\* the list has an error not from a disambiguation exactly if one had been reported
\* outside of any attempt; only then is the failure blamed on the input.
ConfusedIffDiagnosed ==
    Done /\ throwing /\ ~UsesSpecial => (diagnosed <=> \E i \in DOMAIN errors : ~errors[i].fromDisamb)

\* The errors of an instantiation are reported exactly once, whatever becomes of the
\* alternatives during whose check it was done (doc/design.html:411).
IsolatedOnce ==
    Done /\ ~throwing /\ instantiated /\ ~UsesSpecial =>
        Cardinality({i \in DOMAIN errors : errors[i].what = "isolated"})
          = Cardinality({k \in DOMAIN ast.template :
                \/ ast.template[k][1] = "complain"
                \/ ast.template[k][1] = "lookup" /\ ast.template[k][2] \notin scope})

\* Errors come out in the order of the steps of the root's script that they belong to:
\* what an attempt puts aside and takes back precedes what the attempt reports
\* (in/t0521.cc).  Within one such step, an attempt nested in another or an isolated
\* error ahead of those of its alternative, the order is not constrained.
InOrder == Done => \A i, j \in DOMAIN errors : i < j => errors[i].step <= errors[j].step

-----------------------------------------------------------------------------
(* What comments and documents say, and the code does not do *)

\* "make sure this now-corrupt environment can't participate in any eventually
\* successful parse" (generic_amb.h:169): after a check without errors, every name
\* was declared by a node of the AST that is left.
RejectedLeavesNoTrace ==
    Done /\ ~throwing /\ errors = <<>> =>
        \A x \in scope : \E v \in Reachable, i \in 1..4 :
            i \in DOMAIN ast.body[v[2]] /\ ast.body[v[2]][i] = <<"declare", x>>

=============================================================================
