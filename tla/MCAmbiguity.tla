----------------------------- MODULE MCAmbiguity -----------------------------
\* Programs of one shape: the root checks an ambiguous node with alternatives 2 and
\* 3, each of which may check a subtree, shared by both, with alternatives 4 and 5
\* (and 6).  The scripts are taken from small sets.
EXTENDS Ambiguity

D(x) == <<"declare", x>>
L(x) == <<"lookup", x>>
Complain == <<"complain", "">>
Inst == <<"instantiate", "">>
FailStep == <<"fail", "">>
Chk(s) == <<"check", s>>

Prog(pre, post, a1, a2, c1, c2, c3, m, mc, t) ==
    [body |-> <<pre \o <<Chk(1)>> \o post, a1, a2, c1, c2, c3>>,
     ambiguity |-> <<0, 3, 0, 5, IF c3 = <<>> THEN 0 ELSE 6, 0>>,
     slot |-> <<2, 4, 4>>, mode |-> <<"all", m, "all", mc, "all", "all">>, template |-> t]

Alts(s) == { <<L("x"), Chk(s)>>, <<Chk(s), L("x")>>, <<D("x"), Chk(s)>>, <<Chk(s), Complain>>,
             <<L("z"), Chk(s)>>, <<D("y")>> }
Leaves == { <<L("x")>>, <<L("y"), D("x")>>, <<D("y")>>, <<Complain>> }

\* choices only, at both levels
Ambiguous ==
    {Prog(pre, post, a1, a2, c1, c2, <<>>, m, mc, <<>>) :
        pre \in {<<>>}, post \in {<<L("y")>>},
        a1 \in Alts(2), a2 \in {<<D("x"), Chk(3)>>, <<Chk(3), Complain>>, <<L("x"), Chk(3)>>}, c1 \in Leaves, c2 \in Leaves,
        m \in Modes, mc \in {"all", "swap"}}
Nested ==
    {Prog(<<Complain, D("x")>>, <<>>, a1, a2, c1, c2, <<>>, m, mc, <<>>) :
        a1 \in {<<Chk(2), L("y")>>, <<L("z"), Chk(2)>>}, a2 \in {<<Chk(3)>>, <<D("x"), Chk(3)>>},
        c1 \in Leaves, c2 \in Leaves, m \in {"all", "specialSwapped"}, mc \in {"special", "specialSwapped", "priority"}}
Three ==
    {Prog(<<L("x")>>, <<Complain>>, a1, <<Chk(3)>>, c1, c2, c3, "all", "all", <<>>) :
        a1 \in Alts(2), c1 \in Leaves, c2 \in Leaves, c3 \in Leaves}

\* instantiations and failed assertions, in alternatives of the general resolver
Scripts == { <<Inst>>, <<L("z"), Inst>>, <<Inst, L("z")>>, <<Complain>>, <<L("z")>> }
Failing == Scripts \cup { <<FailStep>>, <<Complain, FailStep>>, <<L("z"), FailStep>>, <<Inst, FailStep>> }
Deep ==
    {Prog(pre, post, a1, a2, c1, c2, <<>>, m, "all", t) :
        pre \in {<<>>, <<Complain>>}, post \in {<<>>, <<Inst, FailStep>>},
        a1 \in {<<Chk(2), L("z")>>, <<Complain, Chk(2)>>, <<Inst>>, <<L("z"), Chk(2), FailStep>>}, a2 \in {<<Chk(3)>>, <<FailStep>>, <<>>},
        c1 \in Failing, c2 \in Scripts, m \in {"all", "priority"},
        t \in {<<Complain, L("z")>>, <<Complain, FailStep>>}}

\* the same in the part of a call that is tried first
DeepSpecial ==
    {Prog(<<Complain>>, post, a1, a2, c1, <<L("z")>>, <<>>, m, "all", <<Complain, L("z")>>) :
        post \in {<<>>, <<Inst, FailStep>>}, a1 \in {<<Chk(2), L("z")>>, <<Inst>>, <<FailStep>>},
        a2 \in {<<Chk(3)>>, <<FailStep>>}, c1 \in Failing, m \in {"special", "specialSwapped"}}

MCPrograms == Ambiguous \cup Nested \cup Three \cup Deep \cup DeepSpecial
=============================================================================
