---------------------------- MODULE MCCaseNotes ----------------------------
(***************************************************************************)
(* Function bodies for CaseNotes.                                          *)
(***************************************************************************)
EXTENDS CaseNotes

Access == [k |-> "access"]
Make == [k |-> "make"]
SendTo(ch) == [k |-> "send", ch |-> ch]
Ret == [k |-> "return"]
IfThen(then) == [k |-> "if", then |-> then, hasElse |-> FALSE, els |-> <<>>]
IfElse(then, els) == [k |-> "if", then |-> then, hasElse |-> TRUE, els |-> els]
For(body) == [k |-> "for", cond |-> FALSE, post |-> <<>>, body |-> body]
ForCond(post, body) == [k |-> "for", cond |-> TRUE, post |-> post, body |-> body]
SelectIn(id, cases, default) == [k |-> "select", id |-> id, cases |-> cases, default |-> default]
On(ch, body) == [kind |-> "var", ch |-> ch, assign |-> FALSE, body |-> body]
OnParam(reg, body) == [kind |-> "param", ch |-> reg, assign |-> TRUE, body |-> body]
OnTimeout(body) == [kind |-> "timeout", ch |-> "timeOut", assign |-> FALSE, body |-> body]
OnFresh(body) == [kind |-> "fresh", ch |-> "", assign |-> FALSE, body |-> body]

Tokens == "t0" :> "p" @@ "t1" :> ""

\* The cases of a select: channels in variables, parameters that are known or
\* not, channels that nobody else has, and a timeout, which comes last.
Bodies == {<<Access>>, <<Make, Access>>, <<Access, Ret>>, <<SendTo("c")>>,
           <<IfThen(<<Access>>)>>}
FirstCase == {On("a", b) : b \in Bodies} \cup {OnParam(r, <<Access>>) : r \in {"t0", "t1"}}
               \cup {OnFresh(<<Access>>)}
LastCase == {On("b", <<Access>>), On("b", <<Ret>>), On("b", <<>>), OnParam("t0", <<>>),
             OnTimeout(<<Access>>), OnTimeout(<<>>)}
MidCase == {<<>>} \cup {<<c>> : c \in {On("d", <<Access>>), OnParam("t1", <<Make>>), OnFresh(<<Make>>)}}
Defaults == {<<>>, <<<<Access>>>>, <<<<>>>>}
OneSelect == {SelectIn(1, <<f>> \o m \o <<l>>, d) :
                f \in FirstCase, m \in MidCase, l \in LastCase, d \in Defaults}
Single == {SelectIn(1, <<On("a", <<Access>>)>>, d) : d \in Defaults}
\* The branches of an if: no other if in them, and no make(chan) at their
\* beginning.
Branches == Bodies \ {<<Make, Access>>, <<IfThen(<<Access>>)>>}
Ifs == {IfThen(b) : b \in Branches} \cup {IfElse(b, e) : b \in Branches, e \in Branches}

Small == {s \in OneSelect : Len(s.cases) = 2 /\ s.cases[1].kind = "var"} \cup Single
\* Those after which a make(chan) is the first instruction after the select
MakeAfter == {s \in Small : s.default = <<>> /\ s.cases[1].body # <<IfThen(<<Access>>)>>}

Bodily == {<<s>> : s \in OneSelect}
            \cup {<<Access, s, Access>> : s \in Small}
            \cup {<<Make, s, Make>> : s \in MakeAfter}
            \cup {<<For(<<s>>)>> : s \in Small}
            \cup {<<Access, s, Access>> : s \in Ifs}
            \cup {<<For(<<s, Access>>)>> : s \in Ifs}
            \cup {<<ForCond(p, <<s>>), Access>> : p \in {<<>>, <<Access>>}, s \in Small \cup Ifs}
            \cup {<<IfThen(<<Access>>), s>> : s \in Small}
            \cup {<<For(<<SelectIn(1, <<On("a", <<Access>>)>>, <<>>), i>>)>> : i \in Ifs}
=============================================================================
