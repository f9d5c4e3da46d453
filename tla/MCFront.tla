------------------------------- MODULE MCFront -------------------------------
(***************************************************************************)
(* Front with the values its runs give the constants that are functions    *)
(* and records.                                                            *)
(***************************************************************************)
EXTENDS Front, TLC

OneOfEach == "write" :> 1 @@ "test" :> 1

FourKinds == "opencode" :> "runtime" @@ "slo.md" :> "command" @@ "brainstorm" :> "skill"
             @@ "akm.service" :> "unit"

TwoComponents == "sqlite-write" :> "sqlite" @@ "mcp-list" :> "mcp"
FewMeasured == "sqlite-write" :> 4 @@ "mcp-list" :> 2

SmallDay == [read |-> 2, write |-> 1]
SmallWeek == [read |-> 3, write |-> 2]

(* The parts of fields, which Parse reads, and the expressions made of     *)
(* them.  They do not refer to the instance they are the constant of.      *)
Plain(kind, from, to) ==
    [kind |-> kind, from |-> from, to |-> to, step |-> 0, stepped |-> FALSE]
Every == Plain("all", 0, 0)
One(v) == Plain("one", v, 0)
Span(from, to) == Plain("range", from, to)
Star == {Every}
Steps(p, step) == {[p EXCEPT !.step = step, !.stepped = TRUE]}
Minutes ==
    {Star, Steps(Every, 2), Steps(Every, 0), {One(0)}, {One(3)}, {One(HourMinutes)},
     {One(0), One(2)}, Steps(One(1), 2), {Span(1, 2)}, {Span(2, 1)}, Steps(Span(2, 1), 1)}
Questions ==
    {[minute |-> minute, hour |-> hour, dom |-> dom, month |-> month, dow |-> dow] :
        minute \in Minutes, hour \in {Star, {One(0)}, {One(1)}},
        dom \in {Star, {One(2)}}, month \in {Star, {One(2)}},
        dow \in {Star, {One(0)}, {Span(1, 2)}}}
=============================================================================
