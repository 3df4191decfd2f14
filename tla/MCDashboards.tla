---------------------------- MODULE MCDashboards ----------------------------
(***************************************************************************)
(* A small instance of Dashboards: one rule that matches apps whose fact   *)
(* is "match" and fails on apps whose fact is "odd".                       *)
(***************************************************************************)
EXTENDS Dashboards, TLC

CONSTANTS s1, s2, r1

MCSections == {s1, s2}
MCFacts == {"match", "odd"}
MCRules == {r1}
MCVerdict == [r \in MCRules |-> [f \in MCFacts |-> IF f = "match" THEN "yes" ELSE "error"]]

\* A request that changes nothing but a new revision, as the editors build theirs.
Same == [items |-> Keep, excluded |-> Keep, layout |-> Keep, rule |-> Keep,
         autoSection |-> Keep]
ListOf(S) == [a \in Apps |-> IF a \in S THEN 1 ELSE 0]
Twice(a) == [b \in Apps |-> IF a = b THEN 2 ELSE 0]
AllIn(s, low) == [sections |-> {s}, first |-> s, tile |-> [a \in Apps |-> s], low |-> low]

\* Take all off; set the rule, reset the exclusions; reset the rule; rearrange the
\* sections, with the cards near the last row or not.
CommonRequests ==
    {[Same EXCEPT !.items = ListOf({})]}
    \cup {[Same EXCEPT !.rule = r1, !.excluded = {}], [Same EXCEPT !.rule = NoRule]}
    \cup {[Same EXCEPT !.layout = AllIn(s2, low), !.autoSection = s2] : low \in {{}, Apps}}

\* Choose all apps and set the rule; a body that the handler turns down.
MCRequests ==
    CommonRequests \cup {[Same EXCEPT !.items = ListOf(Apps), !.rule = r1]}
    \cup {[Same EXCEPT !.items = Twice(a)] : a \in Apps}

\* Where a page holds one app: choose it and set the rule; more than the page can hold.
LimitRequests ==
    CommonRequests \cup {[Same EXCEPT !.items = ListOf({a}), !.rule = r1] : a \in Apps}
    \cup {[Same EXCEPT !.items = ListOf(Apps)]}

\* Handlers are alike, and so are the apps: every request treats them alike, and
\* no choice is made among several of them.
Symmetry == Permutations(Handlers) \cup Permutations(Apps)
=============================================================================
