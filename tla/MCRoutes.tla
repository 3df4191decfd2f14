------------------------------ MODULE MCRoutes ------------------------------
(***************************************************************************)
(* A small instance of Routes: two hosts and a wildcard that fits one of   *)
(* them; the paths "/", "/a", "/ab" and "/c", and a pattern.               *)
(***************************************************************************)
EXTENDS Routes, SequencesExt

CONSTANTS h1, h2, wild, glob

MCHosts == {h1, h2}
MCDynHosts == {wild}
\* A path is what follows its first slash.
MCPaths == {<<>>, <<"a">>, <<"a", "b">>, <<"c">>}
MCRoot == <<>>
MCDynPaths == {glob}
MCPrefix == {x \in MCPaths \X MCPaths : IsPrefix(x[1], x[2])}
MCFits == [d \in {wild, glob} |-> IF d = wild THEN {h1} ELSE {<<"a">>, <<"c">>}]

Host(h) == [host |-> h, path |-> NoPath, unknown |-> FALSE]
On(p) == [host |-> Empty, path |-> p, unknown |-> FALSE]
Exact(p) == [kind |-> "exact", at |-> p]
Under(p) == [kind |-> "prefix", at |-> p]
Glob == [kind |-> "dynamic", at |-> glob]
All == [kind |-> "any", at |-> Star]

MCCalls == {<<Host(h1)>>, <<Host(h1), Host(h2)>>, <<Host(wild)>>,
            <<On(Exact(<<"a">>))>>, <<On(Under(<<"a">>)), On(Exact(<<"c">>))>>,
            <<On(Under(<<"a", "b">>))>>, <<On(Under(MCRoot))>>}
MCMatcherSets == {<<>>, <<Host(h1), Host(h2)>>, <<Host(wild)>>, <<On(Glob)>>, <<On(All)>>,
              <<On(Under(<<"a">>)), On(Exact(<<"c">>))>>, <<On(Exact(<<"a">>))>>,
              <<[host |-> h1, path |-> Under(<<"a", "b">>), unknown |-> TRUE],
                [host |-> h2, path |-> Under(<<"a">>), unknown |-> FALSE]>>}
MCListeners == {<<>>, <<[ok |-> TRUE, at |-> "web"]>>,
                <<[ok |-> FALSE, at |-> "web"], [ok |-> TRUE, at |-> "tls"]>>}
=============================================================================
