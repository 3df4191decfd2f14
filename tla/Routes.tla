------------------------------- MODULE Routes -------------------------------
(***************************************************************************)
(* How Apptrail turns the rules of reverse proxies into launch URLs.       *)
(*                                                                         *)
(* A Traefik rule is an expression of matchers, which visit evaluates      *)
(* bottom up to a list of alternatives, the routeMatches.  Caddy's routes  *)
(* nest, and walk hands the alternatives of a route down to its subroutes. *)
(* Both narrow alternatives with combineMatches, which drops the           *)
(* combinations no request fits, and marks those it cannot decide unknown. *)
(* Each list of alternatives is kept here beside the requests that the     *)
(* rule really accepts, which the program never sees.                      *)
(*                                                                         *)
(* Abstracted here: parsing, upper case, ports of URLs in text form, and   *)
(* that the same address may be listed twice (groupTraefikAliases).        *)
(***************************************************************************)
EXTENDS Integers, Sequences

CONSTANTS
    Hosts,      \* literal host names
    DynHosts,   \* host patterns, with a wildcard or a placeholder
    Paths,      \* literal paths, which start with a slash
    Root,       \* the path "/"
    DynPaths,   \* path patterns that pathStart refuses
    Prefix,     \* the pairs of paths where the first is a prefix of the second
    Fits,       \* Fits[d]: the hosts or paths that a pattern d matches
    Empty,      \* no constraint: the empty string
    Star,       \* the path pattern "*"
    Calls,      \* Traefik's matcher calls, as the lists visit makes of them
    MatcherSets, \* Caddy's matcher sets, as the lists caddyMatches makes of them
    Endpoints,  \* schemes and ports
    Listeners,  \* lists of a router's entrypoints, or of a server's listeners
    MaxRoutes,  \* limit on alternatives (10000)
    MaxRules    \* bound: matchers and routes of one rule

\* extra says whether the request meets the matchers Apptrail does not know.
Requests == [host : Hosts, path : Paths, extra : BOOLEAN]

(***************************************************************************)
(* A routeMatch.  A literal path is exact, or a prefix ("/a*").            *)
(***************************************************************************)
Patterns == [kind : {"exact", "prefix"}, at : Paths] \cup [kind : {"dynamic"}, at : DynPaths]
                \cup [kind : {"any"}, at : {Empty, Star}]
NoPath == [kind |-> "any", at |-> Empty]
Matches == [host : Hosts \cup DynHosts \cup {Empty}, path : Patterns, unknown : BOOLEAN]

ASSUME BoundsAssumption == MaxRoutes \in Nat /\ MaxRules \in Nat
ASSUME NamesAssumption == /\ Empty \notin Hosts \cup DynHosts /\ Hosts \cap DynHosts = {}
                          /\ Empty # Star
ASSUME PrefixAssumption ==
    /\ Prefix \subseteq Paths \X Paths /\ Root \in Paths
    /\ \A p \in Paths : <<Root, p>> \in Prefix /\ <<p, p>> \in Prefix
    /\ \A p, q, r \in Paths : <<p, q>> \in Prefix /\ <<q, r>> \in Prefix => <<p, r>> \in Prefix
    /\ \A p, q, r \in Paths : <<p, r>> \in Prefix /\ <<q, r>> \in Prefix
                                  => <<p, q>> \in Prefix \/ <<q, p>> \in Prefix
ASSUME RulesAssumption ==
    /\ Calls \subseteq Seq([host : Hosts \cup DynHosts \cup {Empty}, path : Patterns, unknown : {FALSE}])
    /\ MatcherSets \subseteq Seq(Matches)
    /\ Listeners \subseteq Seq([ok : BOOLEAN, at : Endpoints])

Entries == [list : Seq(Matches), sem : SUBSET Requests]
Loops == [on : BOOLEAN, left : Entries, right : Entries,
          i : Nat \ {0}, j : Nat \ {0}, out : Seq(Matches)]
Reports == [urls : SUBSET (Endpoints \X Hosts \X Paths), unresolved : BOOLEAN,
            sem : SUBSET Requests]

\* What an alternative means, and what the program takes it for.
HostServed(h, r) == h = Empty \/ h = r.host \/ (h \in DynHosts /\ r.host \in Fits[h])
PathServed(p, r) == \/ p.kind = "any"
                    \/ p.kind = "exact" /\ r.path = p.at
                    \/ p.kind = "prefix" /\ <<p.at, r.path>> \in Prefix
                    \/ p.kind = "dynamic" /\ r.path \in Fits[p.at]
Serves(m, r) == HostServed(m.host, r) /\ PathServed(m.path, r) /\ (m.unknown => r.extra)
Meaning(list) == {r \in Requests : \E i \in DOMAIN list : Serves(list[i], r)}

\* A request that an alternative, dynamic parts apart, does not exclude.
Covers(m, r) == /\ m.host \in Hosts => m.host = r.host
                /\ m.path.kind \in {"exact", "prefix"} => PathServed(m.path, r)
-----------------------------------------------------------------------------
(***************************************************************************)
(* One iteration of combineMatches.                                        *)
(***************************************************************************)
Literal(p) == p.kind # "dynamic"
Start(p) == IF p.kind = "any" THEN Root ELSE p.at
IsPrefixOf(p, q) == <<Start(p), Start(q)>> \in Prefix

\* pathMatches of a literal pattern and the start of an exact path.
PathMatches(p, exact) ==
    CASE p.kind = "any" -> TRUE
      [] p.kind = "exact" -> p.at = exact.at
      [] p.kind = "prefix" -> <<p.at, exact.at>> \in Prefix

HostsClash(l, r) == l.host # Empty /\ r.host # Empty /\ l.host # r.host
PathsClash(l, r) ==
    /\ l.path.kind # "any" /\ r.path # NoPath /\ Literal(l.path) /\ Literal(r.path)
    /\ \/ l.path.kind = "exact" /\ ~PathMatches(r.path, l.path)
       \/ l.path.kind = "prefix" /\ r.path.kind = "exact" /\ ~PathMatches(l.path, r.path)
       \/ /\ l.path.kind = "prefix" /\ r.path.kind \in {"prefix", "any"}
          /\ ~IsPrefixOf(l.path, r.path) /\ ~IsPrefixOf(r.path, l.path)

\* Dropped, if host patterns were compared like names.
DroppedByName(l, r) == HostsClash(l, r) \/ PathsClash(l, r)

Dropped(l, r) == \/ HostsClash(l, r) /\ l.host \in Hosts /\ r.host \in Hosts
                 \/ PathsClash(l, r)

\* NarrowerPath, if the wider of two prefixes were kept.
WiderPath(l, r) ==
    IF l.path.kind = "any" THEN IF r.path = NoPath THEN l.path ELSE r.path
    ELSE IF r.path = NoPath \/ ~Literal(l.path) \/ ~Literal(r.path) \/ l.path.kind = "exact" THEN l.path
    ELSE IF r.path.kind = "exact" \/ IsPrefixOf(r.path, l.path) THEN r.path
    ELSE l.path

NarrowerPath(l, r) ==
    IF l.path.kind = "any" THEN IF r.path = NoPath THEN l.path ELSE r.path
    ELSE IF r.path = NoPath \/ ~Literal(l.path) \/ ~Literal(r.path) \/ l.path.kind = "exact" THEN l.path
    ELSE IF r.path.kind = "exact" \/ IsPrefixOf(l.path, r.path) THEN r.path
    ELSE l.path

\* Undecided, if the last of two patterns were the answer.
AlwaysDecided(l, r) == FALSE

Undecided(l, r) == \/ HostsClash(l, r)
                   \/ /\ l.path.kind # "any" /\ r.path # NoPath
                      /\ ~Literal(l.path) \/ ~Literal(r.path)

Narrowed(l, r) == [host |-> IF r.host = Empty THEN l.host ELSE r.host,
                   path |-> NarrowerPath(l, r),
                   unknown |-> l.unknown \/ r.unknown \/ Undecided(l, r)]

Launchable(m) == ~m.unknown /\ m.host \in Hosts /\ Literal(m.path)
LaunchURL(at, m) == <<at, m.host, Start(m.path)>>
-----------------------------------------------------------------------------
VARIABLES
    kind,    \* "traefik" or "caddy"
    stack,   \* alternatives of the subexpressions, or of the enclosing routes
    loop,    \* combineMatches under way
    status,  \* "run", "failed" or "done"
    report,  \* what the last handler or router was reported as
    size     \* matchers and routes so far

vars == <<kind, stack, loop, status, report, size>>

Everything == [list |-> <<[host |-> Empty, path |-> NoPath, unknown |-> FALSE]>>, sem |-> Requests]
Nothing == [list |-> <<>>, sem |-> {}]
NoLoop == [on |-> FALSE, left |-> Nothing, right |-> Nothing, i |-> 1, j |-> 1, out |-> <<>>]
NoReport == [urls |-> {}, unresolved |-> FALSE, sem |-> {}]

Init == /\ kind \in {"traefik", "caddy"}
        /\ stack = IF kind = "caddy" THEN <<Everything>> ELSE <<>>
        /\ loop = NoLoop /\ status = "run" /\ report = NoReport /\ size = 0

Top == stack[Len(stack)]
Below == stack[Len(stack) - 1]
Pop(n) == SubSeq(stack, 1, Len(stack) - n)
Evaluating(k) == kind = k /\ status = "run" /\ ~loop.on
Grow == size < MaxRules /\ size' = size + 1

\* An error ends the evaluation: unsupported, nested too deep, too many routes.
\* It fails the whole of Caddy's snapshot, and leaves a router unresolved.
Fail == /\ status' = "failed" /\ stack' = <<>> /\ loop' = NoLoop
        /\ report' = [NoReport EXCEPT !.unresolved = (kind = "traefik")]

(***************************************************************************)
(* combineMatches, one pair after the other.                               *)
(***************************************************************************)
BeginCombine(left, right) ==
    loop' = [on |-> TRUE, left |-> left, right |-> right, i |-> 1, j |-> 1, out |-> <<>>]

Finished == loop.i > Len(loop.left.list) \/ loop.right.list = <<>>

CombineNext ==
    /\ loop.on /\ ~Finished
    /\ LET l == loop.left.list[loop.i]
           r == loop.right.list[loop.j]
           out == IF Dropped(l, r) THEN loop.out ELSE Append(loop.out, Narrowed(l, r))
           last == loop.j = Len(loop.right.list)
       IN  IF Len(out) > MaxRoutes THEN Fail
           ELSE /\ loop' = [loop EXCEPT !.out = out, !.i = IF last THEN @ + 1 ELSE @,
                                        !.j = IF last THEN 1 ELSE @ + 1]
                /\ UNCHANGED <<status, stack, report>>
    /\ UNCHANGED <<kind, size>>

CombineDone ==
    /\ loop.on /\ Finished
    /\ stack' = Append(stack, [list |-> loop.out, sem |-> loop.left.sem \cap loop.right.sem])
    /\ loop' = NoLoop
    /\ UNCHANGED <<kind, status, report, size>>
-----------------------------------------------------------------------------
(***************************************************************************)
(* visit, bottom up.                                                       *)
(***************************************************************************)
VisitCall(c) ==
    /\ Evaluating("traefik") /\ Grow
    /\ IF Len(c) > MaxRoutes THEN Fail
       ELSE /\ stack' = Append(stack, [list |-> c, sem |-> Meaning(c)])
            /\ UNCHANGED <<status, loop, report>>
    /\ UNCHANGED kind

VisitAnd ==
    /\ Evaluating("traefik") /\ Len(stack) >= 2
    /\ BeginCombine(Below, Top)
    /\ stack' = Pop(2)
    /\ UNCHANGED <<kind, status, report, size>>

VisitOr ==
    /\ Evaluating("traefik") /\ Len(stack) >= 2
    /\ IF Len(Below.list) + Len(Top.list) > MaxRoutes THEN Fail
       ELSE /\ stack' = Append(Pop(2), [list |-> Below.list \o Top.list,
                                        sem |-> Below.sem \cup Top.sem])
            /\ UNCHANGED <<status, loop, report>>
    /\ UNCHANGED <<kind, size>>

(***************************************************************************)
(* walk, and caddyMatches.                                                 *)
(***************************************************************************)
\* A route without matchers takes every request of the routes around it.
EnterPlainRoute ==
    /\ Evaluating("caddy") /\ Grow
    /\ stack' = Append(stack, Top)
    /\ UNCHANGED <<kind, loop, status, report>>

EnterRoute(c) ==
    /\ Evaluating("caddy") /\ Grow
    /\ IF Len(c) > MaxRoutes THEN Fail
       ELSE /\ BeginCombine(Top, [list |-> c, sem |-> Meaning(c)])
            /\ UNCHANGED <<status, stack, report>>
    /\ UNCHANGED kind

LeaveRoute ==
    /\ Evaluating("caddy") /\ Len(stack) > 1
    /\ stack' = Pop(1)
    /\ UNCHANGED <<kind, loop, status, report, size>>

Reject ==
    /\ status = "run" /\ Fail
    /\ UNCHANGED <<kind, size>>
-----------------------------------------------------------------------------
(***************************************************************************)
(* A router, or a handler of a route, becomes launch URLs and, if any of   *)
(* it has none, an unresolved entry.                                       *)
(***************************************************************************)
\* Unresolved, if an alternative without a URL were no reason.
UnresolvedListeners(e, ls) == ls = <<>> \/ \E k \in DOMAIN ls : ~ls[k].ok

Unresolved(e, ls) ==
    \/ ls = <<>>
    \/ \E k \in DOMAIN ls : ~ls[k].ok \/ \E i \in DOMAIN e.list : ~Launchable(e.list[i])

URLs(e, ls) ==
    LET ok == {k \in DOMAIN ls : ls[k].ok}
        resolved == {i \in DOMAIN e.list : Launchable(e.list[i])}
    IN  {LaunchURL(ls[x[1]].at, e.list[x[2]]) : x \in ok \X resolved}

ReportRouter(ls) ==
    /\ Evaluating("traefik") /\ Len(stack) = 1
    /\ report' = [urls |-> URLs(Top, ls), unresolved |-> Unresolved(Top, ls), sem |-> Top.sem]
    /\ status' = "done"
    /\ UNCHANGED <<kind, stack, loop, size>>

ReportHandler(ls) ==
    /\ Evaluating("caddy")
    /\ report' = [urls |-> URLs(Top, ls),
                  unresolved |-> Top.list # <<>> /\ Unresolved(Top, ls), sem |-> Top.sem]
    /\ UNCHANGED <<kind, stack, loop, status, size>>

Next ==
    \/ CombineNext \/ CombineDone
    \/ \E c \in Calls : VisitCall(c)
    \/ VisitAnd \/ VisitOr
    \/ EnterPlainRoute \/ LeaveRoute
    \/ \E c \in MatcherSets : EnterRoute(c)
    \/ Reject
    \/ \E ls \in Listeners : ReportRouter(ls) \/ ReportHandler(ls)

Spec == Init /\ [][Next]_vars
-----------------------------------------------------------------------------
TypeOK ==
    /\ kind \in {"traefik", "caddy"}
    /\ stack \in Seq(Entries)
    /\ loop \in Loops
    /\ status \in {"run", "failed", "done"}
    /\ report \in Reports
    /\ size \in 0..MaxRules
    /\ kind = "caddy" /\ status = "run" => stack # <<>>

(* No alternative that is known accepts a request which the rule does not  *)
(* (combineMatches).                                                       *)
Known(e) == \A i \in DOMAIN e.list : \A r \in Requests :
                ~e.list[i].unknown /\ Serves(e.list[i], r) => r \in e.sem
NothingWidened == \A n \in DOMAIN stack : Known(stack[n])

(* Every request the rule accepts is covered by an alternative that is     *)
(* kept (combineMatches drops only what cannot match).                     *)
Complete(e) == \A r \in e.sem : \E i \in DOMAIN e.list : Covers(e.list[i], r)
NothingLost == \A n \in DOMAIN stack : Complete(stack[n])

(* A launch URL is one the rule accepts, whatever else the request carries: *)
(* a rule that depends on more, or on a pattern, is never turned into a     *)
(* guess (launchURL, combineMatches).                                       *)
LaunchURLsServed ==
    \A u \in report.urls : \A extra \in BOOLEAN :
        [host |-> u[2], path |-> u[3], extra |-> extra] \in report.sem

(* A router or handler that accepts anything is discovered: with a URL, or *)
(* as an unresolved entry (traefikSnapshot, caddySnapshot).                *)
RoutesReported == report.sem # {} => report.urls # {} \/ report.unresolved
=============================================================================
