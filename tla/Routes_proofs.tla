---------------------------- MODULE Routes_proofs ----------------------------
(***************************************************************************)
(* Launch URLs that Apptrail derives are served by the proxy, and nothing  *)
(* a proxy serves goes unreported.                                         *)
(*                                                                         *)
(* One pair of alternatives comes first: the alternative that combining    *)
(* yields accepts no more than both (NarrowedKnown), covers what both      *)
(* cover (NarrowedCovers), and a pair that is dropped has nothing in       *)
(* common (DroppedCovers).  The invariant says this of the pairs that      *)
(* combineMatches has visited so far, and of every list of alternatives.   *)
(***************************************************************************)
EXTENDS Routes, SequenceTheorems, TLAPS

(***************************************************************************)
(* One pair of alternatives.                                               *)
(***************************************************************************)
LEMMA StartType == ASSUME NEW p \in Patterns, Literal(p) PROVE Start(p) \in Paths
BY PrefixAssumption DEF Patterns, Literal, Start

\* A launch URL's path is one its pattern serves.
LEMMA StartServed ==
    ASSUME NEW p \in Patterns, Literal(p), NEW r \in Requests, r.path = Start(p)
    PROVE  PathServed(p, r)
BY PrefixAssumption DEF Patterns, Literal, Start, PathServed, Requests

LEMMA ServesCovers ==
    ASSUME NEW m \in Matches, NEW r \in Requests, Serves(m, r)
    PROVE  Covers(m, r)
<1>1. m.host \in Hosts => m.host = r.host
  BY NamesAssumption DEF Serves, HostServed, Matches, Requests
<1> QED BY <1>1 DEF Serves, Covers

LEMMA NarrowedType ==
    ASSUME NEW l \in Matches, NEW r \in Matches
    PROVE  Narrowed(l, r) \in Matches
<1>1. NarrowerPath(l, r) \in Patterns
  BY DEF NarrowerPath, Matches
<1>2. \E b \in BOOLEAN : b = (l.unknown \/ r.unknown \/ Undecided(l, r))
  BY DEF Undecided, HostsClash
<1>3. PICK b \in BOOLEAN : b = (l.unknown \/ r.unknown \/ Undecided(l, r))
  BY <1>2
<1>4. Narrowed(l, r) = [host |-> IF r.host = Empty THEN l.host ELSE r.host,
                        path |-> NarrowerPath(l, r), unknown |-> b]
  BY <1>3 DEF Narrowed
<1> QED BY <1>1, <1>4 DEF Matches

\* A pair that is dropped has no request in common.
LEMMA DroppedCovers ==
    ASSUME NEW l \in Matches, NEW r \in Matches, NEW q \in Requests,
           Covers(l, q), Covers(r, q)
    PROVE  ~Dropped(l, r)
<1>1. ~(HostsClash(l, r) /\ l.host \in Hosts /\ r.host \in Hosts)
  BY DEF HostsClash, Covers
<1>2. q.path \in Paths /\ l.path \in Patterns /\ r.path \in Patterns
  BY DEF Requests, Matches
<1>3. ASSUME PathsClash(l, r) PROVE FALSE
  <2>1. l.path.kind \in {"exact", "prefix"} /\ r.path.kind \in {"exact", "prefix", "any"}
    BY <1>2, <1>3 DEF PathsClash, Literal, Patterns
  <2>2. PathServed(l.path, q) /\ PathServed(r.path, q)
    BY <2>1 DEF Covers, PathServed
  <2>3. CASE l.path.kind = "exact"
    <3>1. PathMatches(r.path, l.path)
      BY <2>1, <2>2, <2>3 DEF PathServed, PathMatches
    <3> QED BY <3>1, <2>3, <1>3 DEF PathsClash
  <2>4. CASE l.path.kind = "prefix" /\ r.path.kind = "exact"
    <3>1. PathMatches(l.path, r.path)
      BY <2>2, <2>4 DEF PathServed, PathMatches
    <3> QED BY <3>1, <2>4, <1>3 DEF PathsClash
  <2>5. CASE l.path.kind = "prefix" /\ r.path.kind = "any"
    <3>1. IsPrefixOf(r.path, l.path)
      BY <2>5, <1>2, PrefixAssumption DEF IsPrefixOf, Start, Patterns
    <3> QED BY <3>1, <2>5, <1>3 DEF PathsClash
  <2>6. CASE l.path.kind = "prefix" /\ r.path.kind = "prefix"
    <3>1. l.path.at \in Paths /\ r.path.at \in Paths
      BY <2>6, <1>2 DEF Patterns
    <3>2. <<l.path.at, q.path>> \in Prefix /\ <<r.path.at, q.path>> \in Prefix
      BY <2>2, <2>6 DEF PathServed
    <3>3. IsPrefixOf(r.path, l.path) \/ IsPrefixOf(l.path, r.path)
      BY <3>1, <3>2, <1>2, <2>6, PrefixAssumption DEF IsPrefixOf, Start
    <3> QED BY <3>3, <2>6, <1>3 DEF PathsClash
  <2> QED BY <2>1, <2>3, <2>4, <2>5, <2>6
<1> QED BY <1>1, <1>3 DEF Dropped

\* What both alternatives cover, their combination covers.
LEMMA NarrowedCovers ==
    ASSUME NEW l \in Matches, NEW r \in Matches, NEW q \in Requests,
           Covers(l, q), Covers(r, q)
    PROVE  Covers(Narrowed(l, r), q)
<1>1. \/ NarrowerPath(l, r) = l.path
      \/ NarrowerPath(l, r) = r.path
  BY DEF NarrowerPath
<1>2. Narrowed(l, r).path = NarrowerPath(l, r)
  BY DEF Narrowed
<1>3. Narrowed(l, r).host = l.host \/ Narrowed(l, r).host = r.host
  BY DEF Narrowed
<1> HIDE DEF Narrowed
<1> QED BY <1>1, <1>2, <1>3 DEF Covers

\* A known combination accepts only what both alternatives accept.
LEMMA NarrowedKnown ==
    ASSUME NEW l \in Matches, NEW r \in Matches, NEW q \in Requests,
           ~Dropped(l, r), ~Narrowed(l, r).unknown, Serves(Narrowed(l, r), q)
    PROVE  /\ ~l.unknown /\ Serves(l, q)
           /\ ~r.unknown /\ Serves(r, q)
<1>1. ~l.unknown /\ ~r.unknown /\ ~Undecided(l, r)
  BY DEF Narrowed
<1>2. HostServed(l.host, q) /\ HostServed(r.host, q)
  <2>1. HostServed(IF r.host = Empty THEN l.host ELSE r.host, q)
    BY DEF Serves, Narrowed
  <2>2. l.host = Empty \/ r.host = Empty \/ l.host = r.host
    BY <1>1 DEF Undecided, HostsClash
  <2> QED BY <2>1, <2>2 DEF HostServed
<1>3. q.path \in Paths /\ l.path \in Patterns /\ r.path \in Patterns
  BY DEF Requests, Matches
<1>4. PathServed(NarrowerPath(l, r), q)
  BY DEF Serves, Narrowed
<1>5. PathServed(l.path, q) /\ PathServed(r.path, q)
  <2>1. CASE l.path.kind = "any" \/ r.path = NoPath
    BY <2>1, <1>4 DEF NarrowerPath, PathServed, NoPath
  <2>2. CASE ~(l.path.kind = "any" \/ r.path = NoPath)
    <3>1. Literal(l.path) /\ Literal(r.path)
      BY <2>2, <1>1 DEF Undecided
    <3>2. ~PathsClash(l, r)
      BY DEF Dropped
    <3>3. l.path.kind \in {"exact", "prefix"} /\ r.path.kind \in {"exact", "prefix", "any"}
      BY <1>3, <3>1, <2>2 DEF Patterns, Literal
    <3>4. CASE l.path.kind = "exact"
      <4>1. PathMatches(r.path, l.path)
        BY <3>1, <3>2, <3>4, <2>2 DEF PathsClash
      <4>2. PathServed(l.path, q)
        BY <1>4, <2>2, <3>4 DEF NarrowerPath
      <4> QED BY <4>1, <4>2, <3>3, <3>4 DEF PathMatches, PathServed
    <3>5. CASE l.path.kind = "prefix" /\ r.path.kind = "exact"
      <4>1. PathMatches(l.path, r.path)
        BY <3>1, <3>2, <3>5, <2>2 DEF PathsClash
      <4>2. PathServed(r.path, q)
        BY <1>4, <2>2, <3>1, <3>5 DEF NarrowerPath
      <4> QED BY <4>1, <4>2, <3>5 DEF PathMatches, PathServed
    <3>6. CASE l.path.kind = "prefix" /\ r.path.kind \in {"prefix", "any"}
      <4>1. IsPrefixOf(l.path, r.path) \/ IsPrefixOf(r.path, l.path)
        BY <3>1, <3>2, <3>6, <2>2 DEF PathsClash
      <4>2. Start(l.path) \in Paths /\ Start(r.path) \in Paths
        BY <1>3, <3>1, StartType
      <4>3. CASE IsPrefixOf(l.path, r.path)
        <5>1. PathServed(r.path, q)
          BY <1>4, <2>2, <3>1, <3>6, <4>3 DEF NarrowerPath
        <5>2. <<Start(r.path), q.path>> \in Prefix
          BY <5>1, <1>3, <3>6, PrefixAssumption DEF PathServed, Start
        <5>3. <<Start(l.path), q.path>> \in Prefix
          BY <5>2, <4>2, <4>3, <1>3, PrefixAssumption DEF IsPrefixOf
        <5> QED BY <5>1, <5>3, <3>6 DEF PathServed, Start
      <4>4. CASE ~IsPrefixOf(l.path, r.path)
        <5>1. PathServed(l.path, q)
          BY <1>4, <2>2, <3>1, <3>6, <4>4 DEF NarrowerPath
        <5>2. <<Start(l.path), q.path>> \in Prefix
          BY <5>1, <3>6 DEF PathServed, Start
        <5>3. <<Start(r.path), q.path>> \in Prefix
          BY <5>2, <4>1, <4>2, <4>4, <1>3, PrefixAssumption DEF IsPrefixOf
        <5> QED BY <5>1, <5>3, <3>6 DEF PathServed, Start
      <4> QED BY <4>3, <4>4
    <3> QED BY <3>3, <3>4, <3>5, <3>6
  <2> QED BY <2>1, <2>2
<1> QED BY <1>1, <1>2, <1>5 DEF Serves
-----------------------------------------------------------------------------
(***************************************************************************)
(* Lists of alternatives.                                                  *)
(***************************************************************************)
Good(e) == e \in Entries /\ Known(e) /\ Complete(e)

AllGood(s) == s \in Seq(Entries) /\ \A n \in DOMAIN s : Good(s[n])

LEMMA AppendGood ==
    ASSUME NEW s, AllGood(s), NEW e, Good(e)
    PROVE  AllGood(Append(s, e)) /\ Append(s, e) # <<>>
<1>1. e \in Entries /\ s \in Seq(Entries)
  BY DEF Good, AllGood
<1>2. /\ Append(s, e) \in Seq(Entries) /\ DOMAIN Append(s, e) = 1..Len(s) + 1
      /\ \A n \in 1..Len(s) : Append(s, e)[n] = s[n]
      /\ Append(s, e)[Len(s) + 1] = e /\ Len(s) \in Nat /\ DOMAIN s = 1..Len(s)
  BY <1>1
<1>3. ASSUME NEW n \in 1..Len(s) + 1 PROVE Good(Append(s, e)[n])
  <2>1. n \in 1..Len(s) \/ n = Len(s) + 1
    BY <1>2
  <2> QED BY <2>1, <1>2 DEF AllGood
<1> QED BY <1>1, <1>2, <1>3 DEF AllGood

LEMMA PopGood ==
    ASSUME NEW s, AllGood(s), NEW n \in Nat, n <= Len(s)
    PROVE  /\ AllGood(SubSeq(s, 1, Len(s) - n))
           /\ Len(SubSeq(s, 1, Len(s) - n)) = Len(s) - n
<1>1. s \in Seq(Entries) /\ Len(s) \in Nat /\ DOMAIN s = 1..Len(s)
  BY DEF AllGood
<1> DEFINE m == Len(s) - n
           t == SubSeq(s, 1, m)
<1>2. m \in Nat /\ m <= Len(s)
  BY <1>1
<1>3. \A i \in 1..m : i \in DOMAIN s /\ s[i] \in Entries
  BY <1>1, <1>2
<1> HIDE DEF m
<1>4. /\ t \in Seq(Entries) /\ Len(t) = IF 1 <= m THEN m - 1 + 1 ELSE 0
      /\ \A i \in 1..(m - 1 + 1) : t[i] = s[1 + i - 1]
  BY <1>2, <1>3, SubSeqProperties
<1> HIDE DEF t
<1>5. Len(t) = m /\ DOMAIN t = 1..m /\ \A i \in 1..m : t[i] = s[i]
  BY <1>2, <1>4
<1>6. \A i \in DOMAIN t : Good(t[i])
  BY <1>3, <1>5 DEF AllGood
<1>7. AllGood(t) /\ Len(t) = m
  BY <1>4, <1>5, <1>6 DEF AllGood
<1> QED BY <1>7 DEF t, m

\* The list of a matcher means what its alternatives serve.
LEMMA MeaningGood ==
    ASSUME NEW c \in Seq(Matches)
    PROVE  Good([list |-> c, sem |-> Meaning(c)])
<1> DEFINE e == [list |-> c, sem |-> Meaning(c)]
<1>1. e \in Entries
  BY DEF Entries, Meaning
<1>2. Known(e)
  BY DEF Known, Meaning
<1>3. ASSUME NEW r \in e.sem PROVE \E i \in DOMAIN e.list : Covers(e.list[i], r)
  <2>1. PICK i \in DOMAIN c : Serves(c[i], r)
    BY DEF Meaning
  <2>2. c[i] \in Matches /\ r \in Requests
    BY DEF Meaning
  <2> QED BY <2>1, <2>2, ServesCovers
<1> QED BY <1>1, <1>2, <1>3 DEF Good, Complete

LEMMA ConcatIndices ==
    ASSUME NEW S, NEW s \in Seq(S), NEW t \in Seq(S)
    PROVE  /\ s \o t \in Seq(S)
           /\ \A i \in DOMAIN s : i \in DOMAIN (s \o t) /\ (s \o t)[i] = s[i]
           /\ \A i \in DOMAIN t : /\ Len(s) + i \in DOMAIN (s \o t)
                                /\ (s \o t)[Len(s) + i] = t[i]
           /\ \A i \in DOMAIN (s \o t) :
                 \/ i \in DOMAIN s /\ (s \o t)[i] = s[i]
                 \/ i - Len(s) \in DOMAIN t /\ (s \o t)[i] = t[i - Len(s)]
<1> DEFINE c == s \o t
           m == Len(s)
           n == Len(t)
<1>1. /\ c \in Seq(S) /\ Len(c) = m + n
      /\ \A i \in 1..(m + n) : c[i] = IF i <= m THEN s[i] ELSE t[i - m]
  BY ConcatProperties
<1>2. m \in Nat /\ n \in Nat /\ DOMAIN s = 1..m /\ DOMAIN t = 1..n
  OBVIOUS
<1> HIDE DEF c
<1>3. DOMAIN c = 1..(m + n)
  BY <1>1
<1> HIDE DEF m, n
<1>4. ASSUME NEW i \in DOMAIN s PROVE i \in DOMAIN c /\ c[i] = s[i]
  BY <1>1, <1>2, <1>3
<1>5. ASSUME NEW i \in DOMAIN t PROVE m + i \in DOMAIN c /\ c[m + i] = t[i]
  <2>1. m + i \in 1..(m + n) /\ (m + i) - m = i /\ ~(m + i <= m)
    BY <1>2
  <2> QED BY <1>1, <1>3, <2>1
<1>6. ASSUME NEW i \in DOMAIN c
      PROVE  \/ i \in DOMAIN s /\ c[i] = s[i]
             \/ i - m \in DOMAIN t /\ c[i] = t[i - m]
  BY <1>1, <1>2, <1>3
<1> QED BY <1>1, <1>4, <1>5, <1>6 DEF c, m

\* Alternatives of two operands, one after the other.
LEMMA ConcatGood ==
    ASSUME NEW a, NEW b, Good(a), Good(b)
    PROVE  Good([list |-> a.list \o b.list, sem |-> a.sem \cup b.sem])
<1> DEFINE x == a.list
           y == b.list
           c == x \o y
           e == [list |-> c, sem |-> a.sem \cup b.sem]
<1>1. /\ x \in Seq(Matches) /\ y \in Seq(Matches)
      /\ a.sem \subseteq Requests /\ b.sem \subseteq Requests
  BY DEF Good, Entries
<1> HIDE DEF x, y
<1>2. /\ c \in Seq(Matches)
      /\ \A i \in DOMAIN x : i \in DOMAIN c /\ c[i] = x[i]
      /\ \A i \in DOMAIN y : Len(x) + i \in DOMAIN c /\ c[Len(x) + i] = y[i]
      /\ \A i \in DOMAIN c : \/ i \in DOMAIN x /\ c[i] = x[i]
                             \/ i - Len(x) \in DOMAIN y /\ c[i] = y[i - Len(x)]
  BY <1>1, ConcatIndices
<1> HIDE DEF c
<1>3. e \in Entries
  BY <1>1, <1>2 DEF Entries
<1>4. Known(e)
  <2> SUFFICES ASSUME NEW i \in DOMAIN c, NEW r \in Requests, ~c[i].unknown, Serves(c[i], r)
               PROVE  r \in a.sem \cup b.sem
    BY DEF Known
  <2> QED BY <1>2 DEF Good, Known, x, y
<1>5. Complete(e)
  <2> SUFFICES ASSUME NEW r \in a.sem \cup b.sem
               PROVE  \E i \in DOMAIN c : Covers(c[i], r)
    BY DEF Complete
  <2>1. CASE r \in a.sem
    <3>1. PICK i \in DOMAIN a.list : Covers(a.list[i], r)
      BY <2>1 DEF Good, Complete
    <3> QED BY <3>1, <1>2 DEF x, y
  <2>2. CASE r \in b.sem
    <3>1. PICK i \in DOMAIN b.list : Covers(b.list[i], r)
      BY <2>2 DEF Good, Complete
    <3> QED BY <3>1, <1>2 DEF x, y
  <2> QED BY <2>1, <2>2
<1> QED BY <1>3, <1>4, <1>5 DEF Good, c, x, y

\* No constraint at all.
LEMMA EverythingGood == Good(Everything)
<1> DEFINE m == [host |-> Empty, path |-> NoPath, unknown |-> FALSE]
<1>1. m \in Matches
  BY DEF Matches, Patterns, NoPath
<1>2. /\ Everything \in Entries /\ DOMAIN Everything.list = {1}
      /\ Everything.list[1] = m /\ Everything.sem = Requests
  BY <1>1 DEF Everything, Entries
<1>3. \A r \in Requests : Serves(m, r)
  BY DEF Serves, HostServed, PathServed, NoPath
<1>4. \A r \in Requests : Covers(m, r)
  BY <1>1, <1>3, ServesCovers
<1> QED BY <1>2, <1>4 DEF Good, Known, Complete
-----------------------------------------------------------------------------
(***************************************************************************)
(* The inductive invariant.  The pairs before (i, j) are those that        *)
(* combineMatches has visited.                                             *)
(***************************************************************************)
Before(lp, x, y) == x < lp.i \/ (x = lp.i /\ y < lp.j)

OutKnown(lp) ==
    \A k \in DOMAIN lp.out : \A q \in Requests :
        ~lp.out[k].unknown /\ Serves(lp.out[k], q) => q \in lp.left.sem /\ q \in lp.right.sem

OutComplete(lp) ==
    \A x \in DOMAIN lp.left.list, y \in DOMAIN lp.right.list :
        Before(lp, x, y) =>
            \A q \in Requests : Covers(lp.left.list[x], q) /\ Covers(lp.right.list[y], q)
                                  => \E k \in DOMAIN lp.out : Covers(lp.out[k], q)

LoopOK(lp) ==
    /\ Good(lp.left) /\ Good(lp.right)
    /\ lp.right.list # <<>> => lp.j <= Len(lp.right.list)
    /\ OutKnown(lp) /\ OutComplete(lp)

Served(rp) == \A u \in rp.urls : \A extra \in BOOLEAN :
                  [host |-> u[2], path |-> u[3], extra |-> extra] \in rp.sem

ReportGood(rp) == /\ rp \in Reports /\ Served(rp)
                  /\ rp.sem # {} => rp.urls # {} \/ rp.unresolved

Inv == /\ kind \in {"traefik", "caddy"} /\ status \in {"run", "failed", "done"}
       /\ size \in 0..MaxRules
       /\ kind = "caddy" /\ status = "run" => stack # <<>>
       /\ AllGood(stack)
       /\ loop \in Loops
       /\ loop.on => LoopOK(loop)
       /\ ReportGood(report)

LEMMA NoLoopTyped == NoLoop \in Loops /\ ~NoLoop.on
BY DEF Loops, NoLoop, Nothing, Entries

LEMMA NoReportGood ==
    ASSUME NEW b \in BOOLEAN
    PROVE  ReportGood([NoReport EXCEPT !.unresolved = b])
BY DEF ReportGood, NoReport, Reports, Served

\* combineMatches starts with nothing visited.
LEMMA BeginLoop ==
    ASSUME NEW a, NEW b, Good(a), Good(b)
    PROVE  LET lp == [on |-> TRUE, left |-> a, right |-> b, i |-> 1, j |-> 1, out |-> <<>>]
           IN  lp \in Loops /\ LoopOK(lp)
<1> DEFINE lp == [on |-> TRUE, left |-> a, right |-> b, i |-> 1, j |-> 1, out |-> <<>>]
<1>1. /\ a \in Entries /\ b \in Entries
      /\ a.list \in Seq(Matches) /\ b.list \in Seq(Matches)
  BY DEF Good, Entries
<1>2. lp \in Loops
  BY <1>1 DEF Loops
<1>3. b.list # <<>> => 1 <= Len(b.list)
  BY <1>1
<1>4. OutKnown(lp)
  BY DEF OutKnown
<1>5. \A x \in DOMAIN a.list, y \in DOMAIN b.list : ~Before(lp, x, y)
  BY <1>1 DEF Before
<1>6. OutComplete(lp)
  BY <1>5 DEF OutComplete
<1> QED BY <1>2, <1>3, <1>4, <1>6 DEF LoopOK

\* One more pair.
LEMMA CombineStep ==
    ASSUME NEW lp \in Loops, LoopOK(lp),
           lp.i <= Len(lp.left.list), lp.right.list # <<>>, NEW out, NEW mp,
           LET l == lp.left.list[lp.i]
               r == lp.right.list[lp.j]
           IN  out = IF Dropped(l, r) THEN lp.out ELSE Append(lp.out, Narrowed(l, r)),
           LET last == lp.j = Len(lp.right.list)
           IN  mp = [lp EXCEPT !.out = out, !.i = IF last THEN @ + 1 ELSE @,
                               !.j = IF last THEN 1 ELSE @ + 1]
    PROVE  mp \in Loops /\ LoopOK(mp)
<1> DEFINE ls == lp.left.list
           rs == lp.right.list
           l == ls[lp.i]
           r == rs[lp.j]
<1>1. /\ ls \in Seq(Matches) /\ rs \in Seq(Matches) /\ lp.out \in Seq(Matches)
      /\ lp.left \in Entries /\ lp.right \in Entries /\ lp.on \in BOOLEAN
      /\ lp.i \in Nat \ {0} /\ lp.j \in Nat \ {0}
  BY DEF Loops, Entries
<1>2. /\ Len(ls) \in Nat /\ DOMAIN ls = 1..Len(ls)
      /\ Len(rs) \in Nat /\ DOMAIN rs = 1..Len(rs) /\ lp.j <= Len(rs)
  BY <1>1 DEF LoopOK
<1>3. lp.i \in DOMAIN ls /\ lp.j \in DOMAIN rs /\ l \in Matches /\ r \in Matches
  BY <1>1, <1>2
<1>4. Narrowed(l, r) \in Matches
  BY <1>3, NarrowedType
<1>5. out = IF Dropped(l, r) THEN lp.out ELSE Append(lp.out, Narrowed(l, r))
  OBVIOUS
<1> HIDE DEF l, r
<1>6. /\ out \in Seq(Matches)
      /\ \A k \in DOMAIN lp.out : k \in DOMAIN out /\ out[k] = lp.out[k]
      /\ ~Dropped(l, r) => \E k \in DOMAIN out : out[k] = Narrowed(l, r)
      /\ \A k \in DOMAIN out : (k \in DOMAIN lp.out /\ out[k] = lp.out[k])
                                \/ (~Dropped(l, r) /\ out[k] = Narrowed(l, r))
  <2>1. CASE Dropped(l, r)
    BY <2>1, <1>1, <1>5
  <2>2. CASE ~Dropped(l, r)
    <3> DEFINE n == Len(lp.out)
    <3>1. /\ out \in Seq(Matches) /\ DOMAIN out = 1..(n + 1)
          /\ \A k \in 1..n : out[k] = lp.out[k]
          /\ out[n + 1] = Narrowed(l, r) /\ n \in Nat /\ DOMAIN lp.out = 1..n
      BY <2>2, <1>1, <1>4, <1>5
    <3> HIDE DEF n
    <3>2. n + 1 \in DOMAIN out /\ \A k \in DOMAIN out : k \in 1..n \/ k = n + 1
      BY <3>1
    <3>3. \A k \in 1..n : k \in DOMAIN out
      BY <3>1
    <3> QED BY <3>1, <3>2, <3>3, <2>2
  <2> QED BY <2>1, <2>2
<1> DEFINE last == lp.j = Len(rs)
           ii == IF last THEN lp.i + 1 ELSE lp.i
           jj == IF last THEN 1 ELSE lp.j + 1
<1>7. /\ mp.left = lp.left /\ mp.right = lp.right /\ mp.out = out /\ mp.on = lp.on
      /\ mp.i = ii /\ mp.j = jj /\ mp \in Loops
  <2>1. ii \in Nat \ {0} /\ jj \in Nat \ {0}
    BY <1>1
  <2>2. mp = [lp EXCEPT !.out = out, !.i = ii, !.j = jj]
    BY <1>1 DEF Loops
  <2> HIDE DEF ii, jj
  <2> QED BY <2>1, <2>2, <1>1, <1>6 DEF Loops
<1>8. Good(mp.left) /\ Good(mp.right) /\ mp.j <= Len(mp.right.list)
  BY <1>2, <1>7, <1>3 DEF LoopOK
<1>9. OutKnown(mp)
  <2> SUFFICES ASSUME NEW k \in DOMAIN out, NEW q \in Requests,
                      ~out[k].unknown, Serves(out[k], q)
               PROVE  q \in lp.left.sem /\ q \in lp.right.sem
    BY <1>7 DEF OutKnown
  <2>1. CASE k \in DOMAIN lp.out /\ out[k] = lp.out[k]
    BY <2>1 DEF LoopOK, OutKnown
  <2>2. CASE ~Dropped(l, r) /\ out[k] = Narrowed(l, r)
    <3>1. /\ ~l.unknown /\ Serves(l, q)
          /\ ~r.unknown /\ Serves(r, q)
      BY <2>2, <1>3, NarrowedKnown
    <3> QED BY <3>1, <1>3 DEF LoopOK, Good, Known, l, r
  <2> QED BY <2>1, <2>2, <1>6
<1>10. ASSUME NEW x \in DOMAIN ls, NEW y \in DOMAIN rs, Before(mp, x, y)
       PROVE  Before(lp, x, y) \/ (x = lp.i /\ y = lp.j)
  BY <1>10, <1>1, <1>2, <1>7 DEF Before
<1>11. OutComplete(mp)
  <2> SUFFICES ASSUME NEW x \in DOMAIN ls, NEW y \in DOMAIN rs, Before(mp, x, y),
                      NEW q \in Requests, Covers(ls[x], q), Covers(rs[y], q)
               PROVE  \E k \in DOMAIN out : Covers(out[k], q)
    BY <1>7 DEF OutComplete
  <2>1. CASE Before(lp, x, y)
    <3>1. PICK k \in DOMAIN lp.out : Covers(lp.out[k], q)
      BY <2>1 DEF LoopOK, OutComplete
    <3> QED BY <3>1, <1>6
  <2>2. CASE x = lp.i /\ y = lp.j
    <3>1. Covers(l, q) /\ Covers(r, q)
      BY <2>2 DEF l, r
    <3>2. ~Dropped(l, r) /\ Covers(Narrowed(l, r), q)
      BY <3>1, <1>3, DroppedCovers, NarrowedCovers
    <3> QED BY <3>2, <1>6
  <2> QED BY <2>1, <2>2, <1>10
<1> QED BY <1>7, <1>8, <1>9, <1>11 DEF LoopOK

\* When every pair is visited, the alternatives are those of the conjunction.
LEMMA CombineEnd ==
    ASSUME NEW lp \in Loops, LoopOK(lp), lp.i > Len(lp.left.list) \/ lp.right.list = <<>>
    PROVE  Good([list |-> lp.out, sem |-> lp.left.sem \cap lp.right.sem])
<1> DEFINE e == [list |-> lp.out, sem |-> lp.left.sem \cap lp.right.sem]
<1>1. /\ lp.out \in Seq(Matches) /\ lp.i \in Nat \ {0}
      /\ lp.left.list \in Seq(Matches) /\ lp.right.list \in Seq(Matches)
      /\ lp.left.sem \subseteq Requests
  BY DEF Loops, Entries
<1>2. e \in Entries
  BY <1>1 DEF Entries
<1>3. Known(e)
  BY DEF Known, LoopOK, OutKnown
<1>4. Complete(e)
  <2> SUFFICES ASSUME NEW q \in lp.left.sem, q \in lp.right.sem
               PROVE  \E k \in DOMAIN lp.out : Covers(lp.out[k], q)
    BY DEF Complete
  <2>1. PICK x \in DOMAIN lp.left.list : Covers(lp.left.list[x], q)
    BY DEF LoopOK, Good, Complete
  <2>2. PICK y \in DOMAIN lp.right.list : Covers(lp.right.list[y], q)
    BY DEF LoopOK, Good, Complete
  <2>3. Before(lp, x, y)
    BY <1>1, <2>1, <2>2 DEF Before
  <2> QED BY <1>1, <2>1, <2>2, <2>3 DEF LoopOK, OutComplete
<1> QED BY <1>2, <1>3, <1>4 DEF Good

\* What a list of alternatives becomes.
LEMMA ReportList ==
    ASSUME NEW e, Good(e), NEW ls \in Listeners, NEW b \in BOOLEAN,
           e.list # <<>> /\ Unresolved(e, ls) => b
    PROVE  ReportGood([urls |-> URLs(e, ls), unresolved |-> b, sem |-> e.sem])
<1> DEFINE ok == {k \in DOMAIN ls : ls[k].ok}
           resolved == {i \in DOMAIN e.list : Launchable(e.list[i])}
<1>1. /\ e.list \in Seq(Matches) /\ e.sem \in SUBSET Requests
      /\ ls \in Seq([ok : BOOLEAN, at : Endpoints])
  BY RulesAssumption DEF Good, Entries
<1>2. ASSUME NEW k \in ok, NEW i \in resolved
      PROVE  /\ ls[k].at \in Endpoints /\ e.list[i].host \in Hosts
             /\ e.list[i].path \in Patterns /\ Literal(e.list[i].path)
             /\ Start(e.list[i].path) \in Paths
             /\ e.list[i] \in Matches /\ ~e.list[i].unknown
  <2>1. e.list[i] \in Matches /\ ls[k] \in [ok : BOOLEAN, at : Endpoints]
    <3> DEFINE S == [ok : BOOLEAN, at : Endpoints]
    <3>1. ls \in Seq(S)
      BY <1>1
    <3> HIDE DEF S
    <3>2. ls[k] \in S
      BY <3>1
    <3> QED BY <1>1, <3>2 DEF S
  <2>2. e.list[i].path \in Patterns /\ Literal(e.list[i].path)
    BY <2>1 DEF Launchable, Matches
  <2> QED BY <2>1, <2>2, StartType DEF Launchable
<1>3. ASSUME NEW u \in URLs(e, ls)
      PROVE  \E k \in ok, i \in resolved : u = LaunchURL(ls[k].at, e.list[i])
  BY DEF URLs
<1>4. URLs(e, ls) \in SUBSET (Endpoints \X Hosts \X Paths)
  BY <1>2, <1>3 DEF LaunchURL
<1>5. ASSUME NEW u \in URLs(e, ls), NEW extra \in BOOLEAN
      PROVE  [host |-> u[2], path |-> u[3], extra |-> extra] \in e.sem
  <2>1. PICK k \in ok, i \in resolved : u = LaunchURL(ls[k].at, e.list[i])
    BY <1>3
  <2> DEFINE q == [host |-> u[2], path |-> u[3], extra |-> extra]
  <2>2. u[2] = e.list[i].host /\ u[3] = Start(e.list[i].path)
    BY <2>1 DEF LaunchURL
  <2>3. q \in Requests /\ q.host = e.list[i].host /\ q.path = Start(e.list[i].path)
    BY <1>2, <2>2 DEF Requests
  <2> HIDE DEF q
  <2>4. PathServed(e.list[i].path, q)
    BY <1>2, <2>3, StartServed
  <2>5. Serves(e.list[i], q)
    BY <1>2, <2>3, <2>4 DEF Serves, HostServed
  <2>6. q \in e.sem
    BY <1>2, <2>3, <2>5 DEF Good, Known
  <2> QED BY <2>6 DEF q
<1>6. ASSUME e.sem # {}, ~b PROVE URLs(e, ls) # {}
  <2>1. PICK r \in e.sem : TRUE
    BY <1>6
  <2>2. PICK i \in DOMAIN e.list : Covers(e.list[i], r)
    BY <2>1 DEF Good, Complete
  <2>3. ~Unresolved(e, ls)
    BY <1>1, <1>6, <2>2
  <2>4. ls # <<>> /\ \A k \in DOMAIN ls : ls[k].ok /\ Launchable(e.list[i])
    BY <2>2, <2>3 DEF Unresolved
  <2>5. 1 \in DOMAIN ls
    BY <1>1, <2>4
  <2>6. 1 \in ok /\ i \in resolved
    BY <2>2, <2>4, <2>5
  <2>7. LaunchURL(ls[1].at, e.list[i]) \in URLs(e, ls)
    <3>1. <<1, i>> \in ok \X resolved /\ <<1, i>>[1] = 1 /\ <<1, i>>[2] = i
      BY <2>6
    <3> QED BY <3>1 DEF URLs
  <2> QED BY <2>7
<1> DEFINE rp == [urls |-> URLs(e, ls), unresolved |-> b, sem |-> e.sem]
<1>7. rp \in Reports /\ rp.urls = URLs(e, ls) /\ rp.unresolved = b /\ rp.sem = e.sem
  BY <1>1, <1>4 DEF Reports
<1> HIDE DEF rp
<1>8. Served(rp)
  BY <1>5, <1>7 DEF Served
<1>9. ReportGood(rp)
  BY <1>6, <1>7, <1>8 DEF ReportGood
<1> QED BY <1>9 DEF rp
-----------------------------------------------------------------------------
LEMMA InitInv == Init => Inv
<1> SUFFICES ASSUME Init PROVE Inv
  OBVIOUS
<1>1. ReportGood(NoReport)
  BY DEF ReportGood, NoReport, Reports, Served
<1>2. AllGood(<<>>)
  BY DEF AllGood
<1>3. AllGood(<<Everything>>)
  <2>1. <<Everything>> \in Seq(Entries) /\ DOMAIN <<Everything>> = {1} /\ <<Everything>>[1] = Everything
    BY EverythingGood DEF Good
  <2> HIDE DEF Everything
  <2> QED BY <2>1, EverythingGood DEF AllGood
<1>4. AllGood(stack) /\ (kind = "caddy" => stack # <<>>)
  BY <1>2, <1>3 DEF Init
<1>5. size \in 0..MaxRules
  BY BoundsAssumption DEF Init
<1> QED BY <1>1, <1>4, <1>5, NoLoopTyped DEF Init, Inv

\* An evaluation that fails leaves nothing behind.
LEMMA FailInv ==
    ASSUME Inv, Fail, kind' = kind, size' \in 0..MaxRules
    PROVE  Inv'
<1>1. ReportGood(report')
  <2>1. (kind = "traefik") \in BOOLEAN
    OBVIOUS
  <2> QED BY <2>1, NoReportGood DEF Fail
<1>2. AllGood(stack')
  BY DEF Fail, AllGood
<1> QED BY <1>1, <1>2, NoLoopTyped DEF Fail, Inv

LEMMA TopGood == ASSUME AllGood(stack), stack # <<>> PROVE Good(Top) /\ Len(stack) \in Nat \ {0}
<1>1. Len(stack) \in DOMAIN stack /\ Len(stack) \in Nat \ {0}
  BY DEF AllGood
<1> QED BY <1>1 DEF Top, AllGood

LEMMA BelowGood == ASSUME AllGood(stack), Len(stack) >= 2 PROVE Good(Below) /\ Good(Top)
<1>1. Len(stack) \in DOMAIN stack /\ Len(stack) - 1 \in DOMAIN stack
  BY DEF AllGood
<1> QED BY <1>1 DEF Top, Below, AllGood

\* A matcher of either proxy.
LEMMA CallsGood ==
    ASSUME NEW c \in Calls \cup MatcherSets
    PROVE  Good([list |-> c, sem |-> Meaning(c)])
<1> DEFINE S == [host : Hosts \cup DynHosts \cup {Empty}, path : Patterns, unknown : {FALSE}]
<1>1. c \in Seq(S) \/ c \in Seq(Matches)
  BY RulesAssumption
<1>2. S \subseteq Matches
  BY DEF Matches
<1> HIDE DEF S
<1>3. \A i \in 1..Len(c) : c[i] \in Matches
  BY <1>1, <1>2
<1>4. c \in Seq(Matches)
  BY <1>1, <1>3
<1> QED BY <1>4, MeaningGood

LEMMA NextInv == Inv /\ [Next]_vars => Inv'
<1> SUFFICES ASSUME Inv, [Next]_vars PROVE Inv'
  OBVIOUS
<1> USE DEF Inv
<1>1. CASE UNCHANGED vars
  BY <1>1 DEF vars
<1>2. CASE CombineNext
  <2> DEFINE l == loop.left.list[loop.i]
             r == loop.right.list[loop.j]
             out == IF Dropped(l, r) THEN loop.out ELSE Append(loop.out, Narrowed(l, r))
  <2>1. CASE Len(out) > MaxRoutes
    BY <2>1, <1>2, FailInv DEF CombineNext
  <2>2. CASE ~(Len(out) > MaxRoutes)
    <3>1. loop.i <= Len(loop.left.list) /\ loop.right.list # <<>>
      <4>1. Len(loop.left.list) \in Nat /\ loop.i \in Nat
        BY DEF Loops, Entries
      <4> QED BY <4>1, <1>2 DEF CombineNext, Finished
    <3>2. loop' \in Loops /\ LoopOK(loop')
      BY <3>1, <2>2, <1>2, CombineStep DEF CombineNext
    <3> QED BY <3>2, <2>2, <1>2 DEF CombineNext
  <2> QED BY <2>1, <2>2
<1>3. CASE CombineDone
  <2> DEFINE e == [list |-> loop.out, sem |-> loop.left.sem \cap loop.right.sem]
  <2>1. loop.i > Len(loop.left.list) \/ loop.right.list = <<>>
    BY <1>3 DEF CombineDone, Finished
  <2>2. Good(e)
    BY <2>1, <1>3, CombineEnd DEF CombineDone
  <2> HIDE DEF e
  <2>3. AllGood(Append(stack, e)) /\ Append(stack, e) # <<>>
    BY <2>2, AppendGood
  <2>4. AllGood(stack') /\ stack' # <<>>
    BY <2>3, <1>3 DEF CombineDone, e
  <2> QED BY <2>4, <1>3, NoLoopTyped DEF CombineDone
<1>4. ASSUME NEW c \in Calls, VisitCall(c) PROVE Inv'
  <2>1. size' \in 0..MaxRules /\ kind' = kind
    BY <1>4, BoundsAssumption DEF VisitCall, Grow
  <2>2. CASE Len(c) > MaxRoutes
    BY <2>1, <2>2, <1>4, FailInv DEF VisitCall
  <2>3. CASE ~(Len(c) > MaxRoutes)
    <3> DEFINE e == [list |-> c, sem |-> Meaning(c)]
    <3>1. Good(e)
      BY CallsGood
    <3> HIDE DEF e
    <3>2. AllGood(Append(stack, e)) /\ Append(stack, e) # <<>>
      BY <3>1, AppendGood
    <3>3. AllGood(stack') /\ stack' # <<>>
      BY <3>2, <2>3, <1>4 DEF VisitCall, e
    <3> QED BY <3>3, <2>1, <2>3, <1>4 DEF VisitCall
  <2> QED BY <2>2, <2>3
<1>5. CASE VisitAnd
  <2>1. Good(Below) /\ Good(Top)
    BY <1>5, BelowGood DEF VisitAnd
  <2>2. loop' \in Loops /\ LoopOK(loop')
    BY <2>1, <1>5, BeginLoop DEF VisitAnd, BeginCombine
  <2>3. AllGood(stack')
    BY <1>5, PopGood DEF VisitAnd, Pop, AllGood
  <2> QED BY <2>2, <2>3, <1>5 DEF VisitAnd, Evaluating
<1>6. CASE VisitOr
  <2>1. Good(Below) /\ Good(Top)
    BY <1>6, BelowGood DEF VisitOr
  <2>2. CASE Len(Below.list) + Len(Top.list) > MaxRoutes
    BY <2>2, <1>6, FailInv DEF VisitOr
  <2>3. CASE ~(Len(Below.list) + Len(Top.list) > MaxRoutes)
    <3> DEFINE e == [list |-> Below.list \o Top.list, sem |-> Below.sem \cup Top.sem]
    <3>1. Good(e)
      BY <2>1, ConcatGood
    <3>2. AllGood(Pop(2))
      BY <1>6, PopGood DEF VisitOr, Pop, AllGood
    <3> HIDE DEF e
    <3>3. AllGood(Append(Pop(2), e)) /\ Append(Pop(2), e) # <<>>
      BY <3>1, <3>2, AppendGood
    <3>4. AllGood(stack') /\ stack' # <<>>
      BY <3>3, <2>3, <1>6 DEF VisitOr, e
    <3> QED BY <3>4, <2>3, <1>6 DEF VisitOr
  <2> QED BY <2>2, <2>3
<1>7. CASE EnterPlainRoute
  <2>1. size' \in 0..MaxRules
    BY <1>7, BoundsAssumption DEF EnterPlainRoute, Grow
  <2>2. Good(Top)
    BY <1>7, TopGood DEF EnterPlainRoute, Evaluating
  <2>3. AllGood(stack') /\ stack' # <<>>
    BY <2>2, <1>7, AppendGood DEF EnterPlainRoute
  <2> QED BY <2>1, <2>3, <1>7 DEF EnterPlainRoute
<1>8. CASE LeaveRoute
  <2>1. /\ AllGood(Pop(1)) /\ Len(Pop(1)) = Len(stack) - 1 /\ Len(stack) \in Nat
    BY <1>8, PopGood DEF LeaveRoute, Pop, AllGood
  <2>2. Pop(1) # <<>>
    BY <2>1, <1>8 DEF LeaveRoute
  <2> QED BY <2>1, <2>2, <1>8 DEF LeaveRoute
<1>9. ASSUME NEW c \in MatcherSets, EnterRoute(c) PROVE Inv'
  <2>1. size' \in 0..MaxRules /\ kind' = kind
    BY <1>9, BoundsAssumption DEF EnterRoute, Grow
  <2>2. CASE Len(c) > MaxRoutes
    BY <2>1, <2>2, <1>9, FailInv DEF EnterRoute
  <2>3. CASE ~(Len(c) > MaxRoutes)
    <3>1. Good(Top)
      BY <1>9, TopGood DEF EnterRoute, Evaluating
    <3>2. Good([list |-> c, sem |-> Meaning(c)])
      BY CallsGood
    <3>3. loop' \in Loops /\ LoopOK(loop')
      BY <3>1, <3>2, <2>3, <1>9, BeginLoop DEF EnterRoute, BeginCombine
    <3> QED BY <3>3, <2>1, <2>3, <1>9 DEF EnterRoute
  <2> QED BY <2>2, <2>3
<1>10. CASE Reject
  BY <1>10, FailInv DEF Reject
<1>11. ASSUME NEW ls \in Listeners, ReportRouter(ls) PROVE Inv'
  <2>1. Good(Top)
    BY <1>11, TopGood DEF ReportRouter
  <2>2. Unresolved(Top, ls) \in BOOLEAN
    BY DEF Unresolved
  <2> DEFINE b == Unresolved(Top, ls)
  <2>3. ReportGood([urls |-> URLs(Top, ls), unresolved |-> b, sem |-> Top.sem])
    BY <2>1, <2>2, ReportList
  <2> QED BY <2>3, <1>11 DEF ReportRouter
<1>12. ASSUME NEW ls \in Listeners, ReportHandler(ls) PROVE Inv'
  <2>1. Good(Top)
    BY <1>12, TopGood DEF ReportHandler, Evaluating
  <2> DEFINE b == Top.list # <<>> /\ Unresolved(Top, ls)
  <2>2. b \in BOOLEAN
    OBVIOUS
  <2>3. ReportGood([urls |-> URLs(Top, ls), unresolved |-> b, sem |-> Top.sem])
    BY <2>1, <2>2, ReportList
  <2> QED BY <2>3, <1>12 DEF ReportHandler
<1> QED BY <1>1, <1>2, <1>3, <1>4, <1>5, <1>6, <1>7, <1>8, <1>9, <1>10, <1>11, <1>12 DEF Next

LEMMA InvAlways == Spec => []Inv
BY InitInv, NextInv, PTL DEF Spec
-----------------------------------------------------------------------------
(* Every variable keeps its type (visit, walk, combineMatches).            *)
THEOREM TypeCorrect == Spec => []TypeOK
<1>1. Inv => TypeOK
  BY DEF Inv, TypeOK, AllGood, ReportGood
<1> QED BY <1>1, InvAlways, PTL

(* combineMatches and visit never widen a rule: an alternative that is not *)
(* marked unknown accepts only what the rule accepts.                      *)
THEOREM RulesNotWidened == Spec => []NothingWidened
<1>1. Inv => NothingWidened
  BY DEF Inv, NothingWidened, AllGood, Good
<1> QED BY <1>1, InvAlways, PTL

(* combineMatches drops only combinations that no request fits.            *)
THEOREM RulesComplete == Spec => []NothingLost
<1>1. Inv => NothingLost
  BY DEF Inv, NothingLost, AllGood, Good
<1> QED BY <1>1, InvAlways, PTL

(* A launch URL is one that the rule accepts (launchURL).                  *)
THEOREM LaunchURLsCorrect == Spec => []LaunchURLsServed
<1>1. Inv => LaunchURLsServed
  BY DEF Inv, LaunchURLsServed, ReportGood, Served
<1> QED BY <1>1, InvAlways, PTL

(* A router or a handler that accepts anything is discovered.              *)
THEOREM RoutesDiscovered == Spec => []RoutesReported
<1>1. Inv => RoutesReported
  BY DEF Inv, RoutesReported, ReportGood
<1> QED BY <1>1, InvAlways, PTL
=============================================================================
