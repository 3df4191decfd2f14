---------------------------- MODULE AtomicPages ----------------------------
(***************************************************************************)
(* What the owner may rely on: every change of the pages is one step, made *)
(* on the page as it is at that moment, whichever of the browser, a rule   *)
(* and the registry makes it and however long it took to prepare.          *)
(*                                                                         *)
(* There are no requests, transactions or revision checks here: module     *)
(* Dashboards has them, and implements this one.                           *)
(***************************************************************************)
EXTENDS Integers, FiniteSets

CONSTANTS
    Apps,          \* identities of apps
    Pages,         \* identities of pages
    Home,          \* the page that stays
    NoRule,        \* the rule of a page without one
    MaxItems       \* the cards a page can hold

VARIABLES
    live,          \* the apps there are
    gone,          \* the apps there were
    pages          \* the pages: cards maps the listed apps to their sections

vars == <<live, gone, pages>>

LivePages == {g \in Pages : pages[g].st = "live"}
Cards(d) == DOMAIN d.cards
Mentioned(d) == Cards(d) \cup d.excluded

Init ==
    /\ live = {} /\ gone = {}
    /\ LivePages = {Home}
    /\ \A g \in Pages : Cards(pages[g]) = {}

\* Every other page, and the registry, are as they were.
Only(g) == /\ \A h \in Pages \ {g} : pages'[h] = pages[h]
           /\ UNCHANGED <<live, gone>>

\* A page the owner may store: its cards are of existing apps, in sections it
\* has, as the rule's destination is, and none of them is excluded.
Storable(d) ==
    /\ Cards(d) \subseteq live /\ Cardinality(Cards(d)) <= MaxItems
    /\ \A a \in Cards(d) : d.cards[a] \in d.sections
    /\ d.dest \in d.sections
    /\ Cards(d) \cap d.excluded = {}

\* While a rule is set, what the owner takes off is excluded.
Edit(g) ==
    LET d == pages[g]  e == pages'[g]
    IN  /\ d.st = "live" /\ e.st = "live" /\ Storable(e)
        /\ e.rule # NoRule => Cards(d) \ Cards(e) \subseteq e.excluded
        /\ e.rev = d.rev + 1
        /\ Only(g)

Create(g) == /\ pages[g].st = "none" /\ pages'[g].st = "live"
             /\ Storable(pages'[g])
             /\ Only(g)

Delete(g) == /\ g # Home /\ pages[g].st = "live" /\ pages'[g].st = "gone"
             /\ Only(g)

\* The next version of a page.
Version(d, cards, excluded) ==
    [d EXCEPT !.cards = cards, !.excluded = excluded, !.rev = @ + 1]

\* A rule adds cards, in its section, of apps the page neither has nor excludes.
Add(g) ==
    LET d == pages[g]
        new == Cards(pages'[g]) \ Cards(d)
    IN  /\ d.st = "live" /\ d.rule # NoRule
        /\ new # {} /\ new \subseteq live \ Mentioned(d)
        /\ Cardinality(Cards(d) \cup new) <= MaxItems
        /\ pages'[g] = Version(d, [a \in Cards(d) \cup new |->
                                     IF a \in new THEN d.dest ELSE d.cards[a]], d.excluded)
        /\ Only(g)

\* Scans find and lose apps; an app that some page lists stays, and one that is
\* gone does not return.
Register ==
    /\ gone \subseteq gone' /\ live' \cap gone' = {}
    /\ live \subseteq live' \cup gone'
    /\ \A g \in LivePages : Cards(pages[g]) \subseteq live'
    /\ UNCHANGED pages

\* The owner deletes app a: no page mentions it any more.
Without(d, a) ==
    IF a \notin Mentioned(d) THEN d
    ELSE Version(d, [b \in Cards(d) \ {a} |-> d.cards[b]], d.excluded \ {a})

Forget(a) ==
    /\ a \in live
    /\ live' = live \ {a} /\ gone' = gone \cup {a}
    /\ \A g \in Pages : pages'[g] = IF g \in LivePages THEN Without(pages[g], a) ELSE pages[g]

\* App b turns out to be app a: a takes b's place, or its own where it has one.
Instead(d, a, b) ==
    IF {a, b} \cap Mentioned(d) = {} THEN d
    ELSE LET put == IF b \in Cards(d) THEN {a} ELSE {}
         IN  Version(d, [c \in (Cards(d) \ {b}) \cup put |->
                           IF c \in Cards(d) THEN d.cards[c] ELSE d.cards[b]],
                     (d.excluded \ {b}) \cup (IF b \in d.excluded THEN {a} ELSE {}))

Merge(a, b) ==
    /\ {a, b} \subseteq live /\ a # b
    /\ live' = live \ {b} /\ gone' = gone \cup {b}
    /\ \A g \in Pages : pages'[g] = IF g \in LivePages THEN Instead(pages[g], a, b) ELSE pages[g]

Next ==
    \/ \E g \in Pages : Edit(g) \/ Create(g) \/ Delete(g) \/ Add(g)
    \/ Register
    \/ \E a \in Apps : Forget(a) \/ \E b \in Apps : Merge(a, b)

Spec == Init /\ [][Next]_vars
=============================================================================
