----------------------------- MODULE Dashboards -----------------------------
(***************************************************************************)
(* Apptrail's pages ("dashboards") and everything that writes them: owner  *)
(* saves, the CEL auto-add rules, alias merges, app deletion and pruning.  *)
(*                                                                         *)
(* The database has one connection, so a statement or a transaction is one *)
(* step, and two handlers interleave between their statements.  A handler  *)
(* is a process: it reads pages, then apps, then writes under a check of   *)
(* the page's revision, and nothing keeps what it read from going stale.   *)
(*                                                                         *)
(* Abstracted here: tile geometry and order (module Layout) but for cards  *)
(* near the last row, the facts a rule looks at (a member of Facts), how a *)
(* scan resolves identities (module Registry), names, slugs and the public *)
(* flag.                                                                   *)
(***************************************************************************)
EXTENDS Integers, FiniteSets

CONSTANTS
    Apps,          \* identities the registry may ever hand out
    Pages,         \* dashboard identities, Home among them
    Home,          \* the page that cannot be deleted
    Handlers,      \* HTTP handlers and scans in flight at once
    Sched,         \* the scheduler goroutine, which refreshes rules forever
    Sections,      \* section IDs
    Rules,         \* CEL rules
    NoRule,        \* the empty rule: auto-add is off
    Facts,         \* what a rule can see of an app
    Verdict,       \* Verdict[r][f]: rule r on an app with facts f
    Requests,      \* the page bodies clients send
    Keep,          \* a request field the client leaves as it was
    None,          \* no app, no page, no tile
    MaxItems,      \* the limit on a page's apps (1000 in the code)
    MaxOps         \* bound: owner and provider operations per behaviour

Procs == Handlers \cup {Sched}

(***************************************************************************)
(* An app record.  "edited" says that the owner's overrides are not empty. *)
(***************************************************************************)
AppRecs == [st : {"none", "live", "gone"}, present : BOOLEAN,
            hidden : BOOLEAN, edited : BOOLEAN, fact : Facts]

(***************************************************************************)
(* A page record.  items counts how often each app is listed (a list may   *)
(* repeat one); sections is the set of sections, first the one listed      *)
(* first; tile gives the section an app's card is in; the cards of low lie *)
(* so far down that those appended below them may get beyond the last row. *)
(***************************************************************************)
PageRecs == [st : {"none", "live", "gone"}, items : [Apps -> Nat],
             excluded : SUBSET Apps, sections : SUBSET Sections,
             first : Sections, tile : [Apps -> Sections \cup {None}],
             low : SUBSET Apps, rule : Rules \cup {NoRule}, autoSection : Sections,
             rev : Nat, err : {"none", "eval", "limit", "rows"}]

RequestRecs == [items : [Apps -> Nat] \cup {Keep},
                excluded : (SUBSET Apps) \cup {Keep},
                layout : [sections : SUBSET Sections, first : Sections,
                          tile : [Apps -> Sections \cup {None}], low : SUBSET Apps] \cup {Keep},
                rule : Rules \cup {NoRule, Keep},
                autoSection : Sections \cup {Keep}]

ASSUME SizesAssumption == MaxItems \in Nat /\ MaxOps \in Nat
ASSUME FiniteAssumption == IsFiniteSet(Apps) /\ IsFiniteSet(Pages)
ASSUME NamesAssumption == /\ Home \in Pages
                          /\ Sched \notin Handlers
                          /\ None \notin Apps \cup Pages \cup Sections
                          /\ NoRule \notin Rules
                          /\ Sections # {} /\ Facts # {}
ASSUME VerdictAssumption == Verdict \in [Rules -> [Facts -> {"yes", "no", "error"}]]
ASSUME RequestsAssumption ==
    /\ Requests \subseteq RequestRecs
    /\ \A r \in Requests : r.layout # Keep => r.layout.first \in r.layout.sections

VARIABLES
    app,        \* app[a]: the registry's record of a
    page,       \* page[g]: the row of page g
    pc,         \* pc[p]: the next statement of process p
    target,     \* target[p]: the page p saves
    view,       \* view[p]: the page as p's client loaded it, if it sends a revision
    prev,       \* prev[p]: "previous", the row saveDashboard read first
    draft,      \* draft[p]: the page saveDashboard is about to write
    snapPages,  \* snapPages[p]: the rows applyDashboardRules read
    snapApps,   \* snapApps[p]: the apps applyDashboardRules read
    todo,       \* todo[p]: the pages whose rule p has still to apply
    ops         \* operations started so far

shared == <<app, page>>
saveVars == <<target, view, prev, draft>>
ruleVars == <<snapPages, snapApps, todo>>
vars == <<app, page, pc, target, view, prev, draft, snapPages, snapApps, todo, ops>>

NoApp == [st |-> "none", present |-> FALSE, hidden |-> FALSE, edited |-> FALSE,
          fact |-> CHOOSE f \in Facts : TRUE]
ASection == CHOOSE s \in Sections : TRUE
NoPage == [st |-> "none", items |-> [a \in Apps |-> 0], excluded |-> {},
           sections |-> {ASection}, first |-> ASection,
           tile |-> [a \in Apps |-> None], low |-> {}, rule |-> NoRule,
           autoSection |-> ASection, rev |-> 0, err |-> "none"]
NoSnap == [g \in Pages |-> NoPage]
NoApps == [a \in Apps |-> NoApp]
-----------------------------------------------------------------------------
(***************************************************************************)
(* Reading a page.                                                         *)
(***************************************************************************)
Listed(d) == {a \in Apps : d.items[a] > 0}
Tiled(d) == {a \in Apps : d.tile[a] # None}
Live == {a \in Apps : app[a].st = "live"}
LivePages == {g \in Pages : page[g].st = "live"}

(***************************************************************************)
(* normalizeLayout: tiles of unlisted apps go, listed apps without one get *)
(* one in the first section, where those of low lie low.  It fails on a    *)
(* tile or a rule destination outside the sections, and on overlapping     *)
(* tiles, which an app listed twice always has; and it may fail on the row *)
(* limit when cards are appended to a section that has a low one.          *)
(***************************************************************************)
Untiled(d) == Listed(d) \ Tiled(d)
NearRowLimit(d, s) == \E a \in d.low \cap Listed(d) : d.tile[a] = s

Normalized(d, low) ==
    [d EXCEPT !.tile = [a \in Apps |-> IF a \notin Listed(d) THEN None
                                       ELSE IF d.tile[a] = None THEN d.first
                                       ELSE d.tile[a]],
              !.low = (@ \cap Listed(d)) \cup low]

CanNormalize(d) ==
    /\ \A a \in Listed(d) : d.items[a] = 1 /\ d.tile[a] \in d.sections \cup {None}
    /\ d.autoSection \in d.sections

(***************************************************************************)
(* evaluateDashboardRule: only present, visible apps are evaluated, and    *)
(* one app on which the rule fails makes the whole evaluation fail.        *)
(***************************************************************************)
Evaluated(apps) == {a \in Apps : apps[a].st = "live" /\ apps[a].present /\ ~apps[a].hidden}
RuleFails(rule, apps) == \E a \in Evaluated(apps) : Verdict[rule][apps[a].fact] = "error"
Matches(rule, apps) == {a \in Evaluated(apps) : Verdict[rule][apps[a].fact] = "yes"}

(***************************************************************************)
(* rewriteDashboardReferences: every occurrence of an app of ids becomes   *)
(* canonical (once), or goes when canonical is None.  The surviving tile   *)
(* is canonical's own, else the one that was there; Keeper is whose it is. *)
(***************************************************************************)
Mentions(d, ids) == ids \cap (Listed(d) \cup d.excluded \cup Tiled(d)) # {}

Keeper(d, ids, canonical) ==
    IF canonical \in Tiled(d) \/ ids \cap Tiled(d) = {} THEN canonical
    ELSE CHOOSE a \in ids \cap Tiled(d) : TRUE
KeptTile(d, ids, canonical) ==
    IF Keeper(d, ids, canonical) \in Tiled(d) THEN d.tile[Keeper(d, ids, canonical)] ELSE None

\* Rewritten, if canonical were put in place of each occurrence.
RewrittenEach(d, ids, canonical) ==
    [d EXCEPT !.items = [a \in Apps |->
                            IF a = canonical THEN Cardinality(ids \cap Listed(d))
                            ELSE IF a \in ids THEN 0 ELSE d.items[a]],
              !.tile = [a \in Apps |-> IF a \in ids \ {canonical} THEN None ELSE d.tile[a]],
              !.rev = @ + 1]

Rewritten(d, ids, canonical) ==
    IF ~Mentions(d, ids) THEN d
    ELSE [d EXCEPT
            !.items = [a \in Apps |->
                IF a = canonical THEN (IF ids \cap Listed(d) = {} THEN 0 ELSE 1)
                ELSE IF a \in ids THEN 0 ELSE d.items[a]],
            !.excluded = (@ \ ids) \cup
                (IF ids \cap d.excluded = {} THEN {} ELSE {canonical} \ {None}),
            !.tile = [a \in Apps |-> IF a = canonical THEN KeptTile(d, ids, canonical)
                                     ELSE IF a \in ids THEN None ELSE d.tile[a]],
            !.low = (@ \ ids) \cup
                (IF Keeper(d, ids, canonical) \in d.low THEN {canonical} \ {None} ELSE {}),
            !.rev = @ + 1]

\* RewriteAll, if only the default page were rewritten.
RewriteHome(pages, ids, canonical) ==
    [pages EXCEPT ![Home] = Rewritten(pages[Home], ids, canonical)]

RewriteAll(pages, ids, canonical) ==
    [g \in Pages |-> IF pages[g].st = "live" THEN Rewritten(pages[g], ids, canonical)
                     ELSE pages[g]]
-----------------------------------------------------------------------------
Init ==
    /\ app = NoApps
    /\ page = [g \in Pages |-> IF g = Home THEN [NoPage EXCEPT !.st = "live"] ELSE NoPage]
    /\ pc = [p \in Procs |-> "idle"]
    /\ target = [p \in Procs |-> None]
    /\ view = [p \in Procs |-> NoPage]
    /\ prev = [p \in Procs |-> NoPage]
    /\ draft = [p \in Procs |-> NoPage]
    /\ snapPages = [p \in Procs |-> NoSnap]
    /\ snapApps = [p \in Procs |-> NoApps]
    /\ todo = [p \in Procs |-> {}]
    /\ ops = 0

Count == ops < MaxOps /\ ops' = ops + 1

\* The save ends: its locals go out of scope.
EndSave(p) == /\ target' = [target EXCEPT ![p] = None]
              /\ view' = [view EXCEPT ![p] = NoPage]
              /\ prev' = [prev EXCEPT ![p] = NoPage]
              /\ draft' = [draft EXCEPT ![p] = NoPage]
-----------------------------------------------------------------------------
(***************************************************************************)
(* saveDashboard.                                                          *)
(***************************************************************************)
\* A browser tab loads page g (GET /api/dashboards) and opens an editor on it.
LoadDashboard(p, g) ==
    /\ pc[p] = "idle" /\ page[g].st = "live" /\ ops < MaxOps
    /\ pc' = [pc EXCEPT ![p] = "editing"]
    /\ target' = [target EXCEPT ![p] = g]
    /\ view' = [view EXCEPT ![p] = page[g]]
    /\ UNCHANGED <<shared, prev, draft, ruleVars, ops>>

\* The page a request asks for, its omitted fields taken from base; then
\* removals become exclusions while a rule is set, and listed apps stop being
\* excluded.
Requested(base, old, r) ==
    LET d == [old EXCEPT
                !.items = IF r.items = Keep THEN base.items ELSE r.items,
                !.excluded = IF r.excluded = Keep THEN base.excluded ELSE r.excluded,
                !.sections = IF r.layout = Keep THEN base.sections ELSE r.layout.sections,
                !.first = IF r.layout = Keep THEN base.first ELSE r.layout.first,
                !.tile = IF r.layout = Keep THEN base.tile ELSE r.layout.tile,
                !.low = IF r.layout = Keep THEN base.low ELSE r.layout.low,
                !.rule = IF r.rule = Keep THEN base.rule ELSE r.rule,
                !.autoSection = IF r.autoSection = Keep THEN base.autoSection
                                ELSE r.autoSection]
        removed == IF d.rule = NoRule THEN {} ELSE Listed(old) \ Listed(d)
    IN  [d EXCEPT !.excluded = (@ \cup removed) \ Listed(d)]

\* Accepted, if the client's revision were never looked at.
AcceptedAtAnyRevision(p, old, d) ==
    /\ Cardinality(Listed(d)) <= MaxItems
    /\ Cardinality(d.excluded) <= MaxItems
    /\ CanNormalize(d)

\* The first checks of saveDashboard on "previous" (old) and the request.
Accepted(p, old, d) ==
    /\ pc[p] = "editing" => view[p].rev = old.rev
    /\ Cardinality(Listed(d)) <= MaxItems
    /\ Cardinality(d.excluded) <= MaxItems
    /\ CanNormalize(d)

\* PUT from an editor (with the revision it loaded) or from a client that sends
\* none; POST when old is no page at all, for which id() draws a fresh g.
SaveDashboardRead(p, g, r) ==
    LET old == page[g]
        base == IF pc[p] = "editing" THEN view[p] ELSE old
        d == Requested(base, old, r)
    IN  /\ \/ pc[p] = "editing" /\ target[p] = g
           \/ pc[p] = "idle" /\ old.st = "live"
           \/ pc[p] = "idle" /\ old.st = "none" /\ \A q \in Procs : target[q] # g
        /\ Count
        /\ \/ /\ pc[p] = "idle" \/ old.st = "live"
              /\ Accepted(p, old, d)
              /\ \E low \in {{}, Untiled(d)} : draft' = [draft EXCEPT ![p] = Normalized(d, low)]
              /\ pc' = [pc EXCEPT ![p] = "validate"]
              /\ target' = [target EXCEPT ![p] = g]
              /\ prev' = [prev EXCEPT ![p] = old]
              /\ UNCHANGED view
           \/ /\ \/ pc[p] # "idle" /\ old.st # "live"
                 \/ ~Accepted(p, old, d)
                 \/ Untiled(d) # {} /\ NearRowLimit(d, d.first)
              /\ pc' = [pc EXCEPT ![p] = "idle"]
              /\ EndSave(p)
        /\ UNCHANGED <<shared, ruleVars>>

\* The apps are read: every listed one must be known, and a new rule must not fail.
SaveDashboardValidate(p) ==
    LET d == draft[p]
    IN  /\ pc[p] = "validate"
        /\ IF /\ Listed(d) \subseteq Live
              /\ d.rule \notin {NoRule, prev[p].rule} => ~RuleFails(d.rule, app)
           THEN pc' = [pc EXCEPT ![p] = "commit"] /\ UNCHANGED saveVars
           ELSE pc' = [pc EXCEPT ![p] = "idle"] /\ EndSave(p)
        /\ UNCHANGED <<shared, ruleVars, ops>>

\* Committable, if the transaction did not look the apps up again, and if it
\* did not compare the revision.  Then the real one:
\* the transaction: the listed apps still exist and the row still has the
\* revision that was read, or nothing is written.
CommittableUnchecked(p) ==
    /\ page[target[p]].st = prev[p].st
    /\ page[target[p]].rev = prev[p].rev
CommittableAtAnyRevision(p) ==
    /\ Listed(draft[p]) \subseteq Live
    /\ page[target[p]].st = prev[p].st
Committable(p) ==
    /\ Listed(draft[p]) \subseteq Live
    /\ page[target[p]].st = prev[p].st
    /\ page[target[p]].rev = prev[p].rev

SaveDashboardCommit(p) ==
    /\ pc[p] = "commit"
    /\ IF Committable(p)
       THEN /\ page' = [page EXCEPT ![target[p]] =
                           [draft[p] EXCEPT !.st = "live", !.rev = @ + 1, !.err = "none"]]
            /\ pc' = [pc EXCEPT ![p] = "rules"]
       ELSE /\ pc' = [pc EXCEPT ![p] = "idle"]
            /\ UNCHANGED page
    /\ EndSave(p)
    /\ UNCHANGED <<app, ruleVars, ops>>

DeleteDashboard(g) ==
    /\ g # Home /\ page[g].st = "live"
    /\ page' = [page EXCEPT ![g] = [NoPage EXCEPT !.st = "gone"]]
    /\ Count
    /\ UNCHANGED <<app, pc, saveVars, ruleVars>>
-----------------------------------------------------------------------------
(***************************************************************************)
(* The registry, as far as the pages see it.                               *)
(***************************************************************************)
\* updateApp: the owner hides or shows app a, or edits a field a rule looks at.
UpdateApp(p, a) ==
    /\ pc[p] = "idle" /\ a \in Live /\ Count
    /\ \E h \in BOOLEAN, f \in Facts :
         app' = [app EXCEPT ![a].hidden = h, ![a].edited = TRUE, ![a].fact = f]
    /\ pc' = [pc EXCEPT ![p] = "rules"]
    /\ UNCHANGED <<page, saveVars, ruleVars>>

\* refreshApp: probed metadata changes the facts of a.
RefreshApp(p, a) ==
    /\ pc[p] = "idle" /\ a \in Live /\ Count
    /\ \E f \in Facts \ {app[a].fact} : app' = [app EXCEPT ![a].fact = f]
    /\ pc' = [pc EXCEPT ![p] = "rules"]
    /\ UNCHANGED <<page, saveVars, ruleVars>>

\* What one scan's transaction does to the registry: it marks the provider's
\* unseen apps as lost, then creates or updates the ones it sees.
Observed(seen, lost, fact) ==
    [a \in Apps |->
        IF a \in seen THEN [app[a] EXCEPT !.st = "live", !.present = TRUE, !.fact = fact[a]]
        ELSE IF a \in lost THEN [app[a] EXCEPT !.present = FALSE]
        ELSE app[a]]

\* reconcile (createApp too) without an alias merge.  Of the lost apps some
\* may be Traefik-internal noise: pruneTraefikInternals deletes those the owner
\* neither edited nor placed.
Reconcile(p) ==
    /\ pc[p] = "idle" /\ Count
    /\ \E seen \in SUBSET {a \in Apps : app[a].st # "gone"} :
       \E lost \in SUBSET (Live \ seen), fact \in [seen -> Facts] :
       \E pruned \in SUBSET {a \in lost : /\ ~app[a].edited
                                          /\ \A g \in LivePages : a \notin Listed(page[g])} :
         app' = [a \in Apps |-> IF a \in pruned THEN [NoApp EXCEPT !.st = "gone"]
                                ELSE Observed(seen, lost, fact)[a]]
    /\ pc' = [pc EXCEPT ![p] = "rules"]
    /\ UNCHANGED <<page, saveVars, ruleVars>>

\* reconcile with an alias merge: dup's identities move to canonical, and so
\* does every reference a page holds, in the same transaction.
ReconcileMerge(p, canonical, dup) ==
    /\ pc[p] = "idle" /\ Count
    /\ {canonical, dup} \subseteq Live /\ canonical # dup
    /\ \E f \in Facts :
         app' = [app EXCEPT ![canonical] = [st |-> "live", present |-> TRUE,
                                            hidden |-> @.hidden \/ app[dup].hidden,
                                            edited |-> @.edited \/ app[dup].edited, fact |-> f],
                            ![dup] = [NoApp EXCEPT !.st = "gone"]]
    /\ page' = RewriteAll(page, {canonical, dup}, canonical)
    /\ pc' = [pc EXCEPT ![p] = "rules"]
    /\ UNCHANGED <<saveVars, ruleVars>>

DeleteApp(a) ==
    /\ a \in Live /\ Count
    /\ app' = [app EXCEPT ![a] = [NoApp EXCEPT !.st = "gone"]]
    /\ page' = RewriteAll(page, {a}, None)
    /\ UNCHANGED <<pc, saveVars, ruleVars>>
-----------------------------------------------------------------------------
(***************************************************************************)
(* refreshDashboardRules: after a save, an edit, a scan, and every cycle   *)
(* of the scheduler.                                                       *)
(***************************************************************************)
EndRules(p) == /\ snapPages' = [snapPages EXCEPT ![p] = NoSnap]
               /\ snapApps' = [snapApps EXCEPT ![p] = NoApps]
               /\ todo' = [todo EXCEPT ![p] = {}]

\* The pages that have a rule (ActiveWithoutError: that have not failed yet).
ActiveWithoutError == {g \in LivePages : page[g].rule # NoRule /\ page[g].err = "none"}
Active == {g \in LivePages : page[g].rule # NoRule}

ApplyRulesReadPages(p) ==
    /\ pc[p] = "rules" \/ (p = Sched /\ pc[p] = "idle")
    /\ IF Active # {}
       THEN /\ snapPages' = [snapPages EXCEPT ![p] = page]
            /\ todo' = [todo EXCEPT ![p] = Active]
            /\ pc' = [pc EXCEPT ![p] = "apps"]
            /\ UNCHANGED snapApps
       ELSE pc' = [pc EXCEPT ![p] = "idle"] /\ EndRules(p)
    /\ UNCHANGED <<shared, saveVars, ops>>

\* apps() has two queries and no transaction.  The first reads which apps there
\* are and what the owner set, the second what providers and probes report.
ApplyRulesReadApps(p) ==
    /\ pc[p] = "apps"
    /\ snapApps' = [snapApps EXCEPT ![p] = app]
    /\ pc' = [pc EXCEPT ![p] = "facts"]
    /\ UNCHANGED <<shared, saveVars, snapPages, todo, ops>>

\* What a rule sees of an app whose record was old at the first query and is new
\* at the second: the owner's edits of one moment over the reports of another.
SeenFacts(old, new) ==
    IF old = new \/ (~old.edited /\ ~new.edited) THEN {new.fact} ELSE Facts

ReportedNow == {a \in Live : app[a].present}

ApplyRulesReadFacts(p) ==
    /\ pc[p] = "facts"
    /\ \E fact \in [Apps -> Facts] :
         /\ \A a \in Apps : fact[a] \in IF a \in ReportedNow THEN SeenFacts(snapApps[p][a], app[a])
                                         ELSE {snapApps[p][a].fact}
         /\ snapApps' = [snapApps EXCEPT ![p] = [a \in Apps |->
                IF @[a].st # "live" THEN @[a]
                ELSE [@[a] EXCEPT !.present = a \in ReportedNow, !.fact = fact[a]]]]
    /\ pc' = [pc EXCEPT ![p] = "append"]
    /\ UNCHANGED <<shared, saveVars, snapPages, todo, ops>>

\* WriteAnyway is the update without its check of the revision.
\* UPDATE dashboards ... WHERE id=g AND revision=(the one that was read).
Unchanged(p, g) == page[g].st = "live" /\ page[g].rev = snapPages[p][g].rev

WriteAnyway(p, g, d) == page' = [page EXCEPT ![g] = d]
WriteIfUnchanged(p, g, d) ==
    page' = IF Unchanged(p, g) THEN [page EXCEPT ![g] = d] ELSE page

\* Apps the rule of g adds, as the snapshots have it, and those that still exist.
Candidates(p, g) ==
    LET d == snapPages[p][g]
    IN  Matches(d.rule, snapApps[p]) \ (Listed(d) \cup d.excluded)
Added(p, g) == Candidates(p, g) \cap Live

\* The card of an added app goes to the rule's section; those of low lie low there.
WithAdded(d, added, low) ==
    [d EXCEPT !.items = [a \in Apps |-> IF a \in added THEN d.items[a] + 1 ELSE d.items[a]],
              !.tile = [a \in Apps |-> IF a \in added THEN d.autoSection ELSE d.tile[a]],
              !.low = @ \cup low,
              !.rev = @ + 1, !.err = "none"]

NextPage(p, g) ==
    IF todo[p] = {g} THEN pc' = [pc EXCEPT ![p] = "idle"] /\ EndRules(p)
    ELSE todo' = [todo EXCEPT ![p] = @ \ {g}] /\ UNCHANGED <<pc, snapPages, snapApps>>

\* The evaluation fails: on an app, or because the request's context ended.
RuleEvaluationFails(p, g) ==
    /\ pc[p] = "append" /\ g \in todo[p]
    /\ p # Sched \/ RuleFails(snapPages[p][g].rule, snapApps[p])
    /\ WriteIfUnchanged(p, g, [page[g] EXCEPT !.err = "eval"])
    /\ NextPage(p, g)
    /\ UNCHANGED <<app, saveVars, ops>>

\* A candidate is met when the page is full.  Candidates come in the registry's
\* order; one that is gone by now may come before or after the last one added.
HitsLimit(p, g) ==
    /\ pc[p] = "append" /\ g \in todo[p]
    /\ ~RuleFails(snapPages[p][g].rule, snapApps[p])
    /\ LET n == Cardinality(Listed(snapPages[p][g])) + Cardinality(Added(p, g))
       IN  n > MaxItems \/ (n = MaxItems /\ Candidates(p, g) # Added(p, g))
    /\ WriteIfUnchanged(p, g, [page[g] EXCEPT !.err = "limit"])
    /\ NextPage(p, g)
    /\ UNCHANGED <<app, saveVars, ops>>

AppendRuleMatches(p, g) ==
    LET d == snapPages[p][g]
    IN  /\ pc[p] = "append" /\ g \in todo[p]
        /\ ~RuleFails(d.rule, snapApps[p])
        /\ \/ Candidates(p, g) = {}
           \/ Cardinality(Listed(d)) + Cardinality(Added(p, g)) < MaxItems
           \/ /\ Cardinality(Listed(d)) + Cardinality(Added(p, g)) = MaxItems
              /\ Added(p, g) # {}
        /\ \E low \in {{}, Added(p, g)} :
             WriteIfUnchanged(p, g, IF Added(p, g) = {} THEN [page[g] EXCEPT !.err = "none"]
                                    ELSE WithAdded(d, Added(p, g), low))
        /\ NextPage(p, g)
        /\ UNCHANGED <<app, saveVars, ops>>

\* A card was appended beyond the last row: normalizeLayout refuses the page, so
\* none is added, and only the error is stored.
HitsRowLimit(p, g) ==
    LET d == snapPages[p][g]
    IN  /\ pc[p] = "append" /\ g \in todo[p]
        /\ ~RuleFails(d.rule, snapApps[p])
        /\ Added(p, g) # {} /\ Cardinality(Listed(d)) + Cardinality(Added(p, g)) <= MaxItems
        /\ NearRowLimit(d, d.autoSection)
        /\ WriteIfUnchanged(p, g, [page[g] EXCEPT !.err = "rows"])
        /\ NextPage(p, g)
        /\ UNCHANGED <<app, saveVars, ops>>
-----------------------------------------------------------------------------
RulesStep(p) ==
    \/ ApplyRulesReadPages(p) \/ ApplyRulesReadApps(p) \/ ApplyRulesReadFacts(p)
    \/ \E g \in Pages : \/ RuleEvaluationFails(p, g) \/ AppendRuleMatches(p, g)
                      \/ HitsLimit(p, g) \/ HitsRowLimit(p, g)

SaveStep(p) ==
    \/ \E g \in Pages : LoadDashboard(p, g) \/ \E r \in Requests : SaveDashboardRead(p, g, r)
    \/ SaveDashboardValidate(p) \/ SaveDashboardCommit(p)

RegistryStep(p) ==
    \/ Reconcile(p)
    \/ \E a \in Apps : UpdateApp(p, a) \/ RefreshApp(p, a)
    \/ \E a, b \in Apps : ReconcileMerge(p, a, b)

Next ==
    \/ \E p \in Handlers : SaveStep(p) \/ RegistryStep(p)
    \/ \E p \in Procs : RulesStep(p)
    \/ \E a \in Apps : DeleteApp(a)
    \/ \E g \in Pages : DeleteDashboard(g)

Spec == Init /\ [][Next]_vars

(***************************************************************************)
(* The scheduler goroutine keeps running, and a handler or scan that was   *)
(* started runs to its end; nobody has to start one.                       *)
(***************************************************************************)
Fairness == /\ WF_vars(RulesStep(Sched))
            /\ \A p \in Handlers : /\ WF_vars(RulesStep(p))
                                  /\ WF_vars(SaveDashboardValidate(p) \/ SaveDashboardCommit(p))
FairSpec == Spec /\ Fairness
-----------------------------------------------------------------------------
TypeOK ==
    /\ app \in [Apps -> AppRecs]
    /\ page \in [Pages -> PageRecs]
    /\ pc \in [Procs -> {"idle", "editing", "validate", "commit", "rules", "apps", "facts", "append"}]
    /\ target \in [Procs -> Pages \cup {None}]
    /\ view \in [Procs -> PageRecs]
    /\ prev \in [Procs -> PageRecs]
    /\ draft \in [Procs -> PageRecs]
    /\ snapPages \in [Procs -> [Pages -> PageRecs]]
    /\ snapApps \in [Procs -> [Apps -> AppRecs]]
    /\ todo \in [Procs -> SUBSET Pages]
    /\ ops \in 0..MaxOps

(* A page lists no app that was deleted, pruned or merged away, although a *)
(* save or a rule may have chosen its apps long before it writes them      *)
(* (saveDashboard's existingItems, appendRuleMatches' exists).             *)
ItemsExist == \A g \in LivePages : Listed(page[g]) \subseteq Live

(* Every stored page can be read back: decodeDashboard normalises it, and  *)
(* one page on which that fails makes dashboards() fail for all of them.   *)
(* An app listed twice, a tile in a section that a save removed, or a rule *)
(* destination that is gone would do it.                                   *)
PagesReadable == \A g \in LivePages : /\ CanNormalize(page[g])
                                      /\ Tiled(page[g]) = Listed(page[g])

Contents(d) == <<d.items, d.excluded, d.sections, d.first, d.tile, d.low, d.rule, d.autoSection>>

Saved(p, g) == pc[p] = "commit" /\ pc'[p] = "rules" /\ target[p] = g
RuleApplied(p) == pc[p] = "append" /\ todo'[p] # todo[p]
NewlyListed(g) == Listed(page'[g]) \ Listed(page[g])

(* "Revision checks prevent background auto-adds from being lost to stale  *)
(* layout saves" (README): a save that carries the revision its editor     *)
(* loaded replaces exactly what that editor showed.                        *)
StaleSavesRejected ==
    [][\A p \in Handlers, g \in Pages :
         Saved(p, g) /\ view[p].st = "live" => Contents(view[p]) = Contents(page[g])]_vars

(* With a rule set, whatever a save takes off a page is excluded from then *)
(* on, also what was added after the client last looked.                   *)
RemovalsExcluded ==
    [][\A p \in Handlers, g \in Pages :
         Saved(p, g) /\ page'[g].rule # NoRule
            => Listed(page[g]) \ Listed(page'[g]) \subseteq page'[g].excluded]_vars

(* A rule never puts back an app the page excludes at that moment, however *)
(* old the snapshot it was evaluated on.                                   *)
ExclusionsHonoured ==
    [][\A p \in Procs, g \in Pages :
         RuleApplied(p) => NewlyListed(g) \cap page[g].excluded = {}]_vars

(* "Rules are add-only" and "existing tile positions and sizes are         *)
(* preserved" (auto-add guide): applying a rule leaves cards, sections,    *)
(* exclusions and the rule of every page as they are at that moment.       *)
RulesOnlyAdd ==
    [][\A p \in Procs, g \in Pages : RuleApplied(p) =>
         LET d == page[g]  e == page'[g]
         IN  /\ Listed(d) \subseteq Listed(e)
             /\ \A a \in Listed(d) : e.tile[a] = d.tile[a]
             /\ <<e.st, e.excluded, e.sections, e.first, e.rule, e.autoSection>>
                  = <<d.st, d.excluded, d.sections, d.first, d.rule, d.autoSection>>]_vars

\* The pages and the registry as module AtomicPages has them.
Shown(d) == [st |-> d.st, cards |-> [a \in Listed(d) |-> d.tile[a]], excluded |-> d.excluded,
             sections |-> d.sections, dest |-> d.autoSection, rule |-> d.rule, rev |-> d.rev]
Gone == {a \in Apps : app[a].st = "gone"}
ShownPages == [g \in Pages |-> Shown(page[g])]

Atomic == INSTANCE AtomicPages WITH live <- Live, gone <- Gone, pages <- ShownPages

(* Saves, rules, scans, merges and deletions that overlap act as if each   *)
(* were one step on the pages as they are at that moment: nothing stored   *)
(* in the meantime is lost, put back, or left on one page and not another. *)
ChangesAreAtomic == Atomic!Spec

(* An app waits for a page: its rule matches, it is not excluded, no app   *)
(* makes the rule fail, and the page has room for all that match, in its   *)
(* list and below the cards of the rule's section.                         *)
Waiting(g, a) ==
    LET d == page[g]
        new == Matches(d.rule, app) \ (Listed(d) \cup d.excluded)
    IN  /\ d.st = "live" /\ d.rule # NoRule
        /\ ~RuleFails(d.rule, app)
        /\ a \in new
        /\ Cardinality(Listed(d)) + Cardinality(new) <= MaxItems
        /\ ~NearRowLimit(d, d.autoSection)

(* No matching app waits for ever: a refresh that loses against a          *)
(* concurrent write is dropped without a retry, and one that fails, or is  *)
(* refused at the limit of apps or of rows, leaves only its error on the   *)
(* page; the scheduler's next cycle makes up for it, once there is room.   *)
(* While the rule's section has a card near the last row every cycle may   *)
(* end in a refusal, and the apps do wait.                                 *)
MatchesGetPlaced == \A g \in Pages, a \in Apps : []<>(~Waiting(g, a))

(* "Only present, non-hidden apps can be automatically added" (auto-add    *)
(* guide), read at the moment the app is added.                            *)
AddsPresentVisible ==
    [][\A p \in Procs, g \in Pages : RuleApplied(p) =>
         \A a \in NewlyListed(g) : app[a].present /\ ~app[a].hidden]_vars
=============================================================================
