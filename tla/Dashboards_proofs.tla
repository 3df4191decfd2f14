------------------------- MODULE Dashboards_proofs -------------------------
(***************************************************************************)
(* What holds of Dashboards for every set of apps, pages, handlers,        *)
(* requests and rules: the types, that pages list existing apps and can be *)
(* read back, and that no save or rule overwrites what it has not seen.    *)
(***************************************************************************)
EXTENDS Dashboards, FiniteSetTheorems, TLAPS

(***************************************************************************)
(* A row h read from a page earlier, the page's row being d now: as long   *)
(* as the page has h's revision it has h's contents, and revisions only    *)
(* grow.  This is what makes the revision check of a later write mean      *)
(* anything.                                                               *)
(***************************************************************************)
Current(h, d) ==
    /\ h.st # "gone"
    /\ h.st = d.st /\ h.rev = d.rev => Contents(h) = Contents(d)
    /\ h.st = "live" => d.st # "none"
    /\ h.st = "live" /\ d.st = "live" => h.rev <= d.rev

\* What a step may do to a row: nothing; write it, with a higher revision or
\* without touching its contents; insert it; delete it.
RowStep(d, e) ==
    \/ e = d
    \/ d.st = "live" /\ e.st = "live" /\ e.rev > d.rev
    \/ d.st = "live" /\ e.st = "live" /\ e.rev = d.rev /\ Contents(e) = Contents(d)
    \/ d.st = "none" /\ e.st = "live"
    \/ d.st = "live" /\ e.st = "gone"

\* No listed app is excluded.
Apart(d) == Listed(d) \cap d.excluded = {}

Readable(d) == CanNormalize(d) /\ Tiled(d) = Listed(d) /\ d.first \in d.sections

SharedOK ==
    /\ app \in [Apps -> AppRecs]
    /\ page \in [Pages -> PageRecs]
    /\ ItemsExist
    /\ \A g \in Pages : /\ page[g].st = "live" => Readable(page[g])
                        /\ page[g].st = "none" => page[g].first \in page[g].sections

LocalTypes ==
    /\ pc \in [Procs -> {"idle", "editing", "validate", "commit", "rules", "apps", "facts", "append"}]
    /\ target \in [Procs -> Pages \cup {None}]
    /\ view \in [Procs -> PageRecs]
    /\ prev \in [Procs -> PageRecs]
    /\ draft \in [Procs -> PageRecs]
    /\ snapPages \in [Procs -> [Pages -> PageRecs]]
    /\ snapApps \in [Procs -> [Apps -> AppRecs]]
    /\ todo \in [Procs -> SUBSET Pages]
    /\ ops \in 0..MaxOps

Saving(p) == pc[p] \in {"validate", "commit"}

\* What a save holds between its statements.
SaveOK(p) ==
    /\ Saving(p) \/ pc[p] = "editing" => target[p] \in Pages
    /\ ~Saving(p) /\ pc[p] # "editing" => view[p].st = "none"
    /\ view[p].st = "live" => Current(view[p], page[target[p]]) /\ Readable(view[p])
    /\ pc[p] = "editing" => view[p].st = "live"
    /\ Saving(p) => /\ Current(prev[p], page[target[p]])
                    /\ view[p].st = "live" => /\ prev[p].st = "live"
                                              /\ view[p].rev = prev[p].rev
                    /\ draft[p].rev = prev[p].rev
                    /\ Readable(draft[p])
                    /\ draft[p].rule # NoRule
                         => Listed(prev[p]) \ Listed(draft[p]) \subseteq draft[p].excluded
                    /\ Cardinality(Listed(draft[p])) <= MaxItems
                    /\ Apart(draft[p])

\* What a refresh holds between its statements.
RulesOK(p) ==
    \A g \in Pages : /\ snapPages[p][g].st = "live" => /\ Current(snapPages[p][g], page[g])
                                                       /\ Readable(snapPages[p][g])
                     /\ g \in todo[p] => /\ snapPages[p][g].st = "live"
                                         /\ snapPages[p][g].rule # NoRule

LocalsOK == LocalTypes /\ \A p \in Procs : SaveOK(p) /\ RulesOK(p)

IInv == SharedOK /\ LocalsOK
-----------------------------------------------------------------------------
(***************************************************************************)
(* Types of the operators that build rows.                                 *)
(***************************************************************************)
\* The constants the initial values are chosen from exist.
LEMMA DefaultsType == NoPage \in PageRecs /\ NoApp \in AppRecs
  BY NamesAssumption DEF NoPage, NoApp, PageRecs, AppRecs, ASection

\* normalizeLayout yields a page with the same list.
LEMMA NormalizedType ==
  ASSUME NEW d \in PageRecs, NEW low \in SUBSET Apps
  PROVE  /\ Normalized(d, low) \in PageRecs
         /\ Normalized(d, low).items = d.items /\ Normalized(d, low).excluded = d.excluded
         /\ Normalized(d, low).rule = d.rule /\ Normalized(d, low).rev = d.rev
         /\ Normalized(d, low).st = d.st
  BY DEF Normalized, PageRecs, Listed

\* normalizeLayout yields a page that can be read back, if it does not fail.
LEMMA NormalizedReadable ==
  ASSUME NEW d \in PageRecs, NEW low \in SUBSET Apps, CanNormalize(d), d.first \in d.sections
  PROVE  Readable(Normalized(d, low))
  BY NamesAssumption DEF Normalized, PageRecs, Listed, Tiled, CanNormalize, Readable

\* A rewritten row is a row.
LEMMA RewrittenType ==
  ASSUME NEW d \in PageRecs, NEW ids \in SUBSET Apps, NEW canonical \in Apps \cup {None}
  PROVE  Rewritten(d, ids, canonical) \in PageRecs
  <1>1. KeptTile(d, ids, canonical) \in Sections \cup {None}
    BY NamesAssumption DEF KeptTile, Keeper, Tiled, PageRecs
  <1>2. (d.excluded \ ids) \cup (IF ids \cap d.excluded = {} THEN {} ELSE {canonical} \ {None})
          \in SUBSET Apps
    BY DEF PageRecs
  <1>3. [a \in Apps |-> IF a = canonical THEN (IF ids \cap Listed(d) = {} THEN 0 ELSE 1)
                        ELSE IF a \in ids THEN 0 ELSE d.items[a]] \in [Apps -> Nat]
    BY DEF PageRecs
  <1>4. [a \in Apps |-> IF a = canonical THEN KeptTile(d, ids, canonical)
                        ELSE IF a \in ids THEN None ELSE d.tile[a]]
          \in [Apps -> Sections \cup {None}]
    BY <1>1 DEF PageRecs
  <1>5. /\ d.rev + 1 \in Nat
        /\ (d.low \ ids) \cup
             (IF Keeper(d, ids, canonical) \in d.low THEN {canonical} \ {None} ELSE {})
               \in SUBSET Apps
    BY DEF PageRecs
  <1>6. ASSUME NEW i \in [Apps -> Nat], NEW x \in SUBSET Apps,
               NEW t \in [Apps -> Sections \cup {None}], NEW l \in SUBSET Apps, NEW r \in Nat
        PROVE  [d EXCEPT !.items = i, !.excluded = x, !.tile = t, !.low = l, !.rev = r]
                 \in PageRecs
    BY DEF PageRecs
  <1> QED
    BY <1>2, <1>3, <1>4, <1>5, <1>6 DEF Rewritten

\* A row with added cards is a row.
LEMMA WithAddedType ==
  ASSUME NEW d \in PageRecs, NEW added \in SUBSET Apps, NEW low \in SUBSET Apps
  PROVE  WithAdded(d, added, low) \in PageRecs
  <1>1. [a \in Apps |-> IF a \in added THEN d.items[a] + 1 ELSE d.items[a]] \in [Apps -> Nat]
    BY DEF PageRecs
  <1>2. [a \in Apps |-> IF a \in added THEN d.autoSection ELSE d.tile[a]]
          \in [Apps -> Sections \cup {None}]
    BY DEF PageRecs
  <1>3. d.rev + 1 \in Nat /\ d.low \cup low \in SUBSET Apps
    BY DEF PageRecs
  <1>4. ASSUME NEW i \in [Apps -> Nat], NEW t \in [Apps -> Sections \cup {None}],
               NEW l \in SUBSET Apps, NEW r \in Nat
        PROVE  [d EXCEPT !.items = i, !.tile = t, !.low = l, !.rev = r, !.err = "none"]
                 \in PageRecs
    BY DEF PageRecs
  <1> QED
    BY <1>1, <1>2, <1>3, <1>4 DEF WithAdded

\* The page a request asks for is a row; a removed app is excluded while a
\* rule is set, a listed one is not; and its first section is one it has.
LEMMA RequestedType ==
  ASSUME NEW base \in PageRecs, NEW old \in PageRecs, NEW r \in Requests,
         base.first \in base.sections
  PROVE  LET d == Requested(base, old, r)
         IN  /\ d \in PageRecs /\ d.rev = old.rev /\ d.st = old.st
             /\ d.first \in d.sections
             /\ d.rule # NoRule => Listed(old) \ Listed(d) \subseteq d.excluded
             /\ Apart(d)
  <1> DEFINE i == IF r.items = Keep THEN base.items ELSE r.items
             x == IF r.excluded = Keep THEN base.excluded ELSE r.excluded
             s == IF r.layout = Keep THEN base.sections ELSE r.layout.sections
             f == IF r.layout = Keep THEN base.first ELSE r.layout.first
             t == IF r.layout = Keep THEN base.tile ELSE r.layout.tile
             l == IF r.layout = Keep THEN base.low ELSE r.layout.low
             u == IF r.rule = Keep THEN base.rule ELSE r.rule
             o == IF r.autoSection = Keep THEN base.autoSection ELSE r.autoSection
             d == [old EXCEPT !.items = i, !.excluded = x, !.sections = s, !.first = f,
                              !.tile = t, !.low = l, !.rule = u, !.autoSection = o]
             removed == IF d.rule = NoRule THEN {} ELSE Listed(old) \ Listed(d)
  <1>1. r \in RequestRecs
    BY RequestsAssumption
  <1>2. /\ i \in [Apps -> Nat] /\ x \in SUBSET Apps /\ s \in SUBSET Sections /\ f \in Sections
        /\ t \in [Apps -> Sections \cup {None}] /\ l \in SUBSET Apps
        /\ u \in Rules \cup {NoRule} /\ o \in Sections /\ f \in s
    <2>0. /\ r.items \in [Apps -> Nat] \cup {Keep} /\ r.excluded \in (SUBSET Apps) \cup {Keep}
          /\ base.items \in [Apps -> Nat] /\ base.excluded \in SUBSET Apps
      BY <1>1 DEF RequestRecs, PageRecs
    <2>1. i \in [Apps -> Nat] /\ x \in SUBSET Apps
      BY <2>0
    <2>2. /\ s \in SUBSET Sections /\ f \in Sections
          /\ t \in [Apps -> Sections \cup {None}] /\ l \in SUBSET Apps /\ f \in s
      BY <1>1, RequestsAssumption DEF RequestRecs, PageRecs
    <2>3. u \in Rules \cup {NoRule} /\ o \in Sections
      BY <1>1 DEF RequestRecs, PageRecs
    <2> QED
      BY <2>1, <2>2, <2>3
  <1>3. Requested(base, old, r) = [d EXCEPT !.excluded = (@ \cup removed) \ Listed(d)]
    BY DEF Requested
  <1> HIDE DEF i, x, s, f, t, l, u, o
  <1>4. /\ d \in PageRecs /\ d.rev = old.rev /\ d.st = old.st /\ d.first = f /\ d.sections = s
        /\ d.excluded = x /\ d.rule = u
    BY <1>2 DEF PageRecs
  <1> HIDE DEF d
  <1>5. removed \in SUBSET Apps /\ Listed(old) \in SUBSET Apps /\ Listed(d) \in SUBSET Apps
    BY DEF Listed
  <1>6. /\ (d.excluded \cup removed) \ Listed(d) \in SUBSET Apps
        /\ removed \subseteq (d.excluded \cup removed) \ Listed(d)
        /\ Listed(d) \cap ((d.excluded \cup removed) \ Listed(d)) = {}
    BY <1>2, <1>4, <1>5
  <1>7. ASSUME NEW y \in SUBSET Apps
        PROVE  /\ [d EXCEPT !.excluded = y] \in PageRecs
               /\ [d EXCEPT !.excluded = y].rev = d.rev
               /\ [d EXCEPT !.excluded = y].st = d.st
               /\ [d EXCEPT !.excluded = y].first = d.first
               /\ [d EXCEPT !.excluded = y].sections = d.sections
               /\ [d EXCEPT !.excluded = y].rule = d.rule
               /\ [d EXCEPT !.excluded = y].excluded = y
               /\ Listed([d EXCEPT !.excluded = y]) = Listed(d)
    BY <1>4 DEF PageRecs, Listed
  <1> QED
    BY <1>2, <1>3, <1>4, <1>6, <1>7 DEF Apart
-----------------------------------------------------------------------------
(***************************************************************************)
(* What the row operators do to a row.                                     *)
(***************************************************************************)
\* What was read stays current under every step a row may take.
LEMMA CurrentKept ==
  ASSUME NEW h \in PageRecs, NEW d \in PageRecs, NEW e \in PageRecs,
         Current(h, d), RowStep(d, e)
  PROVE  Current(h, e)
  <1>1. h.rev \in Nat /\ d.rev \in Nat /\ e.rev \in Nat
    BY DEF PageRecs
  <1> QED
    BY <1>1 DEF Current, RowStep

\* A rewritten row lists no app of ids but canonical, and only what it listed
\* else; it stays readable, and its revision covers the change.
LEMMA RewrittenRow ==
  ASSUME NEW d \in PageRecs, d.st = "live", Readable(d),
         NEW ids \in SUBSET Apps, NEW canonical \in ids \cup {None}
  PROVE  /\ Listed(Rewritten(d, ids, canonical)) \subseteq (Listed(d) \ ids) \cup ({canonical} \ {None})
         /\ Rewritten(d, ids, canonical).st = "live"
         /\ Readable(Rewritten(d, ids, canonical))
         /\ RowStep(d, Rewritten(d, ids, canonical))
  <1> DEFINE e == Rewritten(d, ids, canonical)
  <1>1. CASE ~Mentions(d, ids)
    <2>1. e = d
      BY <1>1 DEF Rewritten
    <2>2. Listed(d) \cap ids = {}
      BY <1>1 DEF Mentions
    <2> QED
      BY <2>1, <2>2 DEF RowStep, Listed
  <1>2. CASE Mentions(d, ids)
    <2>1. /\ e.st = d.st /\ e.rev = d.rev + 1 /\ e.sections = d.sections /\ e.first = d.first
          /\ e.autoSection = d.autoSection
          /\ \A a \in Apps :
               /\ e.items[a] = IF a = canonical THEN (IF ids \cap Listed(d) = {} THEN 0 ELSE 1)
                               ELSE IF a \in ids THEN 0 ELSE d.items[a]
               /\ e.tile[a] = IF a = canonical THEN KeptTile(d, ids, canonical)
                              ELSE IF a \in ids THEN None ELSE d.tile[a]
      BY <1>2 DEF Rewritten, PageRecs
    <2> HIDE DEF e
    <2>2. /\ KeptTile(d, ids, canonical) = None <=> ids \cap Listed(d) = {}
          /\ KeptTile(d, ids, canonical) \in d.sections \cup {None}
      <3>1. Tiled(d) = Listed(d) /\ \A a \in Tiled(d) : d.tile[a] \in d.sections /\ d.tile[a] # None
        BY DEF Readable, CanNormalize, Tiled
      <3>2. canonical \in Tiled(d) => canonical \in ids
        BY NamesAssumption DEF Tiled
      <3>3. ids \cap Tiled(d) # {} => (CHOOSE a \in ids \cap Tiled(d) : TRUE) \in ids \cap Tiled(d)
        OBVIOUS
      <3> QED
        BY <3>1, <3>2, <3>3 DEF KeptTile, Keeper
    <2>3. /\ \A a \in Apps : a \in Listed(e) <=> e.items[a] > 0
          /\ \A a \in Apps : a \in Listed(d) <=> d.items[a] > 0
          /\ \A a \in Apps : a \in Tiled(e) <=> e.tile[a] # None
          /\ \A a \in Apps : a \in Tiled(d) <=> d.tile[a] # None
          /\ Listed(e) \subseteq Apps /\ Tiled(e) \subseteq Apps
          /\ Listed(d) \subseteq Apps /\ Tiled(d) \subseteq Apps
      BY DEF Listed, Tiled
    <2>4. \A a \in Listed(d) : d.items[a] = 1 /\ d.tile[a] \in d.sections \cup {None}
      BY DEF Readable, CanNormalize
    <2>5. Listed(e) \subseteq (Listed(d) \ ids) \cup ({canonical} \ {None})
      BY <2>1, <2>3, NamesAssumption
    <2>6. \A a \in Listed(e) : e.items[a] = 1 /\ e.tile[a] \in e.sections \cup {None}
      BY <2>1, <2>2, <2>3, <2>4
    <2>7. Tiled(e) = Listed(e)
      <3>1. Tiled(d) = Listed(d)
        BY DEF Readable
      <3> QED
        BY <2>1, <2>2, <2>3, <3>1
    <2>8. Readable(e)
      BY <2>1, <2>6, <2>7 DEF Readable, CanNormalize
    <2>9. RowStep(d, e)
      BY <2>1 DEF RowStep, PageRecs
    <2> QED
      BY <2>1, <2>5, <2>8, <2>9 DEF e
  <1> QED
    BY <1>1, <1>2

\* Adding unlisted apps to a readable row lists just these besides, keeps the
\* row readable, and raises its revision.
LEMMA WithAddedRow ==
  ASSUME NEW d \in PageRecs, d.st = "live", Readable(d),
         NEW added \in SUBSET Apps, NEW low \in SUBSET Apps, added \cap Listed(d) = {}
  PROVE  LET e == WithAdded(d, added, low)
         IN  /\ Listed(e) = Listed(d) \cup added
             /\ e.st = "live" /\ Readable(e) /\ RowStep(d, e)
             /\ \A a \in Listed(d) : e.tile[a] = d.tile[a]
             /\ <<e.st, e.excluded, e.sections, e.first, e.rule, e.autoSection>>
                  = <<d.st, d.excluded, d.sections, d.first, d.rule, d.autoSection>>
  <1> DEFINE e == WithAdded(d, added, low)
  <1>1. /\ e.st = d.st /\ e.rev = d.rev + 1 /\ e.excluded = d.excluded /\ e.rule = d.rule
        /\ e.sections = d.sections /\ e.first = d.first /\ e.autoSection = d.autoSection
        /\ \A a \in Apps : /\ e.items[a] = IF a \in added THEN d.items[a] + 1 ELSE d.items[a]
                           /\ e.tile[a] = IF a \in added THEN d.autoSection ELSE d.tile[a]
    BY DEF WithAdded, PageRecs
  <1>2. d.rev \in Nat /\ \A a \in Apps : d.items[a] \in Nat
    BY DEF PageRecs
  <1>3. d.autoSection \in d.sections /\ d.autoSection # None
    BY NamesAssumption DEF Readable, CanNormalize, PageRecs
  <1> HIDE DEF e
  <1>4. Listed(e) = Listed(d) \cup added
    BY <1>1, <1>2 DEF Listed
  <1>5. Tiled(e) = Tiled(d) \cup added
    BY <1>1, <1>3 DEF Tiled
  <1>6. \A a \in Listed(e) : e.items[a] = 1 /\ e.tile[a] \in e.sections \cup {None}
    BY <1>1, <1>2, <1>3, <1>4 DEF Readable, CanNormalize, Listed
  <1>7. Readable(e)
    BY <1>1, <1>4, <1>5, <1>6 DEF Readable, CanNormalize
  <1>8. \A a \in Listed(d) : e.tile[a] = d.tile[a]
    BY <1>1 DEF Listed
  <1> QED
    BY <1>1, <1>2, <1>4, <1>7, <1>8 DEF e, RowStep
-----------------------------------------------------------------------------
(***************************************************************************)
(* What each write does to the registry and the pages.                     *)
(***************************************************************************)
PagesStep == \A g \in Pages : RowStep(page[g], page'[g])

\* A step that leaves registry and pages alone.
LEMMA SharedStutter ==
  ASSUME SharedOK, UNCHANGED shared
  PROVE  SharedOK' /\ PagesStep
  BY DEF shared, SharedOK, ItemsExist, LivePages, Live, PagesStep, RowStep

\* A step that writes one page, to a readable row that lists existing apps.
LEMMA OnePageWritten ==
  ASSUME SharedOK, UNCHANGED app, NEW g \in Pages, NEW e \in PageRecs,
         page' = [page EXCEPT ![g] = e],
         e.st # "none", RowStep(page[g], e),
         e.st = "live" => Readable(e) /\ Listed(e) \subseteq Live
  PROVE  SharedOK' /\ PagesStep
  <1>1. page' \in [Pages -> PageRecs] /\ app' \in [Apps -> AppRecs]
    BY DEF SharedOK
  <1>2. \A h \in Pages : page'[h] = IF h = g THEN e ELSE page[h]
    BY DEF SharedOK
  <1>3. PagesStep
    BY <1>2 DEF PagesStep, RowStep
  <1>4. ItemsExist'
    BY <1>2 DEF SharedOK, ItemsExist, LivePages, Live
  <1> QED
    BY <1>1, <1>2, <1>3, <1>4 DEF SharedOK

\* A step that changes the registry only and deletes no listed app.
LEMMA RegistryWritten ==
  ASSUME SharedOK, UNCHANGED page, app' \in [Apps -> AppRecs],
         \A g \in LivePages : \A a \in Listed(page[g]) : app'[a].st = "live"
  PROVE  SharedOK' /\ PagesStep
  <1>1. ItemsExist'
    BY DEF ItemsExist, LivePages, Live, Listed
  <1> QED
    BY <1>1 DEF SharedOK, PagesStep, RowStep

\* A step that takes apps out of the registry and rewrites every page.
LEMMA PagesRewritten ==
  ASSUME SharedOK, NEW ids \in SUBSET Apps, NEW canonical \in ids \cup {None},
         app' \in [Apps -> AppRecs],
         \A a \in Live \ ids : app'[a].st = "live",
         canonical # None => app'[canonical].st = "live",
         page' = RewriteAll(page, ids, canonical)
  PROVE  SharedOK' /\ PagesStep
  <1>1. \A g \in Pages : page'[g] = IF page[g].st = "live"
                                    THEN Rewritten(page[g], ids, canonical) ELSE page[g]
    BY DEF RewriteAll
  <1>2. \A g \in Pages : page'[g] \in PageRecs
    BY <1>1, RewrittenType DEF SharedOK
  <1>3. page' \in [Pages -> PageRecs]
    BY <1>2 DEF RewriteAll
  <1>4. ASSUME NEW g \in Pages, page[g].st = "live"
        PROVE  /\ Listed(page'[g]) \subseteq (Listed(page[g]) \ ids) \cup ({canonical} \ {None})
               /\ page'[g].st = "live" /\ Readable(page'[g]) /\ RowStep(page[g], page'[g])
    <2>1. page[g] \in PageRecs /\ Readable(page[g])
      BY <1>4 DEF SharedOK
    <2>2. page'[g] = Rewritten(page[g], ids, canonical)
      BY <1>1, <1>4
    <2> QED
      BY <1>4, <2>1, <2>2, RewrittenRow
  <1>5. PagesStep
    BY <1>1, <1>4 DEF PagesStep, RowStep
  <1>6. \A g \in Pages : page'[g].st = "live" => page[g].st = "live"
    BY <1>1
  <1>7. \A g \in Pages : page[g].st = "live" => Listed(page[g]) \subseteq Live
    BY DEF SharedOK, ItemsExist, LivePages
  <1>8. ASSUME NEW g \in Pages, page'[g].st = "live"
        PROVE  \A a \in Listed(page'[g]) : a \in Apps /\ app'[a].st = "live"
    BY <1>4, <1>6, <1>7, <1>8 DEF Listed, Live
  <1>9. ItemsExist'
    BY <1>8 DEF ItemsExist, LivePages, Live
  <1> QED
    BY <1>1, <1>3, <1>4, <1>5, <1>6, <1>9 DEF SharedOK

\* saveDashboard's transaction.
LEMMA CommitShared ==
  ASSUME IInv, NEW p \in Procs, SaveDashboardCommit(p)
  PROVE  SharedOK' /\ PagesStep
  <1>1. CASE ~Committable(p)
    BY <1>1, SharedStutter DEF SaveDashboardCommit, shared, IInv
  <1>2. CASE Committable(p)
    <2> DEFINE t == target[p]
               e == [draft[p] EXCEPT !.st = "live", !.rev = @ + 1, !.err = "none"]
    <2>1. pc[p] = "commit" /\ Saving(p)
      BY DEF SaveDashboardCommit, Saving
    <2>2. t \in Pages /\ draft[p] \in PageRecs /\ prev[p] \in PageRecs /\ page[t] \in PageRecs
      BY <2>1 DEF IInv, LocalsOK, SaveOK, LocalTypes, SharedOK
    <2>3. Readable(draft[p]) /\ draft[p].rev = prev[p].rev /\ Current(prev[p], page[t])
      BY <2>1 DEF IInv, LocalsOK, SaveOK
    <2>4. /\ e \in PageRecs /\ e.st = "live" /\ e.rev = draft[p].rev + 1
          /\ Listed(e) = Listed(draft[p]) /\ Readable(e)
      <3>1. draft[p].rev + 1 \in Nat
        BY <2>2 DEF PageRecs
      <3>2. ASSUME NEW d \in PageRecs, NEW r \in Nat, Readable(d)
            PROVE  LET f == [d EXCEPT !.st = "live", !.rev = r, !.err = "none"]
                   IN  /\ f \in PageRecs /\ f.st = "live" /\ f.rev = r
                       /\ Listed(f) = Listed(d) /\ Readable(f)
        BY <3>2 DEF PageRecs, Listed, Tiled, Readable, CanNormalize
      <3> QED
        BY <2>2, <2>3, <3>1, <3>2
    <2>5. RowStep(page[t], e)
      <3>1. page[t].st = prev[p].st /\ page[t].rev = prev[p].rev
        BY <1>2 DEF Committable
      <3>2. prev[p].st \in {"none", "live"} /\ prev[p].rev \in Nat
        BY <2>2, <2>3 DEF Current, PageRecs
      <3> QED
        BY <2>3, <2>4, <3>1, <3>2 DEF RowStep
    <2>6. Listed(e) \subseteq Live
      BY <1>2, <2>4 DEF Committable
    <2>7. page' = [page EXCEPT ![t] = e] /\ UNCHANGED app
      BY <1>2 DEF SaveDashboardCommit
    <2> HIDE DEF t, e
    <2> QED
      BY <2>2, <2>4, <2>5, <2>6, <2>7, OnePageWritten DEF IInv
  <1> QED
    BY <1>1, <1>2

\* One page's part of applyDashboardRules.
RuleWrite(p, g) == \/ RuleEvaluationFails(p, g) \/ AppendRuleMatches(p, g)
                   \/ HitsLimit(p, g) \/ HitsRowLimit(p, g)

\* It writes nothing, the page's error, or the row it read with the added cards,
\* which fit under the limit.
LEMMA RuleWriteCases ==
  ASSUME NEW p \in Procs, NEW g \in Pages, RuleWrite(p, g)
  PROVE  \/ UNCHANGED page
         \/ Unchanged(p, g) /\ \E x \in {"eval", "limit", "rows", "none"} :
                                  page' = [page EXCEPT ![g] = [page[g] EXCEPT !.err = x]]
         \/ /\ Unchanged(p, g) /\ Added(p, g) # {}
            /\ Cardinality(Listed(snapPages[p][g])) + Cardinality(Added(p, g)) <= MaxItems
            /\ \E low \in SUBSET Apps :
                 page' = [page EXCEPT ![g] = WithAdded(snapPages[p][g], Added(p, g), low)]
  <1> DEFINE d == snapPages[p][g]
             new == Added(p, g)
  <1>1. ASSUME ~Unchanged(p, g) PROVE UNCHANGED page
    BY <1>1 DEF RuleWrite, RuleEvaluationFails, HitsLimit, HitsRowLimit, AppendRuleMatches,
                WriteIfUnchanged
  <1>2. CASE RuleEvaluationFails(p, g) \/ HitsLimit(p, g) \/ HitsRowLimit(p, g)
    BY <1>1, <1>2 DEF RuleEvaluationFails, HitsLimit, HitsRowLimit, WriteIfUnchanged
  <1>3. CASE AppendRuleMatches(p, g)
    <2>1. PICK low \in {{}, new} :
            WriteIfUnchanged(p, g, IF new = {} THEN [page[g] EXCEPT !.err = "none"]
                                   ELSE WithAdded(d, new, low))
      BY <1>3 DEF AppendRuleMatches
    <2>2. low \in SUBSET Apps
      BY DEF Added, Live
    <2>3. ASSUME new # {} PROVE Cardinality(Listed(d)) + Cardinality(new) <= MaxItems
      <3>1. IsFiniteSet(Listed(d)) /\ IsFiniteSet(new)
        BY FiniteAssumption, FS_Subset DEF Listed, Added, Live
      <3>2. Cardinality(Listed(d)) \in Nat /\ Cardinality(new) \in Nat
        BY <3>1, FS_CardinalityType
      <3>3. \/ new = {}
            \/ Cardinality(Listed(d)) + Cardinality(new) < MaxItems
            \/ Cardinality(Listed(d)) + Cardinality(new) = MaxItems
        BY <1>3 DEF AppendRuleMatches, Added
      <3> QED
        BY <2>3, <3>2, <3>3, SizesAssumption
    <2> HIDE DEF new
    <2>4. CASE new = {}
      BY <1>1, <2>1, <2>4 DEF WriteIfUnchanged
    <2>5. CASE new # {}
      BY <1>1, <2>1, <2>2, <2>3, <2>5 DEF WriteIfUnchanged, new
    <2> QED
      BY <2>4, <2>5
  <1> QED
    BY <1>2, <1>3 DEF RuleWrite

\* One page's part of applyDashboardRules.
LEMMA RuleWriteShared ==
  ASSUME IInv, NEW p \in Procs, NEW g \in Pages,
         RuleWrite(p, g)
  PROVE  SharedOK' /\ PagesStep
  <1> DEFINE d == snapPages[p][g]
  <1>1. UNCHANGED app /\ g \in todo[p]
    BY DEF RuleWrite, RuleEvaluationFails, HitsLimit, HitsRowLimit, AppendRuleMatches
  <1>2. /\ page[g] \in PageRecs /\ d \in PageRecs /\ d.st = "live"
        /\ Current(d, page[g]) /\ Readable(d)
    BY <1>1 DEF IInv, LocalsOK, RulesOK, SharedOK, LocalTypes
  <1>3. CASE UNCHANGED page
    BY <1>1, <1>3, SharedStutter DEF shared, IInv
  <1>4. CASE Unchanged(p, g) /\ \E x \in {"eval", "limit", "rows", "none"} :
                                   page' = [page EXCEPT ![g] = [page[g] EXCEPT !.err = x]]
    <2>1. PICK x \in {"eval", "limit", "rows", "none"} :
                 page' = [page EXCEPT ![g] = [page[g] EXCEPT !.err = x]]
      BY <1>4
    <2> DEFINE e == [page[g] EXCEPT !.err = x]
    <2>2. page[g].st = "live" /\ Readable(page[g]) /\ Listed(page[g]) \subseteq Live
      BY <1>4 DEF Unchanged, IInv, SharedOK, ItemsExist, LivePages
    <2>3. /\ e \in PageRecs /\ e.st = "live" /\ e.rev = page[g].rev
          /\ Contents(e) = Contents(page[g]) /\ Listed(e) = Listed(page[g]) /\ Readable(e)
      BY <1>2, <2>2 DEF PageRecs, Contents, Listed, Tiled, Readable, CanNormalize
    <2>4. RowStep(page[g], e)
      BY <2>2, <2>3 DEF RowStep
    <2> HIDE DEF e
    <2> QED
      BY <1>1, <2>1, <2>2, <2>3, <2>4, OnePageWritten DEF e, IInv
  <1>5. CASE Unchanged(p, g) /\ \E low \in SUBSET Apps :
                                   page' = [page EXCEPT ![g] = WithAdded(d, Added(p, g), low)]
    <2>0. PICK low \in SUBSET Apps : page' = [page EXCEPT ![g] = WithAdded(d, Added(p, g), low)]
      BY <1>5
    <2> DEFINE e == WithAdded(d, Added(p, g), low)
    <2>1. page[g].st = "live" /\ page[g].rev = d.rev /\ Listed(page[g]) \subseteq Live
      BY <1>5 DEF Unchanged, IInv, SharedOK, ItemsExist, LivePages
    <2>2. Contents(d) = Contents(page[g])
      BY <1>2, <2>1 DEF Current
    <2>3. Added(p, g) \in SUBSET Apps /\ Added(p, g) \cap Listed(d) = {} /\ Added(p, g) \subseteq Live
      BY DEF Added, Candidates, Live
    <2>4. Listed(d) = Listed(page[g])
      BY <2>2 DEF Contents, Listed
    <2>5. /\ e \in PageRecs /\ e.st = "live" /\ Readable(e) /\ RowStep(d, e)
          /\ Listed(e) = Listed(d) \cup Added(p, g)
      BY <1>2, <2>3, WithAddedType, WithAddedRow
    <2>6. RowStep(page[g], e)
      <3>1. e.rev = d.rev + 1 /\ d.rev \in Nat
        BY <1>2 DEF WithAdded, PageRecs
      <3> QED
        BY <2>1, <2>5, <3>1 DEF RowStep
    <2>7. Listed(e) \subseteq Live
      BY <2>1, <2>3, <2>4, <2>5
    <2> HIDE DEF e
    <2> QED
      BY <1>1, <2>0, <2>5, <2>6, <2>7, OnePageWritten DEF e, IInv
  <1> QED
    BY <1>3, <1>4, <1>5, RuleWriteCases

\* deleteDashboard.
LEMMA DeleteDashboardShared ==
  ASSUME SharedOK, NEW g \in Pages, DeleteDashboard(g)
  PROVE  SharedOK' /\ PagesStep
  <1> DEFINE e == [NoPage EXCEPT !.st = "gone"]
  <1>1. e \in PageRecs /\ e.st = "gone"
    BY DefaultsType DEF PageRecs
  <1>2. page[g].st = "live" /\ page' = [page EXCEPT ![g] = e] /\ UNCHANGED app
    BY DEF DeleteDashboard
  <1>3. RowStep(page[g], e)
    BY <1>1, <1>2 DEF RowStep
  <1> HIDE DEF e
  <1> QED
    BY <1>1, <1>2, <1>3, OnePageWritten

\* updateApp and refreshApp.
LEMMA EditShared ==
  ASSUME SharedOK, NEW p \in Procs, NEW a \in Apps, UpdateApp(p, a) \/ RefreshApp(p, a)
  PROVE  SharedOK' /\ PagesStep
  <1>1. PICK h \in BOOLEAN, f \in Facts, x \in BOOLEAN :
           app' = [app EXCEPT ![a] = [app[a] EXCEPT !.hidden = h, !.edited = x, !.fact = f]]
    <2>1. app[a] \in AppRecs /\ app[a].hidden \in BOOLEAN /\ app[a].edited \in BOOLEAN
      BY DEF SharedOK, AppRecs
    <2>2. CASE UpdateApp(p, a)
      <3>1. PICK h \in BOOLEAN, f \in Facts :
               app' = [app EXCEPT ![a].hidden = h, ![a].edited = TRUE, ![a].fact = f]
        BY <2>2 DEF UpdateApp
      <3>2. app' = [app EXCEPT ![a] = [app[a] EXCEPT !.hidden = h, !.edited = TRUE, !.fact = f]]
        BY <2>1, <3>1 DEF SharedOK, AppRecs
      <3> QED
        BY <3>2
    <2>3. CASE RefreshApp(p, a)
      <3>1. PICK f \in Facts : app' = [app EXCEPT ![a].fact = f]
        BY <2>3 DEF RefreshApp
      <3>2. [app[a] EXCEPT !.fact = f]
              = [app[a] EXCEPT !.hidden = app[a].hidden, !.edited = app[a].edited, !.fact = f]
        BY <2>1 DEF AppRecs
      <3>3. app' = [app EXCEPT ![a] = [app[a] EXCEPT !.fact = f]]
        BY <3>1 DEF SharedOK
      <3> QED
        BY <2>1, <3>2, <3>3
    <2> QED
      BY <2>2, <2>3
  <1>2. /\ app' \in [Apps -> AppRecs]
        /\ \A b \in Apps : app'[b].st = app[b].st
    BY <1>1 DEF SharedOK, AppRecs
  <1>3. UNCHANGED page
    BY DEF UpdateApp, RefreshApp
  <1> QED
    BY <1>2, <1>3, RegistryWritten DEF SharedOK, ItemsExist, Live

\* A scan without an alias merge.
LEMMA ReconcileShared ==
  ASSUME SharedOK, NEW p \in Procs, Reconcile(p)
  PROVE  SharedOK' /\ PagesStep
  <1>1. PICK seen \in SUBSET {a \in Apps : app[a].st # "gone"} :
        \E lost \in SUBSET (Live \ seen), fact \in [seen -> Facts] :
        \E pruned \in SUBSET {a \in lost : /\ ~app[a].edited
                                          /\ \A g \in LivePages : a \notin Listed(page[g])} :
          app' = [a \in Apps |-> IF a \in pruned THEN [NoApp EXCEPT !.st = "gone"]
                                 ELSE Observed(seen, lost, fact)[a]]
    BY DEF Reconcile
  <1>2. PICK lost \in SUBSET (Live \ seen), fact \in [seen -> Facts] :
        \E pruned \in SUBSET {a \in lost : /\ ~app[a].edited
                                          /\ \A g \in LivePages : a \notin Listed(page[g])} :
          app' = [a \in Apps |-> IF a \in pruned THEN [NoApp EXCEPT !.st = "gone"]
                                 ELSE Observed(seen, lost, fact)[a]]
    BY <1>1
  <1>3. PICK pruned \in SUBSET {a \in lost : /\ ~app[a].edited
                                             /\ \A g \in LivePages : a \notin Listed(page[g])} :
          app' = [a \in Apps |-> IF a \in pruned THEN [NoApp EXCEPT !.st = "gone"]
                                 ELSE Observed(seen, lost, fact)[a]]
    BY <1>2
  <1>4. [NoApp EXCEPT !.st = "gone"] \in AppRecs
    BY DefaultsType DEF AppRecs
  <1>5. ASSUME NEW a \in Apps
        PROVE  /\ Observed(seen, lost, fact)[a] \in AppRecs
               /\ app[a].st = "live" => Observed(seen, lost, fact)[a].st = "live"
    BY DEF Observed, SharedOK, AppRecs
  <1>6. app' \in [Apps -> AppRecs]
    BY <1>3, <1>4, <1>5
  <1>7. ASSUME NEW g \in LivePages, NEW a \in Listed(page[g])
        PROVE  app'[a].st = "live"
    <2>1. a \in Apps /\ a \notin pruned /\ app[a].st = "live"
      BY DEF SharedOK, ItemsExist, Live, Listed
    <2> QED
      BY <1>3, <1>5, <2>1
  <1> QED
    BY <1>6, <1>7, RegistryWritten DEF Reconcile

\* A scan with an alias merge.
LEMMA MergeShared ==
  ASSUME SharedOK, NEW p \in Procs, NEW canonical \in Apps, NEW dup \in Apps,
         ReconcileMerge(p, canonical, dup)
  PROVE  SharedOK' /\ PagesStep
  <1>1. PICK f \in Facts :
          app' = [app EXCEPT ![canonical] = [st |-> "live", present |-> TRUE,
                                            hidden |-> app[canonical].hidden \/ app[dup].hidden,
                                            edited |-> app[canonical].edited \/ app[dup].edited,
                                            fact |-> f],
                            ![dup] = [NoApp EXCEPT !.st = "gone"]]
    BY DEF ReconcileMerge
  <1>2. [NoApp EXCEPT !.st = "gone"] \in AppRecs
    BY DefaultsType DEF AppRecs
  <1>3. [st |-> "live", present |-> TRUE,
         hidden |-> app[canonical].hidden \/ app[dup].hidden,
         edited |-> app[canonical].edited \/ app[dup].edited, fact |-> f] \in AppRecs
    BY DEF SharedOK, AppRecs
  <1>4. /\ app' \in [Apps -> AppRecs]
        /\ app'[canonical].st = "live"
        /\ \A a \in Apps \ {canonical, dup} : app'[a] = app[a]
    BY <1>1, <1>2, <1>3 DEF SharedOK, ReconcileMerge
  <1>5. page' = RewriteAll(page, {canonical, dup}, canonical)
    BY DEF ReconcileMerge
  <1> DEFINE ids == {canonical, dup}
  <1>6. ids \in SUBSET Apps /\ canonical \in ids \cup {None}
    OBVIOUS
  <1>7. \A a \in Live \ ids : app'[a].st = "live"
    BY <1>4 DEF Live
  <1> HIDE DEF ids
  <1>8. page' = RewriteAll(page, ids, canonical)
    BY <1>5 DEF ids
  <1> QED
    BY <1>4, <1>6, <1>7, <1>8, PagesRewritten

\* deleteApp.
LEMMA DeleteAppShared ==
  ASSUME SharedOK, NEW a \in Apps, DeleteApp(a)
  PROVE  SharedOK' /\ PagesStep
  <1> DEFINE ids == {a}
  <1>1. [NoApp EXCEPT !.st = "gone"] \in AppRecs
    BY DefaultsType DEF AppRecs
  <1>2. app' \in [Apps -> AppRecs] /\ \A b \in Apps \ ids : app'[b] = app[b]
    BY <1>1 DEF DeleteApp, SharedOK
  <1>3. ids \in SUBSET Apps /\ None \in ids \cup {None}
    OBVIOUS
  <1>4. page' = RewriteAll(page, ids, None)
    BY DEF DeleteApp
  <1>5. \A b \in Live \ ids : app'[b].st = "live"
    BY <1>2 DEF Live
  <1> HIDE DEF ids
  <1> QED
    BY <1>2, <1>3, <1>4, <1>5, PagesRewritten
-----------------------------------------------------------------------------
(***************************************************************************)
(* What the processes hold.                                                *)
(***************************************************************************)
InSave == {"editing", "validate", "commit"}

\* A process that does not save, or whose save does not move.
LEMMA SaveFrame ==
  ASSUME IInv, SharedOK', PagesStep, NEW p \in Procs,
         UNCHANGED <<target[p], view[p], prev[p], draft[p]>>,
         pc'[p] = pc[p] \/ (pc[p] \notin InSave /\ pc'[p] \notin InSave)
  PROVE  SaveOK(p)'
  <1>1. SaveOK(p) /\ view[p] \in PageRecs /\ prev[p] \in PageRecs
    BY DEF IInv, LocalsOK, LocalTypes
  <1>2. ASSUME pc[p] \in InSave
        PROVE  /\ target[p] \in Pages
               /\ page[target[p]] \in PageRecs /\ page'[target[p]] \in PageRecs
               /\ RowStep(page[target[p]], page'[target[p]])
    BY <1>1, <1>2 DEF IInv, SharedOK, PagesStep, SaveOK, Saving, InSave
  <1>3. pc[p] \in InSave /\ view[p].st = "live" => Current(view[p], page'[target[p]])
    BY <1>1, <1>2, CurrentKept DEF SaveOK
  <1>4. Saving(p) => Current(prev[p], page'[target[p]])
    BY <1>1, <1>2, CurrentKept DEF SaveOK, Saving, InSave
  <1>5. CASE pc[p] \in InSave
    BY <1>1, <1>2, <1>3, <1>4, <1>5 DEF SaveOK, Saving, InSave
  <1>6. CASE pc[p] \notin InSave
    <2>1. view[p].st = "none" /\ pc'[p] \notin InSave
      BY <1>1, <1>6 DEF SaveOK, Saving, InSave
    <2> QED
      BY <2>1 DEF SaveOK, Saving, InSave
  <1> QED
    BY <1>5, <1>6

\* A refresh that does not read again.
LEMMA RulesFrame ==
  ASSUME IInv, SharedOK', PagesStep, NEW p \in Procs,
         UNCHANGED snapPages[p], todo'[p] \subseteq todo[p]
  PROVE  RulesOK(p)'
  <1> SUFFICES ASSUME NEW g \in Pages
               PROVE  /\ snapPages[p][g].st = "live" => /\ Current(snapPages[p][g], page'[g])
                                                        /\ Readable(snapPages[p][g])
                      /\ g \in todo'[p] => /\ snapPages[p][g].st = "live"
                                           /\ snapPages[p][g].rule # NoRule
    BY DEF RulesOK
  <1>1. /\ snapPages[p][g] \in PageRecs /\ page[g] \in PageRecs /\ page'[g] \in PageRecs
        /\ RowStep(page[g], page'[g])
    BY DEF IInv, LocalsOK, LocalTypes, SharedOK, PagesStep
  <1>2. RulesOK(p)
    BY DEF IInv, LocalsOK
  <1> QED
    BY <1>1, <1>2, CurrentKept DEF RulesOK

\* A save that ended.
LEMMA SaveEnded ==
  ASSUME NEW p \in Procs, view'[p] = NoPage, pc'[p] \notin InSave
  PROVE  SaveOK(p)'
  <1>1. view'[p].st = "none"
    BY DEF NoPage
  <1> QED
    BY <1>1 DEF SaveOK, Saving, InSave

\* A refresh that ended.
LEMMA RulesEnded ==
  ASSUME NEW p \in Procs, snapPages'[p] = NoSnap, todo'[p] = {}
  PROVE  RulesOK(p)'
  BY DEF RulesOK, NoSnap, NoPage

\* The rows EndSave and EndRules leave behind.
LEMMA EndSaveTypes ==
  ASSUME LocalTypes, NEW p \in Procs, EndSave(p)
  PROVE  /\ target' \in [Procs -> Pages \cup {None}] /\ view' \in [Procs -> PageRecs]
         /\ prev' \in [Procs -> PageRecs] /\ draft' \in [Procs -> PageRecs]
         /\ view'[p] = NoPage
         /\ \A q \in Procs \ {p} : UNCHANGED <<target[q], view[q], prev[q], draft[q]>>
  BY DefaultsType DEF LocalTypes, EndSave

LEMMA EndRulesTypes ==
  ASSUME LocalTypes, NEW p \in Procs, EndRules(p)
  PROVE  /\ snapPages' \in [Procs -> [Pages -> PageRecs]]
         /\ snapApps' \in [Procs -> [Apps -> AppRecs]]
         /\ todo' \in [Procs -> SUBSET Pages]
         /\ snapPages'[p] = NoSnap /\ todo'[p] = {}
         /\ \A q \in Procs \ {p} : UNCHANGED snapPages[q] /\ todo'[q] \subseteq todo[q]
  BY DefaultsType DEF LocalTypes, EndRules, NoSnap, NoApps

\* A step that moves no process in or out of a save: scans, edits, deletions.
LEMMA RegistryLocals ==
  ASSUME IInv, SharedOK', PagesStep, UNCHANGED <<saveVars, ruleVars>>, ops' \in 0..MaxOps,
         \/ UNCHANGED pc
         \/ \E p \in Procs : pc[p] = "idle" /\ pc' = [pc EXCEPT ![p] = "rules"]
  PROVE  LocalsOK'
  <1>1. pc' \in [Procs -> {"idle", "editing", "validate", "commit", "rules", "apps", "facts", "append"}]
    BY DEF IInv, LocalsOK, LocalTypes
  <1>2. LocalTypes'
    BY <1>1 DEF IInv, LocalsOK, LocalTypes, saveVars, ruleVars
  <1>3. ASSUME NEW q \in Procs PROVE SaveOK(q)' /\ RulesOK(q)'
    <2>1. pc'[q] = pc[q] \/ (pc[q] \notin InSave /\ pc'[q] \notin InSave)
      BY DEF InSave, IInv, LocalsOK, LocalTypes
    <2> QED
      BY <2>1, SaveFrame, RulesFrame DEF saveVars, ruleVars
  <1> QED
    BY <1>2, <1>3 DEF LocalsOK

\* Every process but p keeps what it holds.
LEMMA OthersKeep ==
  ASSUME IInv, SharedOK', PagesStep, NEW p \in Procs, NEW q \in Procs \ {p},
         pc'[q] = pc[q], UNCHANGED <<target[q], view[q], prev[q], draft[q]>>,
         UNCHANGED snapPages[q], todo'[q] \subseteq todo[q]
  PROVE  SaveOK(q)' /\ RulesOK(q)'
  BY SaveFrame, RulesFrame

\* An editor opens on the page as it is.
LEMMA LoadLocals ==
  ASSUME IInv, SharedOK', PagesStep, NEW p \in Procs, NEW g \in Pages, LoadDashboard(p, g)
  PROVE  LocalsOK'
  <1>1. LocalTypes'
    BY DEF LoadDashboard, IInv, LocalsOK, LocalTypes, SharedOK, ruleVars
  <1>2. /\ pc'[p] = "editing" /\ target'[p] = g /\ view'[p] = page[g] /\ page'[g] = page[g]
        /\ page[g].st = "live"
    BY DEF LoadDashboard, IInv, LocalsOK, LocalTypes, shared
  <1>3. Current(page[g], page[g]) /\ Readable(page[g])
    BY <1>2 DEF Current, IInv, SharedOK, PageRecs
  <1>4. SaveOK(p)'
    BY <1>2, <1>3 DEF SaveOK, Saving
  <1>5. RulesOK(p)'
    BY RulesFrame DEF LoadDashboard, ruleVars
  <1>6. ASSUME NEW q \in Procs \ {p} PROVE SaveOK(q)' /\ RulesOK(q)'
    BY OthersKeep DEF LoadDashboard, ruleVars, IInv, LocalsOK, LocalTypes
  <1> QED
    BY <1>1, <1>4, <1>5, <1>6 DEF LocalsOK

\* A save that is turned down, or a commit: p's locals go out of scope.
LEMMA EndSaveLocals ==
  ASSUME IInv, SharedOK', PagesStep, NEW p \in Procs, EndSave(p), UNCHANGED ruleVars,
         ops' \in 0..MaxOps, NEW c \in {"idle", "rules"}, pc' = [pc EXCEPT ![p] = c]
  PROVE  LocalsOK'
  <1>1. LocalTypes'
    BY EndSaveTypes DEF IInv, LocalsOK, LocalTypes, ruleVars
  <1>2. SaveOK(p)'
    BY SaveEnded, EndSaveTypes DEF IInv, LocalsOK, LocalTypes, InSave
  <1>3. RulesOK(p)'
    BY RulesFrame DEF ruleVars
  <1>4. ASSUME NEW q \in Procs \ {p} PROVE SaveOK(q)' /\ RulesOK(q)'
    BY OthersKeep, EndSaveTypes DEF ruleVars, IInv, LocalsOK, LocalTypes
  <1> QED
    BY <1>1, <1>2, <1>3, <1>4 DEF LocalsOK

\* saveDashboard reads "previous" and makes its draft.
LEMMA SaveReadLocals ==
  ASSUME IInv, SharedOK', PagesStep, NEW p \in Procs, NEW g \in Pages, NEW r \in Requests,
         SaveDashboardRead(p, g, r)
  PROVE  LocalsOK'
  <1> DEFINE old == page[g]
             base == IF pc[p] = "editing" THEN view[p] ELSE old
             d == Requested(base, old, r)
  <1>1. ops' \in 0..MaxOps
    BY SizesAssumption DEF SaveDashboardRead, Count, IInv, LocalsOK, LocalTypes
  <1>0. UNCHANGED <<shared, ruleVars>>
    BY DEF SaveDashboardRead
  <1>2. CASE pc' = [pc EXCEPT ![p] = "idle"] /\ EndSave(p)
    BY <1>0, <1>1, <1>2, EndSaveLocals
  <1>3. CASE /\ pc[p] = "idle" \/ old.st = "live"
             /\ Accepted(p, old, d)
             /\ \E low \in {{}, Untiled(d)} : draft' = [draft EXCEPT ![p] = Normalized(d, low)]
             /\ pc' = [pc EXCEPT ![p] = "validate"]
             /\ target' = [target EXCEPT ![p] = g]
             /\ prev' = [prev EXCEPT ![p] = old]
             /\ UNCHANGED view
    <2>0. PICK low \in {{}, Untiled(d)} : draft' = [draft EXCEPT ![p] = Normalized(d, low)]
      BY <1>3
    <2>1. /\ pc' = [pc EXCEPT ![p] = "validate"] /\ target' = [target EXCEPT ![p] = g]
          /\ prev' = [prev EXCEPT ![p] = old] /\ draft' = [draft EXCEPT ![p] = Normalized(d, low)]
          /\ UNCHANGED view /\ UNCHANGED <<shared, ruleVars>> /\ low \in SUBSET Apps
      BY <1>0, <1>3, <2>0 DEF Untiled, Listed
    <2>2. \/ pc[p] = "editing" /\ target[p] = g
          \/ pc[p] = "idle" /\ old.st \in {"live", "none"}
      BY DEF SaveDashboardRead
    <2>3. /\ old \in PageRecs /\ view[p] \in PageRecs /\ SaveOK(p)
          /\ old.st = "live" => Readable(old)
          /\ old.st = "none" => old.first \in old.sections
      BY DEF IInv, LocalsOK, LocalTypes, SharedOK
    <2>4. base \in PageRecs /\ base.first \in base.sections
      BY <2>2, <2>3 DEF SaveOK, Readable
    <2>5. /\ d \in PageRecs /\ d.rev = old.rev /\ d.first \in d.sections
          /\ d.rule # NoRule => Listed(old) \ Listed(d) \subseteq d.excluded
          /\ Apart(d)
      BY <2>3, <2>4, RequestedType
    <2>6. CanNormalize(d) /\ Cardinality(Listed(d)) <= MaxItems
      BY <1>3 DEF Accepted
    <2> DEFINE n == Normalized(d, low)
    <2>7. /\ n \in PageRecs /\ n.rev = old.rev /\ Readable(n) /\ n.items = d.items
          /\ n.rule = d.rule /\ n.excluded = d.excluded
      BY <2>1, <2>5, <2>6, NormalizedType, NormalizedReadable
    <2>8. /\ n.rule # NoRule => Listed(old) \ Listed(n) \subseteq n.excluded
          /\ Cardinality(Listed(n)) <= MaxItems /\ Apart(n)
      <3>1. Listed(n) = Listed(d)
        BY <2>7 DEF Listed
      <3> QED
        BY <2>5, <2>6, <2>7, <3>1 DEF Apart
    <2>9. /\ pc'[p] = "validate" /\ target'[p] = g /\ prev'[p] = old /\ draft'[p] = n
          /\ view'[p] = view[p] /\ page'[g] = page[g]
      BY <2>1 DEF IInv, LocalsOK, LocalTypes, shared
    <2>10. LocalTypes'
      BY <1>1, <2>1, <2>3, <2>7 DEF IInv, LocalsOK, LocalTypes, ruleVars
    <2> HIDE DEF d, base, n
    <2>11. SaveOK(p)'
      <3>1. Current(old, page[g])
        BY <1>3, <2>2, <2>3 DEF Current, PageRecs
      <3>2. view[p].st = "live" => /\ pc[p] = "editing" /\ target[p] = g /\ Readable(view[p])
                                   /\ Current(view[p], page[g])
        BY <2>2, <2>3 DEF SaveOK, Saving
      <3>3. view[p].st = "live" => old.st = "live" /\ view[p].rev = old.rev
        BY <1>3, <3>2 DEF Accepted
      <3> QED
        BY <2>7, <2>8, <2>9, <3>1, <3>2, <3>3 DEF SaveOK, Saving
    <2>12. RulesOK(p)'
      BY <2>1, RulesFrame DEF ruleVars
    <2>13. ASSUME NEW q \in Procs \ {p} PROVE SaveOK(q)' /\ RulesOK(q)'
      BY <2>1, OthersKeep DEF ruleVars, IInv, LocalsOK, LocalTypes
    <2> QED
      BY <2>10, <2>11, <2>12, <2>13 DEF LocalsOK
  <1> QED
    BY <1>2, <1>3 DEF SaveDashboardRead

\* saveDashboard checks its draft against the registry.
LEMMA ValidateLocals ==
  ASSUME IInv, SharedOK', PagesStep, NEW p \in Procs, SaveDashboardValidate(p)
  PROVE  LocalsOK'
  <1>1. ops' \in 0..MaxOps /\ UNCHANGED ruleVars /\ pc[p] = "validate"
    BY DEF SaveDashboardValidate, IInv, LocalsOK, LocalTypes
  <1>2. CASE pc' = [pc EXCEPT ![p] = "idle"] /\ EndSave(p)
    BY <1>1, <1>2, EndSaveLocals
  <1>3. CASE pc' = [pc EXCEPT ![p] = "commit"] /\ UNCHANGED saveVars
    <2>1. LocalTypes'
      BY <1>1, <1>3 DEF IInv, LocalsOK, LocalTypes, ruleVars, saveVars
    <2>2. SaveOK(p)'
      <3>1. Saving(p) /\ SaveOK(p) /\ pc'[p] = "commit"
        BY <1>1, <1>3 DEF Saving, IInv, LocalsOK, LocalTypes
      <3>2. UNCHANGED page
        BY DEF SaveDashboardValidate, shared
      <3> QED
        BY <1>3, <3>1, <3>2 DEF SaveOK, Saving, saveVars
    <2>3. RulesOK(p)'
      BY <1>1, RulesFrame DEF ruleVars
    <2>4. ASSUME NEW q \in Procs \ {p} PROVE SaveOK(q)' /\ RulesOK(q)'
      BY <1>1, <1>3, OthersKeep DEF ruleVars, saveVars, IInv, LocalsOK, LocalTypes
    <2> QED
      BY <2>1, <2>2, <2>3, <2>4 DEF LocalsOK
  <1> QED
    BY <1>2, <1>3 DEF SaveDashboardValidate

\* A step of a refresh that changes its own variables only.
LEMMA RulesLocals ==
  ASSUME IInv, SharedOK', PagesStep, NEW p \in Procs, UNCHANGED saveVars, UNCHANGED ops,
         pc[p] \notin InSave,
         NEW c \in {"idle", "apps", "facts", "append"}, pc' = [pc EXCEPT ![p] = c],
         snapPages' \in [Procs -> [Pages -> PageRecs]],
         snapApps' \in [Procs -> [Apps -> AppRecs]],
         todo' \in [Procs -> SUBSET Pages],
         RulesOK(p)',
         \A q \in Procs \ {p} : UNCHANGED snapPages[q] /\ todo'[q] \subseteq todo[q]
  PROVE  LocalsOK'
  <1>1. LocalTypes'
    BY DEF IInv, LocalsOK, LocalTypes, saveVars
  <1>2. SaveOK(p)'
    BY SaveFrame DEF saveVars, InSave, IInv, LocalsOK, LocalTypes
  <1>3. ASSUME NEW q \in Procs \ {p} PROVE SaveOK(q)' /\ RulesOK(q)'
    BY OthersKeep DEF saveVars, IInv, LocalsOK, LocalTypes
  <1> QED
    BY <1>1, <1>2, <1>3 DEF LocalsOK

\* A refresh reads the pages, or finds no rule and ends.
LEMMA ReadPagesLocals ==
  ASSUME IInv, SharedOK', PagesStep, NEW p \in Procs, ApplyRulesReadPages(p)
  PROVE  LocalsOK'
  <1>1. UNCHANGED <<saveVars, ops, page>> /\ pc[p] \notin InSave
    BY DEF ApplyRulesReadPages, shared, InSave
  <1>2. CASE pc' = [pc EXCEPT ![p] = "idle"] /\ EndRules(p)
    <2>1. LocalTypes
      BY DEF IInv, LocalsOK
    <2> QED
      BY <1>1, <1>2, <2>1, EndRulesTypes, RulesEnded, RulesLocals
  <1>3. CASE /\ snapPages' = [snapPages EXCEPT ![p] = page]
             /\ todo' = [todo EXCEPT ![p] = Active]
             /\ pc' = [pc EXCEPT ![p] = "apps"]
             /\ UNCHANGED snapApps
    <2>1. /\ snapPages' \in [Procs -> [Pages -> PageRecs]]
          /\ snapApps' \in [Procs -> [Apps -> AppRecs]]
          /\ todo' \in [Procs -> SUBSET Pages]
          /\ snapPages'[p] = page /\ todo'[p] = Active
          /\ \A q \in Procs \ {p} : UNCHANGED snapPages[q] /\ todo'[q] \subseteq todo[q]
      BY <1>3 DEF IInv, LocalsOK, LocalTypes, SharedOK, Active, LivePages
    <2>2. RulesOK(p)'
      <3>1. \A g \in Pages : page[g].st = "live" => Current(page[g], page[g]) /\ Readable(page[g])
        BY DEF Current, IInv, SharedOK, PageRecs
      <3> QED
        BY <1>1, <2>1, <3>1 DEF RulesOK, Active, LivePages
    <2> QED
      BY <1>1, <1>3, <2>1, <2>2, RulesLocals
  <1> QED
    BY <1>2, <1>3 DEF ApplyRulesReadPages

\* A refresh reads which apps there are.
LEMMA ReadAppsLocals ==
  ASSUME IInv, SharedOK', PagesStep, NEW p \in Procs, ApplyRulesReadApps(p)
  PROVE  LocalsOK'
  <1>1. /\ UNCHANGED <<saveVars, ops, snapPages, todo>> /\ pc[p] \notin InSave
        /\ pc' = [pc EXCEPT ![p] = "facts"] /\ snapApps' = [snapApps EXCEPT ![p] = app]
    BY DEF ApplyRulesReadApps, InSave
  <1>2. /\ snapPages' \in [Procs -> [Pages -> PageRecs]]
        /\ snapApps' \in [Procs -> [Apps -> AppRecs]]
        /\ todo' \in [Procs -> SUBSET Pages]
    BY <1>1 DEF IInv, LocalsOK, LocalTypes, SharedOK
  <1>3. RulesOK(p)'
    BY <1>1, RulesFrame
  <1> QED
    BY <1>1, <1>2, <1>3, RulesLocals

\* A refresh reads what is reported of the apps.
LEMMA ReadFactsLocals ==
  ASSUME IInv, SharedOK', PagesStep, NEW p \in Procs, ApplyRulesReadFacts(p)
  PROVE  LocalsOK'
  <1>1. /\ UNCHANGED <<saveVars, ops, snapPages, todo>> /\ pc[p] \notin InSave
        /\ pc' = [pc EXCEPT ![p] = "append"]
    BY DEF ApplyRulesReadFacts, InSave
  <1>2. snapApps[p] \in [Apps -> AppRecs]
    BY DEF IInv, LocalsOK, LocalTypes
  <1>3. PICK fact \in [Apps -> Facts] :
          snapApps' = [snapApps EXCEPT ![p] = [a \in Apps |->
                IF snapApps[p][a].st # "live" THEN snapApps[p][a]
                ELSE [snapApps[p][a] EXCEPT !.present = a \in ReportedNow, !.fact = fact[a]]]]
    BY <1>2 DEF ApplyRulesReadFacts, IInv, LocalsOK, LocalTypes
  <1>4. ASSUME NEW a \in Apps
        PROVE  [snapApps[p][a] EXCEPT !.present = a \in ReportedNow, !.fact = fact[a]] \in AppRecs
    <2>1. snapApps[p][a] \in AppRecs /\ fact[a] \in Facts /\ (a \in ReportedNow) \in BOOLEAN
      BY <1>2
    <2>2. ASSUME NEW r \in AppRecs, NEW b \in BOOLEAN, NEW f \in Facts
          PROVE  [r EXCEPT !.present = b, !.fact = f] \in AppRecs
      BY DEF AppRecs
    <2> QED
      BY <2>1, <2>2
  <1>5. /\ snapPages' \in [Procs -> [Pages -> PageRecs]]
        /\ snapApps' \in [Procs -> [Apps -> AppRecs]]
        /\ todo' \in [Procs -> SUBSET Pages]
    BY <1>1, <1>2, <1>3, <1>4 DEF IInv, LocalsOK, LocalTypes
  <1>6. RulesOK(p)'
    BY <1>1, RulesFrame
  <1> QED
    BY <1>1, <1>5, <1>6, RulesLocals

\* A refresh is done with one page.
LEMMA NextPageLocals ==
  ASSUME IInv, SharedOK', PagesStep, NEW p \in Procs, NEW g \in Pages, NextPage(p, g),
         UNCHANGED <<saveVars, ops>>, pc[p] = "append"
  PROVE  LocalsOK'
  <1>1. LocalTypes /\ pc[p] \notin InSave /\ UNCHANGED saveVars /\ UNCHANGED ops
    BY DEF IInv, LocalsOK, InSave
  <1>2. CASE pc' = [pc EXCEPT ![p] = "idle"] /\ EndRules(p)
    BY <1>1, <1>2, EndRulesTypes, RulesEnded, RulesLocals
  <1>3. CASE todo' = [todo EXCEPT ![p] = @ \ {g}] /\ UNCHANGED <<pc, snapPages, snapApps>>
    <2>1. pc' = [pc EXCEPT ![p] = "append"]
      BY <1>1, <1>3 DEF LocalTypes
    <2>2. /\ snapPages' \in [Procs -> [Pages -> PageRecs]]
          /\ snapApps' \in [Procs -> [Apps -> AppRecs]]
          /\ todo' \in [Procs -> SUBSET Pages]
          /\ \A q \in Procs : UNCHANGED snapPages[q] /\ todo'[q] \subseteq todo[q]
      BY <1>1, <1>3 DEF LocalTypes
    <2>3. RulesOK(p)'
      BY <2>2, RulesFrame
    <2> QED
      BY <1>1, <2>1, <2>2, <2>3, RulesLocals
  <1> QED
    BY <1>2, <1>3 DEF NextPage
-----------------------------------------------------------------------------
(***************************************************************************)
(* The invariant.                                                          *)
(***************************************************************************)
LEMMA InitInv == Init => IInv
  <1> SUFFICES ASSUME Init PROVE IInv
    OBVIOUS
  <1> USE DEF Init
  <1>1. NoPage \in PageRecs /\ [NoPage EXCEPT !.st = "live"] \in PageRecs /\ NoApp \in AppRecs
    BY DefaultsType DEF PageRecs
  <1>2. /\ NoPage.st = "none" /\ NoPage.first \in NoPage.sections
        /\ [NoPage EXCEPT !.st = "live"].st = "live"
    BY DEF NoPage
  <1>3. Readable([NoPage EXCEPT !.st = "live"]) /\ Listed([NoPage EXCEPT !.st = "live"]) = {}
    BY DEF Readable, CanNormalize, Listed, Tiled, NoPage
  <1>4. \A g \in Pages : page[g] = IF g = Home THEN [NoPage EXCEPT !.st = "live"] ELSE NoPage
    OBVIOUS
  <1>5. app \in [Apps -> AppRecs] /\ page \in [Pages -> PageRecs]
    BY <1>1 DEF NoApps
  <1>6. SharedOK
    BY <1>2, <1>3, <1>4, <1>5 DEF SharedOK, ItemsExist, LivePages, Live
  <1>7. LocalTypes
    BY <1>1, SizesAssumption DEF LocalTypes, NoSnap, NoApps
  <1>8. ASSUME NEW p \in Procs PROVE SaveOK(p) /\ RulesOK(p)
    BY <1>2 DEF SaveOK, Saving, RulesOK, NoSnap
  <1> QED
    BY <1>6, <1>7, <1>8 DEF IInv, LocalsOK

LEMMA CountType ==
  ASSUME IInv, Count PROVE ops' \in 0..MaxOps
  BY SizesAssumption DEF Count, IInv, LocalsOK, LocalTypes

\* Every row moves as RowStep says, and the invariant is kept.
LEMMA StepInv ==
  ASSUME IInv, [Next]_vars
  PROVE  IInv' /\ PagesStep
  <1>1. CASE UNCHANGED vars
    <2>1. SharedOK' /\ PagesStep
      BY <1>1, SharedStutter DEF vars, shared, IInv
    <2>2. LocalsOK'
      <3>1. LocalTypes'
        BY <1>1 DEF vars, IInv, LocalsOK, LocalTypes
      <3>2. ASSUME NEW q \in Procs PROVE SaveOK(q)' /\ RulesOK(q)'
        BY <1>1, <2>1, SaveFrame, RulesFrame DEF vars
      <3> QED
        BY <3>1, <3>2 DEF LocalsOK
    <2> QED
      BY <2>1, <2>2 DEF IInv
  <1>2. ASSUME NEW p \in Handlers, NEW g \in Pages, LoadDashboard(p, g) PROVE IInv' /\ PagesStep
    BY <1>2, SharedStutter, LoadLocals DEF IInv, LoadDashboard, Procs
  <1>3. ASSUME NEW p \in Handlers, NEW g \in Pages, NEW r \in Requests, SaveDashboardRead(p, g, r)
        PROVE  IInv' /\ PagesStep
    BY <1>3, SharedStutter, SaveReadLocals DEF IInv, SaveDashboardRead, Procs
  <1>4. ASSUME NEW p \in Handlers, SaveDashboardValidate(p) PROVE IInv' /\ PagesStep
    BY <1>4, SharedStutter, ValidateLocals DEF IInv, SaveDashboardValidate, Procs
  <1>5. ASSUME NEW p \in Handlers, SaveDashboardCommit(p) PROVE IInv' /\ PagesStep
    <2>1. p \in Procs
      BY DEF Procs
    <2>2. SharedOK' /\ PagesStep
      BY <1>5, <2>1, CommitShared
    <2>3. /\ EndSave(p) /\ UNCHANGED ruleVars /\ ops' \in 0..MaxOps
          /\ \E c \in {"idle", "rules"} : pc' = [pc EXCEPT ![p] = c]
      BY <1>5 DEF SaveDashboardCommit, IInv, LocalsOK, LocalTypes
    <2>4. LocalsOK'
      BY <2>1, <2>2, <2>3, EndSaveLocals
    <2> QED
      BY <2>2, <2>4 DEF IInv
  <1>6. ASSUME NEW p \in Handlers, Reconcile(p) PROVE IInv' /\ PagesStep
    BY <1>6, ReconcileShared, RegistryLocals, CountType DEF IInv, Reconcile, Procs
  <1>7. ASSUME NEW p \in Handlers, NEW a \in Apps, UpdateApp(p, a) \/ RefreshApp(p, a)
        PROVE  IInv' /\ PagesStep
    <2>1. p \in Procs /\ SharedOK' /\ PagesStep
      BY <1>7, EditShared DEF IInv, Procs
    <2>2. /\ UNCHANGED <<saveVars, ruleVars>> /\ Count
          /\ pc[p] = "idle" /\ pc' = [pc EXCEPT ![p] = "rules"]
      BY <1>7 DEF UpdateApp, RefreshApp
    <2> QED
      BY <2>1, <2>2, RegistryLocals, CountType DEF IInv
  <1>8. ASSUME NEW p \in Handlers, NEW a \in Apps, NEW b \in Apps, ReconcileMerge(p, a, b)
        PROVE  IInv' /\ PagesStep
    <2>1. p \in Procs /\ SharedOK' /\ PagesStep
      BY <1>8, MergeShared DEF IInv, Procs
    <2>2. /\ UNCHANGED <<saveVars, ruleVars>> /\ Count
          /\ pc[p] = "idle" /\ pc' = [pc EXCEPT ![p] = "rules"]
      BY <1>8 DEF ReconcileMerge
    <2> QED
      BY <2>1, <2>2, RegistryLocals, CountType DEF IInv
  <1>9. ASSUME NEW a \in Apps, DeleteApp(a) PROVE IInv' /\ PagesStep
    BY <1>9, DeleteAppShared, RegistryLocals, CountType DEF IInv, DeleteApp
  <1>10. ASSUME NEW g \in Pages, DeleteDashboard(g) PROVE IInv' /\ PagesStep
    BY <1>10, DeleteDashboardShared, RegistryLocals, CountType DEF IInv, DeleteDashboard
  <1>11. ASSUME NEW p \in Procs, ApplyRulesReadPages(p) PROVE IInv' /\ PagesStep
    BY <1>11, SharedStutter, ReadPagesLocals DEF IInv, ApplyRulesReadPages
  <1>12. ASSUME NEW p \in Procs, ApplyRulesReadApps(p) PROVE IInv' /\ PagesStep
    BY <1>12, SharedStutter, ReadAppsLocals DEF IInv, ApplyRulesReadApps
  <1>14. ASSUME NEW p \in Procs, ApplyRulesReadFacts(p) PROVE IInv' /\ PagesStep
    BY <1>14, SharedStutter, ReadFactsLocals DEF IInv, ApplyRulesReadFacts
  <1>13. ASSUME NEW p \in Procs, NEW g \in Pages,
                RuleWrite(p, g)
         PROVE  IInv' /\ PagesStep
    <2>1. SharedOK' /\ PagesStep
      BY <1>13, RuleWriteShared
    <2>2. NextPage(p, g) /\ UNCHANGED <<saveVars, ops>> /\ pc[p] = "append"
      BY <1>13 DEF RuleWrite, RuleEvaluationFails, HitsLimit, HitsRowLimit, AppendRuleMatches
    <2> QED
      BY <2>1, <2>2, NextPageLocals DEF IInv
  <1> QED
    BY <1>1, <1>2, <1>3, <1>4, <1>5, <1>6, <1>7, <1>8, <1>9, <1>10, <1>11, <1>12, <1>13, <1>14
       DEF Next, SaveStep, RegistryStep, RulesStep, RuleWrite

(***************************************************************************)
(* The invariant holds in every reachable state.                           *)
(***************************************************************************)
THEOREM Invariance == Spec => []IInv
  <1>1. IInv /\ [Next]_vars => IInv'
    BY StepInv
  <1> QED
    BY InitInv, <1>1, PTL DEF Spec

(***************************************************************************)
(* Every variable of the pages' specification keeps its type.              *)
(***************************************************************************)
THEOREM TypeCorrect == Spec => []TypeOK
  <1>1. IInv => TypeOK
    BY DEF IInv, SharedOK, LocalsOK, LocalTypes, TypeOK
  <1> QED
    BY Invariance, <1>1, PTL

(***************************************************************************)
(* No page ever lists an app the registry has not (or no longer).          *)
(***************************************************************************)
THEOREM ReferentialIntegrity == Spec => []ItemsExist
  <1>1. IInv => ItemsExist
    BY DEF IInv, SharedOK
  <1> QED
    BY Invariance, <1>1, PTL

(***************************************************************************)
(* Every stored page can be read back and has one card per listed app.     *)
(***************************************************************************)
THEOREM Readability == Spec => []PagesReadable
  <1>1. IInv => PagesReadable
    BY DEF IInv, SharedOK, PagesReadable, Readable, LivePages
  <1> QED
    BY Invariance, <1>1, PTL

-----------------------------------------------------------------------------
(***************************************************************************)
(* What saves and rules may overwrite.                                     *)
(***************************************************************************)
\* Only saveDashboard's transaction takes a process out of "commit".
LEMMA OnlyCommit ==
  ASSUME IInv, [Next]_vars, NEW p \in Handlers, pc[p] = "commit", pc'[p] = "rules"
  PROVE  SaveDashboardCommit(p) /\ Committable(p)
  <1>0. pc \in [Procs -> {"idle", "editing", "validate", "commit", "rules", "apps", "facts", "append"}]
        /\ p \in Procs
    BY DEF IInv, LocalsOK, LocalTypes, Procs
  <1>1. CASE UNCHANGED vars
    BY <1>1 DEF vars
  <1>2. ASSUME NEW q \in Handlers, SaveStep(q) PROVE SaveDashboardCommit(p)
    BY <1>0, <1>2 DEF SaveStep, LoadDashboard, SaveDashboardRead, SaveDashboardValidate,
                      SaveDashboardCommit, Procs
  <1>3. ASSUME NEW q \in Handlers, RegistryStep(q) PROVE FALSE
    BY <1>0, <1>3 DEF RegistryStep, Reconcile, UpdateApp, RefreshApp, ReconcileMerge, Procs
  <1>4. ASSUME NEW q \in Procs, RulesStep(q) PROVE FALSE
    BY <1>0, <1>4 DEF RulesStep, ApplyRulesReadPages, ApplyRulesReadApps, ApplyRulesReadFacts,
                      RuleEvaluationFails, HitsLimit, HitsRowLimit, AppendRuleMatches, NextPage
  <1>5. ASSUME NEW a \in Apps, DeleteApp(a) PROVE FALSE
    BY <1>5 DEF DeleteApp
  <1>6. ASSUME NEW g \in Pages, DeleteDashboard(g) PROVE FALSE
    BY <1>6 DEF DeleteDashboard
  <1>7. SaveDashboardCommit(p)
    BY <1>1, <1>2, <1>3, <1>4, <1>5, <1>6 DEF Next
  <1> QED
    BY <1>0, <1>7 DEF SaveDashboardCommit

\* Only the application of a rule takes a page off a process's list.
LEMMA OnlyRules ==
  ASSUME IInv, [Next]_vars, NEW p \in Procs, RuleApplied(p)
  PROVE  \E g \in Pages : RuleWrite(p, g)
  <1>0. /\ pc \in [Procs -> {"idle", "editing", "validate", "commit", "rules", "apps", "facts", "append"}]
        /\ todo \in [Procs -> SUBSET Pages] /\ pc[p] = "append" /\ todo'[p] # todo[p]
    BY DEF IInv, LocalsOK, LocalTypes, RuleApplied
  <1>1. CASE UNCHANGED vars
    BY <1>0, <1>1 DEF vars
  <1>2. ASSUME NEW q \in Handlers, SaveStep(q) PROVE FALSE
    BY <1>0, <1>2 DEF SaveStep, LoadDashboard, SaveDashboardRead, SaveDashboardValidate,
                      SaveDashboardCommit, ruleVars
  <1>3. ASSUME NEW q \in Handlers, RegistryStep(q) PROVE FALSE
    BY <1>0, <1>3 DEF RegistryStep, Reconcile, UpdateApp, RefreshApp, ReconcileMerge, ruleVars
  <1>4. ASSUME NEW q \in Procs, RulesStep(q) PROVE \E g \in Pages : RuleWrite(p, g)
    <2>1. CASE q = p
      BY <1>0, <1>4, <2>1 DEF RulesStep, ApplyRulesReadPages, ApplyRulesReadApps,
                              ApplyRulesReadFacts, RuleWrite
    <2>2. CASE q # p
      BY <1>0, <1>4, <2>2 DEF RulesStep, ApplyRulesReadPages, ApplyRulesReadApps, ApplyRulesReadFacts,
           RuleEvaluationFails, HitsLimit, HitsRowLimit, AppendRuleMatches, NextPage, EndRules
    <2> QED
      BY <2>1, <2>2
  <1>5. ASSUME NEW a \in Apps, DeleteApp(a) PROVE FALSE
    BY <1>0, <1>5 DEF DeleteApp, ruleVars
  <1>6. ASSUME NEW g \in Pages, DeleteDashboard(g) PROVE FALSE
    BY <1>0, <1>6 DEF DeleteDashboard, ruleVars
  <1> QED
    BY <1>1, <1>2, <1>3, <1>4, <1>5, <1>6 DEF Next

\* A committed save replaces the row it read.
LEMMA CommitReplacesWhatWasRead ==
  ASSUME IInv, [Next]_vars, NEW p \in Handlers, NEW g \in Pages, Saved(p, g)
  PROVE  /\ Contents(prev[p]) = Contents(page[g])
         /\ view[p].st = "live" => Contents(view[p]) = Contents(page[g])
         /\ page'[g].rule # NoRule
              => Listed(page[g]) \ Listed(page'[g]) \subseteq page'[g].excluded
  <1>1. pc[p] = "commit" /\ pc'[p] = "rules" /\ target[p] = g
    BY DEF Saved
  <1>2. SaveDashboardCommit(p) /\ Committable(p)
    BY <1>1, OnlyCommit
  <1>3. /\ p \in Procs /\ SaveOK(p) /\ Saving(p)
        /\ draft[p] \in PageRecs /\ page \in [Pages -> PageRecs]
    BY <1>1 DEF Procs, IInv, LocalsOK, LocalTypes, SharedOK, Saving
  <1>4. Current(prev[p], page[g]) /\ page[g].st = prev[p].st /\ page[g].rev = prev[p].rev
    BY <1>1, <1>2, <1>3 DEF SaveOK, Committable
  <1>5. Contents(prev[p]) = Contents(page[g])
    BY <1>4 DEF Current
  <1>6. ASSUME view[p].st = "live" PROVE Contents(view[p]) = Contents(page[g])
    BY <1>1, <1>3, <1>4, <1>6 DEF SaveOK, Current
  <1>7. ASSUME page'[g].rule # NoRule
        PROVE  Listed(page[g]) \ Listed(page'[g]) \subseteq page'[g].excluded
    <2>1. /\ page'[g].rule = draft[p].rule /\ page'[g].excluded = draft[p].excluded
          /\ page'[g].items = draft[p].items
      <3>1. page'[g] = [draft[p] EXCEPT !.st = "live", !.rev = @ + 1, !.err = "none"]
        BY <1>1, <1>2, <1>3 DEF SaveDashboardCommit
      <3> QED
        BY <1>3, <3>1 DEF PageRecs
    <2>2. Listed(page[g]) = Listed(prev[p]) /\ Listed(page'[g]) = Listed(draft[p])
      BY <1>5, <2>1 DEF Contents, Listed
    <2> QED
      BY <1>3, <1>7, <2>1, <2>2 DEF SaveOK
  <1> QED
    BY <1>5, <1>6, <1>7

(***************************************************************************)
(* No save that carries a revision overwrites what its editor has not      *)
(* seen; and a save turns every removal into an exclusion.                 *)
(***************************************************************************)
THEOREM NoLostUpdates == Spec => StaleSavesRejected
  <1>1. IInv /\ [Next]_vars
          => \A p \in Handlers, g \in Pages :
               Saved(p, g) /\ view[p].st = "live" => Contents(view[p]) = Contents(page[g])
    BY CommitReplacesWhatWasRead
  <1> QED
    BY Invariance, <1>1, PTL DEF Spec, StaleSavesRejected

THEOREM RemovalsStick == Spec => RemovalsExcluded
  <1>1. IInv /\ [Next]_vars
          => \A p \in Handlers, g \in Pages : Saved(p, g) /\ page'[g].rule # NoRule
               => Listed(page[g]) \ Listed(page'[g]) \subseteq page'[g].excluded
    BY CommitReplacesWhatWasRead
  <1> QED
    BY Invariance, <1>1, PTL DEF Spec, RemovalsExcluded

\* What applying a rule does to one page: nothing but adding cards for apps
\* that are not excluded.
AddsOnly(d, e) ==
    /\ Listed(d) \subseteq Listed(e)
    /\ \A a \in Listed(d) : e.tile[a] = d.tile[a]
    /\ <<e.st, e.excluded, e.sections, e.first, e.rule, e.autoSection>>
       = <<d.st, d.excluded, d.sections, d.first, d.rule, d.autoSection>>
    /\ (Listed(e) \ Listed(d)) \cap d.excluded = {}

LEMMA RulesAddOnly ==
  ASSUME IInv, [Next]_vars, NEW p \in Procs, RuleApplied(p), NEW h \in Pages
  PROVE  AddsOnly(page[h], page'[h])
  <1>1. PICK g \in Pages : RuleWrite(p, g)
    BY OnlyRules
  <1> DEFINE d == snapPages[p][g]
  <1>2. /\ page \in [Pages -> PageRecs] /\ d \in PageRecs /\ d.st = "live"
        /\ Current(d, page[g]) /\ Readable(d)
    BY <1>1 DEF IInv, LocalsOK, RulesOK, SharedOK, LocalTypes,
                RuleWrite, RuleEvaluationFails, HitsLimit, HitsRowLimit, AppendRuleMatches
  <1>3. CASE page'[h] = page[h]
    BY <1>3 DEF AddsOnly
  <1>4. CASE \E x \in {"eval", "limit", "rows", "none"} : page'[h] = [page[h] EXCEPT !.err = x]
    BY <1>2, <1>4 DEF AddsOnly, PageRecs, Listed
  <1>5. CASE /\ h = g /\ Unchanged(p, g)
             /\ \E low \in SUBSET Apps : page'[h] = WithAdded(d, Added(p, g), low)
    <2>0. PICK low \in SUBSET Apps : page'[h] = WithAdded(d, Added(p, g), low)
      BY <1>5
    <2>1. Contents(d) = Contents(page[g]) /\ d.st = page[g].st
      BY <1>2, <1>5 DEF Current, Unchanged
    <2>2. /\ d.items = page[g].items /\ d.excluded = page[g].excluded /\ d.tile = page[g].tile
          /\ d.sections = page[g].sections /\ d.first = page[g].first /\ d.rule = page[g].rule
          /\ d.autoSection = page[g].autoSection /\ Listed(d) = Listed(page[g])
      BY <2>1 DEF Contents, Listed
    <2>3. /\ Added(p, g) \in SUBSET Apps /\ Added(p, g) \cap Listed(d) = {}
          /\ Added(p, g) \cap d.excluded = {} /\ Readable(d) /\ d \in PageRecs /\ d.st = "live"
      BY <1>2 DEF Added, Candidates, Live
    <2> HIDE DEF d
    <2>4. LET e == WithAdded(d, Added(p, g), low)
          IN  /\ Listed(e) = Listed(d) \cup Added(p, g)
              /\ \A a \in Listed(d) : e.tile[a] = d.tile[a]
              /\ <<e.st, e.excluded, e.sections, e.first, e.rule, e.autoSection>>
                   = <<d.st, d.excluded, d.sections, d.first, d.rule, d.autoSection>>
      BY <2>3, WithAddedRow
    <2> QED
      BY <1>5, <2>0, <2>1, <2>2, <2>3, <2>4 DEF AddsOnly
  <1> QED
    BY <1>1, <1>2, <1>3, <1>4, <1>5, RuleWriteCases

(***************************************************************************)
(* However old its snapshot, a rule only adds cards, and none for an app   *)
(* the page excludes when the rule is applied.                             *)
(***************************************************************************)
THEOREM RulesAreAddOnly == Spec => RulesOnlyAdd
  <1>1. IInv /\ [Next]_vars
          => \A p \in Procs, g \in Pages : RuleApplied(p) =>
               LET d == page[g]  e == page'[g]
               IN  /\ Listed(d) \subseteq Listed(e)
                   /\ \A a \in Listed(d) : e.tile[a] = d.tile[a]
                   /\ <<e.st, e.excluded, e.sections, e.first, e.rule, e.autoSection>>
                      = <<d.st, d.excluded, d.sections, d.first, d.rule, d.autoSection>>
    BY RulesAddOnly DEF AddsOnly
  <1> QED
    BY Invariance, <1>1, PTL DEF Spec, RulesOnlyAdd

THEOREM ExclusionsHold == Spec => ExclusionsHonoured
  <1>1. IInv /\ [Next]_vars
          => \A p \in Procs, g \in Pages :
               RuleApplied(p) => NewlyListed(g) \cap page[g].excluded = {}
    BY RulesAddOnly DEF AddsOnly, NewlyListed
  <1> QED
    BY Invariance, <1>1, PTL DEF Spec, ExclusionsHonoured
-----------------------------------------------------------------------------
(***************************************************************************)
(* Saves, rules, scans and deletions implement AtomicPages.                *)
(***************************************************************************)
\* Both modules count alike.
LEMMA SameCount ==
  ASSUME NEW S
  PROVE  Atomic!Cardinality(S) = Cardinality(S)
  BY DEF Cardinality, Atomic!Cardinality

\* The next version of a row, as AtomicPages has it.
LEMMA ShownVersion ==
  ASSUME NEW d, NEW c, NEW x
  PROVE  Atomic!Version(Shown(d), c, x)
           = [st |-> d.st, cards |-> c, excluded |-> x, sections |-> d.sections,
              dest |-> d.autoSection, rule |-> d.rule, rev |-> d.rev + 1]
  <1> DEFINE Row(u, y, v) == [st |-> d.st, cards |-> u, excluded |-> y, sections |-> d.sections,
                              dest |-> d.autoSection, rule |-> d.rule, rev |-> v]
  <1>1. ASSUME NEW u, NEW y, NEW v
        PROVE  [Row(u, y, v) EXCEPT !.cards = c] = Row(c, y, v)
    OBVIOUS
  <1>2. ASSUME NEW u, NEW y, NEW v
        PROVE  [Row(u, y, v) EXCEPT !.excluded = x] = Row(u, x, v)
    OBVIOUS
  <1>3. ASSUME NEW u, NEW y, NEW v, NEW w
        PROVE  [Row(u, y, v) EXCEPT !.rev = w] = Row(u, y, w)
    OBVIOUS
  <1>4. ASSUME NEW r, NEW u, NEW y, NEW v
        PROVE  [r EXCEPT !.cards = u, !.excluded = y, !.rev = v]
                 = [[[r EXCEPT !.cards = u] EXCEPT !.excluded = y] EXCEPT !.rev = v]
    OBVIOUS
  <1>5. Row([a \in Listed(d) |-> d.tile[a]], d.excluded, d.rev).rev = d.rev
    OBVIOUS
  <1>6. Shown(d) = Row([a \in Listed(d) |-> d.tile[a]], d.excluded, d.rev)
    BY DEF Shown
  <1> HIDE DEF Row
  <1>7. Atomic!Version(Shown(d), c, x) = Row(c, x, d.rev + 1)
    <2> DEFINE k == [a \in Listed(d) |-> d.tile[a]]
               r == Row(k, d.excluded, d.rev)
    <2>1. Atomic!Version(Shown(d), c, x)
            = [r EXCEPT !.cards = c, !.excluded = x, !.rev = r.rev + 1]
      BY <1>6 DEF Atomic!Version
    <2> HIDE DEF k
    <2>2. Atomic!Version(Shown(d), c, x)
            = [[[r EXCEPT !.cards = c] EXCEPT !.excluded = x] EXCEPT !.rev = d.rev + 1]
      BY <1>4, <1>5, <2>1 DEF k
    <2>3. [r EXCEPT !.cards = c] = Row(c, d.excluded, d.rev)
      BY <1>1
    <2>4. [Row(c, d.excluded, d.rev) EXCEPT !.excluded = x] = Row(c, x, d.rev)
      BY <1>2
    <2>5. [Row(c, x, d.rev) EXCEPT !.rev = d.rev + 1] = Row(c, x, d.rev + 1)
      BY <1>3
    <2> QED
      BY <2>2, <2>3, <2>4, <2>5
  <1> QED
    BY <1>7 DEF Row

\* What AtomicPages sees of a row.
LEMMA ShownFields ==
  ASSUME NEW d
  PROVE  /\ Atomic!Cards(Shown(d)) = Listed(d)
         /\ Atomic!Mentioned(Shown(d)) = Listed(d) \cup d.excluded
         /\ Shown(d).cards = [a \in Listed(d) |-> d.tile[a]]
         /\ Shown(d).st = d.st /\ Shown(d).excluded = d.excluded /\ Shown(d).rev = d.rev
         /\ Shown(d).sections = d.sections /\ Shown(d).dest = d.autoSection
         /\ Shown(d).rule = d.rule
  BY DEF Shown, Atomic!Cards, Atomic!Mentioned

\* The mapping of the pages, before and after a step.
LEMMA ShownPagesAt ==
  /\ \A g \in Pages : ShownPages[g] = Shown(page[g]) /\ ShownPages'[g] = Shown(page'[g])
  /\ Atomic!LivePages = LivePages
  BY DEF ShownPages, Atomic!LivePages, LivePages, Shown

\* Deleting an app from a row.
LEMMA ShownWithout ==
  ASSUME NEW d \in PageRecs, Readable(d), NEW a \in Apps
  PROVE  Shown(Rewritten(d, {a}, None)) = Atomic!Without(Shown(d), a)
  <1> DEFINE e == Rewritten(d, {a}, None)
  <1>1. Mentions(d, {a}) <=> a \in Listed(d) \cup d.excluded
    BY DEF Mentions, Readable
  <1>2. CASE ~Mentions(d, {a})
    BY <1>1, <1>2, ShownFields DEF Rewritten, Atomic!Without
  <1>3. CASE Mentions(d, {a})
    <2>1. /\ e.st = d.st /\ e.rev = d.rev + 1 /\ e.sections = d.sections
          /\ e.autoSection = d.autoSection /\ e.rule = d.rule
          /\ e.excluded = d.excluded \ {a}
          /\ \A b \in Apps : /\ e.items[b] = IF b = a THEN 0 ELSE d.items[b]
                             /\ e.tile[b] = IF b = a THEN None ELSE d.tile[b]
      BY <1>3, NamesAssumption DEF Rewritten, PageRecs
    <2> HIDE DEF e
    <2>2. Listed(e) = Listed(d) \ {a} /\ Listed(d) \subseteq Apps
      BY <2>1 DEF Listed
    <2>3. [b \in Listed(e) |-> e.tile[b]] = [b \in Listed(d) \ {a} |-> Shown(d).cards[b]]
      <3>0. \A b \in Listed(d) : Shown(d).cards[b] = d.tile[b]
        BY ShownFields
      <3>1. \A b \in Listed(d) \ {a} : e.tile[b] = Shown(d).cards[b]
        BY <2>1, <2>2, <3>0
      <3> QED
        BY <2>2, <3>1
    <2>4. Shown(e) = [st |-> d.st, cards |-> [b \in Listed(d) \ {a} |-> Shown(d).cards[b]],
                      excluded |-> d.excluded \ {a}, sections |-> d.sections,
                      dest |-> d.autoSection, rule |-> d.rule, rev |-> d.rev + 1]
      BY <2>1, <2>3 DEF Shown
    <2>5. Atomic!Without(Shown(d), a)
            = Atomic!Version(Shown(d), [b \in Listed(d) \ {a} |-> Shown(d).cards[b]],
                             d.excluded \ {a})
      BY <1>1, <1>3, ShownFields DEF Atomic!Without
    <2> QED
      BY <2>4, <2>5, ShownVersion DEF e
  <1> QED
    BY <1>2, <1>3

\* Merging app b of a row into app a.
LEMMA ShownInstead ==
  ASSUME NEW d \in PageRecs, Readable(d), NEW a \in Apps, NEW b \in Apps, a # b
  PROVE  Shown(Rewritten(d, {a, b}, a)) = Atomic!Instead(Shown(d), a, b)
  <1> DEFINE e == Rewritten(d, {a, b}, a)
             put == IF b \in Listed(d) THEN {a} ELSE {}
  <1>1. Mentions(d, {a, b}) <=> {a, b} \cap (Listed(d) \cup d.excluded) # {}
    BY DEF Mentions, Readable
  <1>2. CASE ~Mentions(d, {a, b})
    BY <1>1, <1>2, ShownFields DEF Rewritten, Atomic!Instead
  <1>3. CASE Mentions(d, {a, b})
    <2>0. a # None /\ b # None
      BY NamesAssumption
    <2>1. /\ e.st = d.st /\ e.rev = d.rev + 1 /\ e.sections = d.sections
          /\ e.autoSection = d.autoSection /\ e.rule = d.rule
          /\ e.excluded = (d.excluded \ {a, b}) \cup
                            (IF {a, b} \cap d.excluded = {} THEN {} ELSE {a} \ {None})
          /\ \A c \in Apps :
               /\ e.items[c] = IF c = a THEN (IF {a, b} \cap Listed(d) = {} THEN 0 ELSE 1)
                               ELSE IF c = b THEN 0 ELSE d.items[c]
               /\ e.tile[c] = IF c = a THEN KeptTile(d, {a, b}, a)
                              ELSE IF c = b THEN None ELSE d.tile[c]
      BY <1>3 DEF Rewritten, PageRecs
    <2> HIDE DEF e
    <2>2. e.excluded = (d.excluded \ {b}) \cup (IF b \in d.excluded THEN {a} ELSE {})
      BY <2>0, <2>1
    <2>3. Listed(d) \subseteq Apps /\ Listed(e) \subseteq Apps /\ Tiled(d) = Listed(d)
      BY DEF Listed, Readable
    <2>4. \A c \in Apps : c \in Listed(e) <=> c \in (Listed(d) \ {b}) \cup put
      BY <2>1 DEF Listed
    <2>5. Listed(e) = (Listed(d) \ {b}) \cup put
      BY <2>3, <2>4
    <2>6. a \in Listed(d) \/ b \in Listed(d)
            => KeptTile(d, {a, b}, a) = IF a \in Listed(d) THEN d.tile[a] ELSE d.tile[b]
      BY <2>3 DEF KeptTile, Keeper
    <2>7. \A c \in Listed(e) : e.tile[c] = IF c \in Listed(d) THEN d.tile[c] ELSE d.tile[b]
      BY <2>1, <2>3, <2>5, <2>6
    <2> DEFINE new == [c \in (Listed(d) \ {b}) \cup put |->
                         IF c \in Listed(d) THEN Shown(d).cards[c] ELSE Shown(d).cards[b]]
    <2>8. [c \in Listed(e) |-> e.tile[c]] = new
      <3>1. \A c \in Listed(e) : e.tile[c] = IF c \in Listed(d) THEN Shown(d).cards[c]
                                              ELSE Shown(d).cards[b]
        <4>1. \A c \in Listed(d) : Shown(d).cards[c] = d.tile[c]
          BY ShownFields
        <4>2. \A c \in Listed(e) : c \in Listed(d) \/ b \in Listed(d)
          BY <2>5
        <4> QED
          BY <2>7, <4>1, <4>2
      <3> QED
        BY <2>5, <3>1
    <2>9. Shown(e) = [st |-> d.st, cards |-> new, excluded |-> e.excluded,
                      sections |-> d.sections, dest |-> d.autoSection, rule |-> d.rule,
                      rev |-> d.rev + 1]
      BY <2>1, <2>8 DEF Shown
    <2>10. Atomic!Instead(Shown(d), a, b)
             = Atomic!Version(Shown(d), new, e.excluded)
      BY <1>1, <1>3, <2>2, ShownFields DEF Atomic!Instead
    <2> QED
      BY <2>9, <2>10, ShownVersion DEF e
  <1> QED
    BY <1>2, <1>3

\* A step that leaves registry and pages alone is none of AtomicPages.
LEMMA AtomicStutter ==
  ASSUME UNCHANGED shared
  PROVE  UNCHANGED Atomic!vars
  BY DEF shared, Atomic!vars, Live, Gone, ShownPages

\* A step that writes one page leaves the rest of AtomicPages as it is.
LEMMA AtomicOnly ==
  ASSUME SharedOK, UNCHANGED app, NEW g \in Pages, NEW e, page' = [page EXCEPT ![g] = e]
  PROVE  Atomic!Only(g) /\ ShownPages'[g] = Shown(e)
  BY DEF SharedOK, Atomic!Only, ShownPages, Live, Gone

\* A page whose row is written as it looked already.
LEMMA AtomicSame ==
  ASSUME SharedOK, UNCHANGED app, NEW g \in Pages, NEW e, page' = [page EXCEPT ![g] = e],
         Shown(e) = Shown(page[g])
  PROVE  UNCHANGED Atomic!vars
  <1>1. \A h \in Pages : Shown(page'[h]) = Shown(page[h])
    BY DEF SharedOK
  <1>2. ShownPages' = ShownPages
    BY <1>1 DEF ShownPages
  <1> QED
    BY <1>2 DEF Atomic!vars, Live, Gone

\* saveDashboard's transaction edits the page, creates it, or does nothing.
LEMMA CommitAtomic ==
  ASSUME IInv, NEW p \in Procs, SaveDashboardCommit(p)
  PROVE  [Atomic!Next]_Atomic!vars
  <1>1. CASE ~Committable(p)
    BY <1>1, AtomicStutter DEF SaveDashboardCommit, shared
  <1>2. CASE Committable(p)
    <2> DEFINE t == target[p]
               e == [draft[p] EXCEPT !.st = "live", !.rev = @ + 1, !.err = "none"]
    <2>1. pc[p] = "commit" /\ Saving(p)
      BY DEF SaveDashboardCommit, Saving
    <2>2. t \in Pages /\ draft[p] \in PageRecs /\ prev[p] \in PageRecs /\ page[t] \in PageRecs
      BY <2>1 DEF IInv, LocalsOK, SaveOK, LocalTypes, SharedOK
    <2>3. /\ Readable(draft[p]) /\ draft[p].rev = prev[p].rev /\ Current(prev[p], page[t])
          /\ Cardinality(Listed(draft[p])) <= MaxItems /\ Apart(draft[p])
          /\ draft[p].rule # NoRule
               => Listed(prev[p]) \ Listed(draft[p]) \subseteq draft[p].excluded
      BY <2>1 DEF IInv, LocalsOK, SaveOK
    <2>4. page[t].st = prev[p].st /\ page[t].rev = prev[p].rev /\ Listed(draft[p]) \subseteq Live
      BY <1>2 DEF Committable
    <2>5. page' = [page EXCEPT ![t] = e] /\ UNCHANGED app
      BY <1>2 DEF SaveDashboardCommit
    <2>6. /\ e.st = "live" /\ e.rev = draft[p].rev + 1 /\ e.items = draft[p].items
          /\ e.tile = draft[p].tile /\ e.sections = draft[p].sections /\ e.rule = draft[p].rule
          /\ e.autoSection = draft[p].autoSection /\ e.excluded = draft[p].excluded
      BY <2>2 DEF PageRecs
    <2>7. Listed(e) = Listed(draft[p]) /\ Tiled(e) = Tiled(draft[p])
      BY <2>6 DEF Listed, Tiled
    <2> HIDE DEF t, e
    <2>8. Atomic!Only(t) /\ ShownPages'[t] = Shown(e) /\ ShownPages[t] = Shown(page[t])
      BY <2>2, <2>5, AtomicOnly, ShownPagesAt DEF IInv
    <2>12. /\ Atomic!Cards(Shown(e)) = Listed(e) /\ Shown(e).st = e.st
           /\ Shown(e).excluded = e.excluded /\ Shown(e).rev = e.rev
           /\ Shown(e).sections = e.sections /\ Shown(e).dest = e.autoSection
           /\ Shown(e).rule = e.rule
           /\ Shown(page[t]).st = page[t].st /\ Shown(page[t]).rev = page[t].rev
           /\ Atomic!Cards(Shown(page[t])) = Listed(page[t])
      BY ShownFields
    <2>9. Atomic!Storable(Shown(e))
      <3>1. \A a \in Listed(e) : e.tile[a] \in e.sections
        BY <2>3, <2>6, <2>7 DEF Readable, CanNormalize, Tiled
      <3>2. e.autoSection \in e.sections
        BY <2>3, <2>6 DEF Readable, CanNormalize
      <3>3. Listed(e) \cap e.excluded = {}
        BY <2>3, <2>6, <2>7 DEF Apart
      <3>4. \A a \in Listed(e) : Shown(e).cards[a] = e.tile[a]
        BY ShownFields
      <3> QED
        BY <2>3, <2>4, <2>7, <2>12, <3>1, <3>2, <3>3, <3>4, SameCount DEF Atomic!Storable
    <2>10. CASE prev[p].st = "none"
      <3>1. Atomic!Create(t)
        BY <2>4, <2>6, <2>8, <2>9, <2>10, <2>12 DEF Atomic!Create
      <3> QED
        BY <2>2, <3>1 DEF Atomic!Next
    <2>11. CASE prev[p].st = "live"
      <3>1. Contents(prev[p]) = Contents(page[t])
        BY <2>3, <2>4 DEF Current
      <3>2. Listed(prev[p]) = Listed(page[t])
        BY <3>1 DEF Contents, Listed
      <3>3. e.rule # NoRule => Listed(page[t]) \ Listed(e) \subseteq e.excluded
        BY <2>3, <2>6, <2>7, <3>2
      <3>4. Atomic!Edit(t)
        BY <2>3, <2>4, <2>6, <2>8, <2>9, <2>11, <2>12, <3>3 DEF Atomic!Edit
      <3> QED
        BY <2>2, <3>4 DEF Atomic!Next
    <2> QED
      BY <2>2, <2>3, <2>10, <2>11 DEF Current, PageRecs
  <1> QED
    BY <1>1, <1>2

\* One page's part of applyDashboardRules adds cards, or does nothing.
LEMMA RuleWriteAtomic ==
  ASSUME IInv, NEW p \in Procs, NEW g \in Pages,
         RuleWrite(p, g)
  PROVE  [Atomic!Next]_Atomic!vars
  <1> DEFINE d == snapPages[p][g]
  <1>1. UNCHANGED app /\ g \in todo[p]
    BY DEF RuleWrite, RuleEvaluationFails, HitsLimit, HitsRowLimit, AppendRuleMatches
  <1>2. /\ page[g] \in PageRecs /\ d \in PageRecs /\ d.st = "live" /\ d.rule # NoRule
        /\ Current(d, page[g]) /\ Readable(d)
    BY <1>1 DEF IInv, LocalsOK, RulesOK, SharedOK, LocalTypes
  <1>3. CASE UNCHANGED page
    BY <1>1, <1>3, AtomicStutter DEF shared
  <1>4. CASE Unchanged(p, g) /\ \E x \in {"eval", "limit", "rows", "none"} :
                                   page' = [page EXCEPT ![g] = [page[g] EXCEPT !.err = x]]
    <2>1. PICK x \in {"eval", "limit", "rows", "none"} :
                 page' = [page EXCEPT ![g] = [page[g] EXCEPT !.err = x]]
      BY <1>4
    <2> DEFINE e == [page[g] EXCEPT !.err = x]
    <2>2. /\ e.items = page[g].items /\ e.tile = page[g].tile /\ e.st = page[g].st
          /\ e.excluded = page[g].excluded /\ e.sections = page[g].sections
          /\ e.autoSection = page[g].autoSection /\ e.rule = page[g].rule /\ e.rev = page[g].rev
      BY <1>2 DEF PageRecs
    <2> HIDE DEF e
    <2>3. Shown(e) = Shown(page[g])
      BY <2>2 DEF Shown, Listed
    <2> QED
      BY <1>1, <2>1, <2>3, AtomicSame DEF e, IInv
  <1>5. CASE /\ Unchanged(p, g) /\ Added(p, g) # {}
             /\ Cardinality(Listed(d)) + Cardinality(Added(p, g)) <= MaxItems
             /\ \E low \in SUBSET Apps :
                  page' = [page EXCEPT ![g] = WithAdded(d, Added(p, g), low)]
    <2>0. PICK low \in SUBSET Apps : page' = [page EXCEPT ![g] = WithAdded(d, Added(p, g), low)]
      BY <1>5
    <2> DEFINE new == Added(p, g)
               e == WithAdded(d, new, low)
    <2>1. page[g].st = "live" /\ page[g].rev = d.rev /\ Contents(d) = Contents(page[g])
      BY <1>2, <1>5 DEF Unchanged, Current
    <2>2. /\ new \in SUBSET Apps /\ new \subseteq Live
          /\ new \cap Listed(d) = {} /\ new \cap d.excluded = {}
      BY DEF Added, Candidates, Live
    <2>3. /\ e.st = d.st /\ e.rev = d.rev + 1 /\ e.excluded = d.excluded /\ e.rule = d.rule
          /\ e.sections = d.sections /\ e.autoSection = d.autoSection
          /\ \A a \in Apps : e.tile[a] = IF a \in new THEN d.autoSection ELSE d.tile[a]
      BY <1>2 DEF WithAdded, PageRecs
    <2>4. Listed(e) = Listed(d) \cup new /\ Listed(d) \subseteq Apps
      <3>1. Listed(d) \subseteq Apps
        BY DEF Listed
      <3> HIDE DEF d, new
      <3>2. Listed(WithAdded(d, new, low)) = Listed(d) \cup new
        BY <1>2, <2>2, WithAddedRow
      <3> QED
        BY <3>1, <3>2
    <2>5. Shown(d) = Shown(page[g])
      BY <1>2, <2>1 DEF Shown, Contents, Listed
    <2>6. Atomic!Only(g) /\ ShownPages'[g] = Shown(e) /\ ShownPages[g] = Shown(d)
      BY <1>1, <2>0, <2>5, AtomicOnly, ShownPagesAt DEF IInv
    <2>7. Cardinality(Listed(d) \cup new) <= MaxItems
      <3>1. IsFiniteSet(Listed(d)) /\ IsFiniteSet(new)
        BY <2>2, <2>4, FiniteAssumption, FS_Subset
      <3>2. Listed(d) \cap new = {}
        BY <2>2
      <3>3. Cardinality(Listed(d) \cup new)
              = Cardinality(Listed(d)) + Cardinality(new) - Cardinality(Listed(d) \cap new)
        BY <3>1, FS_Union
      <3>4. Cardinality(Listed(d) \cap new) = 0
        BY <3>2, FS_EmptySet
      <3>5. Cardinality(Listed(d)) \in Nat /\ Cardinality(new) \in Nat
        BY <3>1, FS_CardinalityType
      <3> QED
        BY <1>5, <3>3, <3>4, <3>5
    <2> HIDE DEF d, new, e
    <2>8. [a \in Listed(e) |-> e.tile[a]]
            = [a \in Listed(d) \cup new |-> IF a \in new THEN d.autoSection ELSE Shown(d).cards[a]]
      <3>1. \A a \in Listed(d) : Shown(d).cards[a] = d.tile[a]
        BY ShownFields
      <3>2. \A a \in Listed(e) : e.tile[a] = IF a \in new THEN d.autoSection ELSE Shown(d).cards[a]
        BY <2>2, <2>3, <2>4, <3>1
      <3> QED
        BY <2>4, <3>2
    <2>9. Shown(e) = [st |-> d.st, excluded |-> d.excluded, sections |-> d.sections,
                      cards |-> [a \in Listed(d) \cup new |->
                                   IF a \in new THEN d.autoSection ELSE Shown(d).cards[a]],
                      dest |-> d.autoSection, rule |-> d.rule, rev |-> d.rev + 1]
      BY <2>3, <2>8 DEF Shown
    <2>10. Shown(e) = Atomic!Version(Shown(d), [a \in Listed(d) \cup new |->
                         IF a \in new THEN d.autoSection ELSE Shown(d).cards[a]], d.excluded)
      BY <2>9, ShownVersion
    <2>11. /\ Atomic!Cards(Shown(e)) = Listed(e) /\ Atomic!Cards(Shown(d)) = Listed(d)
           /\ Atomic!Mentioned(Shown(d)) = Listed(d) \cup d.excluded
           /\ Shown(d).st = d.st /\ Shown(d).rule = d.rule /\ Shown(d).dest = d.autoSection
           /\ Shown(d).excluded = d.excluded
      BY ShownFields
    <2>12. Atomic!Cards(Shown(e)) \ Atomic!Cards(Shown(d)) = new
      BY <2>2, <2>4, <2>11
    <2>13. new # {} /\ new \subseteq Live \ (Listed(d) \cup d.excluded)
      BY <1>5, <2>2 DEF new
    <2>14. Atomic!Add(g)
      BY <1>2, <2>6, <2>7, <2>10, <2>11, <2>12, <2>13, SameCount DEF Atomic!Add, d
    <2> QED
      BY <2>14 DEF Atomic!Next
  <1> QED
    BY <1>3, <1>4, <1>5, RuleWriteCases

\* Deleting a page.
LEMMA DeleteDashboardAtomic ==
  ASSUME SharedOK, NEW g \in Pages, DeleteDashboard(g)
  PROVE  [Atomic!Next]_Atomic!vars
  <1> DEFINE e == [NoPage EXCEPT !.st = "gone"]
  <1>1. /\ g # Home /\ page[g].st = "live" /\ UNCHANGED app
        /\ page' = [page EXCEPT ![g] = e]
    BY DEF DeleteDashboard
  <1>2. e.st = "gone"
    BY DEF NoPage
  <1> HIDE DEF e
  <1>3. Atomic!Only(g) /\ ShownPages'[g] = Shown(e) /\ ShownPages[g] = Shown(page[g])
    BY <1>1, AtomicOnly, ShownPagesAt
  <1>4. Shown(e).st = "gone" /\ Shown(page[g]).st = "live"
    BY <1>1, <1>2, ShownFields
  <1>5. Atomic!Delete(g)
    BY <1>1, <1>3, <1>4 DEF Atomic!Delete
  <1> QED
    BY <1>5 DEF Atomic!Next

\* Scans, edits and new metadata change the registry only.
LEMMA RegistryAtomic ==
  ASSUME SharedOK, SharedOK', UNCHANGED page,
         \A a \in Apps : /\ app[a].st = "gone" => app'[a].st = "gone"
                         /\ app[a].st = "live" => app'[a].st \in {"live", "gone"}
  PROVE  [Atomic!Next]_Atomic!vars
  <1>1. Gone \subseteq Gone' /\ Live' \cap Gone' = {} /\ Live \subseteq Live' \cup Gone'
    BY DEF Live, Gone
  <1>2. \A g \in LivePages : Listed(page[g]) \subseteq Live'
    BY DEF SharedOK, ItemsExist, LivePages
  <1>3. ASSUME NEW g \in Atomic!LivePages
        PROVE  Atomic!Cards(ShownPages[g]) \subseteq Live'
    <2>1. g \in LivePages /\ g \in Pages
      BY <1>3, ShownPagesAt DEF LivePages
    <2>2. ShownPages[g] = Shown(page[g]) /\ Atomic!Cards(Shown(page[g])) = Listed(page[g])
      BY <2>1, ShownPagesAt, ShownFields
    <2> QED
      BY <1>2, <2>1, <2>2
  <1>4. UNCHANGED ShownPages
    BY DEF ShownPages
  <1>5. Atomic!Register
    BY <1>1, <1>3, <1>4 DEF Atomic!Register
  <1> QED
    BY <1>5 DEF Atomic!Next

\* reconcile, updateApp and refreshApp.
LEMMA ScanAtomic ==
  ASSUME SharedOK, SharedOK', NEW p \in Procs,
         \/ Reconcile(p)
         \/ \E a \in Apps : UpdateApp(p, a) \/ RefreshApp(p, a)
  PROVE  [Atomic!Next]_Atomic!vars
  <1>1. CASE Reconcile(p)
    <2>1. PICK seen \in SUBSET {a \in Apps : app[a].st # "gone"} :
          \E lost \in SUBSET (Live \ seen), fact \in [seen -> Facts] :
          \E pruned \in SUBSET {a \in lost : /\ ~app[a].edited
                                            /\ \A g \in LivePages : a \notin Listed(page[g])} :
            app' = [a \in Apps |-> IF a \in pruned THEN [NoApp EXCEPT !.st = "gone"]
                                   ELSE Observed(seen, lost, fact)[a]]
      BY <1>1 DEF Reconcile
    <2>6. PICK lost \in SUBSET (Live \ seen), fact \in [seen -> Facts] :
          \E pruned \in SUBSET {a \in lost : /\ ~app[a].edited
                                            /\ \A g \in LivePages : a \notin Listed(page[g])} :
            app' = [a \in Apps |-> IF a \in pruned THEN [NoApp EXCEPT !.st = "gone"]
                                   ELSE Observed(seen, lost, fact)[a]]
      BY <2>1
    <2>2. PICK pruned \in SUBSET {a \in lost : /\ ~app[a].edited
                                              /\ \A g \in LivePages : a \notin Listed(page[g])} :
            app' = [a \in Apps |-> IF a \in pruned THEN [NoApp EXCEPT !.st = "gone"]
                                   ELSE Observed(seen, lost, fact)[a]]
      BY <2>6
    <2>3. [NoApp EXCEPT !.st = "gone"].st = "gone"
      BY DEF NoApp
    <2>4. ASSUME NEW a \in Apps
          PROVE  /\ a \in pruned => app[a].st = "live"
                 /\ app[a].st = "gone" => Observed(seen, lost, fact)[a] = app[a]
                 /\ app[a].st = "live" => Observed(seen, lost, fact)[a].st = "live"
      BY DEF Observed, SharedOK, AppRecs, Live
    <2>5. \A a \in Apps : /\ app[a].st = "gone" => app'[a].st = "gone"
                          /\ app[a].st = "live" => app'[a].st \in {"live", "gone"}
      BY <2>2, <2>3, <2>4
    <2> QED
      BY <1>1, <2>5, RegistryAtomic DEF Reconcile
  <1>2. ASSUME NEW a \in Apps, UpdateApp(p, a) \/ RefreshApp(p, a)
        PROVE  [Atomic!Next]_Atomic!vars
    <2>1. \A b \in Apps : app'[b].st = app[b].st
      <3>1. app \in [Apps -> AppRecs]
        BY DEF SharedOK
      <3>2. CASE UpdateApp(p, a)
        <4>1. PICK h \in BOOLEAN, f \in Facts :
                 app' = [app EXCEPT ![a].hidden = h, ![a].edited = TRUE, ![a].fact = f]
          BY <3>2 DEF UpdateApp
        <4> QED
          BY <3>1, <4>1 DEF AppRecs
      <3>3. CASE RefreshApp(p, a)
        <4>1. PICK f \in Facts : app' = [app EXCEPT ![a].fact = f]
          BY <3>3 DEF RefreshApp
        <4> QED
          BY <3>1, <4>1 DEF AppRecs
      <3> QED
        BY <1>2, <3>2, <3>3
    <2> QED
      BY <1>2, <2>1, RegistryAtomic DEF UpdateApp, RefreshApp
  <1> QED
    BY <1>1, <1>2

\* deleteApp takes the app off every page in one step.
LEMMA DeleteAppAtomic ==
  ASSUME SharedOK, NEW a \in Apps, DeleteApp(a)
  PROVE  [Atomic!Next]_Atomic!vars
  <1>1. /\ a \in Live /\ app' = [app EXCEPT ![a] = [NoApp EXCEPT !.st = "gone"]]
        /\ page' = RewriteAll(page, {a}, None)
    BY DEF DeleteApp
  <1>2. app'[a].st = "gone" /\ \A b \in Apps \ {a} : app'[b] = app[b]
    BY <1>1 DEF SharedOK, NoApp
  <1>3. Live' = Live \ {a} /\ Gone' = Gone \cup {a}
    BY <1>2 DEF Live, Gone
  <1>4. ASSUME NEW g \in Pages
        PROVE  ShownPages'[g] = IF g \in LivePages THEN Atomic!Without(ShownPages[g], a)
                                ELSE ShownPages[g]
    <2>1. page'[g] = IF page[g].st = "live" THEN Rewritten(page[g], {a}, None) ELSE page[g]
      BY <1>1 DEF RewriteAll
    <2>2. page[g] \in PageRecs /\ (page[g].st = "live" => Readable(page[g]))
      BY DEF SharedOK
    <2> QED
      BY <2>1, <2>2, ShownPagesAt, ShownWithout DEF LivePages
  <1>5. Atomic!Forget(a)
    BY <1>1, <1>3, <1>4, ShownPagesAt DEF Atomic!Forget
  <1> QED
    BY <1>5 DEF Atomic!Next

\* mergeAliasApps puts the surviving app in place on every page in one step.
LEMMA MergeAtomic ==
  ASSUME SharedOK, NEW p \in Procs, NEW a \in Apps, NEW b \in Apps, ReconcileMerge(p, a, b)
  PROVE  [Atomic!Next]_Atomic!vars
  <1>1. /\ {a, b} \subseteq Live /\ a # b /\ page' = RewriteAll(page, {a, b}, a)
    BY DEF ReconcileMerge
  <1>2. /\ app'[a].st = "live" /\ app'[b].st = "gone"
        /\ \A c \in Apps \ {a, b} : app'[c] = app[c]
    <2>1. PICK f \in Facts :
            app' = [app EXCEPT ![a] = [st |-> "live", present |-> TRUE,
                                       hidden |-> app[a].hidden \/ app[b].hidden,
                                       edited |-> app[a].edited \/ app[b].edited, fact |-> f],
                               ![b] = [NoApp EXCEPT !.st = "gone"]]
      BY DEF ReconcileMerge
    <2> QED
      BY <1>1, <2>1 DEF SharedOK, NoApp
  <1>3. Live' = Live \ {b} /\ Gone' = Gone \cup {b}
    BY <1>1, <1>2 DEF Live, Gone
  <1>4. ASSUME NEW g \in Pages
        PROVE  ShownPages'[g] = IF g \in LivePages THEN Atomic!Instead(ShownPages[g], a, b)
                                ELSE ShownPages[g]
    <2>1. page'[g] = IF page[g].st = "live" THEN Rewritten(page[g], {a, b}, a) ELSE page[g]
      BY <1>1 DEF RewriteAll
    <2>2. page[g] \in PageRecs /\ (page[g].st = "live" => Readable(page[g]))
      BY DEF SharedOK
    <2> QED
      BY <1>1, <2>1, <2>2, ShownPagesAt, ShownInstead DEF LivePages
  <1>5. Atomic!Merge(a, b)
    BY <1>1, <1>3, <1>4, ShownPagesAt DEF Atomic!Merge
  <1> QED
    BY <1>5 DEF Atomic!Next

(***************************************************************************)
(* Whatever overlaps, the pages change as if every save, rule, scan and    *)
(* deletion were one step on the pages of that moment: Dashboards          *)
(* implements AtomicPages.                                                 *)
(***************************************************************************)
THEOREM Refinement == Spec => ChangesAreAtomic
  <1>1. Init => Atomic!Init
    <2> SUFFICES ASSUME Init PROVE Atomic!Init
      OBVIOUS
    <2>1. Live = {} /\ Gone = {}
      BY DEF Init, NoApps, NoApp, Live, Gone
    <2>2. \A g \in Pages : page[g] = IF g = Home THEN [NoPage EXCEPT !.st = "live"] ELSE NoPage
      BY DEF Init
    <2>3. LivePages = {Home} /\ \A g \in Pages : Listed(page[g]) = {}
      BY <2>2, NamesAssumption DEF LivePages, NoPage, Listed
    <2>4. ASSUME NEW g \in Pages PROVE Atomic!Cards(ShownPages[g]) = {}
      <3>1. ShownPages[g] = Shown(page[g])
        BY ShownPagesAt
      <3>2. Atomic!Cards(Shown(page[g])) = Listed(page[g])
        BY ShownFields
      <3> QED
        BY <2>3, <3>1, <3>2
    <2> QED
      BY <2>1, <2>3, <2>4, ShownPagesAt DEF Atomic!Init
  <1>2. ASSUME IInv, [Next]_vars PROVE [Atomic!Next]_Atomic!vars
    <2>1. SharedOK /\ SharedOK'
      BY <1>2, StepInv DEF IInv
    <2>2. CASE UNCHANGED shared
      BY <2>2, AtomicStutter
    <2>3. ASSUME NEW p \in Handlers, SaveStep(p) PROVE [Atomic!Next]_Atomic!vars
      BY <1>2, <2>2, <2>3, CommitAtomic
         DEF SaveStep, LoadDashboard, SaveDashboardRead, SaveDashboardValidate, Procs
    <2>4. ASSUME NEW p \in Handlers, RegistryStep(p) PROVE [Atomic!Next]_Atomic!vars
      BY <2>1, <2>4, ScanAtomic, MergeAtomic DEF RegistryStep, Procs
    <2>5. ASSUME NEW p \in Procs, RulesStep(p) PROVE [Atomic!Next]_Atomic!vars
      BY <1>2, <2>2, <2>5, RuleWriteAtomic
         DEF RulesStep, ApplyRulesReadPages, ApplyRulesReadApps, ApplyRulesReadFacts, RuleWrite
    <2>6. CASE UNCHANGED vars
      BY <2>2, <2>6 DEF vars, shared
    <2> QED
      BY <1>2, <2>1, <2>3, <2>4, <2>5, <2>6, DeleteAppAtomic, DeleteDashboardAtomic DEF Next
  <1> QED
    BY Invariance, <1>1, <1>2, PTL DEF Spec, ChangesAreAtomic, Atomic!Spec
=============================================================================
