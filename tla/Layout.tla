------------------------------- MODULE Layout -------------------------------
(***************************************************************************)
(* The grid of one page: where its cards are, and everybody who moves one. *)
(*                                                                         *)
(* The browser's editor loads the page, turns each gesture into a whole    *)
(* new layout and sends it with the revision it loaded.  The server puts   *)
(* cards that have no tile at the end of the first section, checks the     *)
(* grid and stores it, if the page has not changed.  Rules append cards to *)
(* a copy of their own; merges and deletions of apps rewrite the page in   *)
(* place.                                                                  *)
(*                                                                         *)
(* Abstracted here: the order of sections but for the first and of items,  *)
(* names of sections, rules and exclusions (module Dashboards), and which  *)
(* apps exist.                                                             *)
(***************************************************************************)
EXTENDS Integers, FiniteSets

CONSTANTS
    Apps,
    Sections,    \* section IDs
    Main,        \* the section every page begins with
    None,        \* no tile
    Columns,     \* width of the grid (12)
    MinW, MaxW, MinH, MaxH,  \* sizes of tiles (3, 12, 4, 20)
    NewW, NewH,  \* size of an appended tile (4, 6)
    MaxRow,      \* the last row a tile may begin in (10000)
    Asked,       \* the tiles the grid and the forms of the editor ask for
    Editors,     \* browsers
    Rule,        \* the refresh of the page's rule
    MaxOps       \* bound: gestures, refreshes, merges and deletions

ASSUME SizesAssumption ==
    /\ {Columns, MinW, MaxW, MinH, MaxH, NewW, NewH} \subseteq Nat \ {0}
    /\ MinW <= NewW /\ NewW <= MaxW /\ MaxW <= Columns
    /\ MinH <= NewH /\ NewH <= MaxH
    /\ MaxRow \in Nat /\ MaxOps \in Nat
ASSUME NamesAssumption == Main \in Sections /\ Rule \notin Editors /\ None \notin Sections
ASSUME FiniteAssumption == IsFiniteSet(Apps)

Tiles == [section : Sections, x : Nat, y : Nat, w : 1..Columns, h : 1..MaxH]
ASSUME AskedAssumption ==
    /\ Asked \subseteq Tiles
    /\ \A t \in Asked : t.y <= MaxRow /\ t.w \in MinW..MaxW /\ t.h \in MinH..MaxH
NoTile == [section |-> None, x |-> 0, y |-> 0, w |-> 1, h |-> 1]
Layouts == [Apps -> Tiles \cup {NoTile}]
Pages == [items : SUBSET Apps, tiles : Layouts, sections : SUBSET Sections,
          first : Sections, auto : Sections, rev : Nat]

\* A page, with a tile for app a.
Put(d, a, t) == [d EXCEPT !.tiles[a] = t]

Placed(tiles) == {a \in Apps : tiles[a] # NoTile}

TilesOverlap(s, t) == /\ s.section = t.section
                      /\ s.x < t.x + t.w /\ s.x + s.w > t.x
                      /\ s.y < t.y + t.h /\ s.y + s.h > t.y

\* Nothing but the tile of app a, if it has one, is in the way of t.
Free(tiles, t, a) == \A b \in Placed(tiles) \ {a} : ~TilesOverlap(t, tiles[b])

(***************************************************************************)
(* appendTile: the first gap at the end of a section.                      *)
(***************************************************************************)
Ends(tiles, s) == {tiles[a].y + tiles[a].h : a \in {b \in Placed(tiles) : tiles[b].section = s}}
Bottom(tiles, s) == CHOOSE n \in Ends(tiles, s) \cup {0} : \A m \in Ends(tiles, s) : m <= n

NewTile(s, x, y) == [section |-> s, x |-> x, y |-> y, w |-> NewW, h |-> NewH]
NewColumns == {x \in 0..(Columns - NewW) : x % NewW = 0}

\* The gaps in the row y, the leftmost first.
Gaps(tiles, s, y) == {x \in NewColumns : \A b \in Placed(tiles) : ~TilesOverlap(NewTile(s, x, y), tiles[b])}
Leftmost(S) == CHOOSE x \in S : \A z \in S : x <= z

\* AppendTile, if it looked for a gap in the last rows alone.
AppendInLastRows(tiles, s) ==
    LET bottom == Bottom(tiles, s)
        above == IF bottom > NewH THEN bottom - NewH ELSE 0
    IN  IF Gaps(tiles, s, above) # {} THEN NewTile(s, Leftmost(Gaps(tiles, s, above)), above)
        ELSE NewTile(s, 0, above)

AppendTile(tiles, s) ==
    LET bottom == Bottom(tiles, s)
        above == IF bottom > NewH THEN bottom - NewH ELSE 0
    IN  IF Gaps(tiles, s, above) # {} THEN NewTile(s, Leftmost(Gaps(tiles, s, above)), above)
        ELSE IF Gaps(tiles, s, bottom) # {} THEN NewTile(s, Leftmost(Gaps(tiles, s, bottom)), bottom)
        ELSE NewTile(s, 0, bottom)

(***************************************************************************)
(* placeTile: pushed into the grid, then down until nothing is in the way. *)
(***************************************************************************)
Clamped(t) == [t EXCEPT !.x = IF t.x + t.w <= Columns THEN t.x ELSE Columns - t.w]
At(t, y) == [t EXCEPT !.y = y]
FreeRows(tiles, t, a) == {y \in t.y..MaxRow : Free(tiles, At(t, y), a)}

\* PlaceTile, if the tile stayed where it is asked to be.
PlaceHere(tiles, t, a) == Clamped(t)

PlaceTile(tiles, t, a) ==
    LET c == Clamped(t)
        rows == FreeRows(tiles, c, a)
    IN  IF rows # {} THEN At(c, CHOOSE y \in rows : \A z \in rows : y <= z)
        ELSE At(c, MaxRow)

(***************************************************************************)
(* What normalizeLayout checks of a page.                                  *)
(***************************************************************************)
InGrid(d, t) == /\ t.section \in d.sections /\ t.y <= MaxRow
                /\ t.w \in MinW..MaxW /\ t.h \in MinH..MaxH /\ t.x + t.w <= Columns

TilesInGrid(d) == \A a \in Placed(d.tiles) : InGrid(d, d.tiles[a])
NoOverlaps(d) == \A a, b \in Placed(d.tiles) : a # b => ~TilesOverlap(d.tiles[a], d.tiles[b])

\* Accepted, if the cards were not compared with each other.
AcceptedInGrid(d) == TilesInGrid(d) /\ d.auto \in d.sections

Accepted(d) == TilesInGrid(d) /\ NoOverlaps(d) /\ d.auto \in d.sections

\* Tiles of apps that are not on the page go.
Trimmed(d) == [d EXCEPT !.tiles = [a \in Apps |-> IF a \in d.items THEN @[a] ELSE NoTile]]

-----------------------------------------------------------------------------
VARIABLES
    row,     \* the stored page
    proc,    \* per editor, and for the rule: a step, what it read, what it writes
    ops      \* operations so far

vars == <<row, proc, ops>>
Procs == Editors \cup {Rule}

(***************************************************************************)
(* "edit": the browser shows the page.  "moving": removeSection places the *)
(* cards of a section one by one.  "sent", "dragged": a layout the editor, *)
(* or the grid, made is on its way.  "fill", "commit": the server places   *)
(* new cards, is about to store.  "reload": the browser fetches the page   *)
(* again after any answer.                                                 *)
(***************************************************************************)
Steps == {"idle", "edit", "moving", "sent", "dragged", "fill", "commit", "reload"}
ProcRecs == [st : Steps, page : Pages, draft : Pages, todo : SUBSET Apps]

EmptyPage == [items |-> {}, tiles |-> [a \in Apps |-> NoTile], sections |-> {Main},
              first |-> Main, auto |-> Main, rev |-> 1]

Init == /\ row = EmptyPage
        /\ proc = [p \in Procs |-> [st |-> "idle", page |-> EmptyPage, draft |-> EmptyPage, todo |-> {}]]
        /\ ops = 0

Count == ops < MaxOps /\ ops' = ops + 1
Goto(p, st, page, draft, todo) ==
    proc' = [proc EXCEPT ![p] = [st |-> st, page |-> page, draft |-> draft, todo |-> todo]]

\* An answer, or the end of a refresh: what was to be written is forgotten.
Done(p) == IF p = Rule THEN Goto(p, "idle", EmptyPage, EmptyPage, {})
           ELSE Goto(p, "reload", proc[p].page, proc[p].page, {})

\* The browser sends a whole page, with the revision it loaded.
Send(e, st, draft) ==
    /\ proc[e].st = "edit" /\ Count
    /\ Goto(e, st, proc[e].page, draft, {})
    /\ UNCHANGED row
-----------------------------------------------------------------------------
(***************************************************************************)
(* The editor.  Cards are edited only on the page as it was loaded last.   *)
(***************************************************************************)
Load(e) ==
    /\ proc[e].st \in {"idle", "edit", "reload"}
    /\ Goto(e, "edit", row, row, {})
    /\ UNCHANGED <<row, ops>>

\* The page cannot be fetched: the editor goes back to what it loaded before.
LoadFails(e) ==
    /\ proc[e].st = "reload"
    /\ Goto(e, "edit", proc[e].page, proc[e].page, {})
    /\ UNCHANGED <<row, ops>>

\* "Size & position", or a drop on another section.
EditTile(e, a, t) ==
    LET d == proc[e].page
    IN  /\ d.tiles[a] # NoTile /\ t.section \in d.sections
        /\ LET placed == PlaceTile(d.tiles, t, a)
           IN  Send(e, "sent", Put(d, a, placed))

MoveToSection(e, a, s) ==
    LET d == proc[e].page
    IN  /\ d.tiles[a] # NoTile /\ s \in d.sections /\ d.tiles[a].section # s
        /\ LET placed == PlaceTile(d.tiles, [d.tiles[a] EXCEPT !.section = s, !.x = 0, !.y = 0], a)
           IN  Send(e, "sent", Put(d, a, placed))

\* The grid library moves or resizes a card of a section.  What the card
\* covers then stays there, or is pushed below it.
Push(d, a, t) ==
    [d EXCEPT !.tiles = [b \in Apps |->
        IF b \in Placed(d.tiles) \ {a} /\ TilesOverlap(t, d.tiles[b])
        THEN At(d.tiles[b], t.y + t.h) ELSE d.tiles[b]]]

GridChange(e, a, t) ==
    LET d == proc[e].page
    IN  /\ d.tiles[a] # NoTile /\ t.section = d.tiles[a].section
        /\ t.x + t.w <= Columns
        /\ \/ Send(e, "dragged", Put(d, a, t))
           \/ Send(e, "dragged", Put(Push(d, a, t), a, t))

AddSection(e, s) ==
    LET d == proc[e].page
    IN  s \notin d.sections /\ Send(e, "sent", [d EXCEPT !.sections = @ \cup {s}])

MoveSection(e, s) ==
    LET d == proc[e].page
    IN  s \in d.sections \ {d.first} /\ Send(e, "sent", [d EXCEPT !.first = s])

RemoveSection(e, s, first) ==
    LET d == proc[e].page
        kept == d.sections \ {s}
        moving == {a \in Placed(d.tiles) : d.tiles[a].section = s}
        tiles == [a \in Apps |-> IF a \in moving THEN NoTile ELSE d.tiles[a]]
    IN  /\ proc[e].st = "edit" /\ Count
        /\ s \in d.sections /\ first \in kept /\ (d.first # s => first = d.first)
        /\ Goto(e, "moving", d, [d EXCEPT !.sections = kept, !.first = first, !.tiles = tiles,
                                          !.auto = IF @ = s THEN first ELSE @], moving)
        /\ UNCHANGED row

PlaceMoved(e, a) ==
    LET p == proc[e]
        t == PlaceTile(p.draft.tiles,
                       [p.page.tiles[a] EXCEPT !.section = p.draft.first, !.x = 0, !.y = 0], a)
    IN  /\ p.st = "moving" /\ a \in p.todo
        /\ Goto(e, "moving", p.page, Put(p.draft, a, t), p.todo \ {a})
        /\ UNCHANGED <<row, ops>>

SendMoved(e) ==
    /\ proc[e].st = "moving" /\ proc[e].todo = {}
    /\ Goto(e, "sent", proc[e].page, proc[e].draft, {})
    /\ UNCHANGED <<row, ops>>

\* "Choose apps": a new list, with the layout as it was loaded.
ChooseApps(e, items) == Send(e, "sent", [proc[e].page EXCEPT !.items = items])
-----------------------------------------------------------------------------
(***************************************************************************)
(* saveDashboard, as far as the grid goes.                                 *)
(***************************************************************************)
Receive(e) ==
    LET p == proc[e]
        d == Trimmed(p.draft)
    IN  /\ p.st \in {"sent", "dragged"}
        /\ IF p.page.rev # row.rev \/ ~TilesInGrid(d)
           THEN Done(e)
           ELSE Goto(e, "fill", p.page, d, d.items \ Placed(d.tiles))
        /\ UNCHANGED <<row, ops>>

\* normalizeLayout appends a card that has no tile, here and for rules.
Fill(p, a) ==
    LET r == proc[p]
        s == IF p = Rule THEN r.draft.auto ELSE r.draft.first
    IN  /\ r.st = "fill" /\ a \in r.todo
        /\ Goto(p, "fill", r.page,
                [Put(r.draft, a, AppendTile(r.draft.tiles, s)) EXCEPT !.items = @ \cup {a}],
                r.todo \ {a})
        /\ UNCHANGED <<row, ops>>

Check(p) ==
    LET r == proc[p]
    IN  /\ r.st = "fill" /\ r.todo = {}
        /\ IF Accepted(r.draft) THEN Goto(p, "commit", r.page, r.draft, {})
           ELSE Done(p)
        /\ UNCHANGED <<row, ops>>

\* Store, if the update did not ask for the revision.
StoreAnyway(p) ==
    LET r == proc[p]
    IN  /\ r.st = "commit"
        /\ row' = [r.draft EXCEPT !.rev = row.rev + 1]
        /\ Done(p)
        /\ UNCHANGED ops

Store(p) ==
    LET r == proc[p]
    IN  /\ r.st = "commit"
        /\ row' = IF row.rev = r.page.rev THEN [r.draft EXCEPT !.rev = row.rev + 1] ELSE row
        /\ Done(p)
        /\ UNCHANGED ops

\* A refresh of the rule reads the page and adds what matches.
ReadRule(matches) ==
    /\ proc[Rule].st = "idle" /\ Count
    /\ matches \ row.items # {}
    /\ Goto(Rule, "fill", row, row, matches \ row.items)
    /\ UNCHANGED row

(***************************************************************************)
(* rewriteDashboardReferences: of the tiles of the apps ids, the one of    *)
(* the canonical app stays, or the first there is.                         *)
(***************************************************************************)
Rewrite(ids, canonical, from) ==
    /\ Count /\ canonical \in ids /\ ids # {canonical}
    /\ from \in ids \cap row.items /\ (canonical \in row.items => from = canonical)
    /\ row' = [row EXCEPT !.items = (@ \ ids) \cup {canonical}, !.rev = @ + 1,
                          !.tiles = [a \in Apps |-> IF a = canonical THEN row.tiles[from]
                                                    ELSE IF a \in ids THEN NoTile
                                                    ELSE row.tiles[a]]]
    /\ UNCHANGED proc

Delete(a) ==
    /\ Count /\ a \in row.items
    /\ row' = [row EXCEPT !.items = @ \ {a}, !.tiles[a] = NoTile, !.rev = @ + 1]
    /\ UNCHANGED proc

Next ==
    \/ \E e \in Editors : \/ Load(e)
                          \/ LoadFails(e)
                          \/ \E a \in Apps, t \in Asked : EditTile(e, a, t) \/ GridChange(e, a, t)
                          \/ \E a \in Apps, s \in Sections : MoveToSection(e, a, s)
                          \/ \E s \in Sections : AddSection(e, s) \/ MoveSection(e, s)
                          \/ \E s, first \in Sections : RemoveSection(e, s, first)
                          \/ \E a \in Apps : PlaceMoved(e, a)
                          \/ SendMoved(e)
                          \/ \E items \in SUBSET Apps : ChooseApps(e, items)
                          \/ Receive(e)
    \/ \E p \in Procs : (\E a \in Apps : Fill(p, a)) \/ Check(p) \/ Store(p)
    \/ \E matches \in SUBSET Apps : ReadRule(matches)
    \/ \E ids \in SUBSET Apps, canonical, from \in Apps : Rewrite(ids, canonical, from)
    \/ \E a \in Apps : Delete(a)

Spec == Init /\ [][Next]_vars
-----------------------------------------------------------------------------
TypeOK == /\ row \in Pages
          /\ proc \in [Procs -> ProcRecs]
          /\ ops \in 0..MaxOps

(***************************************************************************)
(* A stored page can be shown, and read again: every card, and nothing     *)
(* else, has a tile; tiles are inside the grid, in sections there are, and *)
(* none covers another.  (dashboards() fails for every page of the         *)
(* installation when one does not pass normalizeLayout.)                   *)
(***************************************************************************)
GridOK == /\ Placed(row.tiles) = row.items
          /\ TilesInGrid(row) /\ NoOverlaps(row)
          /\ row.auto \in row.sections /\ row.first \in row.sections

(***************************************************************************)
(* The editor and the server agree about layouts: what editTile,           *)
(* moveToSection and removeSection send is inside the grid, and cards      *)
(* overlap only where placeTile found no room above the last row.          *)
(***************************************************************************)
OverlapsInLastRow(d) ==
    \A a, b \in Placed(d.tiles) :
        a # b /\ TilesOverlap(d.tiles[a], d.tiles[b]) => d.tiles[a].y = MaxRow \/ d.tiles[b].y = MaxRow

EditsFit == \A e \in Editors :
                proc[e].st = "sent" => TilesInGrid(proc[e].draft) /\ OverlapsInLastRow(proc[e].draft)

(***************************************************************************)
(* appendRuleMatches refuses a page for want of rows only if the cards it  *)
(* adds, as many in a row as there are columns for them, would not fit     *)
(* between the end of the lowest card in the rule's own section and the    *)
(* last row.  What else is on the page does not matter, nor do the gaps    *)
(* above that card: one card in the last row is enough to be refused.      *)
(* (A section that ends within the first NewH rows counts as NewH high:    *)
(* the first of the new cards may stand beside its cards.)                 *)
(***************************************************************************)
FirstRow(tiles, s) == LET bottom == Bottom(tiles, s)
                      IN  IF bottom \in 1..NewH THEN NewH ELSE bottom

RoomBelow(d, n) == \E rows \in 1..n :
                       /\ Cardinality(NewColumns) * rows >= n
                       /\ FirstRow(d.tiles, d.auto) + NewH * (rows - 1) <= MaxRow

RuleRefusedAtLimit ==
    [][proc[Rule].st = "fill" /\ proc'[Rule].st = "idle"
       => ~RoomBelow(proc[Rule].page,
                     Cardinality(proc[Rule].draft.items \ proc[Rule].page.items))]_vars

(***************************************************************************)
(* No writer undoes the work of another: a card, or a section, a save or a *)
(* rule did not change stays as it is at that moment, even though the      *)
(* whole layout is sent and stored.                                        *)
(***************************************************************************)
UntouchedStay ==
    [][\A p \in Procs : Store(p) =>
           /\ \A a \in Apps : proc[p].draft.tiles[a] = proc[p].page.tiles[a] => row'.tiles[a] = row.tiles[a]
           /\ row.sections \ (proc[p].page.sections \ proc[p].draft.sections) \subseteq row'.sections]_vars
=============================================================================
