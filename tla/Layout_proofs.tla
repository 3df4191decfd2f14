---------------------------- MODULE Layout_proofs ----------------------------
(***************************************************************************)
(* The grid, proved: for every number of apps and sections, every size of  *)
(* the grid and every number of editors, no stored page has a card outside *)
(* it or two cards in one place, and no save undoes another.               *)
(***************************************************************************)
EXTENDS Layout, TLAPS, FiniteSetTheorems, WellFoundedInduction

-----------------------------------------------------------------------------
(***************************************************************************)
(* Least and greatest numbers: what CHOOSE finds in Bottom, Leftmost and   *)
(* PlaceTile.                                                              *)
(***************************************************************************)
Less == {ss \in Nat \X Nat : ss[1] < ss[2]}

LEMMA LessWellFounded == IsWellFoundedOn(Less, Nat)
  BY NatLessThanWellFounded DEF OpToRel, Less

LEMMA LeastExists ==
  ASSUME NEW S \in SUBSET Nat, S # {}
  PROVE  \E i \in S : \A j \in S : i <= j
<1>1. PICK i \in S : \A j \in S : ~(<<j, i>> \in Less)
  BY WFMin, LessWellFounded, Zenon
<1>2. ASSUME NEW j \in S, ~(i <= j) PROVE FALSE
  <2>1. j \in Nat /\ i \in Nat /\ j < i
    BY <1>2
  <2>2. <<j, i>> \in Less
    BY <2>1 DEF Less
  <2> QED BY <2>2, <1>1
<1> QED BY <1>2

\* A finite set of numbers has a bound: the first element to exceed all of them cannot be.
LEMMA BoundExists ==
  ASSUME NEW S \in SUBSET Nat, IsFiniteSet(S)
  PROVE  \E n \in Nat : \A i \in S : i <= n
<1>0. PICK k \in Nat : ExistsSurjection(1..k, S)
  BY FS_NatSurjection
<1>1. PICK f \in [1..k -> Nat] : \A i \in S : \E j \in 1..k : f[j] = i
  BY <1>0 DEF ExistsSurjection, Surjection
<1>2. k \in Nat /\ \A j \in 1..k : f[j] \in Nat
  BY <1>0, <1>1
<1> DEFINE bad == {m \in 0..k : \A n \in Nat : \E j \in 1..m : n < f[j]}
<1>3. bad \in SUBSET Nat
  OBVIOUS
<1>4. \A m \in bad : m \in 0..k /\ \A n \in Nat : \E j \in 1..m : n < f[j]
  OBVIOUS
<1>5. \A m \in (0..k) \ bad : \E n \in Nat : \A j \in 1..m : ~(n < f[j])
  OBVIOUS
<1> HIDE DEF bad
<1>6. ASSUME bad # {} PROVE FALSE
  <2>1. PICK m \in bad : \A l \in bad : m <= l
    BY <1>3, <1>6, LeastExists, Zenon
  <2>2. m \in 0..k /\ \A n \in Nat : \E j \in 1..m : n < f[j]
    BY <1>4, <2>1
  <2>3. m \in 1..k
    <3>1. \E j \in 1..m : 0 < f[j]
      BY <2>2
    <3> QED BY <1>2, <2>2, <3>1
  <2>4. m - 1 \in 0..k /\ m - 1 \notin bad
    BY <1>2, <2>1, <2>2, <2>3
  <2>5. PICK n \in Nat : \A j \in 1..(m - 1) : ~(n < f[j])
    BY <1>5, <2>4
  <2>6. f[m] \in Nat
    BY <2>3, <1>2
  <2>7. PICK j \in 1..m : n + f[m] < f[j]
    <3>1. n + f[m] \in Nat
      BY <2>5, <2>6
    <3> QED BY <2>2, <3>1
  <2>8. f[j] \in Nat /\ (j = m \/ j \in 1..(m - 1))
    <3>1. j \in 1..m /\ m \in 1..k /\ k \in Nat
      BY <1>0, <2>3, <2>7
    <3>2. j \in 1..k
      BY <3>1
    <3> QED BY <3>1, <3>2, <1>2
  <2>9. CASE j = m
    BY <2>6, <2>7, <2>9
  <2>10. CASE j \in 1..(m - 1)
    <3>1. ~(n < f[j])
      BY <2>5, <2>10
    <3> QED BY <2>5, <2>6, <2>7, <2>8, <3>1
  <2> QED BY <2>8, <2>9, <2>10
<1>7. k \in 0..k /\ k \notin bad
  BY <1>2, <1>6
<1>8. PICK n \in Nat : \A j \in 1..k : ~(n < f[j])
  BY <1>5, <1>7
<1>9. \A i \in S : i <= n
  BY <1>1, <1>2, <1>8
<1> QED BY <1>9

LEMMA GreatestExists ==
  ASSUME NEW S \in SUBSET Nat, IsFiniteSet(S)
  PROVE  \E n \in S \cup {0} : \A m \in S : m <= n
<1> DEFINE bounds == {n \in Nat : \A i \in S : i <= n}
<1>1. bounds \in SUBSET Nat /\ bounds # {}
  BY BoundExists
<1> HIDE DEF bounds
<1>2. PICK n \in bounds : \A m \in bounds : n <= m
  BY <1>1, LeastExists, Zenon
<1> USE DEF bounds
<1>3. CASE n \in S \cup {0}
  BY <1>2, <1>3
<1>4. CASE n \notin S \cup {0}
  <2>1. n - 1 \in Nat
    BY <1>4
  <2>2. \A i \in S : i <= n - 1
    BY <1>4
  <2>3. n - 1 \in bounds
    BY <2>1, <2>2
  <2> QED BY <2>3, <1>2
<1> QED BY <1>3, <1>4
-----------------------------------------------------------------------------
(***************************************************************************)
(* appendTile and placeTile.                                               *)
(***************************************************************************)
LEMMA Sizes ==
  /\ Columns \in Nat /\ MinW \in Nat /\ MaxW \in Nat /\ MinH \in Nat /\ MaxH \in Nat
  /\ NewW \in Nat /\ NewH \in Nat /\ MaxRow \in Nat /\ MaxOps \in Nat
  /\ 1 <= Columns /\ 1 <= MinW /\ 1 <= MinH /\ 1 <= NewW /\ 1 <= NewH
  /\ MinW <= NewW /\ NewW <= MaxW /\ MaxW <= Columns /\ MinH <= NewH /\ NewH <= MaxH
  BY SizesAssumption

LEMMA TileFields ==
  ASSUME NEW t \in Tiles
  PROVE  /\ t.section \in Sections /\ t.x \in Nat /\ t.y \in Nat
         /\ t.w \in 1..Columns /\ t.h \in 1..MaxH /\ t.w \in Nat /\ t.h \in Nat
         /\ t # NoTile
  BY Sizes, NamesAssumption DEF Tiles, NoTile

LEMMA PlacedAreTiles ==
  ASSUME NEW tiles \in Layouts
  PROVE  /\ \A a \in Placed(tiles) : a \in Apps /\ tiles[a] \in Tiles
         /\ \A a \in Apps : a \notin Placed(tiles) => tiles[a] = NoTile
  BY DEF Layouts, Placed

LEMMA OverlapSymmetric ==
  ASSUME NEW s \in Tiles, NEW t \in Tiles, TilesOverlap(s, t)
  PROVE  TilesOverlap(t, s)
<1>1. /\ s.x \in Nat /\ s.y \in Nat /\ s.w \in Nat /\ s.h \in Nat
      /\ t.x \in Nat /\ t.y \in Nat /\ t.w \in Nat /\ t.h \in Nat
  BY TileFields
<1> QED BY <1>1 DEF TilesOverlap

\* Bottom is the greatest end of a tile of the section, if there is one.
LEMMA BottomEnds ==
  ASSUME NEW tiles \in Layouts, NEW s \in Sections
  PROVE  /\ Ends(tiles, s) \in SUBSET Nat
         /\ Bottom(tiles, s) \in Ends(tiles, s) \cup {0}
         /\ \A m \in Ends(tiles, s) : m <= Bottom(tiles, s)
<1> DEFINE here == {b \in Placed(tiles) : tiles[b].section = s}
           end == [a \in here |-> tiles[a].y + tiles[a].h]
<1>1. here \subseteq Apps /\ \A a \in here : tiles[a] \in Tiles
  BY PlacedAreTiles
<1>2. IsFiniteSet(here)
  BY <1>1, FiniteAssumption, FS_Subset
<1>3. \A a \in here : tiles[a].y + tiles[a].h \in Nat
  BY <1>1, TileFields
<1>4. Ends(tiles, s) \in SUBSET Nat
  BY <1>3 DEF Ends
<1>5. end \in Surjection(here, Ends(tiles, s))
  BY DEF Surjection, Ends
<1>6. IsFiniteSet(Ends(tiles, s))
  BY <1>2, <1>5, FS_Surjection
<1>7. \E n \in Ends(tiles, s) \cup {0} : \A m \in Ends(tiles, s) : m <= n
  BY <1>4, <1>6, GreatestExists
<1> QED BY <1>4, <1>7 DEF Bottom

\* Bottom is below every tile of the section.
LEMMA BottomBelow ==
  ASSUME NEW tiles \in Layouts, NEW s \in Sections
  PROVE  /\ Bottom(tiles, s) \in Nat
         /\ \A a \in Placed(tiles) :
                tiles[a].section = s => tiles[a].y + tiles[a].h <= Bottom(tiles, s)
  BY BottomEnds DEF Ends

\* What appendTile returns is inside the grid and covers no other tile.
LEMMA AppendedFits ==
  ASSUME NEW tiles \in Layouts, NEW s \in Sections
  PROVE  LET t == AppendTile(tiles, s)
         IN  /\ t \in Tiles /\ t.section = s
             /\ t.w \in MinW..MaxW /\ t.h \in MinH..MaxH /\ t.x + t.w <= Columns
             /\ \A b \in Placed(tiles) : ~TilesOverlap(t, tiles[b])
<1> DEFINE bottom == Bottom(tiles, s)
           above == IF bottom > NewH THEN bottom - NewH ELSE 0
           t == AppendTile(tiles, s)
           Good(u) == /\ u \in Tiles /\ u.section = s
                      /\ u.w \in MinW..MaxW /\ u.h \in MinH..MaxH /\ u.x + u.w <= Columns
                      /\ \A b \in Placed(tiles) : ~TilesOverlap(u, tiles[b])
<1>1. bottom \in Nat /\ above \in Nat
  BY BottomBelow, Sizes
<1>2. ASSUME NEW y \in Nat, NEW x \in 0..(Columns - NewW)
      PROVE  LET u == NewTile(s, x, y)
             IN  /\ u \in Tiles /\ u.section = s /\ u.y = y /\ u.x = x
                 /\ u.w \in MinW..MaxW /\ u.h \in MinH..MaxH /\ u.x + u.w <= Columns
  BY Sizes DEF NewTile, Tiles
<1>3. ASSUME NEW y \in Nat, Gaps(tiles, s, y) # {}
      PROVE  Good(NewTile(s, Leftmost(Gaps(tiles, s, y)), y))
  <2>1. Gaps(tiles, s, y) \in SUBSET Nat /\ Gaps(tiles, s, y) \subseteq 0..(Columns - NewW)
    BY DEF Gaps, NewColumns
  <2>2. \E x \in Gaps(tiles, s, y) : \A z \in Gaps(tiles, s, y) : x <= z
    BY <1>3, <2>1, LeastExists
  <2>3. Leftmost(Gaps(tiles, s, y)) \in Gaps(tiles, s, y)
    BY <2>2 DEF Leftmost
  <2> QED BY <1>2, <2>1, <2>3 DEF Gaps
<1>4. Good(NewTile(s, 0, bottom))
  <2> DEFINE u == NewTile(s, 0, bottom)
  <2>1. 0 \in 0..(Columns - NewW)
    BY Sizes
  <2>2. /\ u \in Tiles /\ u.section = s /\ u.y = bottom
        /\ u.w \in MinW..MaxW /\ u.h \in MinH..MaxH /\ u.x + u.w <= Columns
    BY <1>1, <1>2, <2>1
  <2>3. ASSUME NEW b \in Placed(tiles) PROVE ~TilesOverlap(u, tiles[b])
    <3>1. tiles[b].section = s => tiles[b].y + tiles[b].h <= bottom
      BY BottomBelow
    <3>2. tiles[b].y \in Nat /\ tiles[b].h \in Nat
      BY PlacedAreTiles, TileFields
    <3> HIDE DEF u, bottom
    <3> QED BY <1>1, <2>2, <3>1, <3>2 DEF TilesOverlap
  <2> QED BY <2>2, <2>3
<1>5. Good(t)
  <2> HIDE DEF Good
  <2> QED BY <1>1, <1>3, <1>4 DEF AppendTile
<1> QED BY <1>5

\* What placeTile returns is inside the grid; it covers another tile only in the last row.
LEMMA PlacedFits ==
  ASSUME NEW tiles \in Layouts, NEW a \in Apps, NEW t \in Tiles,
         t.y <= MaxRow, t.w \in MinW..MaxW, t.h \in MinH..MaxH
  PROVE  LET p == PlaceTile(tiles, t, a)
         IN  /\ p \in Tiles /\ p.section = t.section /\ p.y <= MaxRow
             /\ p.w \in MinW..MaxW /\ p.h \in MinH..MaxH /\ p.x + p.w <= Columns
             /\ p.y = MaxRow \/ Free(tiles, p, a)
<1> DEFINE c == Clamped(t)
           rows == FreeRows(tiles, c, a)
           p == PlaceTile(tiles, t, a)
           Good(u) == /\ u \in Tiles /\ u.section = t.section /\ u.y <= MaxRow
                      /\ u.w \in MinW..MaxW /\ u.h \in MinH..MaxH /\ u.x + u.w <= Columns
<1>1. /\ t.x \in Nat /\ t.y \in Nat /\ t.w \in Nat /\ t.h \in Nat /\ t.section \in Sections
  BY TileFields
<1>2. ASSUME NEW y \in 0..MaxRow PROVE Good(At(c, y)) /\ At(c, y).y = y
  <2> DEFINE x == IF t.x + t.w <= Columns THEN t.x ELSE Columns - t.w
  <2>1. x \in Nat /\ x + t.w <= Columns
    BY <1>1, Sizes
  <2>2. At(c, y) = [section |-> t.section, x |-> x, y |-> y, w |-> t.w, h |-> t.h]
    <3> HIDE DEF x
    <3>1. t = [section |-> t.section, x |-> t.x, y |-> t.y, w |-> t.w, h |-> t.h]
      BY DEF Tiles
    <3>2. c = [t EXCEPT !.x = x]
      BY DEF Clamped, x
    <3>3. c = [section |-> t.section, x |-> x, y |-> t.y, w |-> t.w, h |-> t.h]
      <4> HIDE DEF c
      <4> QED BY <3>1, <3>2
    <3> HIDE DEF c
    <3> QED BY <3>3 DEF At
  <2> HIDE DEF x
  <2> QED BY <1>1, <2>1, <2>2, Sizes DEF Tiles
<1>3. CASE rows # {}
  <2>1. rows \subseteq 0..MaxRow /\ rows \in SUBSET Nat
    BY <1>1, Sizes DEF FreeRows, Clamped, Tiles
  <2>2. \E y \in rows : \A z \in rows : y <= z
    BY <1>3, <2>1, LeastExists
  <2> DEFINE y0 == CHOOSE y \in rows : \A z \in rows : y <= z
  <2>3. y0 \in rows
    BY <2>2
  <2>4. p = At(c, y0)
    BY <1>3 DEF PlaceTile
  <2>5. Free(tiles, At(c, y0), a)
    BY <2>3 DEF FreeRows
  <2> QED BY <1>2, <2>1, <2>3, <2>4, <2>5
<1>4. CASE rows = {}
  <2>1. p = At(c, MaxRow) /\ MaxRow \in 0..MaxRow
    BY <1>4, Sizes DEF PlaceTile
  <2> QED BY <1>2, <2>1
<1> QED BY <1>3, <1>4
-----------------------------------------------------------------------------
(***************************************************************************)
(* The inductive invariant.  GridOK needs that what is about to be stored  *)
(* passed the check, and that what is being filled has a tile, or is about *)
(* to get one, for each of its cards.  UntouchedStay needs that a revision *)
(* names one page: a page of the revision of the row is the row.           *)
(***************************************************************************)
PageFits(d) == /\ Placed(d.tiles) = d.items
               /\ TilesInGrid(d) /\ NoOverlaps(d)
               /\ d.auto \in d.sections /\ d.first \in d.sections

\* The grid, but for its last row.
ColumnsFit(d) == \A a \in Placed(d.tiles) :
                     LET t == d.tiles[a]
                     IN  /\ t.section \in d.sections /\ t.x + t.w <= Columns
                         /\ t.w \in MinW..MaxW /\ t.h \in MinH..MaxH

Current(r, d) == r.page.rev <= d.rev /\ (r.page.rev = d.rev => r.page = d)

MovingOK(r) == /\ r.draft.first \in r.draft.sections
               /\ TilesInGrid(r.draft) /\ OverlapsInLastRow(r.draft)
               /\ r.todo \subseteq Placed(r.page.tiles)
SentOK(r) == /\ r.draft.first \in r.draft.sections
             /\ TilesInGrid(r.draft) /\ OverlapsInLastRow(r.draft)
FillOK(p, r) == /\ r.draft.first \in r.draft.sections
                /\ Placed(r.draft.tiles) \subseteq r.draft.items
                /\ r.draft.items \subseteq Placed(r.draft.tiles) \cup r.todo
                /\ p = Rule => /\ NoOverlaps(r.draft) /\ ColumnsFit(r.draft)
                               /\ r.draft.auto \in r.draft.sections

RecOK(p, r, d) == /\ PageFits(r.page)
                  /\ r.st # "idle" => Current(r, d)
                  /\ r.st = "moving" => MovingOK(r)
                  /\ r.st = "sent" => SentOK(r)
                  /\ r.st = "dragged" => r.draft.first \in r.draft.sections
                  /\ r.st = "fill" => FillOK(p, r)
                  /\ r.st = "commit" => PageFits(r.draft)

IInv == /\ TypeOK
        /\ PageFits(row)
        /\ \A p \in Procs : RecOK(p, proc[p], row)

-----------------------------------------------------------------------------
LEMMA EmptyFits == EmptyPage \in Pages /\ PageFits(EmptyPage)
<1>1. EmptyPage.tiles \in Layouts /\ Placed(EmptyPage.tiles) = {}
  BY DEF EmptyPage, Layouts, Placed
<1>2. EmptyPage \in Pages
  BY <1>1, NamesAssumption DEF EmptyPage, Pages
<1> QED BY <1>1, <1>2 DEF EmptyPage, PageFits, TilesInGrid, NoOverlaps

\* A page with a tile changed, or dropped.
LEMMA PutPage ==
  ASSUME NEW d \in Pages, NEW a \in Apps, NEW t \in Tiles \cup {NoTile},
         NEW e, e = Put(d, a, t)
  PROVE  /\ e \in Pages
         /\ e.items = d.items /\ e.sections = d.sections
         /\ e.first = d.first /\ e.auto = d.auto /\ e.rev = d.rev
<1> DEFINE tiles == [d.tiles EXCEPT ![a] = t]
<1>1. tiles \in Layouts
  BY DEF Pages, Layouts
<1>2. e = [d EXCEPT !.tiles = tiles]
  BY DEF Pages, Put
<1> HIDE DEF tiles
<1> QED BY <1>1, <1>2 DEF Pages

LEMMA PutTiles ==
  ASSUME NEW d \in Pages, NEW a \in Apps, NEW t \in Tiles \cup {NoTile},
         NEW e, e = Put(d, a, t)
  PROVE  \A b \in Apps : e.tiles[b] = IF b = a THEN t ELSE d.tiles[b]
  BY DEF Pages, Layouts, Put

LEMMA PutPlaced ==
  ASSUME NEW d \in Pages, NEW a \in Apps, NEW t \in Tiles,
         NEW e, e = Put(d, a, t)
  PROVE  Placed(e.tiles) = Placed(d.tiles) \cup {a}
<1>1. \A b \in Apps : e.tiles[b] = IF b = a THEN t ELSE d.tiles[b]
  BY PutTiles
<1> QED BY <1>1, TileFields DEF Placed

LEMMA PageFields ==
  ASSUME NEW d \in Pages
  PROVE  /\ d.items \in SUBSET Apps /\ d.tiles \in Layouts /\ d.sections \in SUBSET Sections
         /\ d.first \in Sections /\ d.auto \in Sections /\ d.rev \in Nat
         /\ Placed(d.tiles) \subseteq Apps
  BY DEF Pages, Placed

\* A tile that fits, put in place of what app a had, keeps the grid as it was.
LEMMA GridWithTile ==
  ASSUME NEW d \in Pages, NEW a \in Apps, NEW t \in Tiles,
         TilesInGrid(d), OverlapsInLastRow(d), InGrid(d, t),
         t.y = MaxRow \/ Free(d.tiles, t, a),
         NEW e, e = Put(d, a, t)
  PROVE  TilesInGrid(e) /\ OverlapsInLastRow(e)
<1>1. /\ e \in Pages /\ e.sections = d.sections
      /\ \A b \in Apps : e.tiles[b] = IF b = a THEN t ELSE d.tiles[b]
      /\ Placed(e.tiles) = Placed(d.tiles) \cup {a}
  BY PutPage, PutTiles, PutPlaced
<1>2. Placed(d.tiles) \subseteq Apps /\ d.tiles \in Layouts
  BY PageFields
<1>3. TilesInGrid(e)
  BY <1>1, <1>2 DEF TilesInGrid, InGrid
<1>4. ASSUME NEW b \in Placed(e.tiles), NEW c \in Placed(e.tiles), b # c,
             TilesOverlap(e.tiles[b], e.tiles[c])
      PROVE  e.tiles[b].y = MaxRow \/ e.tiles[c].y = MaxRow
  <2>1. CASE b = a
    <3>1. c \in Placed(d.tiles) \ {a} /\ e.tiles[c] = d.tiles[c] /\ e.tiles[b] = t
      BY <1>1, <1>2, <1>4, <2>1
    <3> QED BY <3>1, <1>4 DEF Free
  <2>2. CASE c = a
    <3>1. b \in Placed(d.tiles) \ {a} /\ e.tiles[b] = d.tiles[b] /\ e.tiles[c] = t
      BY <1>1, <1>2, <1>4, <2>2
    <3>2. TilesOverlap(t, d.tiles[b])
      BY <3>1, <1>2, <1>4, OverlapSymmetric, PlacedAreTiles
    <3> QED BY <3>1, <3>2 DEF Free
  <2>3. CASE b # a /\ c # a
    BY <1>1, <1>2, <1>4, <2>3 DEF OverlapsInLastRow
  <2> QED BY <2>1, <2>2, <2>3
<1>5. OverlapsInLastRow(e)
  BY <1>4 DEF OverlapsInLastRow
<1> QED BY <1>3, <1>5

LEMMA FitsHasNoOverlap ==
  ASSUME NEW d \in Pages, PageFits(d)
  PROVE  TilesInGrid(d) /\ OverlapsInLastRow(d)
  BY DEF PageFits, NoOverlaps, OverlapsInLastRow

\* A record that was right stays so when the row does, or is stored anew.
LEMMA RecLater ==
  ASSUME NEW p, NEW r \in ProcRecs, NEW d \in Pages, NEW e \in Pages,
         RecOK(p, r, d), e = d \/ e.rev = d.rev + 1
  PROVE  RecOK(p, r, e)
<1>1. d.rev \in Nat /\ e.rev \in Nat /\ r.page.rev \in Nat
  BY DEF ProcRecs, Pages
<1>2. r.st # "idle" => Current(r, e)
  BY <1>1 DEF RecOK, Current
<1> QED BY <1>2 DEF RecOK

\* One process takes a step, and the row stays or is stored anew.
LEMMA OneMoves ==
  ASSUME IInv, NEW p \in Procs, NEW r \in ProcRecs,
         proc' = [proc EXCEPT ![p] = r], row' \in Pages, PageFits(row'),
         row' = row \/ row'.rev = row.rev + 1, RecOK(p, r, row'), ops' \in 0..MaxOps
  PROVE  IInv'
<1>1. proc' \in [Procs -> ProcRecs] /\ row \in Pages
  BY DEF IInv, TypeOK
<1>2. TypeOK'
  BY <1>1 DEF TypeOK
<1>3. ASSUME NEW q \in Procs PROVE RecOK(q, proc'[q], row')
  <2>1. CASE q = p
    BY <2>1 DEF IInv, TypeOK
  <2>2. CASE q # p
    <3>1. proc'[q] = proc[q] /\ proc[q] \in ProcRecs /\ RecOK(q, proc[q], row)
      BY <2>2 DEF IInv, TypeOK
    <3> QED BY <3>1, <1>1, RecLater
  <2> QED BY <2>1, <2>2
<1> QED BY <1>2, <1>3 DEF IInv, PageFits, RecOK, Current, MovingOK, SentOK, FillOK, ColumnsFit

LEMMA NoneMoves ==
  ASSUME IInv, proc' = proc, row' \in Pages, PageFits(row'),
         row' = row \/ row'.rev = row.rev + 1, ops' \in 0..MaxOps
  PROVE  IInv'
<1>1. proc \in [Procs -> ProcRecs] /\ row \in Pages
  BY DEF IInv, TypeOK
<1>2. TypeOK'
  BY <1>1 DEF TypeOK
<1>3. ASSUME NEW q \in Procs PROVE RecOK(q, proc[q], row')
  BY <1>1, RecLater DEF IInv
<1> QED BY <1>2, <1>3 DEF IInv

THEOREM InitEstablishes == Init => IInv
<1> SUFFICES ASSUME Init PROVE IInv
  OBVIOUS
<1> DEFINE r == [st |-> "idle", page |-> EmptyPage, draft |-> EmptyPage, todo |-> {}]
<1>1. r \in ProcRecs
  BY EmptyFits DEF ProcRecs, Steps
<1>2. TypeOK
  BY <1>1, EmptyFits, Sizes DEF Init, TypeOK
<1>3. ASSUME NEW p \in Procs PROVE RecOK(p, proc[p], row)
  <2>1. proc[p] = r
    BY DEF Init
  <2> QED BY <2>1, EmptyFits DEF RecOK
<1> QED BY <1>2, <1>3, EmptyFits DEF Init, IInv

-----------------------------------------------------------------------------
(***************************************************************************)
(* The steps.                                                              *)
(***************************************************************************)
LEMMA RowFacts ==
  ASSUME IInv
  PROVE  /\ row \in Pages /\ PageFits(row) /\ row.rev \in Nat
         /\ proc \in [Procs -> ProcRecs] /\ ops \in 0..MaxOps
         /\ \A p \in Procs : /\ proc[p] \in ProcRecs /\ RecOK(p, proc[p], row)
                             /\ proc[p].page \in Pages /\ proc[p].draft \in Pages
                             /\ proc[p].todo \in SUBSET Apps
  BY DEF IInv, TypeOK, ProcRecs, Pages

LEMMA Counted ==
  ASSUME IInv, Count
  PROVE  ops' \in 0..MaxOps
  BY Sizes DEF IInv, TypeOK, Count

\* The step of one process that leaves the row alone.
LEMMA RowStays ==
  ASSUME IInv, NEW p \in Procs, NEW st \in Steps, NEW page \in Pages, NEW draft \in Pages,
         NEW todo \in SUBSET Apps, Goto(p, st, page, draft, todo), row' = row, ops' \in 0..MaxOps,
         RecOK(p, [st |-> st, page |-> page, draft |-> draft, todo |-> todo], row)
  PROVE  IInv'
<1> DEFINE r == [st |-> st, page |-> page, draft |-> draft, todo |-> todo]
<1>1. r \in ProcRecs
  BY DEF ProcRecs
<1>2. proc' = [proc EXCEPT ![p] = r]
  BY DEF Goto
<1> HIDE DEF r
<1>3. RecOK(p, r, row')
  BY DEF r
<1> QED BY <1>1, <1>2, <1>3, RowFacts, OneMoves

LEMMA LoadInductive ==
  ASSUME IInv, NEW e \in Editors, Load(e) \/ LoadFails(e)
  PROVE  IInv'
<1>1. e \in Procs /\ "edit" \in Steps
  BY DEF Procs, Steps
<1>2. CASE Load(e)
  <2>1. RecOK(e, [st |-> "edit", page |-> row, draft |-> row, todo |-> {}], row)
    BY RowFacts DEF RecOK, Current
  <2>2. Goto(e, "edit", row, row, {}) /\ row' = row /\ ops' \in 0..MaxOps
    BY <1>2, RowFacts DEF Load
  <2>3. {} \in SUBSET Apps /\ row \in Pages
    BY RowFacts
  <2> QED BY <1>1, <2>1, <2>2, <2>3, RowStays, Zenon
<1>3. CASE LoadFails(e)
  <2> DEFINE d == proc[e].page
  <2>1. d \in Pages /\ PageFits(d) /\ Current(proc[e], row)
    BY <1>1, <1>3, RowFacts DEF RecOK, LoadFails
  <2>2. RecOK(e, [st |-> "edit", page |-> d, draft |-> d, todo |-> {}], row)
    BY <2>1 DEF RecOK, Current
  <2>3. Goto(e, "edit", d, d, {}) /\ row' = row /\ ops' \in 0..MaxOps
    BY <1>3, RowFacts DEF LoadFails
  <2> HIDE DEF d
  <2> QED BY <1>1, <2>1, <2>2, <2>3, RowStays
<1> QED BY <1>2, <1>3

\* What every gesture starts from.
LEMMA Edited ==
  ASSUME IInv, NEW e \in Editors, proc[e].st = "edit"
  PROVE  /\ e \in Procs /\ e # Rule
         /\ proc[e].page \in Pages /\ PageFits(proc[e].page) /\ Current(proc[e], row)
         /\ TilesInGrid(proc[e].page) /\ OverlapsInLastRow(proc[e].page)
<1>1. e \in Procs /\ e # Rule
  BY NamesAssumption DEF Procs
<1>2. proc[e].page \in Pages /\ PageFits(proc[e].page) /\ Current(proc[e], row)
  BY <1>1, RowFacts DEF RecOK
<1> QED BY <1>1, <1>2, FitsHasNoOverlap

LEMMA SendInductive ==
  ASSUME IInv, NEW e \in Editors, NEW draft \in Pages, NEW st \in {"sent", "dragged"},
         Send(e, st, draft), draft.first \in draft.sections,
         st = "sent" => TilesInGrid(draft) /\ OverlapsInLastRow(draft)
  PROVE  IInv'
<1>1. proc[e].st = "edit" /\ Count /\ row' = row /\ Goto(e, st, proc[e].page, draft, {})
  BY DEF Send
<1>2. /\ e \in Procs /\ proc[e].page \in Pages /\ PageFits(proc[e].page) /\ Current(proc[e], row)
  BY <1>1, Edited
<1>3. RecOK(e, [st |-> st, page |-> proc[e].page, draft |-> draft, todo |-> {}], row)
  BY <1>2 DEF RecOK, Current, SentOK
<1>4. st \in Steps /\ {} \in SUBSET Apps
  BY DEF Steps
<1> QED BY <1>1, <1>2, <1>3, <1>4, Counted, RowStays

\* A card of the page is placed anew.
LEMMA PlacedAnew ==
  ASSUME NEW d \in Pages, TilesInGrid(d), OverlapsInLastRow(d), NEW a \in Apps,
         NEW t \in Tiles, t.section \in d.sections, t.y <= MaxRow,
         t.w \in MinW..MaxW, t.h \in MinH..MaxH,
         NEW e, e = Put(d, a, PlaceTile(d.tiles, t, a))
  PROVE  /\ e \in Pages /\ e.first = d.first /\ e.sections = d.sections
         /\ TilesInGrid(e) /\ OverlapsInLastRow(e)
<1> DEFINE p == PlaceTile(d.tiles, t, a)
<1>1. d.tiles \in Layouts
  BY PageFields
<1>2. /\ p \in Tiles /\ p.section = t.section /\ p.y <= MaxRow
      /\ p.w \in MinW..MaxW /\ p.h \in MinH..MaxH /\ p.x + p.w <= Columns
      /\ p.y = MaxRow \/ Free(d.tiles, p, a)
  BY <1>1, PlacedFits
<1>3. e = Put(d, a, p)
  OBVIOUS
<1> HIDE DEF p
<1>4. InGrid(d, p) /\ p \in Tiles \cup {NoTile}
  BY <1>2 DEF InGrid
<1>5. e \in Pages /\ e.first = d.first /\ e.sections = d.sections
  BY <1>3, <1>4, PutPage
<1>6. TilesInGrid(e) /\ OverlapsInLastRow(e)
  BY <1>2, <1>3, <1>4, GridWithTile
<1> QED BY <1>5, <1>6

LEMMA EditTileInductive ==
  ASSUME IInv, NEW e \in Editors, NEW a \in Apps, NEW t \in Asked, EditTile(e, a, t)
  PROVE  IInv'
<1> DEFINE d == proc[e].page
           draft == Put(d, a, PlaceTile(d.tiles, t, a))
<1>1. proc[e].st = "edit" /\ t.section \in d.sections /\ Send(e, "sent", draft)
  BY DEF EditTile, Send
<1>2. d \in Pages /\ PageFits(d) /\ TilesInGrid(d) /\ OverlapsInLastRow(d)
  BY <1>1, Edited
<1>3. t \in Tiles /\ t.y <= MaxRow /\ t.w \in MinW..MaxW /\ t.h \in MinH..MaxH
  BY AskedAssumption
<1>4. /\ draft \in Pages /\ draft.first = d.first /\ draft.sections = d.sections
      /\ TilesInGrid(draft) /\ OverlapsInLastRow(draft)
  BY <1>1, <1>2, <1>3, PlacedAnew
<1> HIDE DEF draft
<1> QED BY <1>1, <1>2, <1>4, SendInductive DEF PageFits

\* A card moved to the top of a section.
LEMMA ToTop ==
  ASSUME NEW d \in Pages, TilesInGrid(d), NEW a \in Placed(d.tiles), NEW s \in Sections
  PROVE  LET t == [d.tiles[a] EXCEPT !.section = s, !.x = 0, !.y = 0]
         IN  t \in Tiles /\ t.section = s /\ t.y <= MaxRow /\ t.w \in MinW..MaxW /\ t.h \in MinH..MaxH
<1> DEFINE u == d.tiles[a]
           t == [u EXCEPT !.section = s, !.x = 0, !.y = 0]
<1>1. u \in Tiles /\ u.w \in MinW..MaxW /\ u.h \in MinH..MaxH
  BY PageFields, PlacedAreTiles DEF TilesInGrid, InGrid
<1> HIDE DEF u
<1>2. t = [section |-> s, x |-> 0, y |-> 0, w |-> u.w, h |-> u.h]
  <2>1. u = [section |-> u.section, x |-> u.x, y |-> u.y, w |-> u.w, h |-> u.h]
    BY <1>1 DEF Tiles
  <2> DEFINE v == [u EXCEPT !.section = s]
             z == [v EXCEPT !.x = 0]
  <2>2. t = [z EXCEPT !.y = 0]
    OBVIOUS
  <2>3. v = [section |-> s, x |-> u.x, y |-> u.y, w |-> u.w, h |-> u.h]
    BY <2>1
  <2> HIDE DEF v
  <2>4. z = [section |-> s, x |-> 0, y |-> u.y, w |-> u.w, h |-> u.h]
    BY <2>3
  <2> HIDE DEF t, z
  <2> QED BY <2>2, <2>4
<1>3. t \in Tiles /\ t.section = s /\ t.y = 0 /\ t.w = u.w /\ t.h = u.h
  BY <1>1, <1>2, TileFields DEF Tiles
<1> QED BY <1>1, <1>3, Sizes DEF u

LEMMA MoveToSectionInductive ==
  ASSUME IInv, NEW e \in Editors, NEW a \in Apps, NEW s \in Sections, MoveToSection(e, a, s)
  PROVE  IInv'
<1> DEFINE d == proc[e].page
           t == [d.tiles[a] EXCEPT !.section = s, !.x = 0, !.y = 0]
           draft == Put(d, a, PlaceTile(d.tiles, t, a))
<1>1. proc[e].st = "edit" /\ s \in d.sections /\ a \in Placed(d.tiles) /\ Send(e, "sent", draft)
  BY DEF MoveToSection, Send, Placed
<1>2. d \in Pages /\ PageFits(d) /\ TilesInGrid(d) /\ OverlapsInLastRow(d)
  BY <1>1, Edited
<1>3. t \in Tiles /\ t.section = s /\ t.y <= MaxRow /\ t.w \in MinW..MaxW /\ t.h \in MinH..MaxH
  BY <1>1, <1>2, ToTop
<1> HIDE DEF t
<1>4. /\ draft \in Pages /\ draft.first = d.first /\ draft.sections = d.sections
      /\ TilesInGrid(draft) /\ OverlapsInLastRow(draft)
  BY <1>1, <1>2, <1>3, PlacedAnew
<1> HIDE DEF draft
<1> QED BY <1>1, <1>2, <1>4, SendInductive DEF PageFits

\* The grid library may leave a page that does not fit, but it is a page.
LEMMA PushedPage ==
  ASSUME NEW d \in Pages, NEW a \in Apps, NEW t \in Tiles
  PROVE  Push(d, a, t) \in Pages /\ Push(d, a, t).first = d.first /\ Push(d, a, t).sections = d.sections
<1> DEFINE tiles == [b \in Apps |->
                        IF b \in Placed(d.tiles) \ {a} /\ TilesOverlap(t, d.tiles[b])
                        THEN At(d.tiles[b], t.y + t.h) ELSE d.tiles[b]]
<1>1. t.y + t.h \in Nat
  BY TileFields
<1>2. \A b \in Placed(d.tiles) : At(d.tiles[b], t.y + t.h) \in Tiles
  <2>1. \A b \in Placed(d.tiles) : d.tiles[b] \in Tiles
    BY PageFields, PlacedAreTiles
  <2>2. ASSUME NEW u \in Tiles, NEW y \in Nat PROVE At(u, y) \in Tiles
    BY DEF At, Tiles
  <2> QED BY <1>1, <2>1, <2>2
<1>3. tiles \in Layouts
  BY <1>2, PageFields DEF Layouts
<1>4. Push(d, a, t) = [d EXCEPT !.tiles = tiles]
  BY DEF Push
<1> HIDE DEF tiles
<1> QED BY <1>3, <1>4 DEF Pages

LEMMA GridChangeInductive ==
  ASSUME IInv, NEW e \in Editors, NEW a \in Apps, NEW t \in Asked, GridChange(e, a, t)
  PROVE  IInv'
<1> DEFINE d == proc[e].page
           over == Put(d, a, t)
           aside == Put(Push(d, a, t), a, t)
<1>1. proc[e].st = "edit" /\ (Send(e, "dragged", over) \/ Send(e, "dragged", aside))
  BY DEF GridChange, Send
<1>2. d \in Pages /\ PageFits(d) /\ t \in Tiles
  BY <1>1, Edited, AskedAssumption
<1>3. over \in Pages /\ over.first \in over.sections
  <2>1. over \in Pages /\ over.first = d.first /\ over.sections = d.sections
    BY <1>2, PutPage
  <2> QED BY <1>2, <2>1 DEF PageFits
<1>4. aside \in Pages /\ aside.first \in aside.sections
  <2> DEFINE p == Push(d, a, t)
  <2>1. p \in Pages /\ p.first = d.first /\ p.sections = d.sections
    BY <1>2, PushedPage
  <2> HIDE DEF p
  <2>2. Put(p, a, t) \in Pages /\ Put(p, a, t).first = p.first /\ Put(p, a, t).sections = p.sections
    BY <1>2, <2>1, PutPage
  <2> QED BY <1>2, <2>1, <2>2 DEF PageFits, p
<1> HIDE DEF over, aside
<1> QED BY <1>1, <1>3, <1>4, SendInductive

\* Gestures that leave every tile where it is.
LEMMA SameTiles ==
  ASSUME NEW d \in Pages, NEW e \in Pages, TilesInGrid(d), OverlapsInLastRow(d),
         e.tiles = d.tiles, d.sections \subseteq e.sections
  PROVE  TilesInGrid(e) /\ OverlapsInLastRow(e)
  BY DEF TilesInGrid, OverlapsInLastRow, InGrid

LEMMA SectionsInductive ==
  ASSUME IInv, NEW e \in Editors, NEW s \in Sections, AddSection(e, s) \/ MoveSection(e, s)
  PROVE  IInv'
<1> DEFINE d == proc[e].page
           more == [d EXCEPT !.sections = @ \cup {s}]
           moved == [d EXCEPT !.first = s]
<1>1. proc[e].st = "edit"
  BY DEF AddSection, MoveSection, Send
<1>2. d \in Pages /\ PageFits(d) /\ TilesInGrid(d) /\ OverlapsInLastRow(d)
  BY <1>1, Edited
<1> HIDE DEF d
<1>3. CASE AddSection(e, s)
  <2>1. /\ more \in Pages /\ more.tiles = d.tiles /\ more.first = d.first
        /\ more.sections = d.sections \cup {s}
    BY <1>2 DEF Pages
  <2>2. Send(e, "sent", more)
    BY <1>3 DEF AddSection, d
  <2> HIDE DEF more
  <2>3. TilesInGrid(more) /\ OverlapsInLastRow(more)
    BY <1>2, <2>1, SameTiles
  <2> QED BY <1>2, <2>1, <2>2, <2>3, SendInductive DEF PageFits
<1>4. CASE MoveSection(e, s)
  <2>1. moved \in Pages /\ moved.tiles = d.tiles /\ moved.first = s /\ moved.sections = d.sections
    BY <1>2 DEF Pages
  <2>2. Send(e, "sent", moved) /\ s \in d.sections
    BY <1>4 DEF MoveSection, d
  <2> HIDE DEF moved
  <2>3. TilesInGrid(moved) /\ OverlapsInLastRow(moved)
    BY <1>2, <2>1, SameTiles
  <2> QED BY <1>2, <2>1, <2>2, <2>3, SendInductive
<1> QED BY <1>3, <1>4

LEMMA ChooseAppsInductive ==
  ASSUME IInv, NEW e \in Editors, NEW items \in SUBSET Apps, ChooseApps(e, items)
  PROVE  IInv'
<1> DEFINE d == proc[e].page
           draft == [d EXCEPT !.items = items]
<1>1. proc[e].st = "edit" /\ Send(e, "sent", draft)
  BY DEF ChooseApps, Send
<1>2. d \in Pages /\ PageFits(d) /\ TilesInGrid(d) /\ OverlapsInLastRow(d)
  BY <1>1, Edited
<1> HIDE DEF d
<1>3. /\ draft \in Pages /\ draft.tiles = d.tiles /\ draft.first = d.first
      /\ draft.sections = d.sections
  BY <1>2 DEF Pages
<1> HIDE DEF draft
<1>4. TilesInGrid(draft) /\ OverlapsInLastRow(draft)
  BY <1>2, <1>3, SameTiles
<1> QED BY <1>1, <1>2, <1>3, <1>4, SendInductive DEF PageFits

LEMMA RemoveSectionInductive ==
  ASSUME IInv, NEW e \in Editors, NEW s \in Sections, NEW first \in Sections,
         RemoveSection(e, s, first)
  PROVE  IInv'
<1> DEFINE d == proc[e].page
           kept == d.sections \ {s}
           moving == {a \in Placed(d.tiles) : d.tiles[a].section = s}
           tiles == [a \in Apps |-> IF a \in moving THEN NoTile ELSE d.tiles[a]]
           draft == [d EXCEPT !.sections = kept, !.first = first, !.tiles = tiles,
                              !.auto = IF @ = s THEN first ELSE @]
<1>1. /\ proc[e].st = "edit" /\ Count /\ first \in kept /\ row' = row
      /\ Goto(e, "moving", d, draft, moving)
  BY DEF RemoveSection
<1>2. /\ e \in Procs /\ d \in Pages /\ PageFits(d) /\ Current(proc[e], row)
      /\ TilesInGrid(d) /\ OverlapsInLastRow(d)
  BY <1>1, Edited
<1>3. Placed(d.tiles) \subseteq Apps /\ d.tiles \in Layouts
  BY <1>2, PageFields
<1> HIDE DEF d
<1>4. tiles \in Layouts
  BY <1>3 DEF Layouts
<1>5. Placed(tiles) = Placed(d.tiles) \ moving /\ \A a \in Placed(tiles) : tiles[a] = d.tiles[a]
  BY <1>3 DEF Placed
<1>6. moving \in SUBSET Apps /\ moving \subseteq Placed(d.tiles)
  BY <1>3
<1>7. kept \in SUBSET Sections
  BY <1>2, PageFields
<1>8. \A a \in Placed(tiles) : d.tiles[a].section \in d.sections => d.tiles[a].section \in kept
  BY <1>5
<1> HIDE DEF tiles, moving, kept
<1>9. /\ draft \in Pages /\ draft.tiles = tiles /\ draft.first = first /\ draft.sections = kept
  BY <1>2, <1>4, <1>7 DEF Pages
<1> HIDE DEF draft
<1>10. TilesInGrid(draft)
  BY <1>2, <1>5, <1>8, <1>9 DEF TilesInGrid, InGrid
<1>11. OverlapsInLastRow(draft)
  BY <1>2, <1>5, <1>9 DEF OverlapsInLastRow
<1> DEFINE r == [st |-> "moving", page |-> d, draft |-> draft, todo |-> moving]
<1>12. MovingOK(r)
  BY <1>1, <1>6, <1>9, <1>10, <1>11 DEF MovingOK
<1>13. RecOK(e, r, row)
  BY <1>2, <1>12 DEF RecOK, Current, d
<1>14. "moving" \in Steps /\ ops' \in 0..MaxOps
  BY <1>1, Counted DEF Steps
<1> QED BY <1>1, <1>2, <1>6, <1>9, <1>13, <1>14, RowStays, Zenon

LEMMA PlaceMovedInductive ==
  ASSUME IInv, NEW e \in Editors, NEW a \in Apps, PlaceMoved(e, a)
  PROVE  IInv'
<1> DEFINE d == proc[e].draft
           page == proc[e].page
           t == [page.tiles[a] EXCEPT !.section = d.first, !.x = 0, !.y = 0]
           draft == Put(d, a, PlaceTile(d.tiles, t, a))
           todo == proc[e].todo \ {a}
<1>1. /\ proc[e].st = "moving" /\ a \in proc[e].todo /\ row' = row /\ ops' = ops
      /\ Goto(e, "moving", page, draft, todo)
  BY DEF PlaceMoved
<1>2. /\ e \in Procs /\ d \in Pages /\ page \in Pages /\ PageFits(page)
      /\ Current(proc[e], row) /\ MovingOK(proc[e]) /\ todo \in SUBSET Apps
      /\ ops \in 0..MaxOps
  <2>1. e \in Procs
    BY DEF Procs
  <2> QED BY <1>1, <2>1, RowFacts DEF RecOK
<1>3. /\ d.first \in d.sections /\ TilesInGrid(d) /\ OverlapsInLastRow(d)
      /\ a \in Placed(page.tiles) /\ todo \subseteq Placed(page.tiles) /\ d.first \in Sections
  BY <1>1, <1>2, PageFields DEF MovingOK
<1>4. t \in Tiles /\ t.section = d.first /\ t.y <= MaxRow /\ t.w \in MinW..MaxW /\ t.h \in MinH..MaxH
  BY <1>2, <1>3, ToTop DEF PageFits
<1> HIDE DEF t, d
<1>5. /\ draft \in Pages /\ draft.first = d.first /\ draft.sections = d.sections
      /\ TilesInGrid(draft) /\ OverlapsInLastRow(draft)
  BY <1>2, <1>3, <1>4, PlacedAnew
<1> HIDE DEF draft, todo
<1> DEFINE r == [st |-> "moving", page |-> page, draft |-> draft, todo |-> todo]
<1>6. MovingOK(r)
  BY <1>3, <1>5 DEF MovingOK
<1>7. RecOK(e, r, row)
  BY <1>2, <1>6 DEF RecOK, Current
<1>8. "moving" \in Steps /\ ops' \in 0..MaxOps
  BY <1>1, <1>2 DEF Steps
<1> HIDE DEF page
<1> QED BY <1>1, <1>2, <1>5, <1>7, <1>8, RowStays, Zenon

LEMMA SendMovedInductive ==
  ASSUME IInv, NEW e \in Editors, SendMoved(e)
  PROVE  IInv'
<1> DEFINE d == proc[e].draft
           page == proc[e].page
           r == [st |-> "sent", page |-> page, draft |-> d, todo |-> {}]
<1>1. proc[e].st = "moving" /\ row' = row /\ ops' = ops /\ Goto(e, "sent", page, d, {})
  BY DEF SendMoved
<1>2. e \in Procs
  BY DEF Procs
<1>3. /\ d \in Pages /\ page \in Pages /\ PageFits(page) /\ Current(proc[e], row)
      /\ MovingOK(proc[e]) /\ ops \in 0..MaxOps
  BY <1>1, <1>2, RowFacts DEF RecOK
<1>4. RecOK(e, r, row)
  BY <1>3 DEF RecOK, Current, MovingOK, SentOK
<1>5. "sent" \in Steps /\ ops' \in 0..MaxOps /\ {} \in SUBSET Apps
  BY <1>1, <1>3 DEF Steps
<1> HIDE DEF d, page
<1> QED BY <1>1, <1>2, <1>3, <1>4, <1>5, RowStays, Zenon

-----------------------------------------------------------------------------
LEMMA DoneInductive ==
  ASSUME IInv, NEW p \in Procs, proc[p].st # "idle", Done(p), ops' \in 0..MaxOps,
         row' \in Pages, PageFits(row'), row' = row \/ row'.rev = row.rev + 1
  PROVE  IInv'
<1> DEFINE page == proc[p].page
           none == [st |-> "idle", page |-> EmptyPage, draft |-> EmptyPage, todo |-> {}]
           again == [st |-> "reload", page |-> page, draft |-> page, todo |-> {}]
<1>1. page \in Pages /\ PageFits(page) /\ proc[p] \in ProcRecs /\ RecOK(p, proc[p], row')
  <2>1. /\ page \in Pages /\ proc[p] \in ProcRecs /\ RecOK(p, proc[p], row) /\ row \in Pages
    BY RowFacts
  <2>2. RecOK(p, proc[p], row')
    BY <2>1, RecLater
  <2> QED BY <2>1, <2>2 DEF RecOK
<1>2. CASE p = Rule
  <2>1. proc' = [proc EXCEPT ![p] = none]
    BY <1>2 DEF Done, Goto
  <2>2. none \in ProcRecs /\ RecOK(p, none, row')
    BY EmptyFits DEF ProcRecs, Steps, RecOK
  <2> HIDE DEF none
  <2> QED BY <2>1, <2>2, OneMoves
<1>3. CASE p # Rule
  <2>1. proc' = [proc EXCEPT ![p] = again]
    BY <1>3 DEF Done, Goto
  <2>2. Current(proc[p], row')
    BY <1>1 DEF RecOK
  <2>3. again \in ProcRecs /\ RecOK(p, again, row')
    BY <1>1, <2>2 DEF ProcRecs, Steps, RecOK, Current
  <2> HIDE DEF again
  <2> QED BY <2>1, <2>3, OneMoves
<1> QED BY <1>2, <1>3

\* Tiles of apps that are not on the page are gone.
LEMMA TrimmedPage ==
  ASSUME NEW d \in Pages
  PROVE  /\ Trimmed(d) \in Pages
         /\ Trimmed(d).items = d.items /\ Trimmed(d).sections = d.sections
         /\ Trimmed(d).first = d.first /\ Trimmed(d).auto = d.auto
         /\ Placed(Trimmed(d).tiles) \subseteq d.items
<1> DEFINE tiles == [a \in Apps |-> IF a \in d.items THEN d.tiles[a] ELSE NoTile]
<1>1. tiles \in Layouts
  BY DEF Pages, Layouts
<1>2. Trimmed(d) = [d EXCEPT !.tiles = tiles]
  BY DEF Trimmed, Pages
<1>3. Placed(tiles) \subseteq d.items
  BY DEF Placed
<1> HIDE DEF tiles
<1> QED BY <1>1, <1>2, <1>3 DEF Pages

LEMMA ReceiveInductive ==
  ASSUME IInv, NEW e \in Editors, Receive(e)
  PROVE  IInv'
<1> DEFINE p == proc[e]
           page == proc[e].page
           d == Trimmed(proc[e].draft)
           todo == d.items \ Placed(d.tiles)
           r == [st |-> "fill", page |-> page, draft |-> d, todo |-> todo]
<1>1. /\ p.st \in {"sent", "dragged"} /\ row' = row /\ ops' = ops
      /\ Done(e) \/ Goto(e, "fill", page, d, todo)
  BY DEF Receive
<1>2. e \in Procs /\ e # Rule
  BY NamesAssumption DEF Procs
<1>3. /\ proc[e].draft \in Pages /\ page \in Pages /\ PageFits(page) /\ Current(p, row)
      /\ proc[e].draft.first \in proc[e].draft.sections /\ ops \in 0..MaxOps
      /\ row \in Pages /\ PageFits(row)
  BY <1>1, <1>2, RowFacts DEF RecOK, SentOK
<1>4. CASE Done(e)
  BY <1>1, <1>2, <1>3, <1>4, DoneInductive
<1>5. CASE Goto(e, "fill", page, d, todo)
  <2>1. /\ d \in Pages /\ d.first \in d.sections /\ Placed(d.tiles) \subseteq d.items
        /\ d.items \in SUBSET Apps
    BY <1>3, TrimmedPage, PageFields
  <2> HIDE DEF d
  <2>2. FillOK(e, r)
    BY <1>2, <2>1 DEF FillOK
  <2>3. RecOK(e, r, row)
    BY <1>3, <2>2 DEF RecOK, Current
  <2>4. "fill" \in Steps /\ ops' \in 0..MaxOps /\ todo \in SUBSET Apps
    BY <1>1, <1>3, <2>1 DEF Steps
  <2> HIDE DEF page, todo
  <2> QED BY <1>1, <1>2, <1>3, <1>5, <2>1, <2>3, <2>4, RowStays, Zenon
<1> QED BY <1>1, <1>4, <1>5

\* A tile that is in nobody's way.
LEMMA NoOverlapWithTile ==
  ASSUME NEW d \in Pages, NEW a \in Apps, NEW t \in Tiles, NoOverlaps(d),
         \A b \in Placed(d.tiles) : ~TilesOverlap(t, d.tiles[b]), NEW e, e = Put(d, a, t)
  PROVE  NoOverlaps(e)
<1>1. /\ \A b \in Apps : e.tiles[b] = IF b = a THEN t ELSE d.tiles[b]
      /\ Placed(e.tiles) = Placed(d.tiles) \cup {a}
  BY PutTiles, PutPlaced
<1>2. Placed(d.tiles) \subseteq Apps /\ d.tiles \in Layouts
  BY PageFields
<1>3. ASSUME NEW b \in Placed(e.tiles), NEW c \in Placed(e.tiles), b # c,
             TilesOverlap(e.tiles[b], e.tiles[c])
      PROVE  FALSE
  <2>1. CASE b = a
    <3>1. c \in Placed(d.tiles) /\ e.tiles[c] = d.tiles[c] /\ e.tiles[b] = t
      BY <1>1, <1>2, <1>3, <2>1
    <3> QED BY <3>1, <1>3
  <2>2. CASE c = a
    <3>1. b \in Placed(d.tiles) /\ e.tiles[b] = d.tiles[b] /\ e.tiles[c] = t
      BY <1>1, <1>2, <1>3, <2>2
    <3>2. TilesOverlap(t, d.tiles[b])
      BY <3>1, <1>2, <1>3, OverlapSymmetric, PlacedAreTiles
    <3> QED BY <3>1, <3>2
  <2>3. CASE b # a /\ c # a
    BY <1>1, <1>2, <1>3, <2>3 DEF NoOverlaps
  <2> QED BY <2>1, <2>2, <2>3
<1> QED BY <1>3 DEF NoOverlaps

LEMMA FillInductive ==
  ASSUME IInv, NEW p \in Procs, NEW a \in Apps, Fill(p, a)
  PROVE  IInv'
<1> DEFINE d == proc[p].draft
           page == proc[p].page
           s == IF p = Rule THEN d.auto ELSE d.first
           t == AppendTile(d.tiles, s)
           put == Put(d, a, t)
           draft == [put EXCEPT !.items = @ \cup {a}]
           todo == proc[p].todo \ {a}
           r == [st |-> "fill", page |-> page, draft |-> draft, todo |-> todo]
<1>1. /\ proc[p].st = "fill" /\ a \in proc[p].todo /\ row' = row /\ ops' = ops
      /\ Goto(p, "fill", page, draft, todo)
  BY DEF Fill
<1>2. /\ d \in Pages /\ page \in Pages /\ PageFits(page) /\ Current(proc[p], row)
      /\ FillOK(p, proc[p]) /\ todo \in SUBSET Apps /\ ops \in 0..MaxOps
  BY <1>1, RowFacts DEF RecOK
<1>3. /\ d.first \in d.sections /\ Placed(d.tiles) \subseteq d.items
      /\ d.items \subseteq Placed(d.tiles) \cup proc[p].todo
      /\ p = Rule => NoOverlaps(d) /\ ColumnsFit(d) /\ d.auto \in d.sections
  BY <1>2 DEF FillOK
<1>4. d.tiles \in Layouts /\ s \in Sections /\ Placed(d.tiles) \subseteq Apps
  BY <1>2, PageFields
<1> HIDE DEF d, s
<1>5. /\ t \in Tiles /\ t.section = s
      /\ t.w \in MinW..MaxW /\ t.h \in MinH..MaxH /\ t.x + t.w <= Columns
      /\ \A b \in Placed(d.tiles) : ~TilesOverlap(t, d.tiles[b])
  BY <1>4, AppendedFits
<1> HIDE DEF t
<1>6. /\ put \in Pages /\ put.items = d.items /\ put.sections = d.sections
      /\ put.first = d.first /\ put.auto = d.auto
      /\ \A b \in Apps : put.tiles[b] = IF b = a THEN t ELSE d.tiles[b]
      /\ Placed(put.tiles) = Placed(d.tiles) \cup {a}
  <2> HIDE DEF put
  <2>1. put = Put(d, a, t) /\ t \in Tiles \cup {NoTile}
    BY <1>5 DEF put
  <2>2. /\ put \in Pages /\ put.items = d.items /\ put.sections = d.sections
        /\ put.first = d.first /\ put.auto = d.auto
    BY <1>2, <2>1, PutPage
  <2>3. \A b \in Apps : put.tiles[b] = IF b = a THEN t ELSE d.tiles[b]
    BY <1>2, <2>1, PutTiles
  <2>4. Placed(put.tiles) = Placed(d.tiles) \cup {a}
    BY <1>2, <1>5, <2>1, PutPlaced
  <2> QED BY <2>2, <2>3, <2>4
<1>7. p = Rule => NoOverlaps(put)
  BY <1>2, <1>3, <1>5, NoOverlapWithTile
<1> HIDE DEF put
<1>8. /\ draft \in Pages /\ draft.items = d.items \cup {a} /\ draft.sections = d.sections
      /\ draft.first = d.first /\ draft.auto = d.auto /\ draft.tiles = put.tiles
  BY <1>6 DEF Pages
<1> HIDE DEF draft
<1>9. p = Rule => NoOverlaps(draft)
  BY <1>7, <1>8 DEF NoOverlaps
<1>10. p = Rule => ColumnsFit(draft)
  <2> SUFFICES ASSUME p = Rule PROVE ColumnsFit(draft)
    OBVIOUS
  <2>1. t.section \in d.sections
    BY <1>3, <1>5 DEF s
  <2>2. ASSUME NEW b \in Placed(draft.tiles)
        PROVE  /\ draft.tiles[b].section \in draft.sections
               /\ draft.tiles[b].x + draft.tiles[b].w <= Columns
               /\ draft.tiles[b].w \in MinW..MaxW /\ draft.tiles[b].h \in MinH..MaxH
    <3>1. CASE b = a
      BY <1>5, <1>6, <1>8, <2>1, <3>1
    <3>2. CASE b # a
      <4>1. b \in Placed(d.tiles) /\ draft.tiles[b] = d.tiles[b]
        BY <1>4, <1>6, <1>8, <3>2
      <4> QED BY <4>1, <1>3, <1>8 DEF ColumnsFit
    <3> QED BY <3>1, <3>2
  <2> QED BY <2>2 DEF ColumnsFit
<1>11. FillOK(p, r)
  BY <1>3, <1>6, <1>8, <1>9, <1>10 DEF FillOK
<1>12. RecOK(p, r, row)
  BY <1>2, <1>11 DEF RecOK, Current
<1>13. "fill" \in Steps /\ ops' \in 0..MaxOps
  BY <1>1, <1>2 DEF Steps
<1> HIDE DEF page, todo
<1> QED BY <1>1, <1>2, <1>8, <1>12, <1>13, RowStays, Zenon

LEMMA CheckInductive ==
  ASSUME IInv, NEW p \in Procs, Check(p)
  PROVE  IInv'
<1> DEFINE d == proc[p].draft
           page == proc[p].page
           r == [st |-> "commit", page |-> page, draft |-> d, todo |-> {}]
<1>1. /\ proc[p].st = "fill" /\ proc[p].todo = {} /\ row' = row /\ ops' = ops
      /\ \/ Accepted(d) /\ Goto(p, "commit", page, d, {})
         \/ Done(p)
  BY DEF Check
<1>2. /\ d \in Pages /\ page \in Pages /\ PageFits(page) /\ Current(proc[p], row)
      /\ FillOK(p, proc[p]) /\ ops \in 0..MaxOps /\ row \in Pages /\ PageFits(row)
  BY <1>1, RowFacts DEF RecOK
<1>3. CASE Done(p)
  BY <1>1, <1>2, <1>3, DoneInductive
<1>4. CASE Accepted(d) /\ Goto(p, "commit", page, d, {})
  <2>1. PageFits(d)
    BY <1>1, <1>2, <1>4 DEF FillOK, Accepted, PageFits
  <2>2. RecOK(p, r, row)
    BY <1>2, <2>1 DEF RecOK, Current
  <2>3. "commit" \in Steps /\ ops' \in 0..MaxOps /\ {} \in SUBSET Apps
    BY <1>1, <1>2 DEF Steps
  <2> HIDE DEF d, page
  <2> QED BY <1>1, <1>2, <1>4, <2>2, <2>3, RowStays, Zenon
<1> QED BY <1>1, <1>3, <1>4

\* The next revision of a page that fits.
LEMMA NextRevision ==
  ASSUME NEW d \in Pages, PageFits(d), NEW n \in Nat
  PROVE  LET e == [d EXCEPT !.rev = n]
         IN  e \in Pages /\ PageFits(e) /\ e.rev = n
<1> DEFINE e == [d EXCEPT !.rev = n]
<1>1. /\ e \in Pages /\ e.rev = n /\ e.items = d.items /\ e.tiles = d.tiles
      /\ e.sections = d.sections /\ e.first = d.first /\ e.auto = d.auto
  BY DEF Pages
<1> HIDE DEF e
<1>2. PageFits(e)
  BY <1>1 DEF PageFits, TilesInGrid, NoOverlaps, InGrid
<1> QED BY <1>1, <1>2 DEF e

LEMMA StoreInductive ==
  ASSUME IInv, NEW p \in Procs, Store(p)
  PROVE  IInv'
<1> DEFINE d == proc[p].draft
           next == [d EXCEPT !.rev = row.rev + 1]
<1>1. proc[p].st = "commit" /\ Done(p) /\ ops' = ops /\ (row' = row \/ row' = next)
  BY DEF Store
<1>2. /\ d \in Pages /\ PageFits(d) /\ ops \in 0..MaxOps
      /\ row \in Pages /\ PageFits(row) /\ row.rev \in Nat
  BY <1>1, RowFacts DEF RecOK
<1>3. next \in Pages /\ PageFits(next) /\ next.rev = row.rev + 1
  BY <1>2, NextRevision
<1> HIDE DEF next
<1> QED BY <1>1, <1>2, <1>3, DoneInductive

LEMMA ReadRuleInductive ==
  ASSUME IInv, NEW matches \in SUBSET Apps, ReadRule(matches)
  PROVE  IInv'
<1> DEFINE todo == matches \ row.items
           r == [st |-> "fill", page |-> row, draft |-> row, todo |-> todo]
<1>1. Count /\ row' = row /\ Goto(Rule, "fill", row, row, todo)
  BY DEF ReadRule
<1>2. /\ row \in Pages /\ PageFits(row) /\ row.rev \in Nat
      /\ Rule \in Procs /\ todo \in SUBSET Apps
  BY RowFacts DEF Procs
<1>3. FillOK(Rule, r)
  BY <1>2 DEF FillOK, PageFits, TilesInGrid, InGrid, ColumnsFit
<1>4. RecOK(Rule, r, row)
  BY <1>2, <1>3 DEF RecOK, Current
<1>5. "fill" \in Steps /\ ops' \in 0..MaxOps
  BY <1>1, Counted DEF Steps
<1> HIDE DEF todo
<1> QED BY <1>1, <1>2, <1>4, <1>5, RowStays, Zenon

\* Cards dropped, and one card that takes the tile of a dropped one.
LEMMA RewriteInductive ==
  ASSUME IInv, NEW ids \in SUBSET Apps, NEW canonical \in Apps, NEW from \in Apps,
         Rewrite(ids, canonical, from)
  PROVE  IInv'
<1> DEFINE items == (row.items \ ids) \cup {canonical}
           tiles == [a \in Apps |-> IF a = canonical THEN row.tiles[from]
                                    ELSE IF a \in ids THEN NoTile
                                    ELSE row.tiles[a]]
           rev == row.rev + 1
           next == [row EXCEPT !.items = items, !.rev = rev, !.tiles = tiles]
<1>1. /\ Count /\ canonical \in ids /\ from \in ids \cap row.items
      /\ row' = next /\ proc' = proc
  BY RowFacts DEF Rewrite, Pages
<1>2. /\ row \in Pages /\ PageFits(row) /\ row.rev \in Nat /\ row.items \in SUBSET Apps
      /\ row.tiles \in Layouts /\ ops' \in 0..MaxOps
  BY <1>1, RowFacts, PageFields, Counted
<1>3. row.items = Placed(row.tiles) /\ TilesInGrid(row) /\ NoOverlaps(row)
  BY <1>2 DEF PageFits
<1>4. tiles \in Layouts
  BY <1>2 DEF Layouts
<1>5. Placed(tiles) = items
  BY <1>1, <1>2, <1>3 DEF Placed
<1>6. \A a \in Placed(tiles) : tiles[a] = IF a = canonical THEN row.tiles[from] ELSE row.tiles[a]
  BY DEF Placed
<1>7. from \in Placed(row.tiles) /\ \A a \in items : a # canonical => a \in Placed(row.tiles) /\ a # from
  BY <1>1, <1>3
<1> HIDE DEF tiles, items
<1>8. /\ next \in Pages /\ next.rev = row.rev + 1 /\ next.items = items /\ next.tiles = tiles
      /\ next.sections = row.sections /\ next.first = row.first /\ next.auto = row.auto
  <2>1. items \in SUBSET Apps /\ rev \in Nat
    BY <1>2 DEF items
  <2> HIDE DEF rev
  <2>2. next \in Pages /\ next.rev = rev
    BY <1>2, <1>4, <2>1 DEF Pages
  <2>3. /\ next.items = items /\ next.tiles = tiles
        /\ next.sections = row.sections /\ next.first = row.first /\ next.auto = row.auto
    BY <1>2 DEF Pages
  <2> QED BY <2>2, <2>3 DEF rev
<1> HIDE DEF next
<1>9. TilesInGrid(next)
  BY <1>3, <1>5, <1>6, <1>7, <1>8 DEF TilesInGrid, InGrid
<1>10. NoOverlaps(next)
  <2> SUFFICES ASSUME NEW a \in items, NEW b \in items, a # b
               PROVE  ~TilesOverlap(tiles[a], tiles[b])
    BY <1>5, <1>8 DEF NoOverlaps
  <2> DEFINE was(c) == IF c = canonical THEN from ELSE c
  <2>1. /\ was(a) \in Placed(row.tiles) /\ was(b) \in Placed(row.tiles) /\ was(a) # was(b)
        /\ tiles[a] = row.tiles[was(a)] /\ tiles[b] = row.tiles[was(b)]
    BY <1>5, <1>6, <1>7
  <2> HIDE DEF was
  <2> QED BY <1>3, <2>1 DEF NoOverlaps
<1>11. PageFits(next)
  BY <1>2, <1>5, <1>8, <1>9, <1>10 DEF PageFits
<1> QED BY <1>1, <1>2, <1>8, <1>11, NoneMoves

LEMMA DeleteInductive ==
  ASSUME IInv, NEW a \in Apps, Delete(a)
  PROVE  IInv'
<1> DEFINE tiles == [row.tiles EXCEPT ![a] = NoTile]
           items == row.items \ {a}
           rev == row.rev + 1
           next == [row EXCEPT !.items = items, !.tiles = tiles, !.rev = rev]
<1>1. Count /\ proc' = proc
  BY DEF Delete
<1>2. /\ row \in Pages /\ PageFits(row) /\ row.rev \in Nat /\ row.items \in SUBSET Apps
      /\ row.tiles \in Layouts /\ ops' \in 0..MaxOps
  BY <1>1, RowFacts, PageFields, Counted
<1>3. row' = next
  BY <1>2 DEF Delete, Pages
<1>4. row.items = Placed(row.tiles) /\ TilesInGrid(row) /\ NoOverlaps(row)
  BY <1>2 DEF PageFits
<1>5. tiles \in Layouts /\ Placed(tiles) = items /\ \A b \in items : tiles[b] = row.tiles[b]
  BY <1>2, <1>4 DEF Layouts, Placed
<1>6. items \in SUBSET Apps /\ items \subseteq row.items
  BY <1>2
<1> HIDE DEF tiles, items
<1>7. /\ next \in Pages /\ next.rev = row.rev + 1 /\ next.items = items /\ next.tiles = tiles
      /\ next.sections = row.sections /\ next.first = row.first /\ next.auto = row.auto
  <2>1. rev \in Nat
    BY <1>2
  <2> HIDE DEF rev
  <2>2. next \in Pages /\ next.rev = rev
    BY <1>2, <1>5, <1>6, <2>1 DEF Pages
  <2>3. /\ next.items = items /\ next.tiles = tiles
        /\ next.sections = row.sections /\ next.first = row.first /\ next.auto = row.auto
    BY <1>2 DEF Pages
  <2> QED BY <2>2, <2>3 DEF rev
<1> HIDE DEF next
<1>8. TilesInGrid(next) /\ NoOverlaps(next)
  BY <1>4, <1>5, <1>6, <1>7 DEF TilesInGrid, InGrid, NoOverlaps
<1>9. PageFits(next)
  BY <1>2, <1>5, <1>7, <1>8 DEF PageFits
<1> QED BY <1>1, <1>2, <1>3, <1>7, <1>9, NoneMoves

THEOREM NextPreserves == IInv /\ [Next]_vars => IInv'
<1> SUFFICES ASSUME IInv, [Next]_vars PROVE IInv'
  OBVIOUS
<1>1. ASSUME NEW e \in Editors, Load(e) \/ LoadFails(e) PROVE IInv'
  BY <1>1, LoadInductive
<1>2. ASSUME NEW e \in Editors, NEW a \in Apps, NEW t \in Asked,
             EditTile(e, a, t) \/ GridChange(e, a, t)
      PROVE  IInv'
  BY <1>2, EditTileInductive, GridChangeInductive
<1>3. ASSUME NEW e \in Editors, NEW a \in Apps, NEW s \in Sections, MoveToSection(e, a, s)
      PROVE  IInv'
  BY <1>3, MoveToSectionInductive
<1>4. ASSUME NEW e \in Editors, NEW s \in Sections, AddSection(e, s) \/ MoveSection(e, s)
      PROVE  IInv'
  BY <1>4, SectionsInductive
<1>5. ASSUME NEW e \in Editors, NEW s \in Sections, NEW first \in Sections, RemoveSection(e, s, first)
      PROVE  IInv'
  BY <1>5, RemoveSectionInductive
<1>6. ASSUME NEW e \in Editors, NEW a \in Apps, PlaceMoved(e, a) PROVE IInv'
  BY <1>6, PlaceMovedInductive
<1>7. ASSUME NEW e \in Editors, SendMoved(e) \/ Receive(e) PROVE IInv'
  BY <1>7, SendMovedInductive, ReceiveInductive
<1>8. ASSUME NEW e \in Editors, NEW items \in SUBSET Apps, ChooseApps(e, items) PROVE IInv'
  BY <1>8, ChooseAppsInductive
<1>9. ASSUME NEW p \in Procs, (\E a \in Apps : Fill(p, a)) \/ Check(p) \/ Store(p) PROVE IInv'
  BY <1>9, FillInductive, CheckInductive, StoreInductive
<1>10. ASSUME NEW matches \in SUBSET Apps, ReadRule(matches) PROVE IInv'
  BY <1>10, ReadRuleInductive
<1>11. ASSUME NEW ids \in SUBSET Apps, NEW canonical \in Apps, NEW from \in Apps,
              Rewrite(ids, canonical, from)
       PROVE  IInv'
  BY <1>11, RewriteInductive
<1>12. ASSUME NEW a \in Apps, Delete(a) PROVE IInv'
  BY <1>12, DeleteInductive
<1>13. CASE UNCHANGED vars
  <2>1. proc' = proc /\ row' = row /\ ops' = ops
    BY <1>13 DEF vars
  <2> QED BY <2>1, RowFacts, NoneMoves
<1> QED
  BY <1>1, <1>2, <1>3, <1>4, <1>5, <1>6, <1>7, <1>8, <1>9, <1>10, <1>11, <1>12, <1>13 DEF Next

LEMMA Inductive == Spec => []IInv
  BY InitEstablishes, NextPreserves, PTL DEF Spec

\* The variables hold pages, and records of what a browser or a handler is doing.
THEOREM TypeCorrect == Spec => []TypeOK
<1>1. IInv => TypeOK
  BY DEF IInv
<1> QED BY <1>1, Inductive, PTL

\* A stored page has a tile for each of its cards, inside the grid, and no two in one place.
THEOREM GridHolds == Spec => []GridOK
<1>1. IInv => GridOK
  BY DEF IInv, PageFits, GridOK
<1> QED BY <1>1, Inductive, PTL

\* What the editor sends is inside the grid and overlaps in the last row alone.
THEOREM EditsFitHolds == Spec => []EditsFit
<1>1. IInv => EditsFit
  BY DEF IInv, RecOK, SentOK, EditsFit, Procs
<1> QED BY <1>1, Inductive, PTL

\* Storing a layout leaves alone what its author did not change.
THEOREM UntouchedStayHolds == Spec => UntouchedStay
<1> DEFINE Stay(p) == /\ \A a \in Apps : proc[p].draft.tiles[a] = proc[p].page.tiles[a]
                                         => row'.tiles[a] = row.tiles[a]
                      /\ row.sections \ (proc[p].page.sections \ proc[p].draft.sections) \subseteq row'.sections
<1>1. ASSUME IInv, NEW p \in Procs, Store(p) PROVE Stay(p)
  <2>1. /\ proc[p].st = "commit" /\ proc[p].draft \in Pages /\ Current(proc[p], row)
    BY <1>1, RowFacts DEF Store, RecOK
  <2>2. CASE row' = row
    BY <2>2
  <2>3. CASE row.rev = proc[p].page.rev
    <3>1. proc[p].page = row
      BY <2>1, <2>3 DEF Current
    <3>2. row' = [proc[p].draft EXCEPT !.rev = row.rev + 1]
      BY <1>1, <2>3 DEF Store
    <3>3. row'.tiles = proc[p].draft.tiles /\ row'.sections = proc[p].draft.sections
      BY <2>1, <3>2 DEF Pages
    <3> QED BY <3>1, <3>3
  <2> QED BY <1>1, <2>2, <2>3 DEF Store
<1>2. IInv /\ [Next]_vars => [\A p \in Procs : Store(p) => Stay(p)]_vars
  BY <1>1
<1> QED BY <1>2, Inductive, PTL DEF UntouchedStay, Spec

-----------------------------------------------------------------------------
(***************************************************************************)
(* What a refresh of the rule has placed so far.  The cards it appends     *)
(* form rows; it begins a new one only when the last is full.              *)
(***************************************************************************)
\* Columns of appended cards that overlap are the same.
LEMMA LaterColumn ==
  ASSUME NEW n \in Nat \ {0}, NEW i \in Int, NEW j \in Int, i < j
  PROVE  n * i + n <= n * j
<1>1. PICK k \in Nat : j = i + 1 + k
  <2>1. j - i - 1 \in Nat /\ j = i + 1 + (j - i - 1)
    OBVIOUS
  <2> QED BY <2>1
<1> DEFINE u == n * j
           v == n * i
           w == n * k
<1>2. u = v + n + w /\ w \in Nat /\ v \in Int
  BY <1>1
<1> HIDE DEF u, v, w
<1>3. v + n <= u
  BY <1>2
<1> QED BY <1>3 DEF u, v

LEMMA SameColumn ==
  ASSUME NEW x \in NewColumns, NEW z \in NewColumns, x < z + NewW, z < x + NewW
  PROVE  x = z
<1>1. x \in Nat /\ z \in Nat /\ NewW \in Nat \ {0} /\ x % NewW = 0 /\ z % NewW = 0
  BY Sizes DEF NewColumns
<1>2. x = NewW * (x \div NewW) + (x % NewW) /\ z = NewW * (z \div NewW) + (z % NewW)
  BY <1>1
<1> DEFINE i == x \div NewW
           j == z \div NewW
<1>3. i \in Int /\ j \in Int /\ x = NewW * i /\ z = NewW * j
  BY <1>1, <1>2
<1> HIDE DEF i, j
<1>4. ~(i < j) /\ ~(j < i)
  BY <1>1, <1>3, LaterColumn
<1> QED BY <1>3, <1>4

\* Where the end of a section is after a card was appended to it.
LEMMA BottomPut ==
  ASSUME NEW tiles \in Layouts, NEW next \in Layouts, NEW s \in Sections,
         NEW a \in Apps \ Placed(tiles), NEW t \in Tiles, t.section = s,
         \A b \in Apps : next[b] = IF b = a THEN t ELSE tiles[b]
  PROVE  Bottom(next, s) = IF Bottom(tiles, s) < t.y + t.h THEN t.y + t.h ELSE Bottom(tiles, s)
<1> DEFINE b == Bottom(tiles, s)
           c == Bottom(next, s)
           end == t.y + t.h
<1>1. Ends(next, s) = Ends(tiles, s) \cup {end}
  <2>1. Placed(next) = Placed(tiles) \cup {a} /\ Placed(tiles) \subseteq Apps
    BY TileFields DEF Placed
  <2> QED BY <2>1 DEF Ends
<1>2. /\ Ends(tiles, s) \in SUBSET Nat /\ b \in Ends(tiles, s) \cup {0}
      /\ \A m \in Ends(tiles, s) : m <= b
  BY BottomEnds
<1>3. c \in Ends(next, s) \cup {0} /\ \A m \in Ends(next, s) : m <= c
  BY BottomEnds
<1>4. end \in Nat
  BY TileFields
<1> HIDE DEF b, c, end
<1>5. b \in Nat /\ c \in Nat
  BY <1>1, <1>2, <1>3, <1>4
<1>6. end <= c /\ b <= c
  <2>1. end \in Ends(next, s)
    BY <1>1
  <2>2. b = 0 \/ b \in Ends(next, s)
    BY <1>1, <1>2
  <2>3. b \in Ends(next, s) => b <= c
    BY <1>3
  <2> QED BY <1>3, <1>5, <2>1, <2>2, <2>3
<1>7. c <= b \/ c = end
  BY <1>1, <1>2, <1>3, <1>5
<1>8. c = IF b < end THEN end ELSE b
  BY <1>4, <1>5, <1>6, <1>7
<1> QED BY <1>8 DEF b, c, end

\* appendTile begins a new row only if there is no gap in the last.
LEMMA AppendedAt ==
  ASSUME NEW tiles \in Layouts, NEW s \in Sections
  PROVE  LET bottom == Bottom(tiles, s)
             above == IF bottom > NewH THEN bottom - NewH ELSE 0
         IN  \E x \in NewColumns :
                \/ AppendTile(tiles, s) = NewTile(s, x, above)
                \/ AppendTile(tiles, s) = NewTile(s, x, bottom) /\ Gaps(tiles, s, above) = {}
<1>1. ASSUME NEW y, Gaps(tiles, s, y) # {}
      PROVE  Leftmost(Gaps(tiles, s, y)) \in NewColumns
  <2>1. Gaps(tiles, s, y) \in SUBSET Nat /\ Gaps(tiles, s, y) \subseteq NewColumns
    BY DEF Gaps, NewColumns
  <2>2. \E x \in Gaps(tiles, s, y) : \A z \in Gaps(tiles, s, y) : x <= z
    BY <1>1, <2>1, LeastExists
  <2> QED BY <2>1, <2>2 DEF Leftmost
<1>2. 0 \in NewColumns
  <2>1. 0 \in 0..(Columns - NewW) /\ 0 % NewW = 0
    BY Sizes
  <2> QED BY <2>1 DEF NewColumns
<1> QED BY <1>1, <1>2 DEF AppendTile

\* A row without a gap, with none but appended cards in it, has one in each column.
LEMMA FullRow ==
  ASSUME NEW tiles \in Layouts, NEW s \in Sections, NEW y \in Nat, Gaps(tiles, s, y) = {},
         NEW T \in SUBSET Apps,
         \A b \in Placed(tiles) :
            tiles[b].section = s /\ tiles[b].y + tiles[b].h > y => b \in T,
         \A b \in T : \E x \in NewColumns, v \in Nat : tiles[b] = NewTile(s, x, v)
  PROVE  /\ Cardinality(NewColumns) <= Cardinality(T)
         /\ Cardinality(NewColumns) \in Nat /\ Cardinality(T) \in Nat
<1>1. IsFiniteSet(T)
  BY FiniteAssumption, FS_Subset
<1> DEFINE column == [b \in T |-> tiles[b].x]
<1>2. ASSUME NEW b \in T
      PROVE  tiles[b].x \in NewColumns /\ tiles[b].w = NewW
  <2>1. PICK x \in NewColumns : \E v \in Nat : tiles[b] = NewTile(s, x, v)
    OBVIOUS
  <2>2. PICK v \in Nat : tiles[b] = NewTile(s, x, v)
    BY <2>1
  <2> QED BY <2>2 DEF NewTile
<1>3. ASSUME NEW x \in NewColumns PROVE \E b \in T : column[b] = x
  <2>1. PICK b \in Placed(tiles) : TilesOverlap(NewTile(s, x, y), tiles[b])
    BY DEF Gaps
  <2>2. /\ tiles[b].section = s /\ y < tiles[b].y + tiles[b].h
        /\ x < tiles[b].x + tiles[b].w /\ tiles[b].x < x + NewW
    <3>1. /\ tiles[b].y \in Nat /\ tiles[b].h \in Nat /\ tiles[b].x \in Nat /\ tiles[b].w \in Nat
          /\ x \in Nat /\ NewW \in Nat
      BY PlacedAreTiles, TileFields, Sizes DEF NewColumns
    <3> QED BY <2>1, <3>1 DEF TilesOverlap, NewTile
  <2>3. b \in T
    <3>1. tiles[b].y \in Nat /\ tiles[b].h \in Nat
      BY PlacedAreTiles, TileFields
    <3> QED BY <2>2, <3>1
  <2>4. tiles[b].x \in NewColumns /\ tiles[b].w = NewW
    BY <1>2, <2>3
  <2>5. tiles[b].x = x
    BY <2>2, <2>4, SameColumn
  <2> QED BY <2>3, <2>5
<1>4. column \in [T -> NewColumns]
  BY <1>2
<1>5. column \in Surjection(T, NewColumns)
  BY <1>3, <1>4 DEF Surjection
<1>6. IsFiniteSet(NewColumns) /\ Cardinality(NewColumns) <= Cardinality(T)
  BY <1>1, <1>5, FS_Surjection
<1> QED BY <1>1, <1>6, FS_CardinalityType

(***************************************************************************)
(* Of the cards added so far, those in the last row, and the argument:     *)
(* beyond the first row that is free, the cards are n rows of which all    *)
(* but the last are full, and nothing else reaches into the last.          *)
(***************************************************************************)
LastRow(tiles, s, added) == {a \in added : tiles[a].y + NewH = Bottom(tiles, s)}

Aligned(tiles, s, added) ==
    \A a \in added : \E x \in NewColumns, y \in Nat : tiles[a] = NewTile(s, x, y)

InRows(tiles, s, added, start, n) ==
    /\ Bottom(tiles, s) <= start + NewH * n
    /\ n > 0 => /\ NewH <= Bottom(tiles, s) /\ LastRow(tiles, s, added) # {}
                /\ Cardinality(NewColumns) * (n - 1) + Cardinality(LastRow(tiles, s, added))
                      <= Cardinality(added)
                /\ \A a \in Placed(tiles) \ LastRow(tiles, s, added) :
                      tiles[a].section = s => tiles[a].y + tiles[a].h + NewH <= Bottom(tiles, s)

LEMMA ColumnsCounted == Cardinality(NewColumns) \in Nat
<1>1. IsFiniteSet(0..(Columns - NewW))
  BY FS_Interval, Sizes
<1>2. IsFiniteSet(NewColumns)
  BY <1>1, FS_Subset DEF NewColumns
<1> QED BY <1>2, FS_CardinalityType

\* One more card: of the sets involved, what can be counted.
LEMMA OneMore ==
  ASSUME NEW added \in SUBSET Apps, NEW a \in Apps \ added, NEW T \in SUBSET added
  PROVE  /\ Cardinality(added) \in Nat /\ Cardinality(T) \in Nat
         /\ Cardinality(added \cup {a}) = Cardinality(added) + 1
         /\ Cardinality(T \cup {a}) = Cardinality(T) + 1
         /\ Cardinality({a}) = 1
<1>1. IsFiniteSet(added) /\ IsFiniteSet(T) /\ a \notin T
  BY FiniteAssumption, FS_Subset
<1>2. Cardinality(added) \in Nat /\ Cardinality(T) \in Nat
  BY <1>1, FS_CardinalityType
<1>3. /\ Cardinality(added \cup {a}) = Cardinality(added) + 1
      /\ Cardinality(T \cup {a}) = Cardinality(T) + 1
  BY <1>1, FS_AddElement
<1>4. Cardinality({a}) = 1
  BY FS_Singleton
<1> QED BY <1>2, <1>3, <1>4

LEMMA InRowsKept ==
  ASSUME NEW tiles \in Layouts, NEW next \in Layouts, NEW s \in Sections,
         NEW added \in SUBSET Placed(tiles), Aligned(tiles, s, added),
         NEW start \in Nat, start = 0 \/ NewH <= start,
         NEW n \in Nat, InRows(tiles, s, added, start, n),
         NEW a \in Apps \ Placed(tiles),
         \A b \in Apps : next[b] = IF b = a THEN AppendTile(tiles, s) ELSE tiles[b]
  PROVE  /\ Aligned(next, s, added \cup {a})
         /\ \E m \in Nat : InRows(next, s, added \cup {a}, start, m)
<1> DEFINE bottom == Bottom(tiles, s)
           above == IF bottom > NewH THEN bottom - NewH ELSE 0
           t == AppendTile(tiles, s)
           more == added \cup {a}
           row1 == LastRow(tiles, s, added)
           row2 == LastRow(next, s, more)
<1>1. /\ added \in SUBSET Apps /\ a \notin added /\ row1 \in SUBSET added /\ row2 \in SUBSET more
      /\ Placed(tiles) \subseteq Apps
  BY DEF LastRow, Placed
<1>2. t \in Tiles /\ t.section = s
  BY AppendedFits
<1>3. PICK x \in NewColumns : \/ t = NewTile(s, x, above)
                              \/ t = NewTile(s, x, bottom) /\ Gaps(tiles, s, above) = {}
  BY AppendedAt
<1>4. bottom \in Nat /\ above \in Nat /\ NewH \in Nat /\ NewH > 0
  BY BottomBelow, Sizes
<1>5. \A b \in Apps : next[b] = IF b = a THEN t ELSE tiles[b]
  OBVIOUS
<1> HIDE DEF t
<1>6. t.h = NewH /\ t.y \in {above, bottom} /\ t.y \in Nat
  BY <1>3, <1>4 DEF NewTile
<1>7. Bottom(next, s) = IF bottom < t.y + NewH THEN t.y + NewH ELSE bottom
  BY <1>2, <1>5, <1>6, BottomPut
<1>8. Placed(next) = Placed(tiles) \cup {a} /\ next[a] = t
  BY <1>1, <1>2, <1>5, TileFields DEF Placed
<1>9. \A b \in Placed(tiles) : next[b] = tiles[b] /\ b # a
  BY <1>1, <1>5
<1>10. Aligned(next, s, more)
  <2>1. \E y \in Nat : t = NewTile(s, x, y)
    BY <1>3, <1>4
  <2> QED BY <1>8, <1>9, <2>1 DEF Aligned
<1>11. \A b \in Placed(tiles) : tiles[b].y \in Nat /\ tiles[b].h \in Nat
  BY PlacedAreTiles, TileFields
<1>12. \A b \in Placed(tiles) : tiles[b].section = s => tiles[b].y + tiles[b].h <= bottom
  BY BottomBelow
<1>13. ASSUME NEW b \in added PROVE tiles[b].section = s /\ tiles[b].h = NewH
  <2>1. PICK z \in NewColumns : \E y \in Nat : tiles[b] = NewTile(s, z, y)
    BY DEF Aligned
  <2> QED BY <2>1 DEF NewTile
<1> DEFINE c == Bottom(next, s)
<1>14. \A b \in more : b \in row2 <=> next[b].y + NewH = c
  BY DEF LastRow
<1>15. \A b \in added : b \in row1 <=> tiles[b].y + NewH = bottom
  BY DEF LastRow
<1>16. /\ bottom <= start + NewH * n
       /\ n > 0 => /\ NewH <= bottom /\ row1 # {}
                   /\ Cardinality(NewColumns) * (n - 1) + Cardinality(row1) <= Cardinality(added)
                   /\ \A b \in Placed(tiles) \ row1 :
                         tiles[b].section = s => tiles[b].y + tiles[b].h + NewH <= bottom
  BY DEF InRows
<1>17. /\ Cardinality(added) \in Nat /\ Cardinality(row1) \in Nat
       /\ Cardinality(more) = Cardinality(added) + 1
       /\ Cardinality(row1 \cup {a}) = Cardinality(row1) + 1 /\ Cardinality({a}) = 1
  BY <1>1, OneMore
<1>18. Cardinality(row2) \in Nat /\ Cardinality(row2) <= Cardinality(more)
  <2>1. IsFiniteSet(more)
    BY <1>1, FiniteAssumption, FS_Subset
  <2> QED BY <1>1, <2>1, FS_Subset, FS_CardinalityType
<1>19. Cardinality(NewColumns) \in Nat
  BY ColumnsCounted
<1> HIDE DEF row1, row2, more, c
\* The first row below what there was.
<1>20. ASSUME start + NewH >= c, c >= NewH, t.y + NewH = c,
              \A b \in Placed(tiles) : tiles[b].section = s => tiles[b].y + tiles[b].h + NewH <= c
       PROVE  InRows(next, s, more, start, 1)
  <2>1. a \in row2
    BY <1>8, <1>14, <1>20 DEF more
  <2>2. \A b \in Placed(next) \ row2 :
            next[b].section = s => next[b].y + next[b].h + NewH <= c
    BY <1>8, <1>9, <1>20, <2>1
  <2>3. c <= start + NewH * 1 /\ Cardinality(NewColumns) * (1 - 1) + Cardinality(row2) <= Cardinality(more)
    BY <1>4, <1>18, <1>19, <1>20
  <2> QED BY <1>20, <2>1, <2>2, <2>3 DEF InRows, c, row2
<1>21. CASE t.y = above /\ NewH <= bottom
  <2>1. t.y + NewH = bottom /\ c = bottom
    BY <1>4, <1>7, <1>21 DEF c
  <2>2. CASE n = 0
    <3>1. InRows(next, s, more, start, n)
      BY <1>16, <2>1, <2>2 DEF InRows, c
    <3> QED BY <1>10, <3>1 DEF more
  <2>3. CASE n > 0
    <3>1. row2 = row1 \cup {a}
      BY <1>1, <1>8, <1>9, <1>14, <1>15, <2>1 DEF more
    <3>2. Cardinality(NewColumns) * (n - 1) + Cardinality(row2) <= Cardinality(more)
      <4> DEFINE k == Cardinality(NewColumns) * (n - 1)
      <4>1. k \in Nat
        BY <1>19, <2>3
      <4>2. k + Cardinality(row1) <= Cardinality(added)
        BY <1>16, <2>3
      <4> HIDE DEF k
      <4>3. k + Cardinality(row2) <= Cardinality(more)
        BY <1>17, <3>1, <4>1, <4>2
      <4> QED BY <4>3 DEF k
    <3>3. \A b \in Placed(next) \ row2 :
              next[b].section = s => next[b].y + next[b].h + NewH <= c
      BY <1>8, <1>9, <1>16, <2>1, <2>3, <3>1
    <3>4. c <= start + NewH * n /\ NewH <= c /\ row2 # {}
      BY <1>16, <2>1, <2>3, <3>1
    <3>5. InRows(next, s, more, start, n)
      BY <3>2, <3>3, <3>4 DEF InRows, c, row2
    <3> QED BY <1>10, <3>5 DEF more
  <2> QED BY <2>2, <2>3
<1>22. CASE t.y = above /\ bottom < NewH
  <2>1. t.y = 0 /\ c = NewH /\ n = 0 /\ bottom <= start
    BY <1>4, <1>7, <1>16, <1>22 DEF c
  <2>2. CASE NewH <= start
    <3>1. InRows(next, s, more, start, 0)
      BY <1>4, <2>1, <2>2 DEF InRows, c
    <3> QED BY <1>10, <3>1 DEF more
  <2>3. CASE start = 0
    <3>1. InRows(next, s, more, start, 1)
      BY <1>4, <1>11, <1>12, <1>20, <2>1, <2>3
    <3> QED BY <1>10, <3>1 DEF more
  <2> QED BY <2>2, <2>3
<1>23. CASE t.y = bottom /\ Gaps(tiles, s, above) = {}
  <2>1. c = bottom + NewH
    BY <1>4, <1>7, <1>23 DEF c
  <2>2. CASE n = 0
    <3>1. InRows(next, s, more, start, 1)
      BY <1>4, <1>11, <1>12, <1>16, <1>20, <1>23, <2>1, <2>2
    <3> QED BY <1>10, <3>1 DEF more
  <2>3. CASE n > 0
    <3>1. above + NewH = bottom
      BY <1>4, <1>16, <2>3
    <3>2. ASSUME NEW b \in Placed(tiles), tiles[b].section = s, tiles[b].y + tiles[b].h > above
          PROVE  b \in row1
      BY <1>4, <1>11, <1>16, <2>3, <3>1, <3>2
    <3>3. \A b \in row1 : \E z \in NewColumns, v \in Nat : tiles[b] = NewTile(s, z, v)
      BY <1>1 DEF Aligned
    <3>4. Cardinality(NewColumns) <= Cardinality(row1)
      BY <1>1, <1>4, <1>23, <3>2, <3>3, FullRow
    <3>5. row2 = {a}
      <4>1. a \in row2
        BY <1>8, <1>14, <1>23, <2>1 DEF more
      <4>2. ASSUME NEW b \in added PROVE b \notin row2
        BY <1>4, <1>9, <1>11, <1>12, <1>13, <1>14, <2>1 DEF more
      <4> QED BY <1>1, <4>1, <4>2 DEF more
    <3>6. Cardinality(NewColumns) * ((n + 1) - 1) + Cardinality(row2) <= Cardinality(more)
      <4> DEFINE k == Cardinality(NewColumns) * (n - 1)
                 l == Cardinality(NewColumns) * n
      <4>1. k \in Nat /\ l = k + Cardinality(NewColumns)
        BY <1>19, <2>3
      <4>2. k + Cardinality(row1) <= Cardinality(added)
        BY <1>16, <2>3
      <4> HIDE DEF k, l
      <4>3. l + Cardinality(row2) <= Cardinality(more)
        BY <1>17, <1>19, <3>4, <3>5, <4>1, <4>2
      <4>4. (n + 1) - 1 = n
        OBVIOUS
      <4> QED BY <4>3, <4>4 DEF l
    <3>7. \A b \in Placed(next) \ row2 :
              next[b].section = s => next[b].y + next[b].h + NewH <= c
      BY <1>4, <1>8, <1>9, <1>11, <1>12, <2>1, <3>5
    <3>8. c <= start + NewH * (n + 1) /\ NewH <= c /\ row2 # {}
      <4>1. NewH * (n + 1) = NewH * n + NewH
        BY <1>4
      <4> DEFINE k == NewH * n
      <4>2. k \in Nat
        BY <1>4
      <4>3. c <= start + (k + NewH)
        <5> HIDE DEF k
        <5>1. bottom <= start + k
          BY <1>16 DEF k
        <5> QED BY <1>4, <2>1, <4>2, <5>1
      <4> QED BY <1>4, <2>1, <3>5, <4>1, <4>3
    <3>9. InRows(next, s, more, start, n + 1)
      BY <3>6, <3>7, <3>8 DEF InRows, c, row2
    <3> QED BY <1>10, <3>9 DEF more
  <2> QED BY <2>2, <2>3
<1>24. t.y = above \/ (t.y = bottom /\ Gaps(tiles, s, above) = {})
  BY <1>3 DEF NewTile
<1>25. NewH <= bottom \/ bottom < NewH
  <2> HIDE DEF bottom
  <2> QED BY <1>4
<1> HIDE DEF bottom, above
<1> QED BY <1>21, <1>22, <1>23, <1>24, <1>25

\* Nobody but the refresh itself touches what it holds.
LEMMA RuleMoves ==
  ASSUME IInv, [Next]_vars
  PROVE  \/ proc'[Rule] = proc[Rule]
         \/ \E matches \in SUBSET Apps : ReadRule(matches)
         \/ \E a \in Apps : Fill(Rule, a)
         \/ Check(Rule) \/ Store(Rule)
<1>1. Rule \in Procs /\ Rule \notin Editors /\ proc \in [Procs -> ProcRecs]
  BY RowFacts, NamesAssumption DEF Procs
<1>2. ASSUME NEW p \in Procs, p # Rule, NEW st, NEW page, NEW draft, NEW todo,
             Goto(p, st, page, draft, todo)
      PROVE  proc'[Rule] = proc[Rule]
  BY <1>1, <1>2 DEF Goto
<1>3. ASSUME NEW p \in Procs, p # Rule, Done(p) PROVE proc'[Rule] = proc[Rule]
  BY <1>2, <1>3 DEF Done
<1>4. ASSUME NEW e \in Editors PROVE e \in Procs /\ e # Rule
  BY <1>1, <1>4 DEF Procs
<1>5. \A p \in Procs : Check(p) \/ Store(p) \/ (\E a \in Apps : Fill(p, a))
                       => p = Rule \/ proc'[Rule] = proc[Rule]
  BY <1>2, <1>3 DEF Check, Store, Fill
<1>6. \A e \in Editors :
          Load(e) \/ LoadFails(e) \/ SendMoved(e) \/ Receive(e) => proc'[Rule] = proc[Rule]
  BY <1>2, <1>3, <1>4 DEF Load, LoadFails, SendMoved, Receive
<1>7. \A e \in Editors, a \in Apps, t \in Asked :
          EditTile(e, a, t) \/ GridChange(e, a, t) => proc'[Rule] = proc[Rule]
  BY <1>2, <1>4 DEF EditTile, GridChange, Send
<1>8. \A e \in Editors, s \in Sections :
          /\ AddSection(e, s) \/ MoveSection(e, s) => proc'[Rule] = proc[Rule]
          /\ \A a \in Apps : MoveToSection(e, a, s) => proc'[Rule] = proc[Rule]
          /\ \A first \in Sections : RemoveSection(e, s, first) => proc'[Rule] = proc[Rule]
  <2>1. ASSUME NEW e \in Editors, NEW s \in Sections, AddSection(e, s) \/ MoveSection(e, s)
        PROVE  proc'[Rule] = proc[Rule]
    BY <1>2, <1>4, <2>1 DEF AddSection, MoveSection, Send
  <2>2. ASSUME NEW e \in Editors, NEW s \in Sections, NEW a \in Apps, MoveToSection(e, a, s)
        PROVE  proc'[Rule] = proc[Rule]
    BY <1>2, <1>4, <2>2 DEF MoveToSection, Send
  <2>3. ASSUME NEW e \in Editors, NEW s \in Sections, NEW first \in Sections,
               RemoveSection(e, s, first)
        PROVE  proc'[Rule] = proc[Rule]
    BY <1>2, <1>4, <2>3 DEF RemoveSection
  <2> QED BY <2>1, <2>2, <2>3
<1>9. \A e \in Editors :
          /\ \A a \in Apps : PlaceMoved(e, a) => proc'[Rule] = proc[Rule]
          /\ \A items \in SUBSET Apps : ChooseApps(e, items) => proc'[Rule] = proc[Rule]
  <2>1. ASSUME NEW e \in Editors, NEW a \in Apps, PlaceMoved(e, a)
        PROVE  proc'[Rule] = proc[Rule]
    <3> DEFINE left == proc[e].todo \ {a}
    <3>1. \E d : Goto(e, "moving", proc[e].page, d, left)
      BY <2>1, Zenon DEF PlaceMoved
    <3> HIDE DEF left
    <3> QED BY <1>2, <1>4, <3>1
  <2>2. ASSUME NEW e \in Editors, NEW items \in SUBSET Apps, ChooseApps(e, items)
        PROVE  proc'[Rule] = proc[Rule]
    BY <1>2, <1>4, <2>2 DEF ChooseApps, Send
  <2> QED BY <2>1, <2>2
<1>10. /\ \A ids \in SUBSET Apps, canonical \in Apps, from \in Apps :
              Rewrite(ids, canonical, from) => proc'[Rule] = proc[Rule]
       /\ \A a \in Apps : Delete(a) => proc'[Rule] = proc[Rule]
  <2>1. ASSUME NEW ids, NEW canonical, NEW from, Rewrite(ids, canonical, from)
        PROVE  proc' = proc
    BY <2>1, Zenon DEF Rewrite
  <2>2. ASSUME NEW a, Delete(a) PROVE proc' = proc
    BY <2>2, Zenon DEF Delete
  <2> QED BY <2>1, <2>2, Zenon
<1>11. CASE UNCHANGED vars
  BY <1>11 DEF vars
<1> QED BY <1>5, <1>6, <1>7, <1>8, <1>9, <1>10, <1>11 DEF Next

Cards(r) == r.draft.items \ r.page.items

\* The refresh fills a copy of the page it read, from the end of the rule's section on.
RuleFills(r) ==
    /\ r.draft.auto = r.page.auto /\ r.page.items \subseteq r.draft.items
    /\ r.todo \cap r.draft.items = {}
    /\ Placed(r.draft.tiles) = r.draft.items
    /\ \A a \in r.page.items : r.draft.tiles[a] = r.page.tiles[a]
    /\ Aligned(r.draft.tiles, r.page.auto, Cards(r))
    /\ \E n \in Nat : InRows(r.draft.tiles, r.page.auto, Cards(r),
                             FirstRow(r.page.tiles, r.page.auto), n)

FillInv == proc[Rule].st = "fill" => RuleFills(proc[Rule])

LEMMA FirstRowType ==
  ASSUME NEW tiles \in Layouts, NEW s \in Sections
  PROVE  /\ FirstRow(tiles, s) \in Nat /\ Bottom(tiles, s) \in Nat
         /\ FirstRow(tiles, s) = 0 \/ NewH <= FirstRow(tiles, s)
         /\ Bottom(tiles, s) <= FirstRow(tiles, s)
<1> DEFINE bottom == Bottom(tiles, s)
<1>1. bottom \in Nat
  BY BottomBelow
<1>2. FirstRow(tiles, s) = IF bottom \in 1..NewH THEN NewH ELSE bottom
  BY DEF FirstRow
<1> HIDE DEF bottom
<1>3. /\ FirstRow(tiles, s) \in Nat /\ bottom <= FirstRow(tiles, s)
      /\ FirstRow(tiles, s) = 0 \/ NewH <= FirstRow(tiles, s)
  BY <1>1, <1>2, Sizes
<1> QED BY <1>1, <1>3 DEF bottom

LEMMA FillInvRead ==
  ASSUME IInv, NEW matches \in SUBSET Apps, ReadRule(matches)
  PROVE  RuleFills(proc'[Rule])
<1> DEFINE r == [st |-> "fill", page |-> row, draft |-> row, todo |-> matches \ row.items]
<1>1. proc'[Rule] = r
  BY RowFacts DEF ReadRule, Goto, Procs
<1>2. row \in Pages /\ PageFits(row) /\ row.tiles \in Layouts /\ row.auto \in Sections
  BY RowFacts, PageFields
<1>3. Cards(r) = {}
  BY DEF Cards
<1>4. Bottom(row.tiles, row.auto) <= FirstRow(row.tiles, row.auto) + NewH * 0
  BY <1>2, FirstRowType, Sizes
<1>5. InRows(row.tiles, row.auto, {}, FirstRow(row.tiles, row.auto), 0)
  BY <1>4 DEF InRows
<1>6. /\ r.draft.auto = r.page.auto /\ r.page.items \subseteq r.draft.items
      /\ r.todo \cap r.draft.items = {} /\ Placed(r.draft.tiles) = r.draft.items
      /\ \A a \in r.page.items : r.draft.tiles[a] = r.page.tiles[a]
      /\ r.draft.tiles = row.tiles /\ r.page.auto = row.auto /\ r.page.tiles = row.tiles
  BY <1>2 DEF PageFits
<1> HIDE DEF r
<1>7. RuleFills(r)
  BY <1>3, <1>5, <1>6 DEF RuleFills, Aligned
<1> QED BY <1>1, <1>7

LEMMA FillInvFill ==
  ASSUME IInv, FillInv, NEW a \in Apps, Fill(Rule, a)
  PROVE  RuleFills(proc'[Rule])
<1> DEFINE d == proc[Rule].draft
           page == proc[Rule].page
           t == AppendTile(d.tiles, d.auto)
           put == Put(d, a, t)
           draft == [put EXCEPT !.items = @ \cup {a}]
           todo == proc[Rule].todo \ {a}
           r == [st |-> "fill", page |-> page, draft |-> draft, todo |-> todo]
<1>1. /\ proc[Rule].st = "fill" /\ a \in proc[Rule].todo /\ Rule \in Procs
      /\ Goto(Rule, "fill", page, draft, todo)
  BY DEF Fill, Procs
<1>2. proc'[Rule] = r
  BY <1>1, RowFacts DEF Goto
<1>3. /\ d.auto = page.auto /\ page.items \subseteq d.items
      /\ proc[Rule].todo \cap d.items = {}
      /\ Placed(d.tiles) = d.items
      /\ \A b \in page.items : d.tiles[b] = page.tiles[b]
      /\ Aligned(d.tiles, page.auto, Cards(proc[Rule]))
      /\ \E n \in Nat : InRows(d.tiles, page.auto, Cards(proc[Rule]),
                               FirstRow(page.tiles, page.auto), n)
  BY <1>1 DEF FillInv, RuleFills
<1>4. /\ d \in Pages /\ page \in Pages /\ d.tiles \in Layouts /\ page.tiles \in Layouts
      /\ page.auto \in Sections /\ page.items \in SUBSET Apps /\ d.items \in SUBSET Apps
  BY <1>1, RowFacts, PageFields
<1>5. t \in Tiles
  BY <1>3, <1>4, AppendedFits
<1>6. Cards(proc[Rule]) = d.items \ page.items
  BY DEF Cards
<1> HIDE DEF d, page
<1>7. /\ put \in Pages /\ put.items = d.items /\ put.auto = d.auto
      /\ \A b \in Apps : put.tiles[b] = IF b = a THEN t ELSE d.tiles[b]
      /\ Placed(put.tiles) = Placed(d.tiles) \cup {a}
  <2> HIDE DEF t
  <2>1. t \in Tiles \cup {NoTile}
    BY <1>5
  <2>2. put \in Pages /\ put.items = d.items /\ put.auto = d.auto
    BY <1>4, <2>1, PutPage
  <2>3. \A b \in Apps : put.tiles[b] = IF b = a THEN t ELSE d.tiles[b]
    BY <1>4, <2>1, PutTiles
  <2>4. Placed(put.tiles) = Placed(d.tiles) \cup {a}
    BY <1>4, <1>5, PutPlaced
  <2> QED BY <2>2, <2>3, <2>4
<1> HIDE DEF put
<1>8. /\ draft.items = d.items \cup {a} /\ draft.auto = d.auto /\ draft.tiles = put.tiles
      /\ put.tiles \in Layouts
  BY <1>7, PageFields DEF Pages
<1> HIDE DEF draft
<1>9. a \notin d.items /\ a \notin page.items /\ a \in Apps \ Placed(d.tiles)
  BY <1>1, <1>3
<1> DEFINE added == d.items \ page.items
           start == FirstRow(page.tiles, page.auto)
<1>10. start \in Nat /\ (start = 0 \/ NewH <= start)
  BY <1>4, FirstRowType
<1>11. added \in SUBSET Placed(d.tiles)
  BY <1>3
<1>12. PICK n \in Nat : InRows(d.tiles, page.auto, added, start, n)
  BY <1>3, <1>6
<1>13. Aligned(d.tiles, page.auto, added)
  BY <1>3, <1>6
<1>14. \A b \in Apps : put.tiles[b] = IF b = a THEN AppendTile(d.tiles, page.auto) ELSE d.tiles[b]
  BY <1>3, <1>7
<1> HIDE DEF added, start, t
<1>15. /\ Aligned(put.tiles, page.auto, added \cup {a})
       /\ \E m \in Nat : InRows(put.tiles, page.auto, added \cup {a}, start, m)
  BY <1>4, <1>8, <1>9, <1>10, <1>11, <1>12, <1>13, <1>14, InRowsKept
<1>16. r.draft.items \ r.page.items = added \cup {a}
  BY <1>8, <1>9 DEF added
<1>17. /\ r.draft.auto = page.auto /\ r.page = page /\ r.draft.tiles = put.tiles
       /\ r.draft.items = d.items \cup {a} /\ r.todo = proc[Rule].todo \ {a}
  BY <1>3, <1>8
<1> HIDE DEF r
<1>18. Cards(r) = added \cup {a}
  BY <1>16 DEF Cards
<1>19. /\ Aligned(r.draft.tiles, r.page.auto, Cards(r))
       /\ \E m \in Nat : InRows(r.draft.tiles, r.page.auto, Cards(r),
                                FirstRow(r.page.tiles, r.page.auto), m)
  BY <1>15, <1>17, <1>18 DEF start
<1>20. /\ r.draft.auto = r.page.auto /\ r.page.items \subseteq r.draft.items
       /\ r.todo \cap r.draft.items = {} /\ Placed(r.draft.tiles) = r.draft.items
       /\ \A b \in r.page.items : r.draft.tiles[b] = r.page.tiles[b]
  BY <1>3, <1>4, <1>7, <1>9, <1>17
<1>21. RuleFills(r)
  BY <1>19, <1>20 DEF RuleFills
<1> QED BY <1>2, <1>21

LEMMA FillInvKept == IInv /\ FillInv /\ [Next]_vars => FillInv'
<1> SUFFICES ASSUME IInv, FillInv, [Next]_vars, proc'[Rule].st = "fill"
             PROVE  RuleFills(proc'[Rule])
  BY DEF FillInv
<1>1. Rule \in Procs /\ proc \in [Procs -> ProcRecs]
  BY RowFacts DEF Procs
<1>2. ~Check(Rule) /\ ~Store(Rule)
  BY <1>1 DEF Check, Store, Done, Goto
<1>3. CASE proc'[Rule] = proc[Rule]
  BY <1>3 DEF FillInv
<1> QED BY <1>2, <1>3, RuleMoves, FillInvRead, FillInvFill

\* A refresh of the rule that gives up has no room for its cards below its section.
THEOREM RuleRefusedAtLimitHolds == Spec => RuleRefusedAtLimit
<1> DEFINE d == proc[Rule].draft
           page == proc[Rule].page
           n == Cardinality(d.items \ page.items)
<1>1. ASSUME IInv, FillInv, Next, proc[Rule].st = "fill", proc'[Rule].st = "idle"
      PROVE  ~RoomBelow(page, n)
  <2>1. Rule \in Procs /\ proc \in [Procs -> ProcRecs]
    BY <1>1, RowFacts DEF Procs
  <2>2. Check(Rule) /\ ~Accepted(d)
    <3>1. /\ \A matches \in SUBSET Apps : ~ReadRule(matches)
          /\ ~Store(Rule) /\ proc'[Rule] # proc[Rule]
      BY <1>1 DEF ReadRule, Store
    <3>2. ASSUME NEW a \in Apps, Fill(Rule, a) PROVE FALSE
      <4>1. proc'[Rule].st = "fill"
        BY <2>1, <3>2 DEF Fill, Goto
      <4> QED BY <1>1, <4>1
    <3>3. Check(Rule)
      BY <1>1, <3>1, <3>2, RuleMoves
    <3>4. ASSUME Accepted(d) PROVE FALSE
      <4>1. proc'[Rule].st = "commit"
        BY <2>1, <3>3, <3>4 DEF Check, Goto
      <4> QED BY <1>1, <4>1
    <3> QED BY <3>3, <3>4
  <2>3. /\ d \in Pages /\ NoOverlaps(d) /\ ColumnsFit(d) /\ d.auto \in d.sections
        /\ page \in Pages /\ PageFits(page)
    BY <1>1, <2>1, RowFacts DEF RecOK, FillOK
  <2>4. PICK a \in Placed(d.tiles) : ~InGrid(d, d.tiles[a])
    BY <2>2, <2>3 DEF Accepted, TilesInGrid
  <2>5. ~(d.tiles[a].y <= MaxRow)
    BY <2>3, <2>4 DEF InGrid, ColumnsFit
  <2>6. d.tiles[a].y \in Nat /\ d.tiles \in Layouts /\ page.tiles \in Layouts
        /\ page.auto \in Sections /\ d.items \in SUBSET Apps
    BY <2>3, <2>4, PageFields, PlacedAreTiles, TileFields
  <2> DEFINE s == page.auto
             added == d.items \ page.items
             start == FirstRow(page.tiles, s)
             columns == Cardinality(NewColumns)
             bottom == Bottom(d.tiles, s)
             last == LastRow(d.tiles, s, added)
  <2>7. /\ Placed(d.tiles) = d.items /\ Aligned(d.tiles, s, added)
        /\ \A b \in page.items : d.tiles[b] = page.tiles[b]
        /\ \E m \in Nat : InRows(d.tiles, s, added, start, m)
    BY <1>1 DEF FillInv, RuleFills, Cards
  <2>8. a \in added
    <3>1. \A b \in page.items : page.tiles[b].y <= MaxRow
      BY <2>3 DEF PageFits, TilesInGrid, InGrid
    <3> QED BY <2>4, <2>5, <2>7, <3>1
  <2>9. d.tiles[a].section = s /\ d.tiles[a].h = NewH
    <3>1. PICK x \in NewColumns : \E y \in Nat : d.tiles[a] = NewTile(s, x, y)
      BY <2>7, <2>8 DEF Aligned
    <3> QED BY <3>1 DEF NewTile
  <2>10. d.tiles[a].y + NewH <= bottom
    BY <2>4, <2>6, <2>9, BottomBelow
  <2>11. PICK m \in Nat : InRows(d.tiles, s, added, start, m)
    BY <2>7
  <2>12. bottom \in Nat /\ start \in Nat /\ MaxRow + NewH < bottom
    BY <2>5, <2>6, <2>10, FirstRowType, Sizes
  <2>13. bottom <= start + NewH * m
    BY <2>11 DEF InRows
  <2>14. m > 0 => columns * (m - 1) < n
    <3> SUFFICES ASSUME m > 0 PROVE columns * (m - 1) < n
      OBVIOUS
    <3>1. last # {} /\ columns * (m - 1) + Cardinality(last) <= n
      BY <2>11 DEF InRows
    <3>2. IsFiniteSet(added) /\ IsFiniteSet(last) /\ n \in Nat
      BY <2>6, FiniteAssumption, FS_Subset, FS_CardinalityType DEF LastRow
    <3>3. Cardinality(last) \in Nat /\ Cardinality(last) # 0
      BY <3>1, <3>2, FS_EmptySet, FS_CardinalityType
    <3>4. columns \in Nat
      BY ColumnsCounted
    <3> DEFINE k == columns * (m - 1)
    <3>5. k \in Nat
      BY <3>4
    <3> HIDE DEF k, n, last
    <3>6. k < n
      BY <3>1, <3>2, <3>3, <3>5 DEF k
    <3> QED BY <3>6 DEF k
  <2>15. ASSUME NEW rows \in 1..n, columns * rows >= n, start + NewH * (rows - 1) <= MaxRow
         PROVE  FALSE
    <3>1. rows \in Nat /\ rows >= 1
      BY <2>15
    <3>2. columns \in Nat /\ NewH \in Nat
      BY ColumnsCounted, Sizes
    <3>3. m <= rows
      <4> SUFFICES ASSUME rows < m PROVE FALSE
        BY <3>1
      <4>1. m > 0 /\ rows <= m - 1
        BY <3>1
      <4>2. columns * rows <= columns * (m - 1)
        <5>1. PICK k \in Nat : m - 1 = rows + k
          <6>1. m - 1 - rows \in Nat /\ m - 1 = rows + (m - 1 - rows)
            BY <3>1, <4>1
          <6> QED BY <6>1
        <5>2. columns * (m - 1) = columns * rows + columns * k
          BY <3>1, <3>2, <5>1
        <5>3. columns * rows \in Nat /\ columns * k \in Nat
          BY <3>1, <3>2
        <5> QED BY <5>2, <5>3
      <4>3. columns * (m - 1) < n
        BY <2>14, <4>1
      <4>4. columns * rows \in Nat /\ columns * (m - 1) \in Nat /\ n \in Nat
        <5>1. n \in Nat
          BY <2>6, FiniteAssumption, FS_Subset, FS_CardinalityType
        <5> QED BY <3>1, <3>2, <4>1, <5>1
      <4> HIDE DEF n, columns
      <4> QED BY <2>15, <4>2, <4>3, <4>4
    <3>4. NewH * m <= NewH * (rows - 1) + NewH
      <4>1. PICK k \in Nat : rows = m + k
        <5>1. rows - m \in Nat /\ rows = m + (rows - m)
          BY <3>1, <3>3
        <5> QED BY <5>1
      <4>2. NewH * (rows - 1) + NewH = NewH * m + NewH * k
        BY <3>1, <3>2, <4>1
      <4>3. NewH * m \in Nat /\ NewH * k \in Nat
        BY <3>2
      <4> QED BY <4>2, <4>3
    <3> DEFINE u == NewH * m
               v == NewH * (rows - 1)
    <3>5. u \in Nat /\ v \in Nat
      BY <3>1, <3>2
    <3> HIDE DEF u, v, start, bottom
    <3>6. bottom <= start + u /\ u <= v + NewH /\ start + v <= MaxRow
      BY <2>13, <2>15, <3>4 DEF u, v
    <3> QED BY <2>12, <3>2, <3>5, <3>6, Sizes
  <2> QED BY <2>15 DEF RoomBelow
<1>2. Init => FillInv
  BY DEF Init, FillInv, Procs
<1>3. Spec => []FillInv
  BY <1>2, FillInvKept, Inductive, PTL DEF Spec
<1> QED BY <1>1, <1>3, Inductive, PTL DEF RuleRefusedAtLimit, Spec
=============================================================================
