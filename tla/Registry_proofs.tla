--------------------------- MODULE Registry_proofs ---------------------------
(***************************************************************************)
(* What holds of Registry for every set of apps, keys, providers and       *)
(* snapshots: references and keys stay consistent, and what a scan leaves  *)
(* of the registry it started from.                                        *)
(***************************************************************************)
EXTENDS Registry, TLAPS, WellFoundedInduction

Good(d) == d \in DbRecs /\ References(d) /\ KeysFollow(d)

(***************************************************************************)
(* How the working copy d of a scan of p relates to the registry d0 it     *)
(* started from.  Nothing else runs while the transaction is open, so d0   *)
(* is the committed registry until the commit.                             *)
(***************************************************************************)
Since(d0, d, p) ==
    /\ d0.ever \subseteq d.ever
    /\ d.apps \cap d0.ever \subseteq d0.apps
    /\ \A k \in Keys : d0.owner[k] # None =>
          d.owner[k] # None /\ Carries(d0, d0.owner[k], d, d.owner[k])
    /\ \A k, l \in Keys : d0.owner[k] # None /\ d0.owner[k] = d0.owner[l]
                             => d.owner[k] = d.owner[l]
    /\ \A k \in Keys : d0.owner[k] \in d.apps => d.owner[k] = d0.owner[k]
    /\ \A s \in Observed(d0) : ScopeOf[s] # p =>
          /\ d.obs[s].app # None
          /\ [d.obs[s] EXCEPT !.app = None] = [d0.obs[s] EXCEPT !.app = None]
    /\ \A a \in Apps : TwoIDs(d, a) => TwoIDs(d0, a)

\* What is left of a snapshot is of the scan's provider, and explicit IDs are single.
TodoOK == \A i \in DOMAIN tx.todo :
             /\ ScopeOf[tx.todo[i].source] = tx.scope
             /\ \A k, l \in KeysOf(tx.todo[i]) \cap Explicit : k = l

IInv == /\ TypeOK
        /\ Good(db) /\ Good(tx.d)
        /\ tx.open => Since(db, tx.d, tx.scope) /\ TodoOK
-----------------------------------------------------------------------------
(***************************************************************************)
(* The first owned key exists: a set of indices has a least member.        *)
(***************************************************************************)
NatLess == {ss \in Nat \X Nat : ss[1] < ss[2]}

LEMMA NatLessWellFounded == IsWellFoundedOn(NatLess, Nat)
  BY NatLessThanWellFounded DEF OpToRel, NatLess

LEMMA LeastExists ==
  ASSUME NEW S \in SUBSET Nat, S # {}
  PROVE  \E i \in S : \A j \in S : i <= j
<1>1. PICK i \in S : \A j \in S : ~(<<j, i>> \in NatLess)
  BY WFMin, NatLessWellFounded, Zenon
<1>2. ASSUME NEW j \in S, ~(i <= j) PROVE FALSE
  <2>1. j \in Nat /\ i \in Nat /\ j < i
    BY <1>2
  <2>2. <<j, i>> \in NatLess
    BY <2>1 DEF NatLess
  <2> QED BY <2>2, <1>1
<1> QED BY <1>2

\* candidates[0] is one of the candidates, and every candidate is an application.
LEMMA CanonicalIsOwner ==
  ASSUME NEW d \in DbRecs, References(d), NEW o \in Observations, Owners(d, o) # {}
  PROVE  Canonical(d, o) \in Owners(d, o)
<1> DEFINE owned == {i \in DOMAIN o.keys : d.owner[o.keys[i]] # None}
<1>1. o.keys \in Seq(Keys)
  BY DEF Observations
<1>2. owned # {} /\ owned \subseteq Nat
  BY <1>1 DEF Owners, KeysOf
<1>3. \E i \in owned : \A j \in owned : i <= j
  BY <1>2, LeastExists
<1>4. (CHOOSE i \in owned : \A j \in owned : i <= j) \in owned
  BY <1>3
<1> QED
  BY <1>4 DEF Canonical, Owners, KeysOf

LEMMA OwnersAreApps ==
  ASSUME NEW d \in DbRecs, References(d), NEW o \in Observations
  PROVE  KeysOf(o) \subseteq Keys /\ Owners(d, o) \subseteq d.apps
<1>1. o.keys \in Seq(Keys)
  BY DEF Observations
<1>2. KeysOf(o) \subseteq Keys
  BY <1>1 DEF KeysOf
<1> QED BY <1>2 DEF Owners, References
-----------------------------------------------------------------------------
(***************************************************************************)
(* Each operation on a registry keeps it good.                             *)
(***************************************************************************)
LEMMA EmptyGood == Good(EmptyDb)
  BY NamesAssumption DEF Good, EmptyDb, DbRecs, References, KeysFollow, Observed,
     NoObs, ObsRecs, NoPrefs, PrefRecs, Flags

LEMMA MarkAbsentFields ==
  ASSUME NEW d \in DbRecs, NEW p
  PROVE  LET e == MarkAbsent(d, p)
         IN  /\ e \in DbRecs
             /\ e.apps = d.apps /\ e.ever = d.ever /\ e.owner = d.owner
             /\ e.prefs = d.prefs /\ e.placed = d.placed
             /\ \A s \in Sources :
                   /\ e.obs[s].app = d.obs[s].app /\ e.obs[s].keys = d.obs[s].keys
                   /\ ScopeOf[s] # p => e.obs[s] = d.obs[s]
<1> DEFINE marked == [s \in Sources |-> IF ScopeOf[s] = p
                                        THEN [d.obs[s] EXCEPT !.present = FALSE] ELSE d.obs[s]]
<1>1. ASSUME NEW s \in Sources
      PROVE  /\ marked[s] \in ObsRecs
             /\ marked[s].app = d.obs[s].app /\ marked[s].keys = d.obs[s].keys
             /\ ScopeOf[s] # p => marked[s] = d.obs[s]
  <2>1. d.obs[s] \in ObsRecs
    BY DEF DbRecs
  <2> QED BY <2>1 DEF ObsRecs
<1>2. marked \in [Sources -> ObsRecs]
  BY <1>1
<1> HIDE DEF marked
<1>3. /\ [d EXCEPT !.obs = marked] \in DbRecs
      /\ [d EXCEPT !.obs = marked].apps = d.apps /\ [d EXCEPT !.obs = marked].ever = d.ever
      /\ [d EXCEPT !.obs = marked].owner = d.owner /\ [d EXCEPT !.obs = marked].prefs = d.prefs
      /\ [d EXCEPT !.obs = marked].placed = d.placed /\ [d EXCEPT !.obs = marked].obs = marked
  BY <1>2 DEF DbRecs
<1>4. MarkAbsent(d, p) = [d EXCEPT !.obs = marked]
  BY DEF MarkAbsent, marked
<1> QED BY <1>1, <1>3, <1>4

LEMMA MarkAbsentGood ==
  ASSUME NEW d, Good(d), NEW p
  PROVE  Good(MarkAbsent(d, p))
<1>1. d \in DbRecs
  BY DEF Good
<1> QED
  BY <1>1, MarkAbsentFields DEF Good, References, KeysFollow, Observed

\* Merged overrides are overrides: a text of one of the apps, or'ed flags.
LEMMA MergedPrefsType ==
  ASSUME NEW d \in DbRecs, NEW ids \in SUBSET Apps
  PROVE  MergedPrefs(d, ids) \in PrefRecs
<1>1. \A a \in ids : d.prefs[a].text \in Texts \cup {Unset}
  BY DEF DbRecs, PrefRecs
<1>2. \/ \A a \in ids : d.prefs[a].text = Unset
      \/ \E t \in Texts : \E a \in ids : d.prefs[a].text = t
  BY <1>1
<1>3. MergedPrefs(d, ids).text \in Texts \cup {Unset}
  BY <1>2 DEF MergedPrefs
<1>4. MergedPrefs(d, ids).flag \in Flags
  BY DEF MergedPrefs, Flags
<1> QED BY <1>3, <1>4 DEF MergedPrefs, PrefRecs

LEMMA MergedFields ==
  ASSUME NEW d \in DbRecs, NEW ids \in SUBSET d.apps, NEW c \in ids
  PROVE  LET e == Merged(d, ids, c)
         IN  /\ e \in DbRecs
             /\ e.apps = d.apps \ (ids \ {c}) /\ e.ever = d.ever
             /\ e.placed = Replaced(d.placed, ids, c)
             /\ \A k \in Keys : e.owner[k] = IF d.owner[k] \in ids THEN c ELSE d.owner[k]
             /\ \A a \in Apps : e.prefs[a] = IF a = c THEN MergedPrefs(d, ids)
                                              ELSE IF a \in ids THEN NoPrefs ELSE d.prefs[a]
             /\ \A s \in Sources :
                   /\ e.obs[s].app = IF d.obs[s].app \in ids THEN c ELSE d.obs[s].app
                   /\ e.obs[s].keys = d.obs[s].keys
                   /\ [e.obs[s] EXCEPT !.app = None] = [d.obs[s] EXCEPT !.app = None]
<1> DEFINE owner == [k \in Keys |-> IF d.owner[k] \in ids THEN c ELSE d.owner[k]]
           obs == [s \in Sources |-> IF d.obs[s].app \in ids THEN [d.obs[s] EXCEPT !.app = c]
                                     ELSE d.obs[s]]
           prefs == [a \in Apps |-> IF a = c THEN MergedPrefs(d, ids)
                                    ELSE IF a \in ids THEN NoPrefs ELSE d.prefs[a]]
           placed == Replaced(d.placed, ids, c)
<1>1. d.apps \subseteq Apps /\ ids \subseteq Apps /\ c \in Apps
  BY DEF DbRecs
<1>2. owner \in [Keys -> Apps \cup {None}]
  BY <1>1 DEF DbRecs
<1>3. ASSUME NEW s \in Sources
      PROVE  /\ obs[s] \in ObsRecs
             /\ obs[s].app = IF d.obs[s].app \in ids THEN c ELSE d.obs[s].app
             /\ obs[s].keys = d.obs[s].keys
             /\ [obs[s] EXCEPT !.app = None] = [d.obs[s] EXCEPT !.app = None]
  <2>1. d.obs[s] \in ObsRecs
    BY DEF DbRecs
  <2> QED BY <1>1, <2>1 DEF ObsRecs
<1>4. obs \in [Sources -> ObsRecs]
  BY <1>3
<1>5. prefs \in [Apps -> PrefRecs]
  BY <1>1, MergedPrefsType DEF DbRecs, NoPrefs, PrefRecs, Flags
<1>6. placed \in SUBSET Apps
  BY <1>1 DEF DbRecs, Replaced
<1>7. Merged(d, ids, c) = [d EXCEPT !.apps = @ \ (ids \ {c}), !.owner = owner, !.obs = obs,
                                     !.prefs = prefs, !.placed = placed]
  BY DEF Merged, WithMerged
<1>8. \A k \in Keys : owner[k] = IF d.owner[k] \in ids THEN c ELSE d.owner[k]
  OBVIOUS
<1>9. \A a \in Apps : prefs[a] = IF a = c THEN MergedPrefs(d, ids)
                                 ELSE IF a \in ids THEN NoPrefs ELSE d.prefs[a]
  OBVIOUS
<1> HIDE DEF owner, obs, prefs
<1> DEFINE e == [d EXCEPT !.apps = @ \ (ids \ {c}), !.owner = owner, !.obs = obs,
                          !.prefs = prefs, !.placed = placed]
<1>10. /\ e \in DbRecs /\ e.apps = d.apps \ (ids \ {c}) /\ e.ever = d.ever
       /\ e.placed = placed /\ e.owner = owner /\ e.prefs = prefs /\ e.obs = obs
  <2> HIDE DEF placed
  <2> QED BY <1>2, <1>4, <1>5, <1>6 DEF DbRecs
<1> HIDE DEF e
<1> QED BY <1>3, <1>7, <1>8, <1>9, <1>10 DEF e

LEMMA MergedGood ==
  ASSUME NEW d, Good(d), NEW ids \in SUBSET d.apps, NEW c \in ids
  PROVE  Good(Merged(d, ids, c))
<1> DEFINE e == Merged(d, ids, c)
<1>1. d \in DbRecs /\ References(d) /\ KeysFollow(d)
  BY DEF Good
<1>2. /\ e \in DbRecs
      /\ e.apps = d.apps \ (ids \ {c}) /\ e.ever = d.ever
      /\ e.placed = Replaced(d.placed, ids, c)
      /\ \A k \in Keys : e.owner[k] = IF d.owner[k] \in ids THEN c ELSE d.owner[k]
      /\ \A a \in Apps : e.prefs[a] = IF a = c THEN MergedPrefs(d, ids)
                                       ELSE IF a \in ids THEN NoPrefs ELSE d.prefs[a]
      /\ \A s \in Sources :
            /\ e.obs[s].app = IF d.obs[s].app \in ids THEN c ELSE d.obs[s].app
            /\ e.obs[s].keys = d.obs[s].keys
            /\ [e.obs[s] EXCEPT !.app = None] = [d.obs[s] EXCEPT !.app = None]
  BY <1>1, MergedFields
<1> HIDE DEF e
<1>3. References(e)
  <2>1. e.apps \subseteq e.ever /\ e.placed \subseteq e.apps
    BY <1>1, <1>2 DEF References, Replaced
  <2>2. /\ \A k \in Keys : e.owner[k] \in e.apps \cup {None}
        /\ \A s \in Sources : e.obs[s].app \in e.apps \cup {None}
    BY <1>1, <1>2 DEF References
  <2>3. \A a \in Apps \ e.apps : e.prefs[a] = NoPrefs
    BY <1>1, <1>2 DEF References
  <2> QED BY <2>1, <2>2, <2>3 DEF References
<1>4. KeysFollow(e)
  <2> SUFFICES ASSUME NEW s \in Observed(e), NEW k \in e.obs[s].keys
               PROVE  e.owner[k] = e.obs[s].app
    BY DEF KeysFollow
  <2>1. s \in Sources /\ d.obs[s].app # None /\ k \in d.obs[s].keys
    <3>1. s \in Sources /\ e.obs[s].app # None
      BY DEF Observed
    <3>2. None \notin d.apps
      BY <1>1, NamesAssumption DEF DbRecs
    <3> QED BY <3>1, <3>2, <1>2
  <2>2. k \in Keys
    BY <1>1, <2>1 DEF DbRecs, ObsRecs
  <2>3. d.owner[k] = d.obs[s].app
    BY <1>1, <2>1 DEF KeysFollow, Observed
  <2> QED BY <1>2, <2>1, <2>2, <2>3
<1> QED BY <1>2, <1>3, <1>4 DEF Good, e

\* Deleting apps takes their identities, observations and placements along.
LEMMA WithoutFields ==
  ASSUME NEW d \in DbRecs, NEW gone
  PROVE  LET e == Without(d, gone)
         IN  /\ e \in DbRecs
             /\ e.apps = d.apps \ gone /\ e.ever = d.ever /\ e.placed = d.placed \ gone
             /\ \A k \in Keys : e.owner[k] = IF d.owner[k] \in gone THEN None ELSE d.owner[k]
             /\ \A a \in Apps : e.prefs[a] = IF a \in gone THEN NoPrefs ELSE d.prefs[a]
             /\ \A s \in Sources : e.obs[s] = IF d.obs[s].app \in gone THEN NoObs ELSE d.obs[s]
<1> DEFINE owner == [k \in Keys |-> IF d.owner[k] \in gone THEN None ELSE d.owner[k]]
           obs == [s \in Sources |-> IF d.obs[s].app \in gone THEN NoObs ELSE d.obs[s]]
           prefs == [a \in Apps |-> IF a \in gone THEN NoPrefs ELSE d.prefs[a]]
<1>1. owner \in [Keys -> Apps \cup {None}]
  BY DEF DbRecs
<1>2. obs \in [Sources -> ObsRecs]
  BY DEF DbRecs, NoObs, ObsRecs
<1>3. prefs \in [Apps -> PrefRecs]
  BY DEF DbRecs, NoPrefs, PrefRecs, Flags
<1>4. Without(d, gone) = [d EXCEPT !.apps = @ \ gone, !.owner = owner, !.obs = obs,
                                   !.prefs = prefs, !.placed = @ \ gone]
  BY DEF Without
<1>5. /\ \A k \in Keys : owner[k] = IF d.owner[k] \in gone THEN None ELSE d.owner[k]
      /\ \A a \in Apps : prefs[a] = IF a \in gone THEN NoPrefs ELSE d.prefs[a]
      /\ \A s \in Sources : obs[s] = IF d.obs[s].app \in gone THEN NoObs ELSE d.obs[s]
  OBVIOUS
<1> HIDE DEF owner, obs, prefs
<1> DEFINE e == [d EXCEPT !.apps = @ \ gone, !.owner = owner, !.obs = obs,
                          !.prefs = prefs, !.placed = @ \ gone]
<1>6. /\ e \in DbRecs /\ e.apps = d.apps \ gone /\ e.ever = d.ever
      /\ e.placed = d.placed \ gone /\ e.owner = owner /\ e.prefs = prefs /\ e.obs = obs
  BY <1>1, <1>2, <1>3 DEF DbRecs
<1> HIDE DEF e
<1> QED BY <1>4, <1>5, <1>6 DEF e

LEMMA WithoutGood ==
  ASSUME NEW d, Good(d), NEW gone, None \notin gone
  PROVE  Good(Without(d, gone))
<1> DEFINE e == Without(d, gone)
<1>1. d \in DbRecs /\ References(d) /\ KeysFollow(d)
  BY DEF Good
<1>2. /\ e \in DbRecs
      /\ e.apps = d.apps \ gone /\ e.ever = d.ever /\ e.placed = d.placed \ gone
      /\ \A k \in Keys : e.owner[k] = IF d.owner[k] \in gone THEN None ELSE d.owner[k]
      /\ \A a \in Apps : e.prefs[a] = IF a \in gone THEN NoPrefs ELSE d.prefs[a]
      /\ \A s \in Sources : e.obs[s] = IF d.obs[s].app \in gone THEN NoObs ELSE d.obs[s]
  BY <1>1, WithoutFields
<1> HIDE DEF e
<1>3. References(e)
  BY <1>1, <1>2 DEF References, NoObs
<1>4. KeysFollow(e)
  <2> SUFFICES ASSUME NEW s \in Observed(e), NEW k \in e.obs[s].keys
               PROVE  e.owner[k] = e.obs[s].app
    BY DEF KeysFollow
  <2>1. s \in Observed(d) /\ e.obs[s] = d.obs[s] /\ d.obs[s].app \notin gone
    BY <1>2 DEF Observed, NoObs
  <2>2. k \in Keys /\ d.owner[k] = d.obs[s].app
    BY <1>1, <2>1 DEF KeysFollow, Observed, DbRecs, ObsRecs
  <2> QED BY <1>2, <2>1, <2>2
<1> QED BY <1>2, <1>3, <1>4 DEF Good, e

\* Storing an observation with an app, new or not, that owns its keys or gets them.
LEMMA AssignedFields ==
  ASSUME NEW d \in DbRecs, NEW o \in Observations, NEW a \in Apps
  PROVE  LET e == Assigned(d, o, a)
         IN  /\ e \in DbRecs
             /\ e.apps = d.apps \cup {a} /\ e.ever = d.ever \cup {a}
             /\ e.placed = d.placed /\ e.prefs = d.prefs
             /\ \A k \in Keys : e.owner[k] = IF k \in KeysOf(o) /\ d.owner[k] = None THEN a
                                             ELSE d.owner[k]
             /\ e.obs[o.source].app = a /\ e.obs[o.source].keys = KeysOf(o)
             /\ \A s \in Sources \ {o.source} : e.obs[s] = d.obs[s]
<1> DEFINE owner == [k \in Keys |-> IF k \in KeysOf(o) /\ d.owner[k] = None THEN a
                                    ELSE d.owner[k]]
           row == [app |-> a, keys |-> KeysOf(o), present |-> TRUE, internal |-> o.internal]
           obs == [d.obs EXCEPT ![o.source] = row]
<1>1. owner \in [Keys -> Apps \cup {None}]
  BY DEF DbRecs
<1>2. o.source \in Sources /\ KeysOf(o) \subseteq Keys /\ o.internal \in BOOLEAN
  BY DEF Observations, KeysOf
<1>3. row \in ObsRecs /\ row.app = a /\ row.keys = KeysOf(o)
  BY <1>2 DEF ObsRecs
<1> HIDE DEF row
<1>4. /\ obs \in [Sources -> ObsRecs] /\ obs[o.source] = row
      /\ \A s \in Sources \ {o.source} : obs[s] = d.obs[s]
  BY <1>2, <1>3 DEF DbRecs
<1>5. Assigned(d, o, a) = [d EXCEPT !.apps = @ \cup {a}, !.ever = @ \cup {a}, !.owner = owner,
                                    !.obs = obs]
  BY DEF Assigned, row, DbRecs
<1>6. \A k \in Keys : owner[k] = IF k \in KeysOf(o) /\ d.owner[k] = None THEN a ELSE d.owner[k]
  OBVIOUS
<1> HIDE DEF owner, obs
<1> DEFINE e == [d EXCEPT !.apps = @ \cup {a}, !.ever = @ \cup {a}, !.owner = owner, !.obs = obs]
<1>7. /\ e \in DbRecs /\ e.apps = d.apps \cup {a} /\ e.ever = d.ever \cup {a}
      /\ e.placed = d.placed /\ e.prefs = d.prefs /\ e.owner = owner /\ e.obs = obs
  BY <1>1, <1>4 DEF DbRecs
<1> HIDE DEF e
<1> QED BY <1>3, <1>4, <1>5, <1>6, <1>7 DEF e

LEMMA AssignedGood ==
  ASSUME NEW d, Good(d), NEW o \in Observations, NEW a \in Apps,
         \A k \in KeysOf(o) : d.owner[k] \in {None, a}
  PROVE  Good(Assigned(d, o, a))
<1> DEFINE e == Assigned(d, o, a)
<1>1. d \in DbRecs /\ References(d) /\ KeysFollow(d)
  BY DEF Good
<1>2. /\ e \in DbRecs
      /\ e.apps = d.apps \cup {a} /\ e.ever = d.ever \cup {a}
      /\ e.placed = d.placed /\ e.prefs = d.prefs
      /\ \A k \in Keys : e.owner[k] = IF k \in KeysOf(o) /\ d.owner[k] = None THEN a
                                      ELSE d.owner[k]
      /\ e.obs[o.source].app = a /\ e.obs[o.source].keys = KeysOf(o)
      /\ \A s \in Sources \ {o.source} : e.obs[s] = d.obs[s]
  BY <1>1, AssignedFields
<1> HIDE DEF e
<1>3. References(e)
  BY <1>1, <1>2 DEF References
<1>4. KeysFollow(e)
  <2> SUFFICES ASSUME NEW s \in Observed(e), NEW k \in e.obs[s].keys
               PROVE  e.owner[k] = e.obs[s].app
    BY DEF KeysFollow
  <2>1. k \in Keys
    BY <1>2 DEF Observed, DbRecs, ObsRecs
  <2>2. CASE s = o.source
    BY <1>2, <2>1, <2>2
  <2>3. CASE s # o.source
    <3>1. s \in Observed(d) /\ e.obs[s] = d.obs[s]
      BY <1>2, <2>3 DEF Observed
    <3>2. d.owner[k] = d.obs[s].app /\ d.obs[s].app # None
      BY <1>1, <3>1 DEF KeysFollow, Observed
    <3> QED BY <1>2, <2>1, <3>1, <3>2
  <2> QED BY <2>2, <2>3
<1> QED BY <1>2, <1>3, <1>4 DEF Good, e
-----------------------------------------------------------------------------
(***************************************************************************)
(* One observation of a snapshot.                                          *)
(***************************************************************************)
\* Once conflicts are resolved, the keys of o belong to the app it goes to, or to nobody.
LEMMA ResolvedGood ==
  ASSUME NEW d, Good(d), NEW o \in Observations, NEW a \in Homes(d, o)
  PROVE  /\ Good(Resolved(d, o))
         /\ a \in Apps
         /\ \A k \in KeysOf(o) : Resolved(d, o).owner[k] \in {None, a}
<1>1. d \in DbRecs /\ References(d)
  BY DEF Good
<1>2. KeysOf(o) \subseteq Keys /\ Owners(d, o) \subseteq d.apps /\ d.apps \subseteq Apps
  BY <1>1, OwnersAreApps DEF DbRecs
<1>3. a \in Apps
  BY <1>1, <1>2, CanonicalIsOwner DEF Homes
<1>4. CASE Owners(d, o) = {}
  <2>1. Resolved(d, o) = d
    BY <1>4 DEF Resolved, Conflict
  <2>2. \A k \in KeysOf(o) : d.owner[k] = None
    BY <1>4 DEF Owners
  <2> QED BY <1>3, <2>1, <2>2
<1>5. CASE Owners(d, o) # {}
  <2> DEFINE ids == Owners(d, o)
  <2>1. a = Canonical(d, o) /\ a \in ids
    BY <1>1, <1>5, CanonicalIsOwner DEF Homes
  <2>2. CASE Conflict(d, o)
    <3>1. Resolved(d, o) = Merged(d, ids, a)
      BY <2>1, <2>2 DEF Resolved
    <3>2. Good(Merged(d, ids, a))
      BY <1>2, <2>1, MergedGood
    <3>3. \A k \in Keys : Merged(d, ids, a).owner[k]
                              = IF d.owner[k] \in ids THEN a ELSE d.owner[k]
      <4> HIDE DEF ids
      <4> QED BY <1>1, <1>2, <2>1, MergedFields DEF ids
    <3>4. \A k \in KeysOf(o) : d.owner[k] \in ids \cup {None}
      BY DEF Owners
    <3> QED BY <1>2, <1>3, <3>1, <3>2, <3>3, <3>4
  <2>3. CASE ~Conflict(d, o)
    <3>1. Resolved(d, o) = d
      BY <2>3 DEF Resolved
    <3>2. \A k \in KeysOf(o) : d.owner[k] \in {None, a}
      BY <2>1, <2>3 DEF Conflict, Owners
    <3> QED BY <1>3, <3>1, <3>2
  <2> QED BY <2>2, <2>3
<1> QED BY <1>4, <1>5
-----------------------------------------------------------------------------
(***************************************************************************)
(* What a registry owes to the one before it accumulates step by step.     *)
(***************************************************************************)
LEMMA CarriesTransitive ==
  ASSUME NEW d0, NEW a, NEW d, NEW b, NEW e, NEW c,
         Carries(d0, a, d, b), Carries(d, b, e, c)
  PROVE  Carries(d0, a, e, c)
  BY DEF Carries

LEMMA SinceTransitive ==
  ASSUME NEW d0, Good(d0), NEW d, Good(d), NEW e \in DbRecs, NEW p,
         Since(d0, d, p), Since(d, e, p)
  PROVE  Since(d0, e, p)
<1>1. d0.ever \subseteq e.ever /\ e.apps \cap d0.ever \subseteq d0.apps
  BY DEF Since
<1>2. ASSUME NEW k \in Keys, d0.owner[k] # None
      PROVE  e.owner[k] # None /\ Carries(d0, d0.owner[k], e, e.owner[k])
  <2>1. d.owner[k] # None /\ Carries(d0, d0.owner[k], d, d.owner[k])
    BY <1>2 DEF Since
  <2>2. e.owner[k] # None /\ Carries(d, d.owner[k], e, e.owner[k])
    BY <2>1 DEF Since
  <2> QED BY <2>1, <2>2, CarriesTransitive
<1>3. ASSUME NEW k \in Keys, NEW l \in Keys, d0.owner[k] # None, d0.owner[k] = d0.owner[l]
      PROVE  e.owner[k] = e.owner[l]
  <2>1. d.owner[k] # None /\ d.owner[k] = d.owner[l]
    BY <1>3 DEF Since
  <2> QED BY <2>1 DEF Since
<1>4. ASSUME NEW k \in Keys, d0.owner[k] \in e.apps
      PROVE  e.owner[k] = d0.owner[k]
  <2>1. d0.owner[k] \in d0.apps \cup {None} /\ d0.apps \subseteq d0.ever
    BY DEF Good, References
  <2>2. d0.owner[k] # None
    <3>1. None \notin e.apps
      BY NamesAssumption DEF DbRecs
    <3> QED BY <1>4, <3>1
  <2>3. d0.owner[k] \in d.apps
    BY <1>4, <2>1, <2>2 DEF Since
  <2>4. d.owner[k] = d0.owner[k]
    BY <2>3 DEF Since
  <2> QED BY <1>4, <2>4 DEF Since
<1>5. ASSUME NEW s \in Observed(d0), ScopeOf[s] # p
      PROVE  /\ e.obs[s].app # None
             /\ [e.obs[s] EXCEPT !.app = None] = [d0.obs[s] EXCEPT !.app = None]
  <2>1. /\ d.obs[s].app # None
        /\ [d.obs[s] EXCEPT !.app = None] = [d0.obs[s] EXCEPT !.app = None]
    BY <1>5 DEF Since
  <2>2. s \in Observed(d)
    BY <2>1 DEF Observed
  <2>3. /\ e.obs[s].app # None
        /\ [e.obs[s] EXCEPT !.app = None] = [d.obs[s] EXCEPT !.app = None]
    BY <1>5, <2>2 DEF Since
  <2> QED BY <2>1, <2>3
<1>6. \A a \in Apps : TwoIDs(e, a) => TwoIDs(d0, a)
  BY DEF Since
<1> QED BY <1>1, <1>2, <1>3, <1>4, <1>5, <1>6 DEF Since

LEMMA SinceMarkAbsent ==
  ASSUME NEW d, Good(d), NEW p
  PROVE  Since(d, MarkAbsent(d, p), p)
<1> DEFINE e == MarkAbsent(d, p)
<1>1. /\ e.apps = d.apps /\ e.ever = d.ever /\ e.owner = d.owner
      /\ e.prefs = d.prefs /\ e.placed = d.placed
      /\ \A s \in Sources :
            /\ e.obs[s].app = d.obs[s].app /\ e.obs[s].keys = d.obs[s].keys
            /\ ScopeOf[s] # p => e.obs[s] = d.obs[s]
  BY MarkAbsentFields DEF Good
<1> HIDE DEF e
<1>2. \A s \in Observed(d) : s \in Sources /\ d.obs[s].app # None
  BY DEF Observed
<1> QED BY <1>1, <1>2 DEF Since, Carries, TwoIDs, ExplicitOf, e

\* A merge that mergeAliasApps does not refuse loses nothing the owner did.
LEMMA MergeCarries ==
  ASSUME NEW d, Good(d), NEW ids \in SUBSET d.apps, NEW c \in ids, Mergeable(d, ids)
  PROVE  /\ \A a \in ids : Carries(d, a, Merged(d, ids, c), c)
         /\ \A a \in d.apps \ ids : Carries(d, a, Merged(d, ids, c), a)
<1> DEFINE e == Merged(d, ids, c)
<1>1. d \in DbRecs /\ References(d) /\ KeysFollow(d)
  BY DEF Good
<1>2. /\ e \in DbRecs
      /\ e.apps = d.apps \ (ids \ {c}) /\ e.ever = d.ever
      /\ e.placed = Replaced(d.placed, ids, c)
      /\ \A k \in Keys : e.owner[k] = IF d.owner[k] \in ids THEN c ELSE d.owner[k]
      /\ \A a \in Apps : e.prefs[a] = IF a = c THEN MergedPrefs(d, ids)
                                       ELSE IF a \in ids THEN NoPrefs ELSE d.prefs[a]
      /\ \A s \in Sources :
            /\ e.obs[s].app = IF d.obs[s].app \in ids THEN c ELSE d.obs[s].app
            /\ e.obs[s].keys = d.obs[s].keys
            /\ [e.obs[s] EXCEPT !.app = None] = [d.obs[s] EXCEPT !.app = None]
  BY <1>1, MergedFields
<1> HIDE DEF e
<1>3. c # None /\ d.apps \subseteq Apps /\ d.apps \subseteq d.ever
  BY <1>1, NamesAssumption DEF DbRecs, References
<1>4. ASSUME NEW a \in ids PROVE Carries(d, a, e, c)
  <2>1. a \in Apps /\ e.prefs[c] = MergedPrefs(d, ids)
    BY <1>2, <1>3
  <2>2. a \in d.placed => c \in e.placed
    BY <1>2 DEF Replaced
  <2>3. d.prefs[a].text # Unset => e.prefs[c].text = d.prefs[a].text
    <3> SUFFICES ASSUME d.prefs[a].text # Unset PROVE e.prefs[c].text = d.prefs[a].text
      OBVIOUS
    <3>1. d.prefs[a].text \in Texts
      BY <1>1, <2>1 DEF DbRecs, PrefRecs
    <3>2. \E t \in Texts : \E b \in ids : d.prefs[b].text = t
      BY <3>1
    <3>3. PICK b \in ids : d.prefs[b].text = MergedPrefs(d, ids).text
                            /\ MergedPrefs(d, ids).text \in Texts
      BY <3>2 DEF MergedPrefs
    <3>4. d.prefs[b].text # Unset
      BY <3>3, NamesAssumption
    <3>5. d.prefs[a].text = d.prefs[b].text
      BY <3>4 DEF Mergeable
    <3> QED BY <2>1, <3>3, <3>5
  <2>4. d.prefs[a].flag # "unset" => e.prefs[c].flag \in {d.prefs[a].flag, "yes"}
    <3>1. d.prefs[a].flag \in {"unset", "no", "yes"}
      BY <1>1, <2>1 DEF DbRecs, PrefRecs, Flags
    <3> QED BY <2>1, <3>1 DEF MergedPrefs
  <2> QED BY <2>2, <2>3, <2>4 DEF Carries
<1>5. ASSUME NEW a \in d.apps \ ids PROVE Carries(d, a, e, a)
  <2>1. a \in d.placed => a \in e.placed
    BY <1>2 DEF Replaced
  <2>2. e.prefs[a] = d.prefs[a]
    BY <1>2, <1>3
  <2> QED BY <2>1, <2>2 DEF Carries
<1> QED BY <1>4, <1>5 DEF e

\* A merge that mergeAliasApps does not refuse.
LEMMA SinceMerged ==
  ASSUME NEW d, Good(d), NEW p, NEW ids \in SUBSET d.apps, NEW c \in ids, Mergeable(d, ids)
  PROVE  Since(d, Merged(d, ids, c), p)
<1> DEFINE e == Merged(d, ids, c)
<1>1. d \in DbRecs /\ References(d) /\ KeysFollow(d)
  BY DEF Good
<1>2. /\ e \in DbRecs
      /\ e.apps = d.apps \ (ids \ {c}) /\ e.ever = d.ever
      /\ e.placed = Replaced(d.placed, ids, c)
      /\ \A k \in Keys : e.owner[k] = IF d.owner[k] \in ids THEN c ELSE d.owner[k]
      /\ \A a \in Apps : e.prefs[a] = IF a = c THEN MergedPrefs(d, ids)
                                       ELSE IF a \in ids THEN NoPrefs ELSE d.prefs[a]
      /\ \A s \in Sources :
            /\ e.obs[s].app = IF d.obs[s].app \in ids THEN c ELSE d.obs[s].app
            /\ e.obs[s].keys = d.obs[s].keys
            /\ [e.obs[s] EXCEPT !.app = None] = [d.obs[s] EXCEPT !.app = None]
  BY <1>1, MergedFields
<1>4. \A a \in ids : Carries(d, a, e, c)
  BY MergeCarries
<1>5. \A a \in d.apps \ ids : Carries(d, a, e, a)
  BY MergeCarries
<1> HIDE DEF e
<1>3. c # None /\ d.apps \subseteq Apps /\ d.apps \subseteq d.ever
  BY <1>1, NamesAssumption DEF DbRecs, References
<1>6. \A k \in Keys : d.owner[k] # None =>
         e.owner[k] # None /\ Carries(d, d.owner[k], e, e.owner[k])
  BY <1>1, <1>2, <1>3, <1>4, <1>5 DEF References
<1>7. ASSUME NEW a \in Apps, TwoIDs(e, a) PROVE TwoIDs(d, a)
  <2>1. PICK k \in ExplicitOf(e, a), l \in ExplicitOf(e, a) : k # l
    BY <1>7 DEF TwoIDs
  <2>2. k \in Explicit /\ l \in Explicit /\ k \in Keys /\ l \in Keys
        /\ e.owner[k] = a /\ e.owner[l] = a
    BY <2>1, NamesAssumption DEF ExplicitOf
  <2>3. ~(d.owner[k] \in ids /\ d.owner[l] \in ids)
    BY <2>1, <2>2 DEF Mergeable
  <2>4. a # c
    BY <1>1, <1>2, <1>3, <2>2, <2>3 DEF References
  <2> QED BY <1>2, <2>1, <2>2, <2>4 DEF TwoIDs, ExplicitOf
<1>8. \A s \in Observed(d) : /\ e.obs[s].app # None
                             /\ [e.obs[s] EXCEPT !.app = None] = [d.obs[s] EXCEPT !.app = None]
  BY <1>2, <1>3 DEF Observed
<1>9. /\ \A k, l \in Keys : d.owner[k] # None /\ d.owner[k] = d.owner[l] => e.owner[k] = e.owner[l]
      /\ \A k \in Keys : d.owner[k] \in e.apps => e.owner[k] = d.owner[k]
      /\ d.ever \subseteq e.ever /\ e.apps \cap d.ever \subseteq d.apps
  BY <1>2
<1> QED BY <1>6, <1>7, <1>8, <1>9 DEF Since, e

\* An observation that the explicit IDs do not speak against.
LEMMA SinceAssigned ==
  ASSUME NEW d, Good(d), NEW o \in Observations, NEW a \in Apps,
         a \in d.apps \/ a \notin d.ever,
         \A k, l \in KeysOf(o) \cap Explicit : k = l,
         ExplicitAgree(d, o, a)
  PROVE  Since(d, Assigned(d, o, a), ScopeOf[o.source])
<1> DEFINE e == Assigned(d, o, a)
<1>1. d \in DbRecs /\ References(d)
  BY DEF Good
<1>2. /\ e \in DbRecs
      /\ e.apps = d.apps \cup {a} /\ e.ever = d.ever \cup {a}
      /\ e.placed = d.placed /\ e.prefs = d.prefs
      /\ \A k \in Keys : e.owner[k] = IF k \in KeysOf(o) /\ d.owner[k] = None THEN a
                                      ELSE d.owner[k]
      /\ e.obs[o.source].app = a /\ e.obs[o.source].keys = KeysOf(o)
      /\ \A s \in Sources \ {o.source} : e.obs[s] = d.obs[s]
  BY <1>1, AssignedFields
<1> HIDE DEF e
<1>3. a # None /\ None \notin d.apps
  BY <1>1, NamesAssumption DEF DbRecs
<1>4. \A k \in Keys : d.owner[k] # None =>
         e.owner[k] # None /\ Carries(d, d.owner[k], e, e.owner[k])
  BY <1>2 DEF Carries
<1>5. /\ \A k, l \in Keys : d.owner[k] # None /\ d.owner[k] = d.owner[l] => e.owner[k] = e.owner[l]
      /\ d.ever \subseteq e.ever /\ e.apps \cap d.ever \subseteq d.apps
  BY <1>2
<1>6. ASSUME NEW k \in Keys, d.owner[k] \in e.apps PROVE e.owner[k] = d.owner[k]
  <2>1. d.owner[k] # None
    BY <1>2, <1>3, <1>6
  <2> QED BY <1>2, <2>1
<1>7. ASSUME NEW b \in Apps, TwoIDs(e, b) PROVE TwoIDs(d, b)
  <2>1. PICK k \in ExplicitOf(e, b), l \in ExplicitOf(e, b) : k # l
    BY <1>7 DEF TwoIDs
  <2>2. /\ k \in Explicit /\ l \in Explicit /\ k \in Keys /\ l \in Keys
        /\ e.owner[k] = b /\ e.owner[l] = b
    BY <2>1, NamesAssumption DEF ExplicitOf
  <2>3. CASE d.owner[k] = b /\ d.owner[l] = b
    BY <2>1, <2>2, <2>3 DEF TwoIDs, ExplicitOf
  <2>4. CASE d.owner[k] # b
    <3>1. k \in KeysOf(o) /\ b = a
      BY <1>2, <2>2, <2>4
    <3>2. l \notin KeysOf(o)
      BY <2>1, <2>2, <3>1
    <3>3. l \in ExplicitOf(d, a)
      BY <1>2, <2>2, <3>1, <3>2 DEF ExplicitOf
    <3> QED BY <2>1, <2>2, <3>1, <3>3 DEF ExplicitAgree
  <2>5. CASE d.owner[l] # b
    <3>1. l \in KeysOf(o) /\ b = a
      BY <1>2, <2>2, <2>5
    <3>2. k \notin KeysOf(o)
      BY <2>1, <2>2, <3>1
    <3>3. k \in ExplicitOf(d, a)
      BY <1>2, <2>2, <3>1, <3>2 DEF ExplicitOf
    <3> QED BY <2>1, <2>2, <3>1, <3>3 DEF ExplicitAgree
  <2> QED BY <2>3, <2>4, <2>5
<1>8. ASSUME NEW s \in Observed(d), ScopeOf[s] # ScopeOf[o.source]
      PROVE  /\ e.obs[s].app # None
             /\ [e.obs[s] EXCEPT !.app = None] = [d.obs[s] EXCEPT !.app = None]
  <2>1. s \in Sources /\ d.obs[s].app # None /\ s # o.source
    BY <1>8 DEF Observed
  <2> QED BY <1>2, <2>1
<1> QED BY <1>4, <1>5, <1>6, <1>7, <1>8 DEF Since, e

\* One iteration of reconcile's loop that succeeds.
LEMMA ObservationStep ==
  ASSUME NEW d, Good(d), NEW o \in Observations, NEW a \in Homes(d, o),
         Conflict(d, o) => Mergeable(d, Owners(d, o)),
         \A k, l \in KeysOf(o) \cap Explicit : k = l,
         ExplicitAgree(Resolved(d, o), o, a)
  PROVE  LET e == Assigned(Resolved(d, o), o, a)
         IN  Good(e) /\ Since(d, e, ScopeOf[o.source])
<1> DEFINE r == Resolved(d, o)
           p == ScopeOf[o.source]
<1>1. d \in DbRecs /\ References(d) /\ Owners(d, o) \subseteq d.apps
  BY OwnersAreApps DEF Good
<1>2. Good(r) /\ a \in Apps /\ \A k \in KeysOf(o) : r.owner[k] \in {None, a}
  BY ResolvedGood
<1>3. Good(Assigned(r, o, a))
  <2> HIDE DEF r
  <2> QED BY <1>2, AssignedGood
<1>4. CASE Conflict(d, o)
  <2>1. Owners(d, o) # {} /\ a = Canonical(d, o) /\ a \in Owners(d, o)
    BY <1>1, <1>4, CanonicalIsOwner DEF Conflict, Homes
  <2>2. r = Merged(d, Owners(d, o), a)
    BY <1>4, <2>1 DEF Resolved
  <2>3. Since(d, r, p)
    BY <1>1, <1>4, <2>1, <2>2, SinceMerged
  <2>4. a \in r.apps
    <3> DEFINE ids == Owners(d, o)
    <3>1. Merged(d, ids, a).apps = d.apps \ (ids \ {a})
      <4>1. ids \in SUBSET d.apps /\ a \in ids
        BY <1>1, <2>1
      <4> HIDE DEF ids
      <4> QED BY <1>1, <4>1, MergedFields
    <3> QED BY <1>1, <2>1, <2>2, <3>1
  <2>5. Since(r, Assigned(r, o, a), p)
    <3> HIDE DEF r, p
    <3> QED BY <1>2, <2>4, SinceAssigned DEF r, p
  <2>6. Assigned(r, o, a) \in DbRecs
    BY <1>3 DEF Good
  <2> HIDE DEF r, p
  <2>7. Since(d, Assigned(r, o, a), p)
    BY <1>2, <2>3, <2>5, <2>6, SinceTransitive
  <2> QED BY <1>3, <2>7 DEF r, p
<1>5. CASE ~Conflict(d, o)
  <2>1. r = d
    BY <1>5 DEF Resolved
  <2>2. a \in d.apps \/ a \notin d.ever
    <3>1. CASE Owners(d, o) = {}
      BY <3>1 DEF Homes
    <3>2. CASE Owners(d, o) # {}
      BY <1>1, <3>2, CanonicalIsOwner DEF Homes
    <3> QED BY <3>1, <3>2
  <2>3. Since(d, Assigned(d, o, a), p)
    BY <1>2, <2>1, <2>2, SinceAssigned
  <2> QED BY <1>3, <2>1, <2>3
<1> QED BY <1>4, <1>5
-----------------------------------------------------------------------------
(***************************************************************************)
(* The inductive invariant.                                                *)
(***************************************************************************)
LEMMA NoTxFine == /\ NoTx \in TxRecs
                  /\ Good(NoTx.d) /\ ~NoTx.open
<1>1. EmptyDb \in DbRecs /\ Good(EmptyDb)
  BY EmptyGood DEF Good
<1>2. (CHOOSE p \in Scopes : TRUE) \in Scopes
  BY ScopesAssumption
<1> QED BY <1>1, <1>2 DEF NoTx, TxRecs

LEMMA PrefsTypes == NoPrefs \in PrefRecs /\ \A x \in PrefRecs, y \in PrefRecs : Patched(x, y) \in PrefRecs
  BY DEF NoPrefs, PrefRecs, Flags, Patched

LEMMA InitInvariant == Init => IInv
<1> SUFFICES ASSUME Init PROVE IInv
  OBVIOUS
<1>1. db \in DbRecs /\ Good(db)
  BY DatabasesAssumption DEF Init, Good
<1>2. edit \in [Handlers -> EditRecs]
  BY PrefsTypes DEF Init, NoEdit, EditRecs
<1>3. claim \in [Probers -> ClaimRecs]
  BY DEF Init, NoClaim, ClaimRecs
<1> QED BY <1>1, <1>2, <1>3, NoTxFine, BoundAssumption DEF Init, IInv, TypeOK

\* A step that replaces only the registry, outside a transaction, by a good one.
LEMMA RegistryReplaced ==
  ASSUME IInv, Free, Good(db'), UNCHANGED tx,
         open' \in SUBSET Scopes,
         edit' \in [Handlers -> EditRecs],
         claim' \in [Probers -> ClaimRecs],
         ops' \in 0..MaxOps
  PROVE  IInv'
<1>1. TypeOK'
  BY DEF IInv, TypeOK, Good
<1>2. Good(db)' /\ Good(tx.d)' /\ ~tx'.open
  BY DEF IInv, Free
<1> QED BY <1>1, <1>2 DEF IInv

LEMMA CountType ==
  ASSUME ops \in 0..MaxOps, Count
  PROVE  ops' \in 0..MaxOps
  BY BoundAssumption DEF Count

\* A change of one app's overrides or of the placements alone.
LEMMA PrefsGood ==
  ASSUME NEW d, Good(d), NEW a \in d.apps, NEW x \in PrefRecs
  PROVE  Good([d EXCEPT !.prefs[a] = x])
<1> DEFINE prefs == [d.prefs EXCEPT ![a] = x]
           e == [d EXCEPT !.prefs = prefs]
<1>1. d \in DbRecs /\ a \in Apps
  BY DEF Good, DbRecs
<1>2. prefs \in [Apps -> PrefRecs] /\ \A b \in Apps \ {a} : prefs[b] = d.prefs[b]
  BY <1>1 DEF DbRecs
<1>3. [d EXCEPT !.prefs[a] = x] = e
  BY <1>1 DEF DbRecs
<1> HIDE DEF prefs
<1>4. /\ e \in DbRecs /\ e.apps = d.apps /\ e.ever = d.ever /\ e.owner = d.owner
      /\ e.obs = d.obs /\ e.placed = d.placed /\ e.prefs = prefs
  BY <1>1, <1>2 DEF DbRecs
<1> HIDE DEF e
<1>5. References(e) /\ KeysFollow(e)
  BY <1>2, <1>4 DEF Good, References, KeysFollow, Observed
<1> QED BY <1>3, <1>4, <1>5 DEF Good

LEMMA PlacedGood ==
  ASSUME NEW d, Good(d), NEW placed \in SUBSET d.apps
  PROVE  Good([d EXCEPT !.placed = placed])
<1> DEFINE e == [d EXCEPT !.placed = placed]
<1>1. d \in DbRecs /\ placed \in SUBSET Apps
  BY DEF Good, DbRecs
<1>2. /\ e \in DbRecs /\ e.apps = d.apps /\ e.ever = d.ever /\ e.owner = d.owner
      /\ e.obs = d.obs /\ e.placed = placed /\ e.prefs = d.prefs
  BY <1>1 DEF DbRecs
<1> HIDE DEF e
<1>3. References(e) /\ KeysFollow(e)
  BY <1>2 DEF Good, References, KeysFollow, Observed
<1> QED BY <1>2, <1>3 DEF Good, e

\* INSERT OR IGNORE of a key nobody has.
LEMMA ClaimedGood ==
  ASSUME NEW d, Good(d), NEW a \in d.apps, NEW k \in Keys, d.owner[k] = None
  PROVE  Good([d EXCEPT !.owner[k] = a])
<1> DEFINE owner == [d.owner EXCEPT ![k] = a]
           e == [d EXCEPT !.owner = owner]
<1>1. d \in DbRecs /\ a \in Apps
  BY DEF Good, DbRecs
<1>2. /\ owner \in [Keys -> Apps \cup {None}] /\ owner[k] = a
      /\ \A l \in Keys \ {k} : owner[l] = d.owner[l]
  BY <1>1 DEF DbRecs
<1>3. [d EXCEPT !.owner[k] = a] = e
  BY <1>1 DEF DbRecs
<1> HIDE DEF owner
<1>4. /\ e \in DbRecs /\ e.apps = d.apps /\ e.ever = d.ever /\ e.owner = owner
      /\ e.obs = d.obs /\ e.placed = d.placed /\ e.prefs = d.prefs
  BY <1>1, <1>2 DEF DbRecs
<1> HIDE DEF e
<1>5. References(e)
  BY <1>2, <1>4 DEF Good, References
<1>6. KeysFollow(e)
  <2> SUFFICES ASSUME NEW s \in Observed(d), NEW l \in d.obs[s].keys
               PROVE  owner[l] = d.obs[s].app
    BY <1>4 DEF KeysFollow, Observed
  <2>1. l \in Keys
    BY <1>1 DEF Observed, DbRecs, ObsRecs
  <2>2. d.owner[l] = d.obs[s].app /\ d.obs[s].app # None
    BY DEF Good, KeysFollow, Observed
  <2> QED BY <1>2, <2>1, <2>2
<1> QED BY <1>3, <1>4, <1>5, <1>6 DEF Good

\* A transaction step, or its end without a commit.
LEMMA TxReplaced ==
  ASSUME IInv, UNCHANGED <<db, open, edit, claim, ops>>,
         tx' \in TxRecs,
         Good(tx'.d), tx'.open => Since(db, tx'.d, tx'.scope) /\ TodoOK'
  PROVE  IInv'
  BY DEF IInv, TypeOK

LEMMA ReconcileInvariant ==
  ASSUME IInv
  PROVE  /\ \A p \in Scopes : BeginReconcile(p) => IInv'
         /\ ReconcileObservation => IInv'
         /\ ReconcileConflicts => IInv'
<1>1. ASSUME NEW p \in Scopes, BeginReconcile(p) PROVE IInv'
  <2>1. PICK snap \in Snapshots[p] :
           tx' = [open |-> TRUE, scope |-> p, d |-> MarkAbsent(db, p), todo |-> snap]
    BY <1>1 DEF BeginReconcile
  <2>2. /\ snap \in Seq(Observations)
        /\ \A i \in DOMAIN snap : /\ ScopeOf[snap[i].source] = p
                                  /\ \A k, l \in KeysOf(snap[i]) \cap Explicit : k = l
    BY SnapshotsAssumption
  <2>3. Good(MarkAbsent(db, p)) /\ Since(db, MarkAbsent(db, p), p)
    BY MarkAbsentGood, SinceMarkAbsent DEF IInv
  <2>4. TodoOK'
    BY <2>1, <2>2 DEF TodoOK
  <2>5. /\ tx' \in TxRecs
        /\ Good(tx'.d) /\ Since(db, tx'.d, tx'.scope)
    <3> DEFINE m == MarkAbsent(db, p)
    <3> HIDE DEF m
    <3> QED BY <2>1, <2>2, <2>3 DEF Good, m, TxRecs
  <2>6. UNCHANGED <<db, edit, claim>> /\ open' \in SUBSET Scopes /\ ops' \in 0..MaxOps
    BY <1>1, CountType DEF BeginReconcile, IInv, TypeOK
  <2>7. TypeOK'
    BY <2>5, <2>6 DEF IInv, TypeOK
  <2> QED BY <2>4, <2>5, <2>6, <2>7 DEF IInv
<1>2. ASSUME ReconcileObservation PROVE IInv'
  <2> DEFINE d == tx.d
             o == Head(tx.todo)
  <2>1. /\ tx.open /\ tx.todo # <<>> /\ UNCHANGED <<db, open, edit, claim, ops>>
        /\ Conflict(d, o) => CanMerge(d, o, tx.scope)
    BY <1>2 DEF ReconcileObservation
  <2>2. PICK a \in Homes(d, o) :
           /\ ExplicitAgree(Resolved(d, o), o, a)
           /\ tx' = [tx EXCEPT !.d = Assigned(Resolved(d, o), o, a), !.todo = Tail(@)]
    BY <1>2 DEF ReconcileObservation
  <2>3. /\ tx \in TxRecs
        /\ Good(db) /\ Good(d) /\ Since(db, d, tx.scope) /\ TodoOK
    BY <2>1 DEF IInv, TypeOK
  <2>4. /\ o \in Observations /\ o = tx.todo[1] /\ Tail(tx.todo) \in Seq(Observations)
        /\ \A i \in DOMAIN Tail(tx.todo) : i + 1 \in DOMAIN tx.todo
                                             /\ Tail(tx.todo)[i] = tx.todo[i + 1]
        /\ 1 \in DOMAIN tx.todo
    BY <2>1, <2>3 DEF TxRecs
  <2>5. /\ ScopeOf[o.source] = tx.scope
        /\ \A k, l \in KeysOf(o) \cap Explicit : k = l
    BY <2>3, <2>4 DEF TodoOK
  <2> DEFINE e == Assigned(Resolved(d, o), o, a)
  <2>6. Good(e) /\ Since(d, e, tx.scope)
    <3>1. Conflict(d, o) => Mergeable(d, Owners(d, o))
      BY <2>1 DEF CanMerge
    <3>2. Good(e) /\ Since(d, e, ScopeOf[o.source])
      <4> HIDE DEF d, o
      <4> QED BY <2>2, <2>3, <2>4, <2>5, <3>1, ObservationStep
    <3> QED BY <2>5, <3>2
  <2>7. Since(db, e, tx.scope)
    <3>1. e \in DbRecs
      BY <2>6 DEF Good
    <3> HIDE DEF d, e
    <3> QED BY <2>3, <2>6, <3>1, SinceTransitive
  <2>8. tx' = [tx EXCEPT !.d = e, !.todo = Tail(tx.todo)]
    BY <2>2
  <2> HIDE DEF e
  <2>9. /\ tx' \in TxRecs
        /\ tx'.d = e /\ tx'.todo = Tail(tx.todo) /\ tx'.scope = tx.scope
    BY <2>3, <2>4, <2>6, <2>8 DEF Good, TxRecs
  <2>10. TodoOK'
    BY <2>3, <2>4, <2>9 DEF TodoOK
  <2> QED BY <2>1, <2>6, <2>7, <2>9, <2>10, TxReplaced
<1>3. ASSUME ReconcileConflicts PROVE IInv'
  <2>1. tx' = NoTx /\ UNCHANGED <<db, open, edit, claim, ops>>
    BY <1>3 DEF ReconcileConflicts
  <2> QED BY <2>1, NoTxFine, TxReplaced
<1> QED BY <1>1, <1>2, <1>3

LEMMA CommitGood ==
  ASSUME IInv, ReconcileCommit
  PROVE  Good(db')
<1>1. Prunable(tx.d, tx.scope) \subseteq tx.d.apps /\ None \notin tx.d.apps
  BY NamesAssumption DEF Prunable, Unnamed, IInv, Good, DbRecs
<1>2. Good(Without(tx.d, Prunable(tx.d, tx.scope)))
  BY <1>1, WithoutGood DEF IInv
<1> QED BY <1>2 DEF ReconcileCommit, IInv

LEMMA StepInvariant ==
  ASSUME IInv, [Next]_vars
  PROVE  IInv'
<1> USE DEF IInv
<1>1. CASE UNCHANGED vars
  BY <1>1 DEF vars, TypeOK, TodoOK
<1>2. ASSUME NEW p \in Scopes, BeginReconcile(p) PROVE IInv'
  BY <1>2, ReconcileInvariant
<1>3. CASE ReconcileObservation \/ ReconcileConflicts
  BY <1>3, ReconcileInvariant
<1>4. CASE ReconcileCommit
  <2>1. tx' = NoTx /\ UNCHANGED <<open, edit, claim, ops>> /\ Good(db')
    BY <1>4, CommitGood DEF ReconcileCommit
  <2>2. TypeOK'
    BY <2>1, NoTxFine DEF TypeOK, Good
  <2> QED BY <2>1, <2>2, NoTxFine
<1>5. ASSUME NEW p \in Scopes, DeleteProvider(p) PROVE IInv'
  <2>1. Free /\ Good(db') /\ UNCHANGED <<tx, edit, claim>>
        /\ open' \in SUBSET Scopes /\ ops' \in 0..MaxOps
    BY <1>5, MarkAbsentGood, CountType DEF DeleteProvider, TypeOK
  <2> QED BY <2>1, RegistryReplaced DEF TypeOK
<1>6. ASSUME NEW h \in Handlers, UpdateAppWrite(h) PROVE IInv'
  <2>1. Good(db')
    <3>1. edit[h].prefs \in PrefRecs
      BY DEF TypeOK, EditRecs
    <3> QED BY <1>6, <3>1, PrefsGood DEF UpdateAppWrite
  <2>2. Free /\ UNCHANGED <<tx, open, claim, ops>> /\ edit' = [edit EXCEPT ![h] = NoEdit]
    BY <1>6 DEF UpdateAppWrite
  <2>3. edit' \in [Handlers -> EditRecs]
    BY <2>2, PrefsTypes DEF TypeOK, NoEdit, EditRecs
  <2> QED BY <2>1, <2>2, <2>3, RegistryReplaced DEF TypeOK
<1>7. ASSUME NEW h \in Handlers, NEW a \in Apps, NEW patch \in Patches, UpdateAppRead(h, a, patch)
      PROVE  IInv'
  <2>1. Free /\ UNCHANGED <<db, tx, open, claim>> /\ ops' \in 0..MaxOps
    BY <1>7, CountType DEF UpdateAppRead, TypeOK
  <2>2. patch \in PrefRecs /\ Patched(db.prefs[a], patch) \in PrefRecs
    BY PrefsTypes, NamesAssumption DEF Good, DbRecs
  <2>3. edit' \in [Handlers -> EditRecs]
    BY <1>7, <2>2 DEF UpdateAppRead, TypeOK, EditRecs
  <2> QED BY <2>1, <2>3, RegistryReplaced DEF TypeOK
<1>8. ASSUME NEW a \in Apps, DeleteApp(a) PROVE IInv'
  <2>1. Free /\ Good(db') /\ UNCHANGED <<tx, open, edit, claim>> /\ ops' \in 0..MaxOps
    BY <1>8, WithoutGood, NamesAssumption, CountType DEF DeleteApp, TypeOK
  <2> QED BY <2>1, RegistryReplaced DEF TypeOK
<1>9. ASSUME NEW a \in Apps, PlaceApp(a) PROVE IInv'
  <2>1. Good(db')
    <3> DEFINE placed == IF a \in db.placed THEN db.placed \ {a} ELSE db.placed \cup {a}
    <3>1. placed \in SUBSET db.apps
      BY <1>9 DEF PlaceApp, Good, References
    <3>2. db' = [db EXCEPT !.placed = placed]
      BY <1>9 DEF PlaceApp, Good, DbRecs
    <3> HIDE DEF placed
    <3> QED BY <3>1, <3>2, PlacedGood
  <2>2. Free /\ UNCHANGED <<tx, open, edit, claim>> /\ ops' \in 0..MaxOps
    BY <1>9, CountType DEF PlaceApp, TypeOK
  <2> QED BY <2>1, <2>2, RegistryReplaced DEF TypeOK
<1>10. ASSUME NEW q \in Probers, ClaimLookup(q) PROVE IInv'
  <2>1. Free /\ UNCHANGED <<db, tx, open, edit, ops>>
    BY <1>10 DEF ClaimLookup
  <2>2. claim' \in [Probers -> ClaimRecs]
    BY <1>10 DEF ClaimLookup, TypeOK, NoClaim, ClaimRecs
  <2> QED BY <2>1, <2>2, RegistryReplaced DEF TypeOK
<1>11. ASSUME NEW q \in Probers, ClaimInsert(q) PROVE IInv'
  <2>1. Free /\ UNCHANGED <<tx, open, edit, ops>>
    BY <1>11 DEF ClaimInsert
  <2>2. claim' \in [Probers -> ClaimRecs]
    BY <1>11 DEF ClaimInsert, TypeOK, NoClaim, ClaimRecs
  <2>3. Good(db')
    <3>1. CASE db.owner[claim[q].key] = None /\ claim[q].app \in db.apps
      <4>1. claim[q].key \in Keys
        BY <1>11, NamesAssumption DEF ClaimInsert, ClaimRecs, TypeOK
      <4> QED BY <1>11, <3>1, <4>1, ClaimedGood DEF ClaimInsert
    <3>2. CASE ~(db.owner[claim[q].key] = None /\ claim[q].app \in db.apps)
      BY <1>11, <3>2 DEF ClaimInsert
    <3> QED BY <3>1, <3>2
  <2> QED BY <2>1, <2>2, <2>3, RegistryReplaced DEF TypeOK
<1>12. ASSUME NEW q \in Probers, NEW a \in Apps, NEW k \in Explicit, ClaimCount(q, a, k) PROVE IInv'
  <2>1. Free /\ UNCHANGED <<db, tx, open, edit>> /\ ops' \in 0..MaxOps
    BY <1>12, CountType DEF ClaimCount, TypeOK
  <2>2. claim' \in [Probers -> ClaimRecs]
    BY <1>12 DEF ClaimCount, TypeOK, ClaimRecs
  <2> QED BY <2>1, <2>2, RegistryReplaced DEF TypeOK
<1> QED
  BY <1>1, <1>2, <1>3, <1>4, <1>5, <1>6, <1>7, <1>8, <1>9, <1>10, <1>11, <1>12 DEF Next
-----------------------------------------------------------------------------
THEOREM Invariance == Spec => []IInv
<1>1. Init => IInv
  BY InitInvariant
<1>2. IInv /\ [Next]_vars => IInv'
  BY StepInvariant
<1> QED BY <1>1, <1>2, PTL DEF Spec

(* The types of the registry, of a scan's working copy and of what the     *)
(* handlers hold between their statements.                                 *)
THEOREM TypeCorrect == Spec => []TypeOK
<1>1. IInv => TypeOK
  BY DEF IInv
<1> QED BY <1>1, Invariance, PTL

(* No identity, observation or page outlives its application.              *)
THEOREM ReferentialIntegrity == Spec => []ReferencesHold
<1>1. IInv => ReferencesHold
  BY DEF IInv, Good, ReferencesHold
<1> QED BY <1>1, Invariance, PTL

(* An observation is with the app that owns its keys, after any scans,     *)
(* merges, claims and deletions.                                           *)
THEOREM KeysAndSources == Spec => []SourcesFollowKeys
<1>1. IInv => SourcesFollowKeys
  BY DEF IInv, Good, SourcesFollowKeys
<1> QED BY <1>1, Invariance, PTL
-----------------------------------------------------------------------------
(***************************************************************************)
(* What a whole scan does, from the relation its working copy kept to the  *)
(* registry it started from, and from what pruning spares.                 *)
(***************************************************************************)
(* A scan of one provider leaves every other provider's observations and   *)
(* whether they are present alone, although it may merge and prune apps    *)
(* they belong to.                                                         *)
OtherProvidersKept ==
    [][Committed => \A s \in Observed(db) : ScopeOf[s] # tx.scope =>
         /\ db'.obs[s].app # None
         /\ [db'.obs[s] EXCEPT !.app = None] = [db.obs[s] EXCEPT !.app = None]]_vars

\* The one step that ends a transaction with a change.
LEMMA CommittedByCommit ==
  ASSUME IInv, [Next]_vars, Committed
  PROVE  ReconcileCommit
  BY DEF Committed, Next, vars, Free, BeginReconcile, DeleteProvider, ReconcileObservation,
     ReconcileConflicts, UpdateAppWrite, UpdateAppRead, DeleteApp, PlaceApp, ClaimCount,
     ClaimLookup, ClaimInsert

\* db' is the working copy without the apps that are pruned, who had only noise.
LEMMA CommitFields ==
  ASSUME IInv, ReconcileCommit
  PROVE  /\ Since(db, tx.d, tx.scope) /\ tx.d \in DbRecs
         /\ tx.scope \notin Traefik => db' = tx.d
         /\ \E gone \in SUBSET tx.d.apps :
               /\ gone \cap tx.d.placed = {}
               /\ \A a \in gone : tx.d.prefs[a] = NoPrefs /\ ExplicitOf(tx.d, a) = {}
               /\ \A s \in Observed(tx.d) : tx.d.obs[s].app \in gone => IsNoise(tx.d, s, tx.scope)
               /\ db'.apps = tx.d.apps \ gone /\ db'.placed = tx.d.placed \ gone
               /\ db'.ever = tx.d.ever
               /\ \A k \in Keys : db'.owner[k] = IF tx.d.owner[k] \in gone THEN None
                                                ELSE tx.d.owner[k]
               /\ \A a \in Apps : db'.prefs[a] = IF a \in gone THEN NoPrefs ELSE tx.d.prefs[a]
               /\ \A s \in Sources : db'.obs[s] = IF tx.d.obs[s].app \in gone THEN NoObs
                                                 ELSE tx.d.obs[s]
<1> DEFINE d == tx.d
           gone == Prunable(d, tx.scope)
<1>1. Since(db, d, tx.scope) /\ d \in DbRecs
  BY DEF IInv, Good, ReconcileCommit
<1>2. CASE tx.scope \in Traefik
  <2>1. db' = Without(d, gone)
    BY <1>2 DEF ReconcileCommit
  <2>2. /\ gone \in SUBSET d.apps /\ gone \cap d.placed = {}
        /\ \A a \in gone : d.prefs[a] = NoPrefs /\ ExplicitOf(d, a) = {}
        /\ gone \cap Otherwise(d, tx.scope) = {}
    BY DEF Prunable, Unnamed
  <2>3. \A s \in Observed(d) : d.obs[s].app \in gone => IsNoise(d, s, tx.scope)
    BY <2>2 DEF Otherwise
  <2> HIDE DEF gone, d
  <2>4. /\ Without(d, gone).apps = d.apps \ gone /\ Without(d, gone).placed = d.placed \ gone
        /\ Without(d, gone).ever = d.ever
        /\ \A k \in Keys : Without(d, gone).owner[k] = IF d.owner[k] \in gone THEN None
                                                       ELSE d.owner[k]
        /\ \A a \in Apps : Without(d, gone).prefs[a] = IF a \in gone THEN NoPrefs ELSE d.prefs[a]
        /\ \A s \in Sources : Without(d, gone).obs[s] = IF d.obs[s].app \in gone THEN NoObs
                                                        ELSE d.obs[s]
    BY <1>1, WithoutFields
  <2>5. \E g \in SUBSET d.apps :
               /\ g \cap d.placed = {}
               /\ \A a \in g : d.prefs[a] = NoPrefs /\ ExplicitOf(d, a) = {}
               /\ \A s \in Observed(d) : d.obs[s].app \in g => IsNoise(d, s, tx.scope)
               /\ db'.apps = d.apps \ g /\ db'.placed = d.placed \ g
               /\ db'.ever = d.ever
               /\ \A k \in Keys : db'.owner[k] = IF d.owner[k] \in g THEN None ELSE d.owner[k]
               /\ \A a \in Apps : db'.prefs[a] = IF a \in g THEN NoPrefs ELSE d.prefs[a]
               /\ \A s \in Sources : db'.obs[s] = IF d.obs[s].app \in g THEN NoObs ELSE d.obs[s]
    <3>1. gone \in SUBSET d.apps
      BY <2>2
    <3> USE <3>1
    <3> WITNESS gone \in SUBSET d.apps
    <3> QED BY <2>1, <2>2, <2>3, <2>4
  <2> QED BY <1>1, <1>2, <2>5 DEF d
<1>3. CASE tx.scope \notin Traefik
  <2>1. db' = d
    BY <1>3 DEF ReconcileCommit
  <2>2. \E g \in SUBSET d.apps :
               /\ g \cap d.placed = {}
               /\ \A a \in g : d.prefs[a] = NoPrefs /\ ExplicitOf(d, a) = {}
               /\ \A s \in Observed(d) : d.obs[s].app \in g => IsNoise(d, s, tx.scope)
               /\ db'.apps = d.apps \ g /\ db'.placed = d.placed \ g
               /\ db'.ever = d.ever
               /\ \A k \in Keys : db'.owner[k] = IF d.owner[k] \in g THEN None ELSE d.owner[k]
               /\ \A a \in Apps : db'.prefs[a] = IF a \in g THEN NoPrefs ELSE d.prefs[a]
               /\ \A s \in Sources : db'.obs[s] = IF d.obs[s].app \in g THEN NoObs ELSE d.obs[s]
    <3> WITNESS {} \in SUBSET d.apps
    <3> QED BY <2>1
  <2> QED BY <1>1, <2>1, <2>2 DEF d
<1> QED BY <1>2, <1>3

\* The action formulas of the properties, step by step.
LEMMA CurationStep ==
  ASSUME IInv, [Next]_vars, Committed, NEW k \in Keys, db.owner[k] # None,
         Curated(db, db.owner[k])
  PROVE  db'.owner[k] # None /\ Carries(db, db.owner[k], db', db'.owner[k])
<1> DEFINE d == tx.d
           a == db.owner[k]
           b == d.owner[k]
<1>1. ReconcileCommit
  BY CommittedByCommit
<1>2. PICK gone \in SUBSET d.apps :
         /\ gone \cap d.placed = {}
         /\ \A x \in gone : d.prefs[x] = NoPrefs /\ ExplicitOf(d, x) = {}
         /\ db'.placed = d.placed \ gone
         /\ \A l \in Keys : db'.owner[l] = IF d.owner[l] \in gone THEN None ELSE d.owner[l]
         /\ \A x \in Apps : db'.prefs[x] = IF x \in gone THEN NoPrefs ELSE d.prefs[x]
  BY <1>1, CommitFields
<1>3. Since(db, d, tx.scope) /\ d \in DbRecs /\ db \in DbRecs
  BY <1>1, CommitFields DEF IInv, Good
<1>4. b # None /\ Carries(db, a, d, b) /\ b \in Apps /\ a \in Apps
  BY <1>3 DEF Since, DbRecs
<1>5. b \notin gone
  <2> SUFFICES ASSUME b \in gone PROVE FALSE
    OBVIOUS
  <2>1. CASE a \in db.placed
    BY <1>2, <1>4, <2>1 DEF Carries
  <2>2. CASE db.prefs[a] # NoPrefs
    <3>1. db.prefs[a] \in PrefRecs
      BY <1>3, <1>4 DEF DbRecs
    <3>2. db.prefs[a].text # Unset \/ db.prefs[a].flag # "unset"
      BY <2>2, <3>1 DEF PrefRecs, NoPrefs
    <3>3. d.prefs[b].text = Unset /\ d.prefs[b].flag = "unset"
      BY <1>2 DEF NoPrefs
    <3> QED BY <1>4, <3>2, <3>3 DEF Carries
  <2>3. CASE ExplicitOf(db, a) # {}
    <3>1. PICK l \in Explicit : db.owner[l] = a
      BY <2>3 DEF ExplicitOf
    <3>2. l \in Keys /\ d.owner[l] = b
      BY <1>3, <3>1, NamesAssumption DEF Since
    <3>3. l \in ExplicitOf(d, b)
      BY <3>2 DEF ExplicitOf
    <3> QED BY <1>2, <3>3
  <2> QED BY <2>1, <2>2, <2>3 DEF Curated
<1>6. db'.owner[k] = b /\ Carries(d, b, db', b)
  BY <1>2, <1>4, <1>5 DEF Carries
<1> QED BY <1>4, <1>6, CarriesTransitive

LEMMA KeyStep ==
  ASSUME IInv, [Next]_vars, NEW k \in Keys, db.owner[k] \in db'.apps
  PROVE  db'.owner[k] = db.owner[k]
<1>1. CASE db' = db
  BY <1>1
<1>2. CASE ReconcileCommit
  <2>1. PICK gone \in SUBSET tx.d.apps :
         /\ db'.apps = tx.d.apps \ gone
         /\ \A l \in Keys : db'.owner[l] = IF tx.d.owner[l] \in gone THEN None ELSE tx.d.owner[l]
    BY <1>2, CommitFields
  <2>2. Since(db, tx.d, tx.scope)
    BY <1>2, CommitFields
  <2> QED BY <2>1, <2>2 DEF Since
<1>3. ASSUME NEW p \in Scopes, DeleteProvider(p) PROVE db'.owner[k] = db.owner[k]
  BY <1>3, MarkAbsentFields DEF DeleteProvider, IInv, Good
<1>4. ASSUME NEW h \in Handlers, UpdateAppWrite(h) PROVE db'.owner[k] = db.owner[k]
  BY <1>4 DEF UpdateAppWrite, IInv, Good, DbRecs
<1>5. ASSUME NEW a \in Apps, DeleteApp(a) PROVE db'.owner[k] = db.owner[k]
  <2>1. /\ db'.apps = db.apps \ {a}
        /\ \A l \in Keys : db'.owner[l] = IF db.owner[l] \in {a} THEN None ELSE db.owner[l]
    BY <1>5, WithoutFields DEF DeleteApp, IInv, Good
  <2> QED BY <2>1
<1>6. ASSUME NEW a \in Apps, PlaceApp(a) PROVE db'.owner[k] = db.owner[k]
  BY <1>6 DEF PlaceApp, IInv, Good, DbRecs
<1>7. ASSUME NEW q \in Probers, ClaimInsert(q) PROVE db'.owner[k] = db.owner[k]
  <2>1. db \in DbRecs /\ None \notin db.apps
    BY NamesAssumption DEF IInv, Good, DbRecs
  <2>2. CASE db.owner[claim[q].key] = None /\ claim[q].app \in db.apps
    <3>1. db' = [db EXCEPT !.owner[claim[q].key] = claim[q].app]
      BY <1>7, <2>2 DEF ClaimInsert
    <3>2. db'.apps = db.apps /\ (k # claim[q].key => db'.owner[k] = db.owner[k])
      BY <2>1, <3>1 DEF DbRecs
    <3>3. k # claim[q].key
      BY <2>1, <2>2, <3>2
    <3> QED BY <3>2, <3>3
  <2>3. CASE ~(db.owner[claim[q].key] = None /\ claim[q].app \in db.apps)
    BY <1>7, <2>3 DEF ClaimInsert
  <2> QED BY <2>2, <2>3
<1>8. \/ db' = db \/ ReconcileCommit
      \/ \E p \in Scopes : DeleteProvider(p)
      \/ \E h \in Handlers : UpdateAppWrite(h)
      \/ \E a \in Apps : DeleteApp(a) \/ PlaceApp(a)
      \/ \E q \in Probers : ClaimInsert(q)
  BY DEF Next, vars, BeginReconcile, ReconcileObservation, ReconcileConflicts, UpdateAppRead,
     ClaimCount, ClaimLookup
<1> QED BY <1>1, <1>2, <1>3, <1>4, <1>5, <1>6, <1>7, <1>8

LEMMA OtherProvidersStep ==
  ASSUME IInv, [Next]_vars, Committed, NEW s \in Observed(db), ScopeOf[s] # tx.scope
  PROVE  /\ db'.obs[s].app # None
         /\ [db'.obs[s] EXCEPT !.app = None] = [db.obs[s] EXCEPT !.app = None]
<1>1. ReconcileCommit
  BY CommittedByCommit
<1>2. PICK gone \in SUBSET tx.d.apps :
         /\ \A t \in Observed(tx.d) : tx.d.obs[t].app \in gone => IsNoise(tx.d, t, tx.scope)
         /\ \A t \in Sources : db'.obs[t] = IF tx.d.obs[t].app \in gone THEN NoObs
                                           ELSE tx.d.obs[t]
  BY <1>1, CommitFields
<1>3. /\ tx.d.obs[s].app # None
      /\ [tx.d.obs[s] EXCEPT !.app = None] = [db.obs[s] EXCEPT !.app = None]
  BY <1>1, CommitFields DEF Since
<1>4. s \in Sources /\ s \in Observed(tx.d)
  BY <1>3 DEF Observed
<1> QED BY <1>2, <1>3, <1>4 DEF IsNoise

LEMMA OneIDStep ==
  ASSUME IInv, [Next]_vars, Committed, NEW a \in Apps, TwoIDs(db', a)
  PROVE  TwoIDs(db, a)
<1>1. ReconcileCommit
  BY CommittedByCommit
<1>2. PICK gone \in SUBSET tx.d.apps :
         \A l \in Keys : db'.owner[l] = IF tx.d.owner[l] \in gone THEN None ELSE tx.d.owner[l]
  BY <1>1, CommitFields
<1>3. TwoIDs(tx.d, a)
  BY <1>2, NamesAssumption DEF TwoIDs, ExplicitOf
<1>4. Since(db, tx.d, tx.scope)
  BY <1>1, CommitFields
<1> QED BY <1>3, <1>4 DEF Since

(* A scan keeps the overrides, the placements and the explicit IDs of      *)
(* every key's app, through merges and pruning.                            *)
THEOREM CurationKept == Spec => CurationSurvivesScans
<1>1. IInv /\ [Next]_vars =>
        [Committed => \A k \in Keys :
           LET a == db.owner[k]  b == db'.owner[k]
           IN  a # None /\ Curated(db, a) => b # None /\ Carries(db, a, db', b)]_vars
  BY CurationStep
<1> QED BY <1>1, Invariance, PTL DEF Spec, CurationSurvivesScans

(* A key stays with its app as long as there is that app.                  *)
THEOREM KeysKept == Spec => KeysStay
<1>1. IInv /\ [Next]_vars =>
        [\A k \in Keys : db.owner[k] \in db'.apps => db'.owner[k] = db.owner[k]]_vars
  BY KeyStep
<1> QED BY <1>1, Invariance, PTL DEF Spec, KeysStay

(* A scan leaves other providers' observations alone.                      *)
THEOREM ScopesSeparate == Spec => OtherProvidersKept
<1>1. IInv /\ [Next]_vars =>
        [Committed => \A s \in Observed(db) : ScopeOf[s] # tx.scope =>
           /\ db'.obs[s].app # None
           /\ [db'.obs[s] EXCEPT !.app = None] = [db.obs[s] EXCEPT !.app = None]]_vars
  BY OtherProvidersStep
<1> QED BY <1>1, Invariance, PTL DEF Spec, OtherProvidersKept

(* No scan gives an app a second explicit ID.                              *)
THEOREM ScansNameOnce == Spec => ScansKeepOneID
<1>1. IInv /\ [Next]_vars =>
        [Committed => \A a \in Apps : TwoIDs(db', a) => TwoIDs(db, a)]_vars
  BY OneIDStep
<1> QED BY <1>1, Invariance, PTL DEF Spec, ScansKeepOneID
-----------------------------------------------------------------------------
(***************************************************************************)
(* Registry implements AtomicRegistry.  What that needs beside IInv is     *)
(* what the working copy d of a scan of p, which started from d0, has made *)
(* of the first n observations of the snapshot snap.                       *)
(***************************************************************************)
SameFacts(x, y) == Atomic!Facts(x) = Atomic!Facts(y) /\ (x.app = None <=> y.app = None)

Worked(d0, d, p, snap, n) ==
    /\ \A s \in Sources :
         /\ \A i \in 1..n :
              snap[i].source = s /\ (\A j \in 1..n : snap[j].source = s => j <= i) =>
                /\ d.obs[s].app # None
                /\ Atomic!Facts(d.obs[s]) = [keys |-> KeysOf(snap[i]), present |-> TRUE,
                                             internal |-> snap[i].internal]
         /\ (\A i \in 1..n : snap[i].source # s) =>
                SameFacts(d.obs[s], MarkAbsent(d0, p).obs[s])
    /\ \A k \in Keys : d0.owner[k] = None /\ d.owner[k] # None =>
                         \E i \in 1..n : k \in KeysOf(snap[i])
    /\ \A a \in d.apps \ d0.apps : \E i \in 1..n :
         KeysOf(snap[i]) = {} \/ \E k \in KeysOf(snap[i]) : d.owner[k] = a
    /\ p \notin Traefik => d0.apps \subseteq d.apps /\ d.prefs = d0.prefs /\ d.placed = d0.placed

\* The apps of d0 that a has to thank for what it has in d.
From(d0, d, a) == {b \in d0.apps : b = a \/ \E k \in Keys : d0.owner[k] = b /\ d.owner[k] = a}

HasFrom(d0, d, a, S) ==
    /\ a \in d.placed => S \cap d0.placed # {}
    /\ d.prefs[a].text # Unset => \E b \in S : d0.prefs[b].text = d.prefs[a].text
    /\ d.prefs[a].flag # "unset" => \E b \in S : d0.prefs[b].flag = d.prefs[a].flag

\* The apps of the working copy d come from those of d0.  An app ends only by
\* its keys, so that one of d0 that has keys in d still has one it had in d0.
Descends(d0, d) ==
    /\ \A a \in d0.apps \cap d.apps : Carries(d0, a, d, a)
    /\ \A a \in d0.apps \ d.apps : \E k \in Keys : d0.owner[k] = a
    /\ \A a \in d.apps : HasFrom(d0, d, a, From(d0, d, a))
    /\ \A k \in Keys : d.owner[k] \in d0.apps =>
          \E l \in Keys : d0.owner[l] = d.owner[k] /\ d.owner[l] = d.owner[k]

\* The observations of snap after the first n are still to be worked off.
Remaining(todo, snap, n) ==
    Len(todo) = Len(snap) - n /\ \A i \in 1..Len(todo) : todo[i] = snap[n + i]

ScanInv ==
    tx.open => /\ Descends(db, tx.d)
               /\ \E snap \in Snapshots[tx.scope] : \E n \in 0..Len(snap) :
                     Remaining(tx.todo, snap, n) /\ Worked(db, tx.d, tx.scope, snap, n)

\* Merging, and the beginning of a scan, change no facts but presence.
LEMMA MarkAbsentFacts ==
  ASSUME NEW d \in DbRecs, NEW p, NEW s \in Sources
  PROVE  /\ MarkAbsent(d, p).obs[s].app = d.obs[s].app
         /\ Atomic!Facts(MarkAbsent(d, p).obs[s])
              = [keys |-> d.obs[s].keys, present |-> d.obs[s].present /\ ScopeOf[s] # p,
                 internal |-> d.obs[s].internal]
<1>1. d.obs[s] \in ObsRecs
  BY DEF DbRecs
<1>2. MarkAbsent(d, p).obs[s] = IF ScopeOf[s] = p THEN [d.obs[s] EXCEPT !.present = FALSE]
                                ELSE d.obs[s]
  BY DEF MarkAbsent, DbRecs
<1>3. d.obs[s].present \in BOOLEAN
  BY <1>1 DEF ObsRecs
<1>4. /\ MarkAbsent(d, p).obs[s].app = d.obs[s].app
      /\ MarkAbsent(d, p).obs[s].keys = d.obs[s].keys
      /\ MarkAbsent(d, p).obs[s].present = (d.obs[s].present /\ ScopeOf[s] # p)
      /\ MarkAbsent(d, p).obs[s].internal = d.obs[s].internal
  <2>1. CASE ScopeOf[s] = p
    <3>1. MarkAbsent(d, p).obs[s] = [d.obs[s] EXCEPT !.present = FALSE]
      BY <1>2, <2>1
    <3> QED BY <1>1, <2>1, <3>1 DEF ObsRecs
  <2>2. CASE ScopeOf[s] # p
    BY <1>2, <1>3, <2>2
  <2> QED BY <2>1, <2>2
<1> QED BY <1>4, Zenon DEF Atomic!Facts

LEMMA ResolvedFacts ==
  ASSUME NEW d, Good(d), NEW o \in Observations, NEW p, Conflict(d, o) => CanMerge(d, o, p)
  PROVE  LET r == Resolved(d, o)
         IN  /\ r \in DbRecs
             /\ \A s \in Sources : SameFacts(r.obs[s], d.obs[s])
             /\ \A k \in Keys : r.owner[k] = None <=> d.owner[k] = None
             /\ r.apps \subseteq d.apps
             /\ \A k \in Keys : d.owner[k] \in r.apps => r.owner[k] = d.owner[k]
             /\ p \notin Traefik => r = d
<1>1. d \in DbRecs /\ References(d)
  BY DEF Good
<1>2. CASE ~Conflict(d, o)
  BY <1>1, <1>2 DEF Resolved, SameFacts
<1>3. CASE Conflict(d, o)
  <2> DEFINE ids == Owners(d, o)
             c == Canonical(d, o)
             e == Merged(d, ids, c)
  <2>1. ids \in SUBSET d.apps /\ c \in ids
    BY <1>1, <1>3, OwnersAreApps, CanonicalIsOwner DEF Conflict
  <2>2. c # None /\ None \notin ids
    BY <1>1, <2>1, NamesAssumption DEF DbRecs
  <2> HIDE DEF ids, c
  <2>3. /\ e \in DbRecs
        /\ e.apps = d.apps \ (ids \ {c}) /\ e.ever = d.ever
        /\ e.placed = Replaced(d.placed, ids, c)
        /\ \A k \in Keys : e.owner[k] = IF d.owner[k] \in ids THEN c ELSE d.owner[k]
        /\ \A a \in Apps : e.prefs[a] = IF a = c THEN MergedPrefs(d, ids)
                                         ELSE IF a \in ids THEN NoPrefs ELSE d.prefs[a]
        /\ \A s \in Sources :
              /\ e.obs[s].app = IF d.obs[s].app \in ids THEN c ELSE d.obs[s].app
              /\ e.obs[s].keys = d.obs[s].keys
              /\ [e.obs[s] EXCEPT !.app = None] = [d.obs[s] EXCEPT !.app = None]
    BY <1>1, <2>1, MergedFields
  <2>4. Resolved(d, o) = e /\ p \in Traefik
    BY <1>3 DEF Resolved, CanMerge, ids, c
  <2> HIDE DEF e
  <2>5. ASSUME NEW s \in Sources PROVE SameFacts(e.obs[s], d.obs[s])
    <3>1. e.obs[s] \in ObsRecs /\ d.obs[s] \in ObsRecs
      BY <1>1, <2>3 DEF DbRecs
    <3>2. [e.obs[s] EXCEPT !.app = None] = [d.obs[s] EXCEPT !.app = None]
      BY <2>3
    <3>3. /\ e.obs[s].keys = d.obs[s].keys /\ e.obs[s].present = d.obs[s].present
          /\ e.obs[s].internal = d.obs[s].internal
      BY <3>1, <3>2 DEF ObsRecs
    <3>4. e.obs[s].app = None <=> d.obs[s].app = None
      BY <2>2, <2>3
    <3> QED BY <3>3, <3>4 DEF SameFacts, Atomic!Facts
  <2> QED BY <2>2, <2>3, <2>4, <2>5
<1> QED BY <1>2, <1>3

LEMMA AssignedFacts ==
  ASSUME NEW d \in DbRecs, NEW o \in Observations, NEW a \in Apps
  PROVE  LET e == Assigned(d, o, a)
         IN  /\ e.obs[o.source].app = a
             /\ Atomic!Facts(e.obs[o.source]) = [keys |-> KeysOf(o), present |-> TRUE,
                                                 internal |-> o.internal]
             /\ \A s \in Sources \ {o.source} : e.obs[s] = d.obs[s]
<1> DEFINE row == [app |-> a, keys |-> KeysOf(o), present |-> TRUE, internal |-> o.internal]
<1>1. o.source \in Sources
  BY DEF Observations
<1>2. /\ Assigned(d, o, a).obs[o.source] = row
      /\ \A s \in Sources \ {o.source} : Assigned(d, o, a).obs[s] = d.obs[s]
  BY <1>1 DEF Assigned, DbRecs
<1> QED BY <1>2 DEF Atomic!Facts

\* At the beginning of a scan every app descends from itself.
LEMMA DescendsMarked ==
  ASSUME NEW d, Good(d), NEW p
  PROVE  Descends(d, MarkAbsent(d, p))
<1> DEFINE e == MarkAbsent(d, p)
<1>1. /\ e.apps = d.apps /\ e.owner = d.owner /\ e.prefs = d.prefs /\ e.placed = d.placed
  BY MarkAbsentFields DEF Good
<1> HIDE DEF e
<1>2. ASSUME NEW a \in e.apps PROVE HasFrom(d, e, a, From(d, e, a))
  <2>1. a \in From(d, e, a)
    BY <1>1, <1>2 DEF From
  <2> QED BY <1>1, <2>1 DEF HasFrom
<1> QED BY <1>1, <1>2 DEF Descends, Carries, e

\* More to inherit from is no loss.
LEMMA MoreFrom ==
  ASSUME NEW d0, NEW d, NEW e, NEW a, NEW b, NEW S, NEW T, S \subseteq T,
         e.prefs[b] = d.prefs[a], b \in e.placed => a \in d.placed,
         HasFrom(d0, d, a, S)
  PROVE  HasFrom(d0, e, b, T)
  BY DEF HasFrom

\* A merge: c inherits from all that the apps of ids inherited from.
LEMMA DescendsMerged ==
  ASSUME NEW d0, Good(d0), NEW d, Good(d), NEW p, Descends(d0, d),
         NEW ids \in SUBSET d.apps, NEW c \in ids, Mergeable(d, ids),
         \A b \in ids : \E k \in Keys : d.owner[k] = b
  PROVE  Descends(d0, Merged(d, ids, c))
<1> DEFINE e == Merged(d, ids, c)
<1>1. d \in DbRecs /\ References(d) /\ d.apps \subseteq Apps /\ d0.apps \subseteq Apps
  BY DEF Good, DbRecs
<1>2. /\ e.apps = d.apps \ (ids \ {c})
      /\ e.placed = Replaced(d.placed, ids, c)
      /\ \A k \in Keys : e.owner[k] = IF d.owner[k] \in ids THEN c ELSE d.owner[k]
      /\ \A a \in Apps : e.prefs[a] = IF a = c THEN MergedPrefs(d, ids)
                                       ELSE IF a \in ids THEN NoPrefs ELSE d.prefs[a]
  BY <1>1, MergedFields
<1>3. \A a \in ids : Carries(d, a, e, c)
  BY MergeCarries
<1>4. \A a \in d.apps \ ids : Carries(d, a, e, a)
  BY MergeCarries
<1> HIDE DEF e
\* An app of d0 among ids still has a key it had in d0.
<1>5. ASSUME NEW b \in ids, b \in d0.apps
      PROVE  \E l \in Keys : d0.owner[l] = b /\ d.owner[l] = b
  <2>1. PICK k \in Keys : d.owner[k] = b
    OBVIOUS
  <2> QED BY <1>5, <2>1 DEF Descends
<1>6. ASSUME NEW a \in d0.apps \cap e.apps PROVE Carries(d0, a, e, a)
  <2>1. a \in d.apps /\ (a \in ids => a = c)
    BY <1>2
  <2>2. Carries(d, a, e, a)
    BY <1>3, <1>4, <2>1
  <2>3. Carries(d0, a, d, a)
    BY <2>1 DEF Descends
  <2> QED BY <2>2, <2>3, CarriesTransitive
<1>7. ASSUME NEW a \in d0.apps \ e.apps PROVE \E k \in Keys : d0.owner[k] = a
  <2>1. CASE a \in d.apps
    <3>1. a \in ids
      BY <1>2, <1>7, <2>1
    <3> QED BY <1>5, <3>1
  <2>2. CASE a \notin d.apps
    BY <2>2 DEF Descends
  <2> QED BY <2>1, <2>2
<1>8. ASSUME NEW b \in ids PROVE From(d0, d, b) \subseteq From(d0, e, c)
  <2> SUFFICES ASSUME NEW x \in From(d0, d, b) PROVE x \in From(d0, e, c)
    OBVIOUS
  <2>1. x \in d0.apps
    BY DEF From
  <2>2. \E k \in Keys : d0.owner[k] = x /\ d.owner[k] = b
    BY <1>5, <2>1 DEF From
  <2>3. PICK k \in Keys : d0.owner[k] = x /\ e.owner[k] = c
    BY <1>2, <2>2
  <2> QED BY <2>1, <2>3 DEF From
<1>9. HasFrom(d0, e, c, From(d0, e, c))
  <2>1. e.prefs[c] = MergedPrefs(d, ids)
    BY <1>1, <1>2
  <2>2. \A b \in ids : HasFrom(d0, d, b, From(d0, d, b))
    BY DEF Descends
  <2>3. ASSUME c \in e.placed PROVE From(d0, e, c) \cap d0.placed # {}
    <3>1. PICK b \in ids : b \in d.placed
      BY <1>2, <2>3 DEF Replaced
    <3>2. From(d0, d, b) \cap d0.placed # {}
      BY <2>2, <3>1 DEF HasFrom
    <3> QED BY <1>8, <3>2
  <2>4. ASSUME e.prefs[c].text # Unset
        PROVE  \E x \in From(d0, e, c) : d0.prefs[x].text = e.prefs[c].text
    <3>1. ~ \A b \in ids : d.prefs[b].text = Unset
      BY <2>1, <2>4 DEF MergedPrefs
    <3>2. \E t \in Texts : \E b \in ids : d.prefs[b].text = t
      BY <1>1, <3>1 DEF DbRecs, PrefRecs
    <3>3. PICK b \in ids : d.prefs[b].text = e.prefs[c].text
      BY <2>1, <3>1, <3>2 DEF MergedPrefs
    <3>4. PICK x \in From(d0, d, b) : d0.prefs[x].text = d.prefs[b].text
      BY <2>2, <2>4, <3>3 DEF HasFrom
    <3> QED BY <1>8, <3>3, <3>4
  <2>5. ASSUME e.prefs[c].flag # "unset"
        PROVE  \E x \in From(d0, e, c) : d0.prefs[x].flag = e.prefs[c].flag
    <3>1. PICK b \in ids : d.prefs[b].flag = e.prefs[c].flag
      BY <2>1, <2>5 DEF MergedPrefs
    <3>2. PICK x \in From(d0, d, b) : d0.prefs[x].flag = d.prefs[b].flag
      BY <2>2, <2>5, <3>1 DEF HasFrom
    <3> QED BY <1>8, <3>1, <3>2
  <2> QED BY <2>3, <2>4, <2>5 DEF HasFrom
<1>10. ASSUME NEW a \in e.apps PROVE HasFrom(d0, e, a, From(d0, e, a))
  <2>1. CASE a = c
    BY <1>9, <2>1
  <2>2. CASE a # c
    <3>1. a \in d.apps /\ a \notin ids /\ a \in Apps
      BY <1>1, <1>2, <2>2
    <3>2. e.prefs[a] = d.prefs[a] /\ (a \in e.placed => a \in d.placed)
      BY <1>2, <2>2, <3>1 DEF Replaced
    <3>3. From(d0, d, a) \subseteq From(d0, e, a)
      BY <1>2, <3>1 DEF From
    <3>4. HasFrom(d0, d, a, From(d0, d, a))
      BY <3>1 DEF Descends
    <3> QED BY <3>2, <3>3, <3>4, MoreFrom
  <2> QED BY <2>1, <2>2
<1>11. ASSUME NEW k \in Keys, e.owner[k] \in d0.apps
       PROVE  \E l \in Keys : d0.owner[l] = e.owner[k] /\ e.owner[l] = e.owner[k]
  <2>1. CASE d.owner[k] \in ids
    <3>1. e.owner[k] = c
      BY <1>2, <2>1
    <3>2. PICK l \in Keys : d0.owner[l] = c /\ d.owner[l] = c
      BY <1>5, <1>11, <3>1
    <3> QED BY <1>2, <3>1, <3>2
  <2>2. CASE d.owner[k] \notin ids
    <3>1. e.owner[k] = d.owner[k]
      BY <1>2, <2>2
    <3>2. PICK l \in Keys : d0.owner[l] = d.owner[k] /\ d.owner[l] = d.owner[k]
      BY <1>11, <3>1 DEF Descends
    <3> QED BY <1>2, <2>2, <3>1, <3>2
  <2> QED BY <2>1, <2>2
<1> QED BY <1>6, <1>7, <1>10, <1>11 DEF Descends, e

\* An observation stored with an app that has keys, or with a new one.
LEMMA DescendsAssigned ==
  ASSUME NEW d0, NEW d, Good(d), Descends(d0, d), d0.apps \subseteq d.ever, None \notin d0.apps,
         NEW o \in Observations, NEW a \in Apps,
         a \notin d.ever \/ \E k \in Keys : d.owner[k] = a
  PROVE  Descends(d0, Assigned(d, o, a))
<1> DEFINE e == Assigned(d, o, a)
<1>1. d \in DbRecs /\ References(d) /\ a # None
  BY NamesAssumption DEF Good
<1>2. /\ e.apps = d.apps \cup {a} /\ e.placed = d.placed /\ e.prefs = d.prefs
      /\ \A k \in Keys : e.owner[k] = IF k \in KeysOf(o) /\ d.owner[k] = None THEN a
                                      ELSE d.owner[k]
  BY <1>1, AssignedFields
<1> HIDE DEF e
<1>3. a \in d.apps \/ (a \notin d0.apps /\ a \notin d.apps)
  BY <1>1 DEF References
<1>4. \A b \in d0.apps \cap e.apps : Carries(d0, b, e, b)
  BY <1>2, <1>3 DEF Descends, Carries
<1>5. \A b \in d0.apps \ e.apps : \E k \in Keys : d0.owner[k] = b
  BY <1>2 DEF Descends
<1>6. ASSUME NEW b \in e.apps PROVE HasFrom(d0, e, b, From(d0, e, b))
  <2>1. CASE b \in d.apps
    <3>1. b # None
      BY <1>1, <2>1, NamesAssumption DEF DbRecs
    <3>2. From(d0, d, b) \subseteq From(d0, e, b)
      BY <1>2, <3>1 DEF From
    <3>3. HasFrom(d0, d, b, From(d0, d, b))
      BY <2>1 DEF Descends
    <3> QED BY <1>2, <3>2, <3>3, MoreFrom
  <2>2. CASE b \notin d.apps
    <3>1. b \in Apps \ d.apps
      BY <1>2, <2>2
    <3>2. e.prefs[b] = NoPrefs /\ b \notin e.placed
      BY <1>1, <1>2, <3>1 DEF References
    <3> QED BY <3>2 DEF HasFrom, NoPrefs
  <2> QED BY <2>1, <2>2
<1>7. ASSUME NEW k \in Keys, e.owner[k] \in d0.apps
      PROVE  \E l \in Keys : d0.owner[l] = e.owner[k] /\ e.owner[l] = e.owner[k]
  <2>1. PICK m \in Keys : d.owner[m] = e.owner[k]
    BY <1>2, <1>3, <1>7
  <2>2. PICK l \in Keys : d0.owner[l] = e.owner[k] /\ d.owner[l] = e.owner[k]
    BY <1>7, <2>1 DEF Descends
  <2>3. e.owner[l] = d.owner[l]
    BY <1>2, <1>7, <2>2
  <2> QED BY <2>2, <2>3
<1> QED BY <1>4, <1>5, <1>6, <1>7 DEF Descends, e

\* One iteration of reconcile's loop.
LEMMA DescendsNext ==
  ASSUME NEW d0, Good(d0), NEW d, Good(d), d0.ever \subseteq d.ever, Descends(d0, d),
         NEW o \in Observations, NEW a \in Homes(d, o),
         Conflict(d, o) => Mergeable(d, Owners(d, o))
  PROVE  Descends(d0, Assigned(Resolved(d, o), o, a))
<1> DEFINE r == Resolved(d, o)
<1>1. /\ d \in DbRecs /\ References(d) /\ d0.apps \subseteq d.ever /\ None \notin d0.apps
      /\ Owners(d, o) \subseteq d.apps
  BY OwnersAreApps, NamesAssumption DEF Good, DbRecs, References
<1>2. Good(r) /\ a \in Apps
  BY ResolvedGood
<1>3. \A b \in Owners(d, o) : \E k \in Keys : d.owner[k] = b
  <2>1. KeysOf(o) \subseteq Keys
    BY <1>1, OwnersAreApps
  <2> QED BY <2>1 DEF Owners
<1>4. Owners(d, o) # {} => a = Canonical(d, o) /\ a \in Owners(d, o)
  BY <1>1, CanonicalIsOwner DEF Homes
<1>5. Owners(d, o) = {} => a \notin d.ever
  BY DEF Homes
<1>6. Descends(d0, r) /\ r.ever = d.ever /\ (a \notin r.ever \/ \E k \in Keys : r.owner[k] = a)
  <2>1. CASE Conflict(d, o)
    <3> DEFINE ids == Owners(d, o)
    <3>1. /\ a \in ids /\ ids \in SUBSET d.apps /\ Mergeable(d, ids)
          /\ \A b \in ids : \E k \in Keys : d.owner[k] = b
          /\ r = Merged(d, ids, a)
      BY <1>1, <1>3, <1>4, <2>1 DEF Conflict, Resolved
    <3> HIDE DEF ids
    <3>2. Descends(d0, Merged(d, ids, a))
      BY <3>1, DescendsMerged
    <3>3. /\ Merged(d, ids, a).ever = d.ever
          /\ \A k \in Keys : Merged(d, ids, a).owner[k]
                               = IF d.owner[k] \in ids THEN a ELSE d.owner[k]
      BY <1>1, <3>1, MergedFields
    <3>4. PICK k \in Keys : d.owner[k] = a
      BY <3>1
    <3> QED BY <3>1, <3>2, <3>3, <3>4
  <2>2. CASE ~Conflict(d, o)
    BY <1>3, <1>4, <1>5, <2>2 DEF Resolved
  <2> QED BY <2>1, <2>2
<1> HIDE DEF r
<1>7. Descends(d0, Assigned(r, o, a))
  BY <1>1, <1>2, <1>6, DescendsAssigned
<1> QED BY <1>7 DEF r

\* At the beginning no observation is worked off, and MarkAbsent is done.
LEMMA WorkedNone ==
  ASSUME NEW d, Good(d), NEW p, NEW snap
  PROVE  Worked(d, MarkAbsent(d, p), p, snap, 0)
<1>1. /\ MarkAbsent(d, p).owner = d.owner /\ MarkAbsent(d, p).apps = d.apps
      /\ MarkAbsent(d, p).prefs = d.prefs /\ MarkAbsent(d, p).placed = d.placed
  BY MarkAbsentFields DEF Good
<1> QED BY <1>1 DEF Worked, SameFacts

\* The app that owns the first known key is there after the merge too.
LEMMA HomeStays ==
  ASSUME NEW d, Good(d), NEW o \in Observations, NEW a \in Homes(d, o), Owners(d, o) # {}
  PROVE  a \in Resolved(d, o).apps
<1>1. d \in DbRecs /\ References(d) /\ Owners(d, o) \subseteq d.apps
  BY OwnersAreApps DEF Good
<1>2. a = Canonical(d, o) /\ a \in Owners(d, o)
  BY <1>1, CanonicalIsOwner DEF Homes
<1>3. CASE Conflict(d, o)
  <2> DEFINE ids == Owners(d, o)
  <2>1. ids \in SUBSET d.apps /\ a \in ids
    BY <1>1, <1>2
  <2>2. Resolved(d, o) = Merged(d, ids, a)
    BY <1>2, <1>3 DEF Resolved
  <2> HIDE DEF ids
  <2>3. Merged(d, ids, a).apps = d.apps \ (ids \ {a})
    BY <1>1, <2>1, MergedFields
  <2> QED BY <2>1, <2>2, <2>3
<1>4. CASE ~Conflict(d, o)
  BY <1>1, <1>2, <1>4 DEF Resolved
<1> QED BY <1>3, <1>4

\* One observation more.
LEMMA WorkedNext ==
  ASSUME NEW d0, NEW d, Good(d), NEW p, NEW snap \in Seq(Observations),
         NEW n \in 0..Len(snap), n < Len(snap), Worked(d0, d, p, snap, n),
         NEW a \in Homes(d, snap[n + 1]),
         Conflict(d, snap[n + 1]) => CanMerge(d, snap[n + 1], p)
  PROVE  Worked(d0, Assigned(Resolved(d, snap[n + 1]), snap[n + 1], a), p, snap, n + 1)
<1> DEFINE o == snap[n + 1]
           r == Resolved(d, o)
           e == Assigned(r, o, a)
<1>1. o \in Observations /\ n \in Nat
  OBVIOUS
<1>2. a \in Apps /\ a # None
  BY <1>1, ResolvedGood, NamesAssumption
<1>3. /\ r \in DbRecs
      /\ \A s \in Sources : SameFacts(r.obs[s], d.obs[s])
      /\ \A k \in Keys : r.owner[k] = None <=> d.owner[k] = None
      /\ r.apps \subseteq d.apps
      /\ \A k \in Keys : d.owner[k] \in r.apps => r.owner[k] = d.owner[k]
      /\ p \notin Traefik => r = d
  <2> HIDE DEF o
  <2> QED BY <1>1, ResolvedFacts DEF o
<1>home. Owners(d, o) # {} => a \in r.apps
  <2> HIDE DEF o
  <2> QED BY <1>1, HomeStays DEF o
<1> HIDE DEF o, r
<1>4. /\ e.obs[o.source].app = a
      /\ Atomic!Facts(e.obs[o.source]) = [keys |-> KeysOf(o), present |-> TRUE,
                                          internal |-> o.internal]
      /\ \A s \in Sources \ {o.source} : e.obs[s] = r.obs[s]
  BY <1>1, <1>2, <1>3, AssignedFacts
<1>5. /\ e.apps = r.apps \cup {a} /\ e.placed = r.placed /\ e.prefs = r.prefs
      /\ \A k \in Keys : e.owner[k] = IF k \in KeysOf(o) /\ r.owner[k] = None THEN a
                                      ELSE r.owner[k]
  BY <1>1, <1>2, <1>3, AssignedFields
<1> HIDE DEF e
<1>6. /\ \A i \in 1..(n + 1) : i \in 1..n \/ i = n + 1
      /\ 1..n \subseteq 1..(n + 1) /\ n + 1 \in 1..(n + 1) /\ \A i \in 1..n : ~(n + 1 <= i)
  BY <1>1
<1>7. snap[n + 1] = o
  BY DEF o
<1>8. ASSUME NEW s \in Sources, NEW i \in 1..(n + 1), snap[i].source = s,
             \A j \in 1..(n + 1) : snap[j].source = s => j <= i
      PROVE  /\ e.obs[s].app # None
             /\ Atomic!Facts(e.obs[s]) = [keys |-> KeysOf(snap[i]), present |-> TRUE,
                                          internal |-> snap[i].internal]
  <2>1. CASE s = o.source
    <3>1. i = n + 1
      BY <1>6, <1>7, <1>8, <2>1
    <3> QED BY <1>2, <1>4, <1>7, <2>1, <3>1
  <2>2. CASE s # o.source
    <3>1. i \in 1..n
      BY <1>6, <1>7, <1>8, <2>2
    <3>2. /\ d.obs[s].app # None
          /\ Atomic!Facts(d.obs[s]) = [keys |-> KeysOf(snap[i]), present |-> TRUE,
                                       internal |-> snap[i].internal]
      BY <1>6, <1>8, <3>1 DEF Worked
    <3>3. e.obs[s] = r.obs[s] /\ SameFacts(r.obs[s], d.obs[s])
      BY <1>3, <1>4, <2>2
    <3> QED BY <3>2, <3>3 DEF SameFacts
  <2> QED BY <2>1, <2>2
<1>9. ASSUME NEW s \in Sources, \A i \in 1..(n + 1) : snap[i].source # s
      PROVE  SameFacts(e.obs[s], MarkAbsent(d0, p).obs[s])
  <2>1. s # o.source /\ \A i \in 1..n : snap[i].source # s
    BY <1>6, <1>7, <1>9
  <2>2. SameFacts(d.obs[s], MarkAbsent(d0, p).obs[s])
    BY <2>1 DEF Worked
  <2>3. e.obs[s] = r.obs[s] /\ SameFacts(r.obs[s], d.obs[s])
    BY <1>3, <1>4, <2>1
  <2> QED BY <2>2, <2>3 DEF SameFacts
<1>10. ASSUME NEW k \in Keys, d0.owner[k] = None, e.owner[k] # None
       PROVE  \E i \in 1..(n + 1) : k \in KeysOf(snap[i])
  <2>1. CASE d.owner[k] # None
    BY <1>6, <1>10, <2>1 DEF Worked
  <2>2. CASE d.owner[k] = None
    <3>1. k \in KeysOf(o)
      BY <1>3, <1>5, <1>10, <2>2
    <3> QED BY <1>6, <1>7, <3>1
  <2> QED BY <2>1, <2>2
<1>11. p \notin Traefik => d0.apps \subseteq e.apps /\ e.prefs = d0.prefs /\ e.placed = d0.placed
  BY <1>3, <1>5 DEF Worked
<1>12. ASSUME NEW b \in e.apps \ d0.apps
       PROVE  \E i \in 1..(n + 1) : KeysOf(snap[i]) = {} \/ \E k \in KeysOf(snap[i]) : e.owner[k] = b
  <2>1. CASE b \in r.apps
    <3>1. b \in d.apps \ d0.apps /\ b # None
      BY <1>3, <1>12, <2>1, NamesAssumption DEF DbRecs
    <3>2. PICK i \in 1..n : KeysOf(snap[i]) = {} \/ \E k \in KeysOf(snap[i]) : d.owner[k] = b
      BY <3>1 DEF Worked
    <3>3. snap[i] \in Observations /\ i \in 1..(n + 1)
      BY <1>6
    <3>4. KeysOf(snap[i]) \subseteq Keys
      BY <3>3, OwnersAreApps DEF Good
    <3>5. \A k \in Keys : d.owner[k] = b => e.owner[k] = b
      BY <1>3, <1>5, <2>1, <3>1
    <3> QED BY <3>2, <3>3, <3>4, <3>5
  <2>2. CASE b \notin r.apps
    <3>1. b = a /\ KeysOf(o) \subseteq Keys
      BY <1>1, <1>5, <1>12, <2>2, OwnersAreApps DEF Good
    <3>2. Owners(d, o) = {}
      BY <1>home, <2>2, <3>1
    <3>3. \A k \in KeysOf(o) : e.owner[k] = a
      BY <1>3, <1>5, <3>1, <3>2 DEF Owners
    <3> QED BY <1>6, <1>7, <3>1, <3>3
  <2> QED BY <2>1, <2>2
<1>13. Worked(d0, e, p, snap, n + 1)
  BY <1>8, <1>9, <1>10, <1>11, <1>12 DEF Worked
<1> QED BY <1>13 DEF e, r, o

LEMMA ScanInvStep == IInv /\ ScanInv /\ [Next]_vars => ScanInv'
<1> SUFFICES ASSUME IInv, ScanInv, [Next]_vars PROVE ScanInv'
  OBVIOUS
<1>1. ASSUME NEW p \in Scopes, BeginReconcile(p) PROVE ScanInv'
  <2>1. PICK snap \in Snapshots[p] :
           tx' = [open |-> TRUE, scope |-> p, d |-> MarkAbsent(db, p), todo |-> snap]
    BY <1>1 DEF BeginReconcile
  <2>2. snap \in Seq(Observations) /\ Len(snap) \in Nat
    BY SnapshotsAssumption
  <2>3. Worked(db, MarkAbsent(db, p), p, snap, 0)
    BY WorkedNone DEF IInv
  <2>4. Remaining(snap, snap, 0) /\ 0 \in 0..Len(snap)
    BY <2>2 DEF Remaining
  <2>5. tx'.scope = p /\ tx'.d = MarkAbsent(db, p) /\ tx'.todo = snap /\ db' = db
    BY <1>1, <2>1 DEF BeginReconcile
  <2>6. Descends(db, MarkAbsent(db, p))
    BY DescendsMarked DEF IInv
  <2> QED BY <2>3, <2>4, <2>5, <2>6 DEF ScanInv
<1>2. CASE ReconcileObservation
  <2> DEFINE o == Head(tx.todo)
  <2>1. /\ tx.open /\ tx.todo # <<>> /\ db' = db /\ tx \in TxRecs /\ Good(tx.d)
        /\ Conflict(tx.d, o) => CanMerge(tx.d, o, tx.scope)
    BY <1>2 DEF ReconcileObservation, IInv, TypeOK
  <2>2. PICK a \in Homes(tx.d, o) :
           tx' = [tx EXCEPT !.d = Assigned(Resolved(tx.d, o), o, a), !.todo = Tail(@)]
    BY <1>2 DEF ReconcileObservation
  <2>10. PICK snap \in Snapshots[tx.scope] : \E n \in 0..Len(snap) :
           Remaining(tx.todo, snap, n) /\ Worked(db, tx.d, tx.scope, snap, n)
    BY <2>1 DEF ScanInv
  <2>3. PICK n \in 0..Len(snap) :
           Remaining(tx.todo, snap, n) /\ Worked(db, tx.d, tx.scope, snap, n)
    BY <2>10
  <2>4. /\ tx.scope \in Scopes /\ tx.todo \in Seq(Observations)
        /\ snap \in Seq(Observations) /\ Len(snap) \in Nat
    BY <2>1, SnapshotsAssumption DEF TxRecs
  <2>5. /\ n < Len(snap) /\ n + 1 \in 0..Len(snap) /\ o = snap[n + 1]
        /\ Remaining(Tail(tx.todo), snap, n + 1)
    <3> DEFINE todo == tx.todo
    <3>1. todo \in Seq(Observations) /\ todo # <<>> /\ o = Head(todo)
      BY <2>1, <2>4
    <3>2. Len(todo) = Len(snap) - n /\ \A i \in 1..Len(todo) : todo[i] = snap[n + i]
      BY <2>3 DEF Remaining
    <3> HIDE DEF todo, o
    <3>3. /\ Len(todo) \in Nat /\ Len(todo) >= 1 /\ o = todo[1]
          /\ Len(Tail(todo)) = Len(todo) - 1
          /\ \A i \in 1..Len(Tail(todo)) : Tail(todo)[i] = todo[i + 1]
      BY <3>1
    <3>4. n < Len(snap) /\ n + 1 \in 0..Len(snap) /\ Len(Tail(todo)) = Len(snap) - (n + 1)
      BY <2>4, <3>2, <3>3
    <3>5. o = snap[n + 1]
      BY <3>2, <3>3
    <3>6. ASSUME NEW i \in 1..Len(Tail(todo)) PROVE Tail(todo)[i] = snap[(n + 1) + i]
      <4>1. i + 1 \in 1..Len(todo) /\ n + (i + 1) = (n + 1) + i
        BY <3>3
      <4> QED BY <3>2, <3>3, <4>1
    <3> QED BY <3>4, <3>5, <3>6 DEF Remaining, todo
  <2>6. Worked(db, Assigned(Resolved(tx.d, o), o, a), tx.scope, snap, n + 1)
    <3> HIDE DEF o
    <3> QED BY <2>1, <2>2, <2>3, <2>4, <2>5, WorkedNext
  <2>11. Descends(db, Assigned(Resolved(tx.d, o), o, a))
    <3>1. /\ Good(db) /\ db.ever \subseteq tx.d.ever /\ Descends(db, tx.d) /\ o \in Observations
          /\ Conflict(tx.d, o) => Mergeable(tx.d, Owners(tx.d, o))
      BY <2>1, <2>4 DEF IInv, Since, ScanInv, CanMerge
    <3> HIDE DEF o
    <3> QED BY <2>1, <2>2, <3>1, DescendsNext
  <2> DEFINE e == Assigned(Resolved(tx.d, o), o, a)
  <2>7. tx' = [tx EXCEPT !.d = e, !.todo = Tail(tx.todo)]
    BY <2>2
  <2> HIDE DEF e
  <2>8. tx'.scope = tx.scope /\ tx'.d = e /\ tx'.todo = Tail(tx.todo)
    BY <2>1, <2>7 DEF TxRecs
  <2>9. Worked(db, e, tx.scope, snap, n + 1) /\ Descends(db, e)
    BY <2>6, <2>11 DEF e
  <2> QED BY <2>1, <2>5, <2>8, <2>9 DEF ScanInv
<1>3. CASE ReconcileConflicts \/ ReconcileCommit
  BY <1>3, NoTxFine DEF ReconcileConflicts, ReconcileCommit, ScanInv
<1>4. CASE UNCHANGED <<tx, db>>
  BY <1>4 DEF ScanInv
<1>5. CASE Free /\ UNCHANGED tx
  BY <1>5 DEF ScanInv, Free
<1>6. \/ ReconcileObservation \/ ReconcileConflicts \/ ReconcileCommit
      \/ \E p \in Scopes : BeginReconcile(p)
      \/ UNCHANGED <<tx, db>> \/ (Free /\ UNCHANGED tx)
  BY DEF Next, vars, DeleteProvider, UpdateAppRead, UpdateAppWrite, DeleteApp, PlaceApp,
     ClaimCount, ClaimLookup, ClaimInsert
<1> QED BY <1>1, <1>2, <1>3, <1>4, <1>5, <1>6

\* A scan that commits does what AtomicRegistry says of its snapshot.
LEMMA SourcesCommitted ==
  ASSUME IInv, ReconcileCommit, NEW snap \in Seq(Observations),
         Worked(db, tx.d, tx.scope, snap, Len(snap))
  PROVE  Atomic!SourcesScanned(db, db', tx.scope, snap)
<1> DEFINE d == tx.d
           p == tx.scope
<1>1. d \in DbRecs /\ db \in DbRecs /\ None \notin d.apps /\ Good(db')
  BY CommitGood, NamesAssumption DEF IInv, Good, DbRecs
<1>2. PICK gone \in SUBSET d.apps :
         /\ \A s \in Observed(d) : d.obs[s].app \in gone => IsNoise(d, s, p)
         /\ \A s \in Sources : db'.obs[s] = IF d.obs[s].app \in gone THEN NoObs ELSE d.obs[s]
  BY CommitFields
<1>3. p \notin Traefik => db' = d
  BY CommitFields
<1>4. DOMAIN snap = 1..Len(snap)
  OBVIOUS
<1> HIDE DEF d, p
<1>5. ASSUME NEW s \in Sources, NEW i \in DOMAIN snap, Atomic!IsLast(snap, s, i)
      PROVE  Atomic!Found(db', s, snap[i])
  <2>1. /\ d.obs[s].app # None
        /\ Atomic!Facts(d.obs[s]) = [keys |-> KeysOf(snap[i]), present |-> TRUE,
                                     internal |-> snap[i].internal]
    BY <1>4, <1>5 DEF Worked, Atomic!IsLast, d, p
  <2>2. d.obs[s].present = TRUE /\ d.obs[s].keys = KeysOf(snap[i])
    BY <2>1 DEF Atomic!Facts
  <2>3. d.obs[s].app \notin gone
    BY <1>2, <2>1, <2>2 DEF IsNoise, Observed
  <2>4. db'.obs[s] = d.obs[s]
    BY <1>2, <2>3
  <2>5. \A k \in KeysOf(snap[i]) : db'.owner[k] = db'.obs[s].app
    BY <1>1, <2>1, <2>2, <2>4 DEF Good, KeysFollow, Observed
  <2> QED BY <2>1, <2>4, <2>5 DEF Atomic!Found, Atomic!KeysOf, KeysOf
<1>6. ASSUME NEW s \in Sources, \A i \in DOMAIN snap : snap[i].source # s
      PROVE  Atomic!NotFound(db, db', p, s)
  <2>1. SameFacts(d.obs[s], MarkAbsent(db, p).obs[s])
    BY <1>4, <1>6 DEF Worked, d, p
  <2>2. /\ MarkAbsent(db, p).obs[s].app = db.obs[s].app
        /\ Atomic!Facts(MarkAbsent(db, p).obs[s])
             = [keys |-> db.obs[s].keys, present |-> db.obs[s].present /\ ScopeOf[s] # p,
                internal |-> db.obs[s].internal]
    BY <1>1, MarkAbsentFacts
  <2>3. /\ d.obs[s].app = None <=> db.obs[s].app = None
        /\ Atomic!Facts(d.obs[s])
             = [keys |-> db.obs[s].keys, present |-> db.obs[s].present /\ ScopeOf[s] # p,
                internal |-> db.obs[s].internal]
    BY <2>1, <2>2 DEF SameFacts
  <2>4. CASE d.obs[s].app \in gone
    <3>1. d.obs[s].app # None /\ s \in Observed(d)
      BY <1>1, <2>4 DEF Observed
    <3>2. IsNoise(d, s, p) /\ db'.obs[s] = NoObs
      BY <1>2, <2>4, <3>1
    <3>3. p \in Traefik
      BY <1>3, <3>1, <3>2 DEF NoObs
    <3>4. d.obs[s].internal = db.obs[s].internal
      BY <2>3 DEF Atomic!Facts
    <3> QED BY <3>2, <3>3, <3>4 DEF Atomic!NotFound, NoObs, IsNoise
  <2>5. CASE d.obs[s].app \notin gone
    <3>1. db'.obs[s] = d.obs[s]
      BY <1>2, <2>5
    <3> QED BY <2>3, <3>1 DEF Atomic!NotFound
  <2> QED BY <2>4, <2>5
<1> QED BY <1>5, <1>6 DEF Atomic!SourcesScanned, p

LEMMA KeysCommitted ==
  ASSUME IInv, ReconcileCommit, [Next]_vars, db' # db, NEW snap \in Seq(Observations),
         Worked(db, tx.d, tx.scope, snap, Len(snap))
  PROVE  Atomic!KeysScanned(db, db', snap)
<1>1. Committed
  BY NoTxFine DEF Committed, ReconcileCommit
<1>2. PICK gone \in SUBSET tx.d.apps :
         \A k \in Keys : db'.owner[k] = IF tx.d.owner[k] \in gone THEN None ELSE tx.d.owner[k]
  BY CommitFields
<1>3. Since(db, tx.d, tx.scope)
  BY CommitFields
<1> SUFFICES ASSUME NEW k \in Keys
             PROVE  LET a == db.owner[k]  b == db'.owner[k]
                    IN  /\ a \in db'.apps => b = a
                        /\ a # None => \A l \in Keys : db.owner[l] = a => db'.owner[l] = b
                        /\ a # None /\ Atomic!Curated(db, a)
                             => b # None /\ Atomic!Carries(db, a, db', b)
                        /\ a = None /\ b # None => \E i \in DOMAIN snap : k \in KeysOf(snap[i])
  BY DEF Atomic!KeysScanned, Atomic!KeysOf, KeysOf
<1>4. db.owner[k] \in db'.apps => db'.owner[k] = db.owner[k]
  BY KeyStep
<1>5. ASSUME db.owner[k] # None, NEW l \in Keys, db.owner[l] = db.owner[k]
      PROVE  db'.owner[l] = db'.owner[k]
  <2>1. tx.d.owner[k] = tx.d.owner[l]
    BY <1>3, <1>5 DEF Since
  <2> QED BY <1>2, <2>1
<1>6. ASSUME db.owner[k] # None, Atomic!Curated(db, db.owner[k])
      PROVE  db'.owner[k] # None /\ Atomic!Carries(db, db.owner[k], db', db'.owner[k])
  <2>1. Curated(db, db.owner[k])
    BY <1>6 DEF Curated, Atomic!Curated, NoPrefs, Atomic!NoPrefs, ExplicitOf, Atomic!IDs
  <2>2. db'.owner[k] # None /\ Carries(db, db.owner[k], db', db'.owner[k])
    BY <1>1, <1>6, <2>1, CurationStep
  <2> QED BY <2>2 DEF Carries, Atomic!Carries
<1>7. ASSUME db.owner[k] = None, db'.owner[k] # None
      PROVE  \E i \in DOMAIN snap : k \in KeysOf(snap[i])
  <2>1. tx.d.owner[k] # None
    BY <1>2, <1>7
  <2>2. DOMAIN snap = 1..Len(snap)
    OBVIOUS
  <2> QED BY <1>7, <2>1, <2>2 DEF Worked
<1> QED BY <1>4, <1>5, <1>6, <1>7

LEMMA CurationCommitted ==
  ASSUME IInv, ReconcileCommit, Descends(db, tx.d)
  PROVE  Atomic!CurationScanned(db, db')
<1> DEFINE d == tx.d
<1>1. d \in DbRecs /\ db \in DbRecs /\ db.apps \subseteq Apps /\ d.apps \subseteq Apps
  BY DEF IInv, Good, DbRecs
<1>2. PICK gone \in SUBSET d.apps :
         /\ gone \cap d.placed = {}
         /\ \A x \in gone : d.prefs[x] = NoPrefs /\ ExplicitOf(d, x) = {}
         /\ db'.apps = d.apps \ gone /\ db'.placed = d.placed \ gone
         /\ \A l \in Keys : db'.owner[l] = IF d.owner[l] \in gone THEN None ELSE d.owner[l]
         /\ \A x \in Apps : db'.prefs[x] = IF x \in gone THEN NoPrefs ELSE d.prefs[x]
  BY CommitFields
<1>3. /\ \A a \in db.apps \cap d.apps : Carries(db, a, d, a)
      /\ \A a \in db.apps \ d.apps : \E k \in Keys : db.owner[k] = a
      /\ \A a \in d.apps : HasFrom(db, d, a, From(db, d, a))
  BY DEF Descends
<1> HIDE DEF d
<1>4. ASSUME NEW a \in db.apps \cap db'.apps PROVE Atomic!Carries(db, a, db', a)
  <2>1. a \in d.apps /\ a \notin gone /\ a \in Apps
    BY <1>1, <1>2
  <2>2. Carries(db, a, d, a)
    BY <1>3, <2>1
  <2> QED BY <1>2, <2>1, <2>2 DEF Carries, Atomic!Carries
<1>5. ASSUME NEW a \in db.apps \ db'.apps, Atomic!Curated(db, a)
      PROVE  \E k \in Keys : db.owner[k] = a
  <2>1. CASE a \notin d.apps
    BY <1>3, <2>1
  <2>2. CASE a \in d.apps
    <3>1. a \in gone /\ a \in Apps /\ Carries(db, a, d, a)
      BY <1>1, <1>2, <1>3, <1>5, <2>2
    <3>2. a \notin db.placed
      BY <1>2, <3>1 DEF Carries
    <3>3. db.prefs[a] = NoPrefs
      <4>1. db.prefs[a] \in PrefRecs
        BY <1>1, <3>1 DEF DbRecs
      <4>2. d.prefs[a].text = Unset /\ d.prefs[a].flag = "unset"
        BY <1>2, <3>1 DEF NoPrefs
      <4>3. db.prefs[a].text = Unset /\ db.prefs[a].flag = "unset"
        BY <3>1, <4>2 DEF Carries
      <4> QED BY <4>1, <4>3 DEF PrefRecs, NoPrefs
    <3>4. PICK k \in Explicit : db.owner[k] = a
      BY <1>5, <3>2, <3>3 DEF Atomic!Curated, Atomic!IDs, NoPrefs, Atomic!NoPrefs
    <3> QED BY <3>4, NamesAssumption
  <2> QED BY <2>1, <2>2
<1>6. ASSUME NEW a \in db'.apps PROVE Atomic!Inherits(db, db', a)
  <2>1. a \in d.apps /\ a \notin gone /\ a \in Apps /\ a # None
    BY <1>1, <1>2, NamesAssumption
  <2>2. HasFrom(db, d, a, From(db, d, a))
    BY <1>3, <2>1
  <2>3. From(db, d, a) \subseteq From(db, db', a)
    BY <1>2, <2>1 DEF From
  <2>4. db'.prefs[a] = d.prefs[a] /\ (a \in db'.placed => a \in d.placed)
    BY <1>2, <2>1
  <2>5. HasFrom(db, db', a, From(db, db', a))
    BY <2>2, <2>3, <2>4, MoreFrom
  <2> QED BY <2>5 DEF HasFrom, From, Atomic!Inherits
<1> QED BY <1>4, <1>5, <1>6 DEF Atomic!CurationScanned

LEMMA AppsCommitted ==
  ASSUME IInv, ReconcileCommit, [Next]_vars, db' # db, NEW snap \in Seq(Observations),
         Worked(db, tx.d, tx.scope, snap, Len(snap))
  PROVE  Atomic!AppsScanned(db, db', tx.scope, snap)
<1>1. Committed
  BY NoTxFine DEF Committed, ReconcileCommit
<1>2. PICK gone \in SUBSET tx.d.apps :
         /\ db'.apps = tx.d.apps \ gone /\ db'.ever = tx.d.ever
         /\ \A k \in Keys : db'.owner[k] = IF tx.d.owner[k] \in gone THEN None ELSE tx.d.owner[k]
  BY CommitFields
<1>3. Since(db, tx.d, tx.scope) /\ (tx.scope \notin Traefik => db' = tx.d)
  BY CommitFields
<1>4. db.ever \subseteq db'.ever /\ db'.apps \cap db.ever \subseteq db.apps
  BY <1>2, <1>3 DEF Since
<1>5. ASSUME NEW a \in Apps, \E k, l \in Atomic!IDs(db', a) : k # l
      PROVE  \E k, l \in Atomic!IDs(db, a) : k # l
  BY <1>1, <1>5, OneIDStep DEF TwoIDs, ExplicitOf, Atomic!IDs
<1>6. tx.scope \notin Traefik =>
        db.apps \subseteq db'.apps /\ db'.prefs = db.prefs /\ db'.placed = db.placed
  BY <1>3 DEF Worked
<1>7. ASSUME NEW a \in db'.apps \ db.apps
      PROVE  \E i \in DOMAIN snap :
                KeysOf(snap[i]) = {} \/ \E k \in KeysOf(snap[i]) : db'.owner[k] = a
  <2>1. a \in tx.d.apps \ db.apps /\ a \notin gone
    BY <1>2, <1>7
  <2>2. PICK i \in 1..Len(snap) :
           KeysOf(snap[i]) = {} \/ \E k \in KeysOf(snap[i]) : tx.d.owner[k] = a
    BY <2>1 DEF Worked
  <2>3. i \in DOMAIN snap /\ snap[i] \in Observations
    OBVIOUS
  <2>4. KeysOf(snap[i]) \subseteq Keys
    BY <2>3, OwnersAreApps DEF IInv, Good
  <2> QED BY <1>2, <2>1, <2>2, <2>3, <2>4
<1> QED BY <1>4, <1>5, <1>6, <1>7 DEF Atomic!AppsScanned, Atomic!KeysOf, KeysOf

LEMMA CommitAtomic ==
  ASSUME IInv, ScanInv, [Next]_vars, ReconcileCommit, db' # db
  PROVE  \E p \in Scopes : Atomic!Scan(p)
<1>1. tx.open /\ tx.todo = <<>> /\ tx.scope \in Scopes
  BY DEF ReconcileCommit, IInv, TypeOK, TxRecs
<1>2. PICK snap \in Snapshots[tx.scope] : \E n \in 0..Len(snap) :
         Remaining(tx.todo, snap, n) /\ Worked(db, tx.d, tx.scope, snap, n)
  BY <1>1 DEF ScanInv
<1>3. snap \in Seq(Observations)
  BY <1>1, SnapshotsAssumption
<1>4. Worked(db, tx.d, tx.scope, snap, Len(snap))
  <2>1. PICK n \in 0..Len(snap) :
           Remaining(tx.todo, snap, n) /\ Worked(db, tx.d, tx.scope, snap, n)
    BY <1>2
  <2>2. n = Len(snap)
    BY <1>1, <1>3, <2>1 DEF Remaining
  <2> QED BY <2>1, <2>2
<1>5. Descends(db, tx.d)
  BY <1>1 DEF ScanInv
<1>6. Atomic!Scanned(db, db', tx.scope, snap)
  BY <1>3, <1>4, <1>5, SourcesCommitted, KeysCommitted, CurationCommitted, AppsCommitted
     DEF Atomic!Scanned
<1> QED BY <1>1, <1>6 DEF Atomic!Scan

\* A provider's observations, marked absent one way or the other.
LEMMA RetiredRows ==
  ASSUME NEW x \in ObsRecs, NEW keep \in BOOLEAN
  PROVE  (IF keep THEN x ELSE [x EXCEPT !.present = FALSE]) = [x EXCEPT !.present = @ /\ keep]
<1>1. CASE keep
  <2>1. x.present \in BOOLEAN
    BY DEF ObsRecs
  <2>2. (x.present /\ keep) = x.present
    BY <1>1, <2>1
  <2>3. [x EXCEPT !.present = x.present] = x
    BY DEF ObsRecs
  <2> QED BY <1>1, <2>2, <2>3
<1>2. CASE ~keep
  <2>1. (x.present /\ keep) = FALSE
    BY <1>2
  <2> QED BY <1>2, <2>1
<1> QED BY <1>1, <1>2

LEMMA RetireAtomic ==
  ASSUME NEW d \in DbRecs, NEW p
  PROVE  LET rows == [s \in Sources |-> [d.obs[s] EXCEPT !.present = @ /\ ScopeOf[s] # p]]
         IN  MarkAbsent(d, p) = [d EXCEPT !.obs = rows]
<1> DEFINE F == [s \in Sources |-> IF ScopeOf[s] = p
                                   THEN [d.obs[s] EXCEPT !.present = FALSE] ELSE d.obs[s]]
           G == [s \in Sources |-> [d.obs[s] EXCEPT !.present = @ /\ ScopeOf[s] # p]]
<1>1. ASSUME NEW s \in Sources PROVE F[s] = G[s]
  <2>1. d.obs[s] \in ObsRecs
    BY DEF DbRecs
  <2>2. ASSUME NEW keep \in BOOLEAN
        PROVE  (IF keep THEN d.obs[s] ELSE [d.obs[s] EXCEPT !.present = FALSE])
                 = [d.obs[s] EXCEPT !.present = @ /\ keep]
    BY <2>1, RetiredRows
  <2>3. (IF ScopeOf[s] # p THEN d.obs[s] ELSE [d.obs[s] EXCEPT !.present = FALSE])
          = [d.obs[s] EXCEPT !.present = @ /\ ScopeOf[s] # p]
    BY <2>2
  <2>4. F[s] = IF ScopeOf[s] # p THEN d.obs[s] ELSE [d.obs[s] EXCEPT !.present = FALSE]
    BY Zenon
  <2>5. G[s] = [d.obs[s] EXCEPT !.present = @ /\ ScopeOf[s] # p]
    BY Zenon
  <2> QED BY <2>3, <2>4, <2>5, Zenon
<1>2. F = G
  <2> HIDE DEF F, G
  <2>1. \A s \in Sources : F[s] = G[s]
    BY <1>1
  <2> QED BY <2>1, Zenon DEF F, G
<1>3. MarkAbsent(d, p) = [d EXCEPT !.obs = F]
  BY Zenon DEF MarkAbsent
<1> QED BY <1>2, <1>3, Zenon

LEMMA StepAtomic ==
  IInv /\ ScanInv /\ [Next]_vars => [Atomic!Next]_db
<1> SUFFICES ASSUME IInv, ScanInv, [Next]_vars, db' # db PROVE Atomic!Next
  OBVIOUS
<1>0. Good(db) /\ db \in DbRecs /\ db.apps \subseteq Apps
  BY DEF IInv, Good, DbRecs
<1>1. CASE ReconcileCommit
  BY <1>1, CommitAtomic DEF Atomic!Next
<1>2. ASSUME NEW p \in Scopes, DeleteProvider(p) PROVE Atomic!Next
  <2>1. Atomic!Retire(p)
    BY <1>0, <1>2, RetireAtomic DEF DeleteProvider, Atomic!Retire
  <2> QED BY <2>1 DEF Atomic!Next
<1>3. ASSUME NEW h \in Handlers, UpdateAppWrite(h) PROVE Atomic!Next
  <2>1. edit[h].app \in db.apps /\ db' = [db EXCEPT !.prefs[edit[h].app] = edit[h].prefs]
    BY <1>3 DEF UpdateAppWrite
  <2>2. edit[h].prefs \in PrefRecs
    BY DEF IInv, TypeOK, EditRecs
  <2>3. Atomic!Edit(edit[h].app)
    BY <2>1, <2>2 DEF Atomic!Edit
  <2> QED BY <2>1, <2>3 DEF Atomic!Next
<1>4. ASSUME NEW a \in Apps, DeleteApp(a) PROVE Atomic!Next
  <2>1. a \in db.apps /\ db' = Without(db, {a})
    BY <1>4 DEF DeleteApp
  <2>2. /\ db'.apps = db.apps \ {a} /\ db'.ever = db.ever /\ db'.placed = db.placed \ {a}
        /\ \A k \in Keys : db'.owner[k] = IF db.owner[k] \in {a} THEN None ELSE db.owner[k]
        /\ \A b \in Apps : db'.prefs[b] = IF b \in {a} THEN NoPrefs ELSE db.prefs[b]
        /\ \A s \in Sources : db'.obs[s] = IF db.obs[s].app \in {a} THEN NoObs ELSE db.obs[s]
    BY <1>0, <2>1, WithoutFields
  <2>3. Atomic!Delete(a)
    BY <2>2 DEF Atomic!Delete, NoObs, NoPrefs, Atomic!NoPrefs
  <2> QED BY <2>1, <2>3 DEF Atomic!Next
<1>5. ASSUME NEW a \in Apps, PlaceApp(a) PROVE Atomic!Next
  <2>1. /\ a \in db.apps
        /\ db' = [db EXCEPT !.placed = IF a \in db.placed THEN db.placed \ {a}
                                       ELSE db.placed \cup {a}]
    BY <1>5 DEF PlaceApp
  <2>2. Atomic!Place(a)
    BY <2>1 DEF Atomic!Place
  <2> QED BY <2>1, <2>2 DEF Atomic!Next
<1>6. ASSUME NEW q \in Probers, ClaimInsert(q) PROVE Atomic!Next
  <2>1. /\ db.owner[claim[q].key] = None /\ claim[q].app \in db.apps
        /\ db' = [db EXCEPT !.owner[claim[q].key] = claim[q].app]
    BY <1>6 DEF ClaimInsert
  <2>2. claim[q].key \in Explicit
    BY <1>6 DEF ClaimInsert, IInv, TypeOK, ClaimRecs
  <2>3. Atomic!Claim(claim[q].app, claim[q].key)
    BY <2>1 DEF Atomic!Claim
  <2> QED BY <2>1, <2>2, <2>3 DEF Atomic!Next
<1>7. \/ db' = db \/ ReconcileCommit
      \/ \E p \in Scopes : DeleteProvider(p)
      \/ \E h \in Handlers : UpdateAppWrite(h)
      \/ \E a \in Apps : DeleteApp(a) \/ PlaceApp(a)
      \/ \E q \in Probers : ClaimInsert(q)
  BY DEF Next, vars, BeginReconcile, ReconcileObservation, ReconcileConflicts, UpdateAppRead,
     ClaimCount, ClaimLookup
<1> QED BY <1>1, <1>2, <1>3, <1>4, <1>5, <1>6, <1>7

(* Registry implements AtomicRegistry: every scan is, as far as the        *)
(* committed registry shows, one step that does what its snapshot says of  *)
(* every source of the provider and keeps what the owner did, or no step.  *)
THEOREM ScansAtomic == Spec => ScansAreAtomic
<1>1. Init => Atomic!Init /\ ScanInv
  BY NoTxFine DEF Init, Atomic!Init, ScanInv, NoTx
<1>2. IInv /\ ScanInv /\ [Next]_vars => ScanInv'
  BY ScanInvStep
<1>3. IInv /\ ScanInv /\ [Next]_vars => [Atomic!Next]_db
  BY StepAtomic
<1> QED BY <1>1, <1>2, <1>3, Invariance, PTL DEF Spec, ScansAreAtomic, Atomic!Spec
=============================================================================
