------------------------------ MODULE Registry ------------------------------
(***************************************************************************)
(* Apptrail's registry: which application each observed thing belongs to.  *)
(*                                                                         *)
(* A scan hands reconcile a snapshot, a sequence of observations.  Each    *)
(* observation carries identity keys; the apps that own them decide where  *)
(* it goes, and a Traefik alias group may make several apps one.  The      *)
(* whole snapshot is one transaction: its working copy is tx.d, thrown     *)
(* away when an observation conflicts, and since the database has one      *)
(* connection no other statement runs while it is open.  What interleaves  *)
(* with it, statement by statement, are the handlers: updateApp, and the   *)
(* claim of a manifest's explicit ID in enrich.                            *)
(*                                                                         *)
(* Abstracted here: observed facts (module Enrichment, apps()), the pages  *)
(* (module Dashboards; a page matters here only as placing an app), and    *)
(* how adapters derive keys.                                               *)
(***************************************************************************)
EXTENDS Integers, Sequences

CONSTANTS
    Apps,        \* application IDs
    Keys,        \* identity keys: explicit, native and URL keys
    Explicit,    \* those with the prefix "explicit:"
    Sources,     \* the (provider, source) pairs of observations
    Scopes,      \* providers, and "manual:<id>" for each manual entry
    Manual,      \* the scopes of manual entries
    Traefik,     \* the providers of kind traefik
    ScopeOf,     \* ScopeOf[s]: the provider of source s
    Snapshots,   \* Snapshots[p]: what a scan of p may hand to reconcile
    Databases,   \* the registries the program may start with
    Texts,       \* values of a text override (name, url, icon, ...)
    Unset,       \* a text override the owner never made
    Patches,     \* the edits an owner makes: unset fields are left alone
    Handlers,    \* updateApp handlers in flight
    Probers,     \* enrich calls in flight
    None,        \* no app
    MaxOps       \* bound: scans, edits, deletions and claims per behaviour

Flags == {"unset", "no", "yes"}
PrefRecs == [text : Texts \cup {Unset}, flag : Flags]
NoPrefs == [text |-> Unset, flag |-> "unset"]

ObsRecs == [app : Apps \cup {None}, keys : SUBSET Keys, present : BOOLEAN, internal : BOOLEAN]
NoObs == [app |-> None, keys |-> {}, present |-> FALSE, internal |-> FALSE]

(***************************************************************************)
(* A registry: the applications rows, every ID ever handed out, the        *)
(* identities (owner), the observations other than HTTP metadata, the      *)
(* overrides, and the apps some page lists.  internal says that the stored *)
(* facts name a router "...@internal", as older versions recorded them.    *)
(***************************************************************************)
DbRecs == [apps : SUBSET Apps, ever : SUBSET Apps, owner : [Keys -> Apps \cup {None}],
           obs : [Sources -> ObsRecs], prefs : [Apps -> PrefRecs], placed : SUBSET Apps]
EmptyDb == [apps |-> {}, ever |-> {}, owner |-> [k \in Keys |-> None],
            obs |-> [s \in Sources |-> NoObs], prefs |-> [a \in Apps |-> NoPrefs],
            placed |-> {}]

Observations == [source : Sources, keys : Seq(Keys), alias : BOOLEAN, internal : BOOLEAN]
KeysOf(o) == {o.keys[i] : i \in DOMAIN o.keys}
Observed(d) == {s \in Sources : d.obs[s].app # None}

(***************************************************************************)
(* What the foreign keys give (the first four), and what every registry    *)
(* has: the keys an observation was stored with belong to its app.         *)
(***************************************************************************)
References(d) ==
    /\ d.apps \subseteq d.ever
    /\ d.placed \subseteq d.apps
    /\ \A k \in Keys : d.owner[k] \in d.apps \cup {None}
    /\ \A s \in Sources : d.obs[s].app \in d.apps \cup {None}
    /\ \A a \in Apps \ d.apps : d.prefs[a] = NoPrefs
KeysFollow(d) == \A s \in Observed(d) : \A k \in d.obs[s].keys : d.owner[k] = d.obs[s].app

ASSUME BoundAssumption == MaxOps \in Nat
ASSUME NamesAssumption == /\ None \notin Apps \cup Keys /\ Unset \notin Texts
                          /\ Explicit \subseteq Keys
                          /\ Patches \subseteq PrefRecs
ASSUME ScopesAssumption == /\ Scopes # {} /\ Manual \subseteq Scopes
                           /\ Traefik \subseteq Scopes \ Manual
                           /\ ScopeOf \in [Sources -> Scopes]
ASSUME SnapshotsAssumption ==
    /\ Snapshots \in [Scopes -> SUBSET Seq(Observations)]
    /\ \A p \in Scopes : \A snap \in Snapshots[p] : \A i \in DOMAIN snap :
          /\ ScopeOf[snap[i].source] = p
          /\ \A k, l \in KeysOf(snap[i]) \cap Explicit : k = l
ASSUME DatabasesAssumption ==
    /\ Databases \subseteq DbRecs
    /\ \A d \in Databases : References(d) /\ KeysFollow(d)

VARIABLES
    db,      \* the committed registry
    tx,      \* reconcile's transaction: scope, working copy, what is left of the snapshot
    open,    \* the scopes that can still be reconciled
    edit,    \* edit[h]: updateApp between its SELECT and its UPDATE
    claim,   \* claim[q]: enrich between the statements that claim an explicit ID
    ops      \* operations started so far

vars == <<db, tx, open, edit, claim, ops>>

TxRecs == [open : BOOLEAN, scope : Scopes, d : DbRecs, todo : Seq(Observations)]
EditRecs == [st : {"idle", "write"}, app : Apps \cup {None}, patch : PrefRecs, prefs : PrefRecs]
ClaimRecs == [st : {"idle"}, app : {None}, key : {None}]
                \cup [st : {"lookup", "insert"}, app : Apps, key : Explicit]
NoTx == [open |-> FALSE, scope |-> CHOOSE p \in Scopes : TRUE, d |-> EmptyDb, todo |-> <<>>]
NoEdit == [st |-> "idle", app |-> None, patch |-> NoPrefs, prefs |-> NoPrefs]
NoClaim == [st |-> "idle", app |-> None, key |-> None]

Count == ops < MaxOps /\ ops' = ops + 1
\* The single connection: while a transaction is open every other statement waits.
Free == ~tx.open

Init == /\ db \in Databases
        /\ tx = NoTx
        /\ open = Scopes
        /\ edit = [h \in Handlers |-> NoEdit]
        /\ claim = [q \in Probers |-> NoClaim]
        /\ ops = 0
-----------------------------------------------------------------------------
ExplicitOf(d, a) == {k \in Explicit : d.owner[k] = a}
\* candidates: the apps that own a key of the observation.
Owners(d, o) == {d.owner[k] : k \in KeysOf(o)} \ {None}
\* candidates[0]: the owner of the first key that has one.
Canonical(d, o) ==
    LET owned == {i \in DOMAIN o.keys : d.owner[o.keys[i]] # None}
    IN  d.owner[o.keys[CHOOSE i \in owned : \A j \in owned : i <= j]]

(***************************************************************************)
(* mergeAliasApps.  It refuses a group with two explicit IDs or with text  *)
(* overrides that differ; flags are or-ed.                                 *)
(***************************************************************************)
\* Mergeable, if differing overrides were no obstacle.
MergeableByFirst(d, ids) ==
    \A k, l \in Explicit : d.owner[k] \in ids /\ d.owner[l] \in ids => k = l

Mergeable(d, ids) ==
    /\ \A k, l \in Explicit : d.owner[k] \in ids /\ d.owner[l] \in ids => k = l
    /\ \A a, b \in ids : \/ Unset \in {d.prefs[a].text, d.prefs[b].text}
                         \/ d.prefs[a].text = d.prefs[b].text

MergedPrefs(d, ids) ==
    [text |-> IF \A a \in ids : d.prefs[a].text = Unset THEN Unset
              ELSE CHOOSE t \in Texts : \E a \in ids : d.prefs[a].text = t,
     flag |-> IF \E a \in ids : d.prefs[a].flag = "yes" THEN "yes"
              ELSE IF \E a \in ids : d.prefs[a].flag = "no" THEN "no" ELSE "unset"]

\* A page that lists an app of ids lists c instead.
Replaced(placed, ids, c) == IF placed \cap ids = {} THEN placed ELSE (placed \ ids) \cup {c}

WithMerged(d, ids, c, owner, placed) ==
    [d EXCEPT !.apps = @ \ (ids \ {c}),
              !.owner = owner,
              !.obs = [s \in Sources |-> IF d.obs[s].app \in ids THEN [d.obs[s] EXCEPT !.app = c]
                                         ELSE d.obs[s]],
              !.prefs = [a \in Apps |-> IF a = c THEN MergedPrefs(d, ids)
                                        ELSE IF a \in ids THEN NoPrefs ELSE d.prefs[a]],
              !.placed = placed]

\* Merged, if the identities of the other apps went with them (ON DELETE CASCADE).
MergedDroppingKeys(d, ids, c) ==
    WithMerged(d, ids, c, [k \in Keys |-> IF d.owner[k] \in ids \ {c} THEN None ELSE d.owner[k]],
               Replaced(d.placed, ids, c))

Merged(d, ids, c) ==
    WithMerged(d, ids, c, [k \in Keys |-> IF d.owner[k] \in ids THEN c ELSE d.owner[k]],
               Replaced(d.placed, ids, c))

(***************************************************************************)
(* DELETE FROM applications: identities and observations cascade, and the  *)
(* pages drop the app.                                                     *)
(***************************************************************************)
\* Without, if foreign keys were off.
WithoutCascade(d, gone) ==
    [d EXCEPT !.apps = @ \ gone, !.placed = @ \ gone,
              !.prefs = [a \in Apps |-> IF a \in gone THEN NoPrefs ELSE d.prefs[a]]]

Without(d, gone) ==
    [d EXCEPT !.apps = @ \ gone,
              !.owner = [k \in Keys |-> IF d.owner[k] \in gone THEN None ELSE d.owner[k]],
              !.obs = [s \in Sources |-> IF d.obs[s].app \in gone THEN NoObs ELSE d.obs[s]],
              !.prefs = [a \in Apps |-> IF a \in gone THEN NoPrefs ELSE d.prefs[a]],
              !.placed = @ \ gone]

MarkAbsent(d, p) ==
    [d EXCEPT !.obs = [s \in Sources |-> IF ScopeOf[s] = p
                                         THEN [d.obs[s] EXCEPT !.present = FALSE] ELSE d.obs[s]]]

\* The observation o goes to app a, which gets the keys nobody owns.
Assigned(d, o, a) ==
    [d EXCEPT !.apps = @ \cup {a}, !.ever = @ \cup {a},
              !.owner = [k \in Keys |-> IF k \in KeysOf(o) /\ d.owner[k] = None THEN a
                                        ELSE d.owner[k]],
              !.obs[o.source] = [app |-> a, keys |-> KeysOf(o), present |-> TRUE,
                                 internal |-> o.internal]]

(***************************************************************************)
(* pruneTraefikInternals: apps known only from internal routers that this  *)
(* provider no longer reports, and that nobody edited, placed or named.    *)
(***************************************************************************)
IsNoise(d, s, p) == ScopeOf[s] = p /\ ~d.obs[s].present /\ d.obs[s].internal

\* Apps with such an observation, and those with no other.
Noisy(d, p) == {d.obs[s].app : s \in {s \in Observed(d) : IsNoise(d, s, p)}}
Otherwise(d, p) == {d.obs[s].app : s \in {s \in Observed(d) : ~IsNoise(d, s, p)}}
Unnamed(d) == {a \in d.apps : ExplicitOf(d, a) = {}}

Prunable(d, p) ==
    {a \in (Noisy(d, p) \cap Unnamed(d)) \ (Otherwise(d, p) \cup d.placed) : d.prefs[a] = NoPrefs}
-----------------------------------------------------------------------------
(***************************************************************************)
(* reconcile: begin, one step per observation, prune and commit.           *)
(***************************************************************************)
\* A scan of provider p, or createApp with a scope of its own, opens the transaction.
BeginReconcile(p) ==
    /\ Free /\ p \in open /\ Count
    /\ \E snap \in Snapshots[p] :
          tx' = [open |-> TRUE, scope |-> p, d |-> MarkAbsent(db, p), todo |-> snap]
    /\ open' = open \ (Manual \cap {p})
    /\ UNCHANGED <<db, edit, claim>>

\* "INSERT INTO applications" draws a new ID when no key is known.
Homes(d, o) == IF Owners(d, o) = {} THEN Apps \ d.ever ELSE {Canonical(d, o)}

\* len(candidates) > 1
Conflict(d, o) == \E a, b \in Owners(d, o) : a # b

CanMerge(d, o, p) == o.alias /\ p \in Traefik /\ Mergeable(d, Owners(d, o))

Resolved(d, o) == IF Conflict(d, o) THEN Merged(d, Owners(d, o), Canonical(d, o))
                  ELSE d

\* ExplicitAgree, if the check were left to the lookup of the keys.
ExplicitUnchecked(d, o, a) == TRUE
\* An app keeps to the explicit ID it has.
ExplicitAgree(d, o, a) == \A k \in KeysOf(o) \cap Explicit : ExplicitOf(d, a) \subseteq {k}

ReconcileObservation ==
    /\ tx.open /\ tx.todo # <<>>
    /\ LET d == tx.d  o == Head(tx.todo)
       IN  /\ Conflict(d, o) => CanMerge(d, o, tx.scope)
           /\ \E a \in Homes(d, o) :
                 /\ ExplicitAgree(Resolved(d, o), o, a)
                 /\ tx' = [tx EXCEPT !.d = Assigned(Resolved(d, o), o, a), !.todo = Tail(@)]
    /\ UNCHANGED <<db, open, edit, claim, ops>>

\* ReconcileConflicts, if what came before the conflict were committed.
ReconcileKeepingRest ==
    /\ tx.open /\ tx.todo # <<>>
    /\ LET d == tx.d  o == Head(tx.todo)
       IN  \/ Conflict(d, o) /\ ~CanMerge(d, o, tx.scope)
           \/ Owners(d, o) # {} /\ ~ExplicitAgree(Resolved(d, o), o, Canonical(d, o))
    /\ tx' = [tx EXCEPT !.todo = <<>>]
    /\ UNCHANGED <<db, open, edit, claim, ops>>

\* A conflict: the error return's deferred Rollback.
ReconcileConflicts ==
    /\ tx.open /\ tx.todo # <<>>
    /\ LET d == tx.d  o == Head(tx.todo)
       IN  \/ Conflict(d, o) /\ ~CanMerge(d, o, tx.scope)
           \/ Owners(d, o) # {} /\ ~ExplicitAgree(Resolved(d, o), o, Canonical(d, o))
    /\ tx' = NoTx
    /\ UNCHANGED <<db, open, edit, claim, ops>>

ReconcileCommit ==
    /\ tx.open /\ tx.todo = <<>>
    /\ db' = IF tx.scope \in Traefik THEN Without(tx.d, Prunable(tx.d, tx.scope)) ELSE tx.d
    /\ tx' = NoTx
    /\ UNCHANGED <<open, edit, claim, ops>>
-----------------------------------------------------------------------------
(***************************************************************************)
(* The owner's requests.                                                   *)
(***************************************************************************)
Patched(prefs, patch) ==
    [text |-> IF patch.text = Unset THEN prefs.text ELSE patch.text,
     flag |-> IF patch.flag = "unset" THEN prefs.flag ELSE patch.flag]

\* updateApp reads the overrides, and writes all of them back.
UpdateAppRead(h, a, patch) ==
    /\ Free /\ edit[h].st = "idle" /\ a \in db.apps /\ Count
    /\ edit' = [edit EXCEPT ![h] = [st |-> "write", app |-> a, patch |-> patch,
                                    prefs |-> Patched(db.prefs[a], patch)]]
    /\ UNCHANGED <<db, tx, open, claim>>

UpdateAppWrite(h) ==
    /\ Free /\ edit[h].st = "write"
    /\ db' = IF edit[h].app \in db.apps THEN [db EXCEPT !.prefs[edit[h].app] = edit[h].prefs]
             ELSE db
    /\ edit' = [edit EXCEPT ![h] = NoEdit]
    /\ UNCHANGED <<tx, open, claim, ops>>

DeleteApp(a) ==
    /\ Free /\ a \in db.apps /\ Count
    /\ db' = Without(db, {a})
    /\ UNCHANGED <<tx, open, edit, claim>>

\* A page comes to list the app, or no longer does (saveDashboard, auto-add).
PlaceApp(a) ==
    /\ Free /\ a \in db.apps /\ Count
    /\ db' = [db EXCEPT !.placed = IF a \in @ THEN @ \ {a} ELSE @ \cup {a}]
    /\ UNCHANGED <<tx, open, edit, claim>>

DeleteProvider(p) ==
    /\ Free /\ p \in open \ Manual /\ Count
    /\ db' = MarkAbsent(db, p)
    /\ open' = open \ {p}
    /\ UNCHANGED <<tx, edit, claim>>
-----------------------------------------------------------------------------
(***************************************************************************)
(* enrich: an app without an explicit ID claims the one its manifest       *)
(* gives, in three statements: count, look up, insert.                     *)
(***************************************************************************)
ClaimCount(q, a, k) ==
    /\ Free /\ claim[q].st = "idle" /\ a \in db.apps /\ ExplicitOf(db, a) = {} /\ Count
    /\ claim' = [claim EXCEPT ![q] = [st |-> "lookup", app |-> a, key |-> k]]
    /\ UNCHANGED <<db, tx, open, edit>>

ClaimLookup(q) ==
    /\ Free /\ claim[q].st = "lookup"
    /\ claim' = [claim EXCEPT ![q] = IF db.owner[@.key] \in {None, @.app}
                                     THEN [@ EXCEPT !.st = "insert"] ELSE NoClaim]
    /\ UNCHANGED <<db, tx, open, edit, ops>>

\* ClaimInsert, if it were INSERT OR REPLACE.
ClaimReplace(q) ==
    /\ Free /\ claim[q].st = "insert"
    /\ db' = IF claim[q].app \in db.apps THEN [db EXCEPT !.owner[claim[q].key] = claim[q].app]
             ELSE db
    /\ claim' = [claim EXCEPT ![q] = NoClaim]
    /\ UNCHANGED <<tx, open, edit, ops>>

\* INSERT OR IGNORE: a key somebody has by now stays theirs; an app that is gone
\* fails the foreign key.
ClaimInsert(q) ==
    /\ Free /\ claim[q].st = "insert"
    /\ db' = IF db.owner[claim[q].key] = None /\ claim[q].app \in db.apps
             THEN [db EXCEPT !.owner[claim[q].key] = claim[q].app] ELSE db
    /\ claim' = [claim EXCEPT ![q] = NoClaim]
    /\ UNCHANGED <<tx, open, edit, ops>>
-----------------------------------------------------------------------------
Next ==
    \/ \E p \in Scopes : BeginReconcile(p) \/ DeleteProvider(p)
    \/ ReconcileObservation \/ ReconcileConflicts \/ ReconcileCommit
    \/ \E h \in Handlers : UpdateAppWrite(h)
                          \/ \E a \in Apps, patch \in Patches : UpdateAppRead(h, a, patch)
    \/ \E a \in Apps : DeleteApp(a) \/ PlaceApp(a)
    \/ \E q \in Probers : \/ ClaimLookup(q) \/ ClaimInsert(q)
                         \/ \E a \in Apps, k \in Explicit : ClaimCount(q, a, k)

Spec == Init /\ [][Next]_vars
-----------------------------------------------------------------------------
TypeOK ==
    /\ db \in DbRecs
    /\ tx \in TxRecs
    /\ open \in SUBSET Scopes
    /\ edit \in [Handlers -> EditRecs]
    /\ claim \in [Probers -> ClaimRecs]
    /\ ops \in 0..MaxOps

(* No identity, observation or page refers to an app that is gone, in the  *)
(* committed registry or in the one a transaction works on.                *)
ReferencesHold == References(db) /\ References(tx.d)

(* Every observation is with the app that owns all of its keys, through    *)
(* merges, claims and deletions; otherwise the next scan would find the    *)
(* source with another app than the one that shows its facts.              *)
SourcesFollowKeys == KeysFollow(db) /\ KeysFollow(tx.d)

Committed == tx.open /\ ~tx'.open /\ db' # db

\* What the owner did to a in the registry d is there at b in the registry e.
Carries(d, a, e, b) ==
    /\ a \in d.placed => b \in e.placed
    /\ d.prefs[a].text # Unset => e.prefs[b].text = d.prefs[a].text
    /\ d.prefs[a].flag # "unset" => e.prefs[b].flag \in {d.prefs[a].flag, "yes"}
Curated(d, a) == a \in d.placed \/ d.prefs[a] # NoPrefs \/ ExplicitOf(d, a) # {}
TwoIDs(d, a) == \E k, l \in ExplicitOf(d, a) : k # l

(* A scan loses nothing the owner did: whatever app owned a key, if it was *)
(* placed, edited or explicitly named, the key's owner after the scan has  *)
(* its overrides and placement ("older alias records consolidate while     *)
(* preserving preferences and placements", README).                        *)
CurationSurvivesScans ==
    [][Committed => \A k \in Keys :
         LET a == db.owner[k]  b == db'.owner[k]
         IN  a # None /\ Curated(db, a) => b # None /\ Carries(db, a, db', b)]_vars

(* A key changes hands only when the app that had it is gone: rescanning   *)
(* never moves a source from one dashboard entry to another.               *)
KeysStay ==
    [][\A k \in Keys : db.owner[k] \in db'.apps => db'.owner[k] = db.owner[k]]_vars

(* A scan never gives an app a second explicit ID ("conflicting explicit   *)
(* Apptrail IDs", reconcile and mergeAliasApps), whichever mix of merges   *)
(* and explicit keys its snapshot contains.                                *)
ScansKeepOneID ==
    [][Committed => \A a \in Apps : TwoIDs(db', a) => TwoIDs(db, a)]_vars

(***************************************************************************)
(* The committed registry as module AtomicRegistry has it: no transaction, *)
(* and nothing of a snapshot that is half worked off.                      *)
(***************************************************************************)
Atomic == INSTANCE AtomicRegistry WITH registry <- db, Prefs <- PrefRecs

(* A scan takes effect as a whole or not at all: afterwards every source   *)
(* of the provider is as the snapshot says, or all is as before, with      *)
(* every other provider's observations and everything the owner did kept,  *)
(* although reconcile works observation by observation, merges and prunes, *)
(* and handlers and probes run their statements around it.                 *)
ScansAreAtomic == Atomic!Spec
=============================================================================
