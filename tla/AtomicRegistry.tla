--------------------------- MODULE AtomicRegistry ---------------------------
(***************************************************************************)
(* What the owner may rely on of the registry: a scan is one step, whose   *)
(* outcome is what its snapshot says of the provider's sources, or it is   *)
(* no step at all; edits, deletions, placements and claims come between    *)
(* scans and never inside one.                                             *)
(*                                                                         *)
(* There is no transaction, no order of observations, no merging and no    *)
(* pruning here: a scan is described by what it may and must change.       *)
(* Module Registry has the algorithm, and implements this one.             *)
(***************************************************************************)
EXTENDS Integers, Sequences

CONSTANTS
    Apps,          \* application IDs
    Keys,          \* identity keys
    Explicit,      \* the keys that are explicit IDs
    Sources,       \* what providers observe
    Scopes,        \* the providers
    Traefik,       \* those that may say that several apps are one
    ScopeOf,       \* ScopeOf[s]: the provider of source s
    Snapshots,     \* Snapshots[p]: what a scan of p may find
    Databases,     \* the registries the program may start with
    Prefs,         \* an app's overrides
    None,          \* no app
    Unset          \* a text override the owner never made

VARIABLE registry  \* apps, ever, owner, obs, prefs, placed

NoPrefs == [text |-> Unset, flag |-> "unset"]
KeysOf(o) == {o.keys[i] : i \in DOMAIN o.keys}
IDs(r, a) == {k \in Explicit : r.owner[k] = a}
-----------------------------------------------------------------------------
(***************************************************************************)
(* What a scan of p that found snap may make of the registry r: t.         *)
(***************************************************************************)
Facts(x) == [keys |-> x.keys, present |-> x.present, internal |-> x.internal]

\* The last that snap says of s; a source may be named more than once.
IsLast(snap, s, i) ==
    snap[i].source = s /\ \A j \in DOMAIN snap : snap[j].source = s => j <= i

\* A source the scan found is there as it was found, with the app that owns all
\* of its keys.
Found(t, s, o) ==
    /\ t.obs[s].app # None
    /\ Facts(t.obs[s]) = [keys |-> KeysOf(o), present |-> TRUE, internal |-> o.internal]
    /\ \A k \in KeysOf(o) : t.owner[k] = t.obs[s].app

\* One it did not find is as it was, except that those of p are no longer
\* present, and that those of an internal router of p may be dropped.
NotFound(r, t, p, s) ==
    LET x == r.obs[s]
    IN  IF t.obs[s].app = None
        THEN x.app = None \/ (ScopeOf[s] = p /\ p \in Traefik /\ x.internal)
        ELSE /\ x.app # None
             /\ Facts(t.obs[s]) = [keys |-> x.keys, present |-> x.present /\ ScopeOf[s] # p,
                                   internal |-> x.internal]

SourcesScanned(r, t, p, snap) ==
    \A s \in Sources :
        /\ \A i \in DOMAIN snap : IsLast(snap, s, i) => Found(t, s, snap[i])
        /\ (\A i \in DOMAIN snap : snap[i].source # s) => NotFound(r, t, p, s)

\* What the owner did to a in r is there at b in t.
Carries(r, a, t, b) ==
    /\ a \in r.placed => b \in t.placed
    /\ r.prefs[a].text # Unset => t.prefs[b].text = r.prefs[a].text
    /\ r.prefs[a].flag # "unset" => t.prefs[b].flag \in {r.prefs[a].flag, "yes"}
Curated(r, a) == a \in r.placed \/ r.prefs[a] # NoPrefs \/ IDs(r, a) # {}

\* Keys stay with their app while it is there, and together when it is not; a
\* curated app's keys go to one that has what the owner did; no key comes from
\* nowhere.
KeysScanned(r, t, snap) ==
    \A k \in Keys :
        LET a == r.owner[k]  b == t.owner[k]
        IN  /\ a \in t.apps => b = a
            /\ a # None => \A l \in Keys : r.owner[l] = a => t.owner[l] = b
            /\ a # None /\ Curated(r, a) => b # None /\ Carries(r, a, t, b)
            /\ a = None /\ b # None => \E i \in DOMAIN snap : k \in KeysOf(snap[i])

\* An app that stays has what the owner did, and one that was curated ends only
\* if its keys can go to another.  Overrides and places come from nowhere else.
Inherits(r, t, a) ==
    LET from == {b \in r.apps : b = a \/ \E k \in Keys : r.owner[k] = b /\ t.owner[k] = a}
    IN  /\ a \in t.placed => from \cap r.placed # {}
        /\ t.prefs[a].text # Unset => \E b \in from : r.prefs[b].text = t.prefs[a].text
        /\ t.prefs[a].flag # "unset" => \E b \in from : r.prefs[b].flag = t.prefs[a].flag

CurationScanned(r, t) ==
    /\ \A a \in r.apps \cap t.apps : Carries(r, a, t, a)
    /\ \A a \in r.apps \ t.apps : Curated(r, a) => \E k \in Keys : r.owner[k] = a
    /\ \A a \in t.apps : Inherits(r, t, a)

\* A new app has a key that the scan found (or something without keys was
\* found); IDs are not used again, a scan gives no app a second explicit ID, and
\* only Traefik's may end an app or touch what the owner did.
AppsScanned(r, t, p, snap) ==
    /\ \A a \in t.apps \ r.apps : \E i \in DOMAIN snap :
          KeysOf(snap[i]) = {} \/ \E k \in KeysOf(snap[i]) : t.owner[k] = a
    /\ r.ever \subseteq t.ever /\ t.apps \cap r.ever \subseteq r.apps
    /\ \A a \in Apps : (\E k, l \in IDs(t, a) : k # l) => \E k, l \in IDs(r, a) : k # l
    /\ p \notin Traefik => r.apps \subseteq t.apps /\ t.prefs = r.prefs /\ t.placed = r.placed

Scanned(r, t, p, snap) ==
    /\ SourcesScanned(r, t, p, snap) /\ KeysScanned(r, t, snap)
    /\ CurationScanned(r, t) /\ AppsScanned(r, t, p, snap)
-----------------------------------------------------------------------------
Init == registry \in Databases

Scan(p) == \E snap \in Snapshots[p] : Scanned(registry, registry', p, snap)

\* The overrides of one app.  Which they become is open: an edit writes back
\* all of what it read, and two of them may overlap.
Edit(a) == \E x \in Prefs : registry' = [registry EXCEPT !.prefs[a] = x]

\* An explicit ID nobody has.
Claim(a, k) == /\ registry.owner[k] = None
               /\ registry' = [registry EXCEPT !.owner[k] = a]

Place(a) == \E places \in {registry.placed \cup {a}, registry.placed \ {a}} :
                registry' = [registry EXCEPT !.placed = places]

\* An app goes with its identities, observations, overrides and places.
Delete(a) ==
    LET r == registry  t == registry'
    IN  /\ t.apps = r.apps \ {a} /\ t.placed = r.placed \ {a} /\ t.ever = r.ever
        /\ \A k \in Keys : t.owner[k] = IF r.owner[k] = a THEN None ELSE r.owner[k]
        /\ \A s \in Sources : IF r.obs[s].app = a THEN t.obs[s].app = None
                              ELSE t.obs[s] = r.obs[s]
        /\ \A b \in Apps : t.prefs[b] = IF b = a THEN NoPrefs ELSE r.prefs[b]

\* A provider is deleted: what it observed stays, no longer present.
Retire(p) ==
    LET rows == [s \in Sources |-> [registry.obs[s] EXCEPT !.present = @ /\ ScopeOf[s] # p]]
    IN  registry' = [registry EXCEPT !.obs = rows]

Next ==
    \/ \E p \in Scopes : Scan(p) \/ Retire(p)
    \/ \E a \in registry.apps : \/ Edit(a) \/ Place(a) \/ Delete(a)
                                \/ \E k \in Explicit : Claim(a, k)

Spec == Init /\ [][Next]_registry
=============================================================================
