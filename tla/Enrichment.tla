----------------------------- MODULE Enrichment -----------------------------
(***************************************************************************)
(* Apptrail's probes: HTTP metadata and health of the registered apps.     *)
(*                                                                         *)
(* enrich reads an app, waits for one of a few slots, fetches the app's    *)
(* launch URL for seconds, and then stores what it found, in statements    *)
(* between which the app may be edited, merged or deleted, and probed by   *)
(* somebody else.  The scheduler probes every present app once per cycle,  *)
(* with a few workers; the owner may ask for a probe at any time; icon     *)
(* requests share the slots.                                               *)
(*                                                                         *)
(* Abstracted here: which facts a response gives and their priorities      *)
(* (metadata is the site's URL and version), blocked addresses, and the    *)
(* claim of a manifest's ID (module Registry).                             *)
(***************************************************************************)
EXTENDS Integers, FiniteSets

CONSTANTS
    Apps,        \* application IDs
    Urls,        \* launch URLs
    Workers,     \* the scheduler's workers (four)
    Refreshers,  \* refreshApp handlers in flight
    Slots,       \* capacity of probeSlots (eight)
    None,        \* no URL, no app, no metadata
    MaxIcons,    \* bound: icon requests in flight
    MaxVersion,  \* bound: versions of a site
    MaxOps       \* bound: the owner's operations and the sites' changes

ASSUME BoundsAssumption == /\ Slots \in Nat \ {0}
                           /\ MaxIcons \in Nat /\ MaxVersion \in Nat /\ MaxOps \in Nat
ASSUME NamesAssumption == None \notin Apps \cup Urls /\ Workers \cap Refreshers = {}
ASSUME FiniteAssumption == IsFiniteSet(Workers) /\ IsFiniteSet(Refreshers)

Probers == Workers \cup Refreshers
Metadata == Urls \X (0..MaxVersion)
\* The http observation of an app; NoFacts when it has none.
FactRecs == [meta : Metadata \cup {None}, health : {"none", "reachable", "unreachable"}]
NoFacts == [meta |-> None, health |-> "none"]
ProbeRecs == [st : {"idle", "slot", "queue", "fetch", "late", "keep", "recheck", "store"},
              app : Apps \cup {None}, url : Urls \cup {None}, facts : FactRecs]
Idle == [st |-> "idle", app |-> None, url |-> None, facts |-> NoFacts]
Holding == {"fetch", "late", "keep", "recheck", "store"}

VARIABLES
    url,     \* url[a]: the app's launch URL; None if it has none
    live,    \* the apps that exist
    present, \* the apps whose lifecycle is present: some scan still finds them
    http,    \* http[a]: the observation ('http', a)
    site,    \* site[u]: what is at a URL
    probe,   \* probe[q]: where an enrich call is
    icons,   \* icon requests that hold a slot
    held,    \* len(probeSlots)
    todo,    \* the apps left in this cycle of the scheduler
    ops

vars == <<url, live, present, http, site, probe, icons, held, todo, ops>>
world == <<url, live, present, site, ops>>

Count == ops < MaxOps /\ ops' = ops + 1
\* Calls between reading the app and leaving enrich.
Busy(Q) == {q \in Q : probe[q].st # "idle"}
InFlight == {q \in Probers : probe[q].st \in Holding}

Init == /\ live \in SUBSET Apps /\ present \in SUBSET live
        /\ url \in [Apps -> Urls \cup {None}]
        /\ \A a \in Apps \ live : url[a] = None
        /\ http = [a \in Apps |-> NoFacts]
        /\ site = [u \in Urls |-> [version |-> 0, up |-> TRUE]]
        /\ probe = [q \in Probers |-> Idle]
        /\ icons = 0 /\ held = 0 /\ todo = {} /\ ops = 0
-----------------------------------------------------------------------------
(***************************************************************************)
(* enrich                                                                  *)
(***************************************************************************)
Goto(q, st) == probe' = [probe EXCEPT ![q].st = st]
Leave(q) == probe' = [probe EXCEPT ![q] = Idle]

\* The app as the call read it; without a URL, or when it is gone, the call returns.
Begin(q, a) ==
    probe' = IF a \in live /\ url[a] # None
             THEN [probe EXCEPT ![q] = [st |-> "slot", app |-> a, url |-> url[a], facts |-> NoFacts]]
             ELSE probe

\* probeSlots <- struct{}{}, which blocks while all slots are taken.
Queue(q) ==
    /\ probe[q].st = "slot" /\ held = Slots
    /\ Goto(q, "queue")
    /\ UNCHANGED <<world, http, icons, held, todo>>

\* Who had to wait may have used up its deadline.
Acquire(q) ==
    /\ probe[q].st \in {"slot", "queue"} /\ held < Slots
    /\ held' = held + 1
    /\ Goto(q, IF probe[q].st = "slot" THEN "fetch" ELSE "late")
    /\ UNCHANGED <<world, http, icons, todo>>

\* The deadline passes before a slot is free, or the client of refreshApp leaves.
GiveUp(q) ==
    /\ \/ probe[q].st = "queue" /\ held = Slots
       \/ probe[q].st \in {"slot", "queue"} /\ q \in Refreshers
    /\ Leave(q)
    /\ UNCHANGED <<world, http, icons, held, todo>>

\* The response of a site that is up, or an error: a call whose cutOff holds may end without.
FetchUnless(q, cutOff) ==
    /\ probe[q].st \in {"fetch", "late"}
    /\ LET s == site[probe[q].url]
       IN  \/ /\ s.up
              /\ probe' = [probe EXCEPT ![q].st = "recheck",
                                        ![q].facts = [meta |-> <<probe[q].url, s.version>>,
                                                      health |-> "reachable"]]
           \/ cutOff /\ Goto(q, "keep")
    /\ UNCHANGED <<world, http, icons, held, todo>>

\* Fetch, if a call had no deadline.
FetchWithoutDeadline(q) == FetchUnless(q, q \in Refreshers)

\* The site is down, what the wait left of the deadline passes, or the client of refreshApp
\* has left.
Fetch(q) == FetchUnless(q, ~site[probe[q].url].up \/ probe[q].st = "late" \/ q \in Refreshers)

\* A failed probe starts from the facts that are stored.
KeepMetadata(q) ==
    /\ probe[q].st = "keep"
    /\ probe' = [probe EXCEPT ![q].st = "recheck",
                              ![q].facts = [http[probe[q].app] EXCEPT !.health = "unreachable"]]
    /\ UNCHANGED <<world, http, icons, held, todo>>

SameUrl(q) == probe[q].app \in live /\ url[probe[q].app] = probe[q].url

\* Recheck, if its error return did not give the slot back.
RecheckKeepingSlot(q) ==
    /\ probe[q].st = "recheck"
    /\ IF SameUrl(q) THEN Goto(q, "store") ELSE Leave(q)
    /\ UNCHANGED <<world, http, icons, held, todo>>

Recheck(q) ==
    /\ probe[q].st = "recheck"
    /\ IF SameUrl(q) THEN Goto(q, "store") /\ UNCHANGED held
       ELSE Leave(q) /\ held' = held - 1
    /\ UNCHANGED <<world, http, icons, todo>>

\* Store, if the observation did not refer to the application.
StoreAnyway(q) ==
    /\ probe[q].st = "store"
    /\ http' = [http EXCEPT ![probe[q].app] = probe[q].facts]
    /\ Leave(q)
    /\ held' = held - 1
    /\ UNCHANGED <<world, icons, todo>>

\* The upsert; the foreign key refuses an app that is gone by now.
Store(q) ==
    /\ probe[q].st = "store"
    /\ http' = IF probe[q].app \in live THEN [http EXCEPT ![probe[q].app] = probe[q].facts]
               ELSE http
    /\ Leave(q)
    /\ held' = held - 1
    /\ UNCHANGED <<world, icons, todo>>

Step(q) ==
    \/ Queue(q) \/ Acquire(q) \/ GiveUp(q) \/ Fetch(q) \/ KeepMetadata(q) \/ Recheck(q) \/ Store(q)
-----------------------------------------------------------------------------
(***************************************************************************)
(* Who calls enrich: the scheduler's workers and refreshApp.               *)
(***************************************************************************)
\* A cycle starts when the workers of the last one are done.
Cycle ==
    /\ todo = {} /\ Busy(Workers) = {}
    /\ todo' = {a \in present : url[a] # None}
    /\ UNCHANGED <<world, http, probe, icons, held>>

\* An idle worker takes the next app of the cycle's list.
StartWorker(q) ==
    /\ probe[q].st = "idle"
    /\ \E a \in todo : Begin(q, a) /\ todo' = todo \ {a}
    /\ UNCHANGED <<world, http, icons, held>>

RefreshApp(q, a) ==
    /\ probe[q].st = "idle" /\ a \in live /\ Count
    /\ Begin(q, a)
    /\ UNCHANGED <<url, live, present, site, http, icons, held, todo>>

BeginIcon ==
    /\ icons < MaxIcons /\ held < Slots
    /\ icons' = icons + 1 /\ held' = held + 1
    /\ UNCHANGED <<world, http, probe, todo>>

EndIcon ==
    /\ icons > 0
    /\ icons' = icons - 1 /\ held' = held - 1
    /\ UNCHANGED <<world, http, probe, todo>>
-----------------------------------------------------------------------------
(***************************************************************************)
(* The rest of the world: edits and scans move an app, find it or miss it, *)
(* a deletion or a merge ends it, and its http observation with it; sites  *)
(* change.                                                                 *)
(***************************************************************************)
MoveApp(a, u) ==
    /\ a \in live /\ url[a] # u /\ Count
    /\ url' = [url EXCEPT ![a] = u]
    /\ UNCHANGED <<live, present, http, site, probe, icons, held, todo>>

ScanApp(a) ==
    /\ a \in live /\ Count
    /\ present' = IF a \in present THEN present \ {a} ELSE present \cup {a}
    /\ UNCHANGED <<url, live, http, site, probe, icons, held, todo>>

RemoveApp(a) ==
    /\ a \in live /\ Count
    /\ live' = live \ {a} /\ present' = present \ {a} /\ url' = [url EXCEPT ![a] = None]
    /\ http' = [http EXCEPT ![a] = NoFacts]
    /\ UNCHANGED <<site, probe, icons, held, todo>>

SiteChanges(u) ==
    /\ Count
    /\ \/ site[u].version < MaxVersion /\ site' = [site EXCEPT ![u].version = @ + 1]
       \/ \E up \in BOOLEAN \ {site[u].up} : site' = [site EXCEPT ![u].up = up]
    /\ UNCHANGED <<url, live, present, http, probe, icons, held, todo>>

Next ==
    \/ \E q \in Probers : Step(q)
    \/ Cycle
    \/ \E q \in Workers : StartWorker(q)
    \/ \E q \in Refreshers, a \in Apps : RefreshApp(q, a)
    \/ BeginIcon \/ EndIcon
    \/ \E a \in Apps, u \in Urls \cup {None} : MoveApp(a, u)
    \/ \E a \in Apps : ScanApp(a) \/ RemoveApp(a)
    \/ \E u \in Urls : SiteChanges(u)

Spec == Init /\ [][Next]_vars

\* Every call has deadlines, and the scheduler runs for the life of the process.
Fairness == /\ \A q \in Probers : WF_vars(Step(q))
            /\ WF_vars(Cycle)
            /\ \A q \in Workers : WF_vars(StartWorker(q))
            /\ WF_vars(EndIcon)
FairSpec == Spec /\ Fairness
-----------------------------------------------------------------------------
TypeOK ==
    /\ url \in [Apps -> Urls \cup {None}] /\ live \in SUBSET Apps /\ present \in SUBSET live
    /\ http \in [Apps -> FactRecs]
    /\ site \in [Urls -> [version : 0..MaxVersion, up : BOOLEAN]]
    /\ probe \in [Probers -> ProbeRecs]
    /\ icons \in 0..MaxIcons /\ held \in 0..Slots
    /\ todo \in SUBSET Apps /\ ops \in 0..MaxOps

(* A slot is taken exactly while a fetch or an icon request uses it: every *)
(* way out of enrich, the errors included, gives it back.                  *)
SlotsBalance == held = Cardinality(InFlight) + icons

(* What a slow probe finds out about an app that was deleted or merged     *)
(* away meanwhile does not come back as an observation.                    *)
RowsOfLiveApps == \A a \in Apps : http[a] # NoFacts => a \in live

(* A call that is waiting, fetching or storing ends, whatever else holds   *)
(* the slots.                                                              *)
ProbesEnd == \A q \in Probers : probe[q].st # "idle" ~> probe[q].st = "idle"

(* Once a present app's launch URL and its site stay as they are, and icon *)
(* requests do not take all the slots, it shows that site's metadata for   *)
(* good, whatever stale probes stored before.                              *)
Settled(a, u, v) == a \in present /\ url[a] = u /\ site[u] = [version |-> v, up |-> TRUE]
MetadataCatchesUp ==
    \A a \in Apps, u \in Urls, v \in 0..MaxVersion :
        <>[](Settled(a, u, v) /\ icons < Slots)
            => <>[](http[a] = [meta |-> <<u, v>>, health |-> "reachable"])

=============================================================================
