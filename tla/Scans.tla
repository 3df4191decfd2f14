-------------------------------- MODULE Scans -------------------------------
(***************************************************************************)
(* Apptrail's scans of providers, and the owner's changes of providers.    *)
(*                                                                         *)
(* The scheduler walks over the list of providers it read at the start of  *)
(* a cycle; the owner asks for scans, saves providers and deletes them.    *)
(* All of them TryLock one mutex and give up when it is taken.  A scan     *)
(* holds it for as long as its provider takes to answer, and reads the     *)
(* provider's row again once it has it; saving holds it while the request  *)
(* body arrives.                                                           *)
(*                                                                         *)
(* Abstracted here: what a snapshot holds (module Registry), a provider's  *)
(* settings (one value), and the rules and probes of a cycle (modules      *)
(* Dashboards and Enrichment).                                             *)
(***************************************************************************)
EXTENDS Integers

CONSTANTS
    Providers,  \* provider IDs
    Confs,      \* settings of a provider: name, endpoint, authorization file
    Handlers,   \* requests in flight
    Sched,      \* the scheduler
    None,       \* nobody, no provider, no settings
    MaxOps      \* bound: requests, outages and crashes

ASSUME BoundAssumption == MaxOps \in Nat
ASSUME NamesAssumption == Sched \notin Handlers /\ None \notin Handlers \cup {Sched} \cup Providers \cup Confs

Actors == Handlers \cup {Sched}
\* "new" IDs were never handed out, "gone" ones are deleted.
RowRecs == [st : {"new", "on", "off", "gone"}, conf : Confs \cup {None}]
ObsRecs == [present : BOOLEAN, conf : Confs \cup {None}]
StatusRecs == [error : BOOLEAN, conf : Confs \cup {None}]
Scanning == {"reread", "fetch", "reconcile", "scanned", "failed"}
Locked == Scanning \cup {"body", "delete"}
ActorRecs == [st : {"idle", "list", "lookup", "lock"} \cup Locked,
              p : Providers \cup {None}, conf : Confs \cup {None}]
Idle == [st |-> "idle", p |-> None, conf |-> None]

VARIABLES
    row,     \* row[p]: the providers table
    obs,     \* obs[p]: whether p's observations are present, and which settings found them
    status,  \* status[p]: p's diagnostics, and the settings they are about
    up,      \* the settings whose provider answers
    lock,    \* s.scans
    actor,   \* actor[x]: where a request or the scheduler is
    list,    \* the providers the scheduler's cycle still has to scan
    ops

vars == <<row, obs, status, up, lock, actor, list, ops>>
tables == <<row, obs, status>>

Enabled(p) == row[p].st = "on"
Exists(p) == row[p].st \in {"on", "off"}
Count == ops < MaxOps /\ ops' = ops + 1

Init == /\ row = [p \in Providers |-> [st |-> "new", conf |-> None]]
        /\ obs = [p \in Providers |-> [present |-> FALSE, conf |-> None]]
        /\ status = [p \in Providers |-> [error |-> FALSE, conf |-> None]]
        /\ up \in SUBSET Confs
        /\ lock = None
        /\ actor = [x \in Actors |-> Idle]
        /\ list = {} /\ ops = 0
-----------------------------------------------------------------------------
Goto(x, st) == actor' = [actor EXCEPT ![x].st = st]
Leave(x) == actor' = [actor EXCEPT ![x] = Idle]
Unlock == lock' = None

(***************************************************************************)
(* scan                                                                    *)
(***************************************************************************)
TryLock(x) ==
    /\ actor[x].st = "lock"
    /\ IF lock = None THEN lock' = x /\ Goto(x, "reread") ELSE Leave(x) /\ UNCHANGED lock
    /\ UNCHANGED <<tables, up, list, ops>>

\* Reread, if the scan used the row its caller listed.
RereadNothing(x) ==
    /\ actor[x].st = "reread"
    /\ Goto(x, "fetch")
    /\ UNCHANGED <<tables, up, lock, list, ops>>

\* Reread, if it did not unlock for a provider that was disabled meanwhile.
RereadLeavingLock(x) ==
    /\ actor[x].st = "reread"
    /\ IF Enabled(actor[x].p)
       THEN actor' = [actor EXCEPT ![x].st = "fetch", ![x].conf = row[actor[x].p].conf]
       ELSE Leave(x)
    /\ UNCHANGED <<tables, up, lock, list, ops>>

\* The row again, now that nobody can change it.
Reread(x) ==
    /\ actor[x].st = "reread"
    /\ IF Enabled(actor[x].p)
       THEN /\ actor' = [actor EXCEPT ![x].st = "fetch", ![x].conf = row[actor[x].p].conf]
            /\ UNCHANGED lock
       ELSE Leave(x) /\ Unlock
    /\ UNCHANGED <<tables, up, list, ops>>

Fetch(x) ==
    /\ actor[x].st = "fetch"
    /\ Goto(x, IF actor[x].conf \in up THEN "reconcile" ELSE "failed")
    /\ UNCHANGED <<tables, up, lock, list, ops>>

\* reconcile commits the snapshot, or fails on a conflict.
Reconcile(x) ==
    /\ actor[x].st = "reconcile"
    /\ \/ /\ obs' = [obs EXCEPT ![actor[x].p] = [present |-> TRUE, conf |-> actor[x].conf]]
          /\ Goto(x, "scanned")
       \/ Goto(x, "failed") /\ UNCHANGED obs
    /\ UNCHANGED <<row, status, up, lock, list, ops>>

Report(x) ==
    /\ actor[x].st \in {"scanned", "failed"}
    /\ status' = [status EXCEPT ![actor[x].p] = [error |-> actor[x].st = "failed",
                                                 conf |-> actor[x].conf]]
    /\ Leave(x) /\ Unlock
    /\ UNCHANGED <<row, obs, up, list, ops>>

ScanStep(x) == TryLock(x) \/ Reread(x) \/ Fetch(x) \/ Reconcile(x) \/ Report(x)
-----------------------------------------------------------------------------
(***************************************************************************)
(* The scheduler lists the providers, and scans the enabled ones.          *)
(***************************************************************************)
ListProviders ==
    /\ actor[Sched].st = "idle" /\ list = {}
    /\ list' = {p \in Providers : Enabled(p)}
    /\ UNCHANGED <<tables, up, lock, actor, ops>>

ScanNext ==
    /\ actor[Sched].st = "idle"
    /\ \E p \in list :
          /\ list' = list \ {p}
          /\ actor' = [actor EXCEPT ![Sched] = [st |-> "lock", p |-> p, conf |-> row[p].conf]]
    /\ UNCHANGED <<tables, up, lock, ops>>

(***************************************************************************)
(* The owner's requests.                                                   *)
(***************************************************************************)
\* scanProviderHTTP finds the provider, enabled, in the list.
ScanProviderHTTP(h, p) ==
    /\ actor[h].st = "idle" /\ Enabled(p) /\ Count
    /\ actor' = [actor EXCEPT ![h] = [st |-> "lock", p |-> p, conf |-> row[p].conf]]
    /\ UNCHANGED <<tables, up, lock, list>>

\* saveProvider and deleteProvider TryLock first (409 when they fail).
BeginSave(h, p) ==
    /\ actor[h].st = "idle" /\ row[p].st # "gone" /\ lock = None /\ Count
    /\ lock' = h
    /\ actor' = [actor EXCEPT ![h] = [st |-> "body", p |-> p, conf |-> None]]
    /\ UNCHANGED <<tables, up, list>>

\* The body arrived: an insert or an update, or one of the error replies.
SaveProvider(h) ==
    /\ actor[h].st = "body"
    /\ \/ \E st \in {"on", "off"}, c \in Confs :
             row' = [row EXCEPT ![actor[h].p] = [st |-> st, conf |-> c]]
       \/ UNCHANGED row
    /\ Leave(h) /\ Unlock
    /\ UNCHANGED <<obs, status, up, list, ops>>

BeginDelete(h, p) ==
    /\ actor[h].st = "idle" /\ Exists(p) /\ lock = None /\ Count
    /\ lock' = h
    /\ actor' = [actor EXCEPT ![h] = [st |-> "delete", p |-> p, conf |-> None]]
    /\ UNCHANGED <<tables, up, list>>

DeleteProvider(h) ==
    /\ actor[h].st = "delete"
    /\ row' = [row EXCEPT ![actor[h].p].st = "gone"]
    /\ obs' = [obs EXCEPT ![actor[h].p].present = FALSE]
    /\ Leave(h) /\ Unlock
    /\ UNCHANGED <<status, up, list, ops>>
-----------------------------------------------------------------------------
\* A provider's API comes up or goes down.
Outage(c) ==
    /\ Count
    /\ up' = IF c \in up THEN up \ {c} ELSE up \cup {c}
    /\ UNCHANGED <<tables, lock, actor, list>>

\* The process dies and starts again.
Restart ==
    /\ Count
    /\ lock' = None /\ actor' = [x \in Actors |-> Idle] /\ list' = {}
    /\ UNCHANGED <<tables, up>>

Next ==
    \/ \E x \in Actors : ScanStep(x)
    \/ ListProviders \/ ScanNext
    \/ \E h \in Handlers : \/ SaveProvider(h) \/ DeleteProvider(h)
                          \/ \E p \in Providers : \/ ScanProviderHTTP(h, p)
                                                  \/ BeginSave(h, p) \/ BeginDelete(h, p)
    \/ \E c \in Confs : Outage(c)
    \/ Restart

Spec == Init /\ [][Next]_vars

\* Requests to providers have deadlines, and so has reading a body.
Fairness == /\ \A x \in Actors : WF_vars(ScanStep(x))
            /\ WF_vars(ListProviders) /\ WF_vars(ScanNext)
            /\ \A h \in Handlers : WF_vars(SaveProvider(h)) /\ WF_vars(DeleteProvider(h))
FairSpec == Spec /\ Fairness
-----------------------------------------------------------------------------
TypeOK ==
    /\ row \in [Providers -> RowRecs]
    /\ obs \in [Providers -> ObsRecs]
    /\ status \in [Providers -> StatusRecs]
    /\ up \in SUBSET Confs
    /\ lock \in Actors \cup {None}
    /\ actor \in [Actors -> ActorRecs]
    /\ list \in SUBSET Providers
    /\ ops \in 0..MaxOps

(* From the moment a scan has read its provider's settings until it has    *)
(* reported, they are the ones in force: no snapshot of an endpoint the    *)
(* owner replaced, disabled or deleted is stored.                          *)
SettingsHold ==
    \A x \in Actors : actor[x].st \in {"fetch", "reconcile", "scanned", "failed"} =>
        row[actor[x].p] = [st |-> "on", conf |-> actor[x].conf]

(* Apps known only from a deleted provider are missing for good: no scan   *)
(* that was listed, or under way, makes its observations present again.    *)
DeletedStayAbsent == \A p \in Providers : row[p].st = "gone" => ~obs[p].present

(* The lock is held by the one request that is using it: every way out of  *)
(* a scan or a save releases it.                                           *)
LockMatches == \A x \in Actors : actor[x].st \in Locked <=> lock = x

(* Whoever holds the lock lets go of it, so that a 409 is temporary.       *)
LockFrees == lock # None ~> lock = None

(* Once a provider is enabled and left alone, its diagnostics are about    *)
(* the settings in force.                                                  *)
StatusCatchesUp ==
    \A p \in Providers, c \in Confs :
        <>[](row[p] = [st |-> "on", conf |-> c]) => <>[](status[p].conf = c)
=============================================================================
