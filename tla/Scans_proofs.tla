---------------------------- MODULE Scans_proofs ----------------------------
(***************************************************************************)
(* The safety properties of Scans, for every set of providers, settings    *)
(* and requests.  The inductive invariant is their conjunction: that the   *)
(* settings of a scan hold needs the lock to be held by the scan alone,    *)
(* and that deleted providers stay absent needs the settings to hold.      *)
(***************************************************************************)
EXTENDS Scans, TLAPS

\* Whoever wants or holds the lock does so for a provider.
Targets == \A x \in Actors : actor[x].st \in Locked \cup {"lock"} => actor[x].p \in Providers
IInv == TypeOK /\ Targets /\ LockMatches /\ SettingsHold /\ DeletedStayAbsent

USE BoundAssumption, NamesAssumption

LEMMA IdleType == Idle \in ActorRecs /\ Idle.st = "idle"
  BY DEF Idle, ActorRecs

(* The initial tables are empty and nobody holds the lock.                 *)
LEMMA InitInvariant == Init => IInv
<1> SUFFICES ASSUME Init PROVE IInv
  OBVIOUS
<1>1. TypeOK
  BY IdleType DEF Init, TypeOK, RowRecs, ObsRecs, StatusRecs
<1>2. LockMatches /\ Targets
  BY IdleType DEF Init, LockMatches, Targets, Locked, Scanning, Actors
<1>3. SettingsHold /\ DeletedStayAbsent
  BY IdleType DEF Init, SettingsHold, DeletedStayAbsent
<1> QED BY <1>1, <1>2, <1>3 DEF IInv

(* None is neither a request nor a provider.                               *)
LEMMA NoneNoActor == None \notin Actors /\ None \notin Providers
  BY DEF Actors

\* The actor x goes to state st, with provider p and settings c.
Moves(x, st, p, c) ==
    /\ actor' \in [Actors -> ActorRecs]
    /\ \A y \in Actors \ {x} : actor'[y] = actor[y]
    /\ actor'[x].st = st /\ actor'[x].p = p /\ actor'[x].conf = c

(* Records are updated field by field.                                     *)
LEMMA GotoMoves ==
    ASSUME actor \in [Actors -> ActorRecs], NEW x \in Actors,
           NEW st \in {"idle", "list", "lookup", "lock"} \cup Locked, Goto(x, st)
    PROVE  Moves(x, st, actor[x].p, actor[x].conf)
<1> DEFINE r == [actor[x] EXCEPT !.st = st]
<1>1. r \in ActorRecs /\ r.st = st /\ r.p = actor[x].p /\ r.conf = actor[x].conf
  BY DEF ActorRecs
<1>2. actor' = [actor EXCEPT ![x] = r]
  BY DEF Goto
<1> HIDE DEF r
<1> QED BY <1>1, <1>2 DEF Moves

LEMMA LeaveMoves ==
    ASSUME actor \in [Actors -> ActorRecs], NEW x \in Actors, Leave(x)
    PROVE  Moves(x, "idle", None, None)
<1>1. Idle.p = None /\ Idle.conf = None
  BY DEF Idle
<1> QED BY <1>1, IdleType DEF Leave, Moves

LEMMA SetMoves ==
    ASSUME actor \in [Actors -> ActorRecs], NEW x \in Actors,
           NEW st \in {"idle", "list", "lookup", "lock"} \cup Locked,
           NEW p \in Providers \cup {None}, NEW c \in Confs \cup {None},
           actor' = [actor EXCEPT ![x] = [st |-> st, p |-> p, conf |-> c]]
    PROVE  Moves(x, st, p, c)
<1> DEFINE r == [st |-> st, p |-> p, conf |-> c]
<1>1. r \in ActorRecs /\ r.st = st /\ r.p = p /\ r.conf = c
  BY DEF ActorRecs
<1>2. actor' = [actor EXCEPT ![x] = r]
  OBVIOUS
<1> HIDE DEF r
<1> QED BY <1>1, <1>2 DEF Moves

(* The steps of a scan, by whoever asked for it.                           *)
LEMMA ScanInvariant ==
    ASSUME IInv, NEW x \in Actors, ScanStep(x)
    PROVE  IInv'
<1>0. /\ TypeOK /\ Targets /\ LockMatches /\ SettingsHold /\ DeletedStayAbsent
      /\ actor \in [Actors -> ActorRecs] /\ actor[x] \in ActorRecs
  BY DEF IInv, TypeOK
<1>1. CASE TryLock(x)
  <2>1. \/ lock = None /\ lock' = x /\ Moves(x, "reread", actor[x].p, actor[x].conf)
        \/ lock # None /\ lock' = lock /\ Moves(x, "idle", None, None)
    BY <1>1, <1>0, GotoMoves, LeaveMoves DEF TryLock, Locked, Scanning
  <2>2. TypeOK'
    BY <1>1, <1>0, <2>1 DEF TryLock, TypeOK, ActorRecs, RowRecs, ObsRecs, StatusRecs, tables, Moves, Unlock, Count
  <2>3. Targets' /\ LockMatches'
    <3>1. Targets'
      BY <1>1, <1>0, <2>1 DEF TryLock, Targets, Moves, Locked, Scanning
    <3>2. LockMatches'
      BY <1>1, <1>0, <2>1, NoneNoActor DEF TryLock, LockMatches, Moves, Locked, Scanning
    <3> QED BY <3>1, <3>2
  <2>4. SettingsHold'
    BY <1>1, <1>0, <2>1 DEF TryLock, SettingsHold, LockMatches, Moves, Enabled, tables, Locked, Scanning
  <2>5. DeletedStayAbsent'
    BY <1>1, <1>0, <2>1 DEF TryLock, TypeOK, ActorRecs, RowRecs, ObsRecs, StatusRecs, tables, SettingsHold, DeletedStayAbsent, Moves
  <2> QED BY <2>2, <2>3, <2>4, <2>5 DEF IInv
<1>2. CASE Reread(x)
  <2>0. Enabled(actor[x].p) =>
             /\ lock' = lock
             /\ Moves(x, "fetch", actor[x].p, row[actor[x].p].conf)
    <3> HAVE Enabled(actor[x].p)
    <3> DEFINE r == [actor[x] EXCEPT !.st = "fetch", !.conf = row[actor[x].p].conf]
    <3>1. actor[x].p \in Providers /\ row[actor[x].p] \in RowRecs
      BY <1>2, <1>0 DEF Reread, Targets, TypeOK, Locked, Scanning
    <3>2. /\ r \in ActorRecs /\ r.st = "fetch" /\ r.p = actor[x].p
          /\ r.conf = row[actor[x].p].conf
      BY <1>0, <3>1 DEF ActorRecs, RowRecs, Locked, Scanning
    <3>3. actor' = [actor EXCEPT ![x] = r] /\ lock' = lock
      BY <1>2 DEF Reread
    <3> HIDE DEF r
    <3>4. Moves(x, "fetch", actor[x].p, row[actor[x].p].conf)
      BY <1>0, <3>2, <3>3 DEF Moves
    <3> QED BY <3>3, <3>4
  <2>1. \/ /\ row[actor[x].p] = [st |-> "on", conf |-> row[actor[x].p].conf] /\ lock' = lock
           /\ Moves(x, "fetch", actor[x].p, row[actor[x].p].conf)
        \/ lock' = None /\ Moves(x, "idle", None, None)
    <3>1. row[actor[x].p] \in RowRecs
      BY <1>2, <1>0 DEF Reread, Targets, TypeOK, Locked, Scanning
    <3>2. Enabled(actor[x].p) => row[actor[x].p] = [st |-> "on", conf |-> row[actor[x].p].conf]
      BY <3>1 DEF Enabled, RowRecs
    <3> QED BY <1>2, <1>0, <2>0, <3>2, LeaveMoves DEF Reread, Unlock
  <2>2. TypeOK'
    BY <1>2, <1>0, <2>1 DEF Reread, TypeOK, ActorRecs, RowRecs, ObsRecs, StatusRecs, tables, Moves, Unlock, Count
  <2>3. Targets' /\ LockMatches'
    <3>1. Targets'
      BY <1>2, <1>0, <2>1 DEF Reread, Targets, Moves, Locked, Scanning
    <3>2. LockMatches'
      BY <1>2, <1>0, <2>1, NoneNoActor DEF Reread, LockMatches, Moves, Locked, Scanning
    <3> QED BY <3>1, <3>2
  <2>4. SettingsHold'
    BY <1>2, <1>0, <2>1 DEF Reread, SettingsHold, LockMatches, Moves, Enabled, tables, Locked, Scanning
  <2>5. DeletedStayAbsent'
    BY <1>2, <1>0, <2>1 DEF Reread, TypeOK, ActorRecs, RowRecs, ObsRecs, StatusRecs, tables, SettingsHold, DeletedStayAbsent, Moves
  <2> QED BY <2>2, <2>3, <2>4, <2>5 DEF IInv
<1>3. CASE Fetch(x)
  <2>1. /\ lock' = lock
        /\ \/ Moves(x, "reconcile", actor[x].p, actor[x].conf)
           \/ Moves(x, "failed", actor[x].p, actor[x].conf)
    BY <1>3, <1>0, GotoMoves DEF Fetch, Locked, Scanning
  <2>2. TypeOK'
    BY <1>3, <1>0, <2>1 DEF Fetch, TypeOK, ActorRecs, RowRecs, ObsRecs, StatusRecs, tables, Moves, Unlock, Count
  <2>3. Targets' /\ LockMatches'
    <3>1. Targets'
      BY <1>3, <1>0, <2>1 DEF Fetch, Targets, Moves, Locked, Scanning
    <3>2. LockMatches'
      BY <1>3, <1>0, <2>1, NoneNoActor DEF Fetch, LockMatches, Moves, Locked, Scanning
    <3> QED BY <3>1, <3>2
  <2>4. SettingsHold'
    BY <1>3, <1>0, <2>1 DEF Fetch, SettingsHold, LockMatches, Moves, Enabled, tables, Locked, Scanning
  <2>5. DeletedStayAbsent'
    BY <1>3, <1>0, <2>1 DEF Fetch, TypeOK, ActorRecs, RowRecs, ObsRecs, StatusRecs, tables, SettingsHold, DeletedStayAbsent, Moves
  <2> QED BY <2>2, <2>3, <2>4, <2>5 DEF IInv
<1>4. CASE Reconcile(x)
  <2>1. /\ lock' = lock /\ actor[x].p \in Providers /\ row[actor[x].p].st = "on"
        /\ \/ /\ Moves(x, "scanned", actor[x].p, actor[x].conf)
              /\ obs' \in [Providers -> ObsRecs]
              /\ \A p \in Providers : p # actor[x].p => obs'[p] = obs[p]
           \/ Moves(x, "failed", actor[x].p, actor[x].conf) /\ obs' = obs
    <3>1. actor[x].p \in Providers /\ row[actor[x].p].st = "on"
      <4>1. actor[x].p \in Providers
        BY <1>4, <1>0 DEF Reconcile, Targets, Locked, Scanning
      <4>2. row[actor[x].p] = [st |-> "on", conf |-> actor[x].conf]
        BY <1>4, <1>0 DEF Reconcile, SettingsHold
      <4> QED BY <4>1, <4>2
    <3>2. [present |-> TRUE, conf |-> actor[x].conf] \in ObsRecs
      BY <1>0 DEF ActorRecs, ObsRecs
    <3>4. Goto(x, "scanned") => Moves(x, "scanned", actor[x].p, actor[x].conf)
      BY <1>0, GotoMoves DEF Locked, Scanning
    <3>5. Goto(x, "failed") => Moves(x, "failed", actor[x].p, actor[x].conf)
      BY <1>0, GotoMoves DEF Locked, Scanning
    <3>6. lock' = lock
      BY <1>4 DEF Reconcile
    <3>7. CASE /\ obs' = [obs EXCEPT ![actor[x].p] = [present |-> TRUE, conf |-> actor[x].conf]]
               /\ Goto(x, "scanned")
      BY <1>0, <3>1, <3>2, <3>4, <3>6, <3>7 DEF TypeOK
    <3>8. CASE Goto(x, "failed") /\ UNCHANGED obs
      BY <3>1, <3>5, <3>6, <3>8
    <3> QED BY <1>4, <3>7, <3>8 DEF Reconcile
  <2>2. TypeOK'
    BY <1>4, <1>0, <2>1 DEF Reconcile, TypeOK, ActorRecs, RowRecs, ObsRecs, StatusRecs, tables, Moves, Unlock, Count
  <2>3. Targets' /\ LockMatches'
    <3>1. Targets'
      BY <1>4, <1>0, <2>1 DEF Reconcile, Targets, Moves, Locked, Scanning
    <3>2. LockMatches'
      BY <1>4, <1>0, <2>1, NoneNoActor DEF Reconcile, LockMatches, Moves, Locked, Scanning
    <3> QED BY <3>1, <3>2
  <2>4. SettingsHold'
    BY <1>4, <1>0, <2>1 DEF Reconcile, SettingsHold, LockMatches, Moves, Enabled, tables, Locked, Scanning
  <2>5. DeletedStayAbsent'
    BY <1>4, <1>0, <2>1 DEF Reconcile, TypeOK, ActorRecs, RowRecs, ObsRecs, StatusRecs, tables, SettingsHold, DeletedStayAbsent, Moves
  <2> QED BY <2>2, <2>3, <2>4, <2>5 DEF IInv
<1>5. CASE Report(x)
  <2>1. lock' = None /\ Moves(x, "idle", None, None)
    BY <1>5, <1>0, LeaveMoves DEF Report, Unlock
  <2>2. TypeOK'
    BY <1>5, <1>0, <2>1 DEF Report, TypeOK, ActorRecs, RowRecs, ObsRecs, StatusRecs, tables, Moves, Unlock, Count
  <2>3. Targets' /\ LockMatches'
    <3>1. Targets'
      BY <1>5, <1>0, <2>1 DEF Report, Targets, Moves, Locked, Scanning
    <3>2. LockMatches'
      BY <1>5, <1>0, <2>1, NoneNoActor DEF Report, LockMatches, Moves, Locked, Scanning
    <3> QED BY <3>1, <3>2
  <2>4. SettingsHold'
    BY <1>5, <1>0, <2>1 DEF Report, SettingsHold, LockMatches, Moves, Enabled, tables, Locked, Scanning
  <2>5. DeletedStayAbsent'
    BY <1>5, <1>0, <2>1 DEF Report, TypeOK, ActorRecs, RowRecs, ObsRecs, StatusRecs, tables, SettingsHold, DeletedStayAbsent, Moves
  <2> QED BY <2>2, <2>3, <2>4, <2>5 DEF IInv
<1> QED BY <1>1, <1>2, <1>3, <1>4, <1>5 DEF ScanStep

(* The scheduler's own steps, outages and restarts.                        *)
LEMMA ServerInvariant ==
    ASSUME IInv, ListProviders \/ ScanNext \/ Restart \/ \E c \in Confs : Outage(c)
    PROVE  IInv'
<1>0. /\ TypeOK /\ Targets /\ LockMatches /\ SettingsHold /\ DeletedStayAbsent
      /\ actor \in [Actors -> ActorRecs] /\ Sched \in Actors
  BY DEF IInv, TypeOK, Actors
<1>1. CASE ListProviders
  <2>1. TypeOK'
    BY <1>1, <1>0, IdleType DEF ListProviders, TypeOK, tables, Count
  <2>2. Targets' /\ LockMatches' /\ SettingsHold' /\ DeletedStayAbsent'
    BY <1>1, <1>0, IdleType DEF ListProviders, Targets, LockMatches, SettingsHold, DeletedStayAbsent, tables
  <2> QED BY <2>1, <2>2 DEF IInv
<1>2. CASE ScanNext
  <2>1. \E p \in Providers : Moves(Sched, "lock", p, row[p].conf)
    BY <1>2, <1>0, SetMoves DEF ScanNext, TypeOK, RowRecs
  <2>2. TypeOK'
    BY <1>2, <1>0, <2>1 DEF ScanNext, TypeOK, ActorRecs, RowRecs, ObsRecs, StatusRecs, tables, Moves, Unlock, Count
  <2>3. Targets' /\ LockMatches'
    <3>1. Targets'
      BY <1>2, <1>0, <2>1 DEF ScanNext, Targets, Moves, Locked, Scanning
    <3>2. LockMatches'
      BY <1>2, <1>0, <2>1, NoneNoActor DEF ScanNext, LockMatches, Moves, Locked, Scanning
    <3> QED BY <3>1, <3>2
  <2>4. SettingsHold'
    BY <1>2, <1>0, <2>1 DEF ScanNext, SettingsHold, LockMatches, Moves, Enabled, tables, Locked, Scanning
  <2>5. DeletedStayAbsent'
    BY <1>2, <1>0, <2>1 DEF ScanNext, TypeOK, ActorRecs, RowRecs, ObsRecs, StatusRecs, tables, SettingsHold, DeletedStayAbsent, Moves
  <2> QED BY <2>2, <2>3, <2>4, <2>5 DEF IInv
<1>3. CASE Restart
  <2>1. TypeOK'
    BY <1>3, <1>0, IdleType DEF Restart, TypeOK, tables, Count
  <2>2. Targets' /\ LockMatches' /\ SettingsHold' /\ DeletedStayAbsent'
    BY <1>3, <1>0, IdleType DEF Restart, Targets, LockMatches, SettingsHold, DeletedStayAbsent, tables, Locked, Scanning, Actors
  <2> QED BY <2>1, <2>2 DEF IInv
<1>4. CASE \E c \in Confs : Outage(c)
  <2>1. TypeOK'
    BY <1>4, <1>0, IdleType DEF Outage, TypeOK, tables, Count
  <2>2. Targets' /\ LockMatches' /\ SettingsHold' /\ DeletedStayAbsent'
    BY <1>4, <1>0, IdleType DEF Outage, Targets, LockMatches, SettingsHold, DeletedStayAbsent, tables
  <2> QED BY <2>1, <2>2 DEF IInv
<1> QED BY <1>1, <1>2, <1>3, <1>4

(* The owner's requests.                                                   *)
LEMMA RequestInvariant ==
    ASSUME IInv, NEW h \in Handlers,
           \/ SaveProvider(h) \/ DeleteProvider(h)
           \/ \E p \in Providers : ScanProviderHTTP(h, p) \/ BeginSave(h, p) \/ BeginDelete(h, p)
    PROVE  IInv'
<1>0. /\ TypeOK /\ Targets /\ LockMatches /\ SettingsHold /\ DeletedStayAbsent
      /\ actor \in [Actors -> ActorRecs] /\ h \in Actors
  BY DEF IInv, TypeOK, Actors
<1>1. CASE SaveProvider(h)
  <2>1. /\ lock' = None /\ Moves(h, "idle", None, None) /\ actor[h].p \in Providers
        /\ row' \in [Providers -> RowRecs]
        /\ \A p \in Providers : row'[p] = row[p] \/ row'[p].st # "gone"
        /\ \A p \in Providers : p = actor[h].p \/ row'[p] = row[p]
    <3>1. lock' = None /\ Moves(h, "idle", None, None) /\ actor[h].p \in Providers
      BY <1>1, <1>0, LeaveMoves DEF SaveProvider, Unlock, Targets, Locked
    <3>2. CASE UNCHANGED row
      BY <1>0, <3>1, <3>2 DEF TypeOK
    <3>3. ASSUME NEW st \in {"on", "off"}, NEW c \in Confs,
                 row' = [row EXCEPT ![actor[h].p] = [st |-> st, conf |-> c]]
          PROVE  /\ row' \in [Providers -> RowRecs]
                 /\ \A p \in Providers : row'[p] = row[p] \/ row'[p].st # "gone"
                 /\ \A p \in Providers : p = actor[h].p \/ row'[p] = row[p]
      <4> DEFINE r == [st |-> st, conf |-> c]
      <4>1. r \in RowRecs /\ r.st # "gone"
        BY DEF RowRecs
      <4>2. row' = [row EXCEPT ![actor[h].p] = r]
        BY <3>3
      <4> HIDE DEF r
      <4> QED BY <1>0, <3>1, <4>1, <4>2 DEF TypeOK
    <3> QED BY <1>1, <3>1, <3>2, <3>3 DEF SaveProvider
  <2>2. TypeOK'
    BY <1>1, <1>0, <2>1 DEF SaveProvider, TypeOK, ActorRecs, RowRecs, ObsRecs, StatusRecs, tables, Moves, Unlock, Count
  <2>3. Targets' /\ LockMatches'
    <3>1. Targets'
      BY <1>1, <1>0, <2>1 DEF SaveProvider, Targets, Moves, Locked, Scanning
    <3>2. LockMatches'
      BY <1>1, <1>0, <2>1, NoneNoActor DEF SaveProvider, LockMatches, Moves, Locked, Scanning
    <3> QED BY <3>1, <3>2
  <2>4. SettingsHold'
    BY <1>1, <1>0, <2>1 DEF SaveProvider, SettingsHold, LockMatches, Moves, Enabled, tables, Locked, Scanning
  <2>5. DeletedStayAbsent'
    BY <1>1, <1>0, <2>1 DEF SaveProvider, TypeOK, ActorRecs, RowRecs, ObsRecs, StatusRecs, tables, SettingsHold, DeletedStayAbsent, Moves
  <2> QED BY <2>2, <2>3, <2>4, <2>5 DEF IInv
<1>2. CASE DeleteProvider(h)
  <2>1. /\ lock' = None /\ Moves(h, "idle", None, None) /\ actor[h].p \in Providers
        /\ row' \in [Providers -> RowRecs] /\ obs' \in [Providers -> ObsRecs]
        /\ \A p \in Providers \ {actor[h].p} : row'[p] = row[p] /\ obs'[p] = obs[p]
        /\ ~obs'[actor[h].p].present
    <3>1. lock' = None /\ Moves(h, "idle", None, None) /\ actor[h].p \in Providers
      BY <1>2, <1>0, LeaveMoves DEF DeleteProvider, Unlock, Targets, Locked
    <3> DEFINE r == [row[actor[h].p] EXCEPT !.st = "gone"]
               o == [obs[actor[h].p] EXCEPT !.present = FALSE]
    <3>2. r \in RowRecs /\ o \in ObsRecs /\ ~o.present
      <4>1. row[actor[h].p] \in RowRecs /\ obs[actor[h].p] \in ObsRecs
        BY <1>0, <3>1 DEF TypeOK
      <4> QED BY <4>1 DEF RowRecs, ObsRecs
    <3>3. row' = [row EXCEPT ![actor[h].p] = r] /\ obs' = [obs EXCEPT ![actor[h].p] = o]
      BY <1>2 DEF DeleteProvider
    <3> HIDE DEF r, o
    <3> QED BY <1>0, <3>1, <3>2, <3>3 DEF TypeOK
  <2>2. TypeOK'
    BY <1>2, <1>0, <2>1 DEF DeleteProvider, TypeOK, ActorRecs, RowRecs, ObsRecs, StatusRecs, tables, Moves, Unlock, Count
  <2>3. Targets' /\ LockMatches'
    <3>1. Targets'
      BY <1>2, <1>0, <2>1 DEF DeleteProvider, Targets, Moves, Locked, Scanning
    <3>2. LockMatches'
      BY <1>2, <1>0, <2>1, NoneNoActor DEF DeleteProvider, LockMatches, Moves, Locked, Scanning
    <3> QED BY <3>1, <3>2
  <2>4. SettingsHold'
    BY <1>2, <1>0, <2>1 DEF DeleteProvider, SettingsHold, LockMatches, Moves, Enabled, tables, Locked, Scanning
  <2>5. DeletedStayAbsent'
    BY <1>2, <1>0, <2>1 DEF DeleteProvider, TypeOK, ActorRecs, RowRecs, ObsRecs, StatusRecs, tables, SettingsHold, DeletedStayAbsent, Moves
  <2> QED BY <2>2, <2>3, <2>4, <2>5 DEF IInv
<1>3. CASE \E p \in Providers : ScanProviderHTTP(h, p)
  <2>1. UNCHANGED lock /\ \E p \in Providers : Moves(h, "lock", p, row[p].conf)
    BY <1>3, <1>0, SetMoves DEF ScanProviderHTTP, TypeOK, RowRecs, Locked, Scanning
  <2>2. TypeOK'
    BY <1>3, <1>0, <2>1 DEF ScanProviderHTTP, TypeOK, ActorRecs, RowRecs, ObsRecs, StatusRecs, tables, Moves, Unlock, Count
  <2>3. Targets' /\ LockMatches'
    <3>1. Targets'
      BY <1>3, <1>0, <2>1 DEF ScanProviderHTTP, Targets, Moves, Locked, Scanning
    <3>2. LockMatches'
      BY <1>3, <1>0, <2>1, NoneNoActor DEF ScanProviderHTTP, LockMatches, Moves, Locked, Scanning
    <3> QED BY <3>1, <3>2
  <2>4. SettingsHold'
    BY <1>3, <1>0, <2>1 DEF ScanProviderHTTP, SettingsHold, LockMatches, Moves, Enabled, tables, Locked, Scanning
  <2>5. DeletedStayAbsent'
    BY <1>3, <1>0, <2>1 DEF ScanProviderHTTP, TypeOK, ActorRecs, RowRecs, ObsRecs, StatusRecs, tables, SettingsHold, DeletedStayAbsent, Moves
  <2> QED BY <2>2, <2>3, <2>4, <2>5 DEF IInv
<1>4. CASE \E p \in Providers : BeginSave(h, p)
  <2>1. lock = None /\ lock' = h /\ \E p \in Providers : Moves(h, "body", p, None)
    BY <1>4, <1>0, SetMoves DEF BeginSave, TypeOK, RowRecs, Locked, Scanning
  <2>2. TypeOK'
    BY <1>4, <1>0, <2>1 DEF BeginSave, TypeOK, ActorRecs, RowRecs, ObsRecs, StatusRecs, tables, Moves, Unlock, Count
  <2>3. Targets' /\ LockMatches'
    <3>1. Targets'
      BY <1>4, <1>0, <2>1 DEF BeginSave, Targets, Moves, Locked, Scanning
    <3>2. LockMatches'
      BY <1>4, <1>0, <2>1, NoneNoActor DEF BeginSave, LockMatches, Moves, Locked, Scanning
    <3> QED BY <3>1, <3>2
  <2>4. SettingsHold'
    BY <1>4, <1>0, <2>1 DEF BeginSave, SettingsHold, LockMatches, Moves, Enabled, tables, Locked, Scanning
  <2>5. DeletedStayAbsent'
    BY <1>4, <1>0, <2>1 DEF BeginSave, TypeOK, ActorRecs, RowRecs, ObsRecs, StatusRecs, tables, SettingsHold, DeletedStayAbsent, Moves
  <2> QED BY <2>2, <2>3, <2>4, <2>5 DEF IInv
<1>5. CASE \E p \in Providers : BeginDelete(h, p)
  <2>1. lock = None /\ lock' = h /\ \E p \in Providers : Moves(h, "delete", p, None)
    BY <1>5, <1>0, SetMoves DEF BeginDelete, TypeOK, RowRecs, Locked, Scanning
  <2>2. TypeOK'
    BY <1>5, <1>0, <2>1 DEF BeginDelete, TypeOK, ActorRecs, RowRecs, ObsRecs, StatusRecs, tables, Moves, Unlock, Count
  <2>3. Targets' /\ LockMatches'
    <3>1. Targets'
      BY <1>5, <1>0, <2>1 DEF BeginDelete, Targets, Moves, Locked, Scanning
    <3>2. LockMatches'
      BY <1>5, <1>0, <2>1, NoneNoActor DEF BeginDelete, LockMatches, Moves, Locked, Scanning
    <3> QED BY <3>1, <3>2
  <2>4. SettingsHold'
    BY <1>5, <1>0, <2>1 DEF BeginDelete, SettingsHold, LockMatches, Moves, Enabled, tables, Locked, Scanning
  <2>5. DeletedStayAbsent'
    BY <1>5, <1>0, <2>1 DEF BeginDelete, TypeOK, ActorRecs, RowRecs, ObsRecs, StatusRecs, tables, SettingsHold, DeletedStayAbsent, Moves
  <2> QED BY <2>2, <2>3, <2>4, <2>5 DEF IInv
<1> QED BY <1>1, <1>2, <1>3, <1>4, <1>5

(* Every step preserves the invariant.                                     *)
LEMMA StepInvariant == IInv /\ [Next]_vars => IInv'
<1> SUFFICES ASSUME IInv, [Next]_vars PROVE IInv'
  OBVIOUS
<1>1. CASE UNCHANGED vars
  BY <1>1 DEF vars, IInv, TypeOK, Targets, LockMatches, SettingsHold, DeletedStayAbsent
<1>2. CASE Next
  BY <1>2, ScanInvariant, ServerInvariant, RequestInvariant DEF Next
<1> QED BY <1>1, <1>2

(* The inductive invariant holds throughout.                               *)
THEOREM Invariance == Spec => []IInv
<1> QED BY InitInvariant, StepInvariant, PTL DEF Spec

(* Every variable keeps its type.                                          *)
THEOREM TypeCorrect == Spec => []TypeOK
<1>1. IInv => TypeOK
  BY DEF IInv
<1> QED BY <1>1, Invariance, PTL

(* The lock is held exactly by the request that uses it.                   *)
THEOREM LockDiscipline == Spec => []LockMatches
<1>1. IInv => LockMatches
  BY DEF IInv
<1> QED BY <1>1, Invariance, PTL

(* A scan works with the settings in force until it has reported.          *)
THEOREM ScansUseSettings == Spec => []SettingsHold
<1>1. IInv => SettingsHold
  BY DEF IInv
<1> QED BY <1>1, Invariance, PTL

(* The observations of a deleted provider are never present again.         *)
THEOREM DeletionsHold == Spec => []DeletedStayAbsent
<1>1. IInv => DeletedStayAbsent
  BY DEF IInv
<1> QED BY <1>1, Invariance, PTL
-----------------------------------------------------------------------------
(***************************************************************************)
(* The safety part of StatusCatchesUp.                                     *)
(***************************************************************************)
(* Whatever a scan stores, its snapshot or its diagnostics, is about the   *)
(* provider as it is configured at that moment; so once the diagnostics    *)
(* are about the settings in force, only the owner can make them stale.    *)
ScansAreInForce ==
    [][\A p \in Providers :
         /\ status'[p] # status[p] => row[p] = [st |-> "on", conf |-> status'[p].conf]
         /\ obs'[p] # obs[p] /\ obs'[p].present => row[p] = [st |-> "on", conf |-> obs'[p].conf]
         /\ Enabled(p) /\ row'[p] = row[p] /\ status[p].conf = row[p].conf
              => status'[p].conf = row[p].conf]_vars

\* Only Report writes diagnostics, and only Reconcile makes observations present.
LEMMA InForceStep ==
  ASSUME IInv, [Next]_vars, NEW p \in Providers
  PROVE  /\ status'[p] # status[p] => row[p] = [st |-> "on", conf |-> status'[p].conf]
         /\ obs'[p] # obs[p] /\ obs'[p].present => row[p] = [st |-> "on", conf |-> obs'[p].conf]
<1>0. /\ status \in [Providers -> StatusRecs] /\ obs \in [Providers -> ObsRecs]
      /\ SettingsHold
  BY DEF IInv, TypeOK
<1>1. ASSUME status'[p] # status[p] PROVE row[p] = [st |-> "on", conf |-> status'[p].conf]
  <2>1. PICK x \in Actors : Report(x)
    BY <1>1 DEF Next, vars, tables, ScanStep, TryLock, Reread, Fetch, Reconcile, ListProviders,
       ScanNext, ScanProviderHTTP, BeginSave, SaveProvider, BeginDelete, DeleteProvider, Outage,
       Restart
  <2>2. /\ actor[x].st \in {"scanned", "failed"}
        /\ actor[x].p = p /\ status'[p].conf = actor[x].conf
    BY <1>0, <1>1, <2>1 DEF Report
  <2> QED BY <1>0, <2>2 DEF SettingsHold
<1>2. ASSUME obs'[p] # obs[p], obs'[p].present
      PROVE  row[p] = [st |-> "on", conf |-> obs'[p].conf]
  <2>1. CASE \E h \in Handlers : DeleteProvider(h)
    <3>1. PICK h \in Handlers : obs' = [obs EXCEPT ![actor[h].p].present = FALSE]
      BY <2>1 DEF DeleteProvider
    <3>2. actor[h].p = p
      BY <1>0, <1>2, <3>1
    <3>3. obs'[p].present = FALSE
      BY <1>0, <3>1, <3>2 DEF ObsRecs
    <3> QED BY <1>2, <3>3
  <2>2. CASE \E x \in Actors : Reconcile(x)
    <3>1. PICK x \in Actors : Reconcile(x)
      BY <2>2
    <3>2. /\ actor[x].st = "reconcile"
          /\ actor[x].p = p /\ obs'[p].conf = actor[x].conf
      BY <1>0, <1>2, <3>1 DEF Reconcile
    <3> QED BY <1>0, <3>2 DEF SettingsHold
  <2> QED
    BY <1>2, <2>1, <2>2 DEF Next, vars, tables, ScanStep, TryLock, Reread, Fetch, Report,
       ListProviders, ScanNext, ScanProviderHTTP, BeginSave, SaveProvider, BeginDelete, Outage,
       Restart
<1> QED BY <1>1, <1>2

(* No report and no snapshot of settings that are not in force any more.   *)
THEOREM DiagnosticsInForce == Spec => ScansAreInForce
<1>1. IInv /\ [Next]_vars =>
        [\A p \in Providers :
           /\ status'[p] # status[p] => row[p] = [st |-> "on", conf |-> status'[p].conf]
           /\ obs'[p] # obs[p] /\ obs'[p].present
                => row[p] = [st |-> "on", conf |-> obs'[p].conf]
           /\ Enabled(p) /\ row'[p] = row[p] /\ status[p].conf = row[p].conf
                => status'[p].conf = row[p].conf]_vars
  BY InForceStep
<1> QED BY <1>1, Invariance, PTL DEF Spec, ScansAreInForce
=============================================================================
