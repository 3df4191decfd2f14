------------------------- MODULE Enrichment_proofs --------------------------
(***************************************************************************)
(* The safety properties of Enrichment, for any number of apps, callers    *)
(* and slots.  The invariant is inductive as soon as it says which app and *)
(* URL a call is about; the slots are counted with the theorems about      *)
(* finite sets.                                                            *)
(***************************************************************************)
EXTENDS Enrichment, FiniteSetTheorems, TLAPS

\* A call that has begun is about an app and a URL.
Targets == \A q \in Probers : probe[q].st # "idle" => probe[q].app \in Apps /\ probe[q].url \in Urls
IInv == TypeOK /\ Targets /\ SlotsBalance /\ RowsOfLiveApps

USE BoundsAssumption, NamesAssumption

\* The call q goes to state st, about app a at u, with facts f.
Moves(q, st, a, u, f) ==
    /\ probe' \in [Probers -> ProbeRecs]
    /\ \A r \in Probers \ {q} : probe'[r] = probe[r]
    /\ probe'[q].st = st /\ probe'[q].app = a /\ probe'[q].url = u /\ probe'[q].facts = f

States == {"idle", "slot", "queue", "fetch", "late", "keep", "recheck", "store"}

LEMMA RecordTypes ==
    /\ NoFacts \in FactRecs /\ Idle \in ProbeRecs
    /\ Idle.st = "idle" /\ Idle.app = None /\ Idle.url = None /\ Idle.facts = NoFacts
  BY DEF Idle, NoFacts, FactRecs, ProbeRecs

(* Records are updated field by field.                                     *)
LEMMA SetMoves ==
    ASSUME probe \in [Probers -> ProbeRecs], NEW q \in Probers, NEW st \in States,
           NEW a \in Apps \cup {None}, NEW u \in Urls \cup {None}, NEW f \in FactRecs,
           probe' = [probe EXCEPT ![q] = [st |-> st, app |-> a, url |-> u, facts |-> f]]
    PROVE  Moves(q, st, a, u, f)
<1> DEFINE r == [st |-> st, app |-> a, url |-> u, facts |-> f]
<1>1. r \in ProbeRecs /\ r.st = st /\ r.app = a /\ r.url = u /\ r.facts = f
  BY DEF ProbeRecs, States
<1>2. probe' = [probe EXCEPT ![q] = r]
  OBVIOUS
<1> HIDE DEF r
<1> QED BY <1>1, <1>2 DEF Moves

LEMMA GotoMoves ==
    ASSUME probe \in [Probers -> ProbeRecs], NEW q \in Probers, NEW st \in States, Goto(q, st)
    PROVE  Moves(q, st, probe[q].app, probe[q].url, probe[q].facts)
<1> DEFINE r == [probe[q] EXCEPT !.st = st]
<1>0. probe[q] \in ProbeRecs
  OBVIOUS
<1>1. /\ r \in ProbeRecs /\ r.st = st /\ r.app = probe[q].app /\ r.url = probe[q].url
      /\ r.facts = probe[q].facts
  BY <1>0 DEF ProbeRecs, States
<1>2. probe' = [probe EXCEPT ![q] = r]
  BY DEF Goto
<1> HIDE DEF r
<1> QED BY <1>1, <1>2 DEF Moves

LEMMA FactsMoves ==
    ASSUME probe \in [Probers -> ProbeRecs], NEW q \in Probers, NEW f \in FactRecs,
           probe' = [probe EXCEPT ![q].st = "recheck", ![q].facts = f]
    PROVE  Moves(q, "recheck", probe[q].app, probe[q].url, f)
<1> DEFINE r == [probe[q] EXCEPT !.st = "recheck", !.facts = f]
<1>0. probe[q] \in ProbeRecs
  OBVIOUS
<1>1. /\ r \in ProbeRecs /\ r.st = "recheck" /\ r.app = probe[q].app /\ r.url = probe[q].url
      /\ r.facts = f
  BY <1>0 DEF ProbeRecs
<1>2. probe' = [probe EXCEPT ![q] = r]
  OBVIOUS
<1> HIDE DEF r
<1> QED BY <1>1, <1>2 DEF Moves

LEMMA LeaveMoves ==
    ASSUME probe \in [Probers -> ProbeRecs], NEW q \in Probers, Leave(q)
    PROVE  Moves(q, "idle", None, None, NoFacts)
  BY RecordTypes DEF Leave, Moves

(* What a move does to the calls that hold a slot.                         *)
LEMMA FlightFinite == IsFiniteSet(InFlight) /\ Cardinality(InFlight) \in Nat
<1>1. IsFiniteSet(Probers)
  BY FiniteAssumption, FS_Union DEF Probers
<1> QED BY <1>1, FS_Subset, FS_CardinalityType DEF InFlight

LEMMA HolderCounts ==
    ASSUME SlotsBalance, held \in 0..Slots, icons \in 0..MaxIcons,
           NEW q \in Probers, probe[q].st \in Holding
    PROVE  held - 1 \in 0..Slots
<1>1. q \in InFlight
  BY DEF InFlight
<1>2. Cardinality(InFlight) # 0
  BY <1>1, FlightFinite, FS_EmptySet
<1> QED BY <1>2, FlightFinite DEF SlotsBalance

LEMMA FlightMoves ==
    ASSUME NEW q \in Probers, NEW st, NEW a, NEW u, NEW f, Moves(q, st, a, u, f)
    PROVE  /\ st \in Holding /\ probe[q].st \in Holding => InFlight' = InFlight
           /\ st \notin Holding /\ probe[q].st \notin Holding => InFlight' = InFlight
           /\ st \in Holding /\ probe[q].st \notin Holding
                => Cardinality(InFlight') = Cardinality(InFlight) + 1
           /\ st \notin Holding /\ probe[q].st \in Holding
                => Cardinality(InFlight') = Cardinality(InFlight) - 1
<1>1. InFlight' = IF st \in Holding THEN InFlight \cup {q} ELSE InFlight \ {q}
  BY DEF InFlight, Moves
<1>2. q \in InFlight <=> probe[q].st \in Holding
  BY DEF InFlight
<1>3. /\ q \notin InFlight => Cardinality(InFlight \cup {q}) = Cardinality(InFlight) + 1
      /\ q \in InFlight => Cardinality(InFlight \ {q}) = Cardinality(InFlight) - 1
  BY FlightFinite, FS_AddElement, FS_RemoveElement
<1>4. /\ q \in InFlight => InFlight \cup {q} = InFlight
      /\ q \notin InFlight => InFlight \ {q} = InFlight
  OBVIOUS
<1> QED BY <1>1, <1>2, <1>3, <1>4

(* At the start nobody probes and nothing is stored.                       *)
LEMMA InitInvariant == Init => IInv
<1> SUFFICES ASSUME Init PROVE IInv
  OBVIOUS
<1>1. TypeOK
  BY RecordTypes DEF Init, TypeOK
<1>2. \A q \in Probers : probe[q] = Idle
  BY DEF Init
<1>3. Targets /\ RowsOfLiveApps
  BY <1>2, RecordTypes DEF Init, Targets, RowsOfLiveApps
<1>4. InFlight = {}
  BY <1>2, RecordTypes DEF InFlight, Holding
<1>5. SlotsBalance
  BY <1>4, FS_EmptySet DEF SlotsBalance, Init
<1> QED BY <1>1, <1>3, <1>5 DEF IInv

(* The steps of enrich, whoever calls it.                                  *)
LEMMA ProbeInvariant ==
    ASSUME IInv, NEW q \in Probers, Step(q)
    PROVE  IInv'
<1>0. /\ TypeOK /\ Targets /\ SlotsBalance /\ RowsOfLiveApps
      /\ probe \in [Probers -> ProbeRecs] /\ probe[q] \in ProbeRecs
  BY DEF IInv, TypeOK
<1>1. CASE Acquire(q)
  <2>1. \E st \in {"fetch", "late"} : Moves(q, st, probe[q].app, probe[q].url, probe[q].facts)
    BY <1>1, <1>0, GotoMoves DEF Acquire, States
  <2>2. TypeOK'
    BY <1>1, <1>0, <2>1 DEF Acquire, TypeOK, Moves, world, Count
  <2>3. Targets'
    BY <1>1, <1>0, <2>1 DEF Acquire, Targets, Moves
  <2>4. SlotsBalance'
    BY <1>1, <1>0, <2>1, FlightMoves, FlightFinite DEF Acquire, SlotsBalance, Holding, TypeOK
  <2>5. RowsOfLiveApps'
    BY <1>1, <1>0 DEF Acquire, RowsOfLiveApps, world
  <2> QED BY <2>2, <2>3, <2>4, <2>5 DEF IInv
<1>2. CASE GiveUp(q)
  <2>1. Moves(q, "idle", None, None, NoFacts)
    BY <1>2, <1>0, LeaveMoves DEF GiveUp
  <2>2. TypeOK'
    BY <1>2, <1>0, <2>1 DEF GiveUp, TypeOK, Moves, world, Count
  <2>3. Targets'
    BY <1>2, <1>0, <2>1 DEF GiveUp, Targets, Moves
  <2>4. SlotsBalance'
    BY <1>2, <1>0, <2>1, FlightMoves, FlightFinite DEF GiveUp, SlotsBalance, Holding, TypeOK
  <2>5. RowsOfLiveApps'
    BY <1>2, <1>0 DEF GiveUp, RowsOfLiveApps, world
  <2> QED BY <2>2, <2>3, <2>4, <2>5 DEF IInv
<1>3. CASE Fetch(q)
  <2>1. \/ \E f \in FactRecs : Moves(q, "recheck", probe[q].app, probe[q].url, f)
        \/ Moves(q, "keep", probe[q].app, probe[q].url, probe[q].facts)
    <3> DEFINE s == site[probe[q].url]
               f == [meta |-> <<probe[q].url, s.version>>, health |-> "reachable"]
    <3>1. probe[q].url \in Urls /\ s.version \in 0..MaxVersion
      BY <1>3, <1>0 DEF Fetch, FetchUnless, Targets, TypeOK
    <3>2. f \in FactRecs
      BY <3>1 DEF FactRecs, Metadata
    <3>3. CASE probe' = [probe EXCEPT ![q].st = "recheck", ![q].facts = f]
      <4> HIDE DEF f
      <4> QED BY <1>0, <3>2, <3>3, FactsMoves
    <3>4. CASE Goto(q, "keep")
      BY <1>0, <3>4, GotoMoves DEF States
    <3> QED BY <1>3, <3>3, <3>4 DEF Fetch, FetchUnless
  <2>2. TypeOK'
    BY <1>3, <1>0, <2>1 DEF Fetch, FetchUnless, TypeOK, Moves, world, Count
  <2>3. Targets'
    BY <1>3, <1>0, <2>1 DEF Fetch, FetchUnless, Targets, Moves
  <2>4. SlotsBalance'
    BY <1>3, <1>0, <2>1, FlightMoves, FlightFinite DEF Fetch, FetchUnless, SlotsBalance, Holding, TypeOK
  <2>5. RowsOfLiveApps'
    BY <1>3, <1>0 DEF Fetch, FetchUnless, RowsOfLiveApps, world
  <2> QED BY <2>2, <2>3, <2>4, <2>5 DEF IInv
<1>4. CASE KeepMetadata(q)
  <2>1. \E f \in FactRecs : Moves(q, "recheck", probe[q].app, probe[q].url, f)
    <3> DEFINE f == [http[probe[q].app] EXCEPT !.health = "unreachable"]
    <3>1. http[probe[q].app] \in FactRecs
      BY <1>4, <1>0 DEF KeepMetadata, Targets, TypeOK
    <3>2. f \in FactRecs
      BY <3>1 DEF FactRecs
    <3>3. probe' = [probe EXCEPT ![q].st = "recheck", ![q].facts = f]
      BY <1>4 DEF KeepMetadata
    <3> HIDE DEF f
    <3> QED BY <1>0, <3>2, <3>3, FactsMoves
  <2>2. TypeOK'
    BY <1>4, <1>0, <2>1 DEF KeepMetadata, TypeOK, Moves, world, Count
  <2>3. Targets'
    BY <1>4, <1>0, <2>1 DEF KeepMetadata, Targets, Moves
  <2>4. SlotsBalance'
    BY <1>4, <1>0, <2>1, FlightMoves, FlightFinite DEF KeepMetadata, SlotsBalance, Holding, TypeOK
  <2>5. RowsOfLiveApps'
    BY <1>4, <1>0 DEF KeepMetadata, RowsOfLiveApps, world
  <2> QED BY <2>2, <2>3, <2>4, <2>5 DEF IInv
<1>5. CASE Recheck(q)
  <2>1. \/ held' = held /\ Moves(q, "store", probe[q].app, probe[q].url, probe[q].facts)
        \/ held' = held - 1 /\ Moves(q, "idle", None, None, NoFacts)
    BY <1>5, <1>0, GotoMoves, LeaveMoves DEF Recheck, States
  <2>6. held - 1 \in 0..Slots
    BY <1>5, <1>0, HolderCounts DEF Recheck, Holding, TypeOK
  <2>2. TypeOK'
    BY <1>5, <1>0, <2>1, <2>6 DEF Recheck, TypeOK, Moves, world, Count
  <2>3. Targets'
    BY <1>5, <1>0, <2>1 DEF Recheck, Targets, Moves
  <2>4. SlotsBalance'
    BY <1>5, <1>0, <2>1, FlightMoves, FlightFinite DEF Recheck, SlotsBalance, Holding, TypeOK
  <2>5. RowsOfLiveApps'
    BY <1>5, <1>0 DEF Recheck, RowsOfLiveApps, world
  <2> QED BY <2>2, <2>3, <2>4, <2>5 DEF IInv
<1>6. CASE Store(q)
  <2>1. /\ Moves(q, "idle", None, None, NoFacts)
        /\ http' \in [Apps -> FactRecs]
        /\ \A a \in Apps : http'[a] = http[a] \/ a \in live
    <3>1. probe[q].app \in Apps /\ probe[q].facts \in FactRecs
      BY <1>6, <1>0 DEF Store, Targets, ProbeRecs
    <3>2. http' = http \/ (probe[q].app \in live /\ http' = [http EXCEPT ![probe[q].app] = probe[q].facts])
      BY <1>6 DEF Store
    <3>3. http' \in [Apps -> FactRecs] /\ \A a \in Apps : http'[a] = http[a] \/ a \in live
      BY <1>0, <3>1, <3>2 DEF TypeOK
    <3> QED BY <1>6, <1>0, <3>3, LeaveMoves DEF Store
  <2>6. held - 1 \in 0..Slots
    BY <1>6, <1>0, HolderCounts DEF Store, Holding, TypeOK
  <2>2. TypeOK'
    BY <1>6, <1>0, <2>1, <2>6 DEF Store, TypeOK, Moves, world, Count
  <2>3. Targets'
    BY <1>6, <1>0, <2>1 DEF Store, Targets, Moves
  <2>4. SlotsBalance'
    BY <1>6, <1>0, <2>1, FlightMoves, FlightFinite DEF Store, SlotsBalance, Holding, TypeOK
  <2>5. RowsOfLiveApps'
    BY <1>6, <1>0, <2>1 DEF Store, RowsOfLiveApps, world
  <2> QED BY <2>2, <2>3, <2>4, <2>5 DEF IInv
<1>7. CASE Queue(q)
  <2>1. Moves(q, "queue", probe[q].app, probe[q].url, probe[q].facts)
    BY <1>7, <1>0, GotoMoves DEF Queue, States
  <2>2. TypeOK'
    BY <1>7, <1>0, <2>1 DEF Queue, TypeOK, Moves, world, Count
  <2>3. Targets'
    BY <1>7, <1>0, <2>1 DEF Queue, Targets, Moves
  <2>4. SlotsBalance'
    BY <1>7, <1>0, <2>1, FlightMoves, FlightFinite DEF Queue, SlotsBalance, Holding, TypeOK
  <2>5. RowsOfLiveApps'
    BY <1>7, <1>0 DEF Queue, RowsOfLiveApps, world
  <2> QED BY <2>2, <2>3, <2>4, <2>5 DEF IInv
<1> QED BY <1>1, <1>2, <1>3, <1>4, <1>5, <1>6, <1>7 DEF Step

(* The callers begin a probe or return at once.                            *)
LEMMA BeginMoves ==
    ASSUME probe \in [Probers -> ProbeRecs], url \in [Apps -> Urls \cup {None}],
           NEW q \in Probers, NEW a \in Apps, Begin(q, a)
    PROVE  probe' = probe \/ (url[a] \in Urls /\ Moves(q, "slot", a, url[a], NoFacts))
  BY RecordTypes, SetMoves DEF Begin, States

LEMMA CallerInvariant ==
    ASSUME IInv,
           \/ \E q \in Workers : StartWorker(q)
           \/ \E q \in Refreshers, a \in Apps : RefreshApp(q, a)
    PROVE  IInv'
<1>0. /\ TypeOK /\ Targets /\ SlotsBalance /\ RowsOfLiveApps
      /\ probe \in [Probers -> ProbeRecs] /\ url \in [Apps -> Urls \cup {None}]
  BY DEF IInv, TypeOK
<1>1. CASE \E q \in Workers : StartWorker(q)
  <2>1. PICK q \in Probers :
           /\ probe[q].st = "idle"
           /\ \/ probe' = probe
              \/ \E a \in Apps : url[a] \in Urls /\ Moves(q, "slot", a, url[a], NoFacts)
    BY <1>1, <1>0, BeginMoves DEF StartWorker, Probers, TypeOK
  <2>2. TypeOK'
    BY <1>1, <1>0, <2>1 DEF StartWorker, TypeOK, Moves, world, Count
  <2>3. Targets'
    BY <1>1, <1>0, <2>1 DEF StartWorker, Targets, Moves
  <2>6. InFlight' = InFlight
    <3>1. CASE probe' = probe
      BY <3>1 DEF InFlight
    <3>2. ASSUME NEW a \in Apps, Moves(q, "slot", a, url[a], NoFacts)
          PROVE  InFlight' = InFlight
      BY <2>1, <3>2, FlightMoves DEF Holding
    <3> QED BY <2>1, <3>1, <3>2
  <2>4. SlotsBalance'
    BY <1>1, <1>0, <2>6 DEF StartWorker, SlotsBalance
  <2>5. RowsOfLiveApps'
    BY <1>1, <1>0 DEF StartWorker, RowsOfLiveApps, world
  <2> QED BY <2>2, <2>3, <2>4, <2>5 DEF IInv
<1>2. CASE \E q \in Refreshers, a \in Apps : RefreshApp(q, a)
  <2>1. PICK q \in Probers :
           /\ probe[q].st = "idle"
           /\ \/ probe' = probe
              \/ \E a \in Apps : url[a] \in Urls /\ Moves(q, "slot", a, url[a], NoFacts)
    BY <1>2, <1>0, BeginMoves DEF RefreshApp, Probers, TypeOK
  <2>2. TypeOK'
    BY <1>2, <1>0, <2>1 DEF RefreshApp, TypeOK, Moves, world, Count
  <2>3. Targets'
    BY <1>2, <1>0, <2>1 DEF RefreshApp, Targets, Moves
  <2>6. InFlight' = InFlight
    <3>1. CASE probe' = probe
      BY <3>1 DEF InFlight
    <3>2. ASSUME NEW a \in Apps, Moves(q, "slot", a, url[a], NoFacts)
          PROVE  InFlight' = InFlight
      BY <2>1, <3>2, FlightMoves DEF Holding
    <3> QED BY <2>1, <3>1, <3>2
  <2>4. SlotsBalance'
    BY <1>2, <1>0, <2>6 DEF RefreshApp, SlotsBalance
  <2>5. RowsOfLiveApps'
    BY <1>2, <1>0 DEF RefreshApp, RowsOfLiveApps, world
  <2> QED BY <2>2, <2>3, <2>4, <2>5 DEF IInv
<1> QED BY <1>1, <1>2

(* The rest leaves the probes alone.                                       *)
LEMMA WorldInvariant ==
    ASSUME IInv,
           \/ Cycle \/ BeginIcon \/ EndIcon
           \/ \E a \in Apps, u \in Urls \cup {None} : MoveApp(a, u)
           \/ \E a \in Apps : ScanApp(a) \/ RemoveApp(a)
           \/ \E u \in Urls : SiteChanges(u)
    PROVE  IInv'
<1>0. /\ TypeOK /\ Targets /\ SlotsBalance /\ RowsOfLiveApps
      /\ probe \in [Probers -> ProbeRecs] 
  BY DEF IInv, TypeOK
<1>1. probe' = probe
  BY DEF Cycle, BeginIcon, EndIcon, MoveApp, ScanApp, RemoveApp, SiteChanges
<1>2. Targets'
  BY <1>0, <1>1 DEF Targets
<1>3. InFlight' = InFlight
  BY <1>1 DEF InFlight
<1>4. SlotsBalance'
  BY <1>0, <1>3, FlightFinite DEF SlotsBalance, TypeOK, Cycle, BeginIcon, EndIcon, MoveApp, ScanApp, RemoveApp,
     SiteChanges, world
<1>5. RowsOfLiveApps'
  BY <1>0 DEF RowsOfLiveApps, TypeOK, Cycle, BeginIcon, EndIcon, MoveApp, ScanApp, RemoveApp, SiteChanges, world
<1>6. held' \in 0..Slots /\ icons' \in 0..MaxIcons
  BY <1>0, FlightFinite DEF TypeOK, SlotsBalance, Cycle, BeginIcon, EndIcon, MoveApp, ScanApp, RemoveApp,
     SiteChanges, world
<1>7. site' \in [Urls -> [version : 0..MaxVersion, up : BOOLEAN]]
  <2>1. CASE UNCHANGED site
    BY <1>0, <2>1 DEF TypeOK
  <2>2. ASSUME NEW u \in Urls, SiteChanges(u)
        PROVE  site' \in [Urls -> [version : 0..MaxVersion, up : BOOLEAN]]
    <3> DEFINE r == [site[u] EXCEPT !.version = @ + 1]
               s(up) == [site[u] EXCEPT !.up = up]
    <3>1. site[u] \in [version : 0..MaxVersion, up : BOOLEAN]
      BY <1>0 DEF TypeOK
    <3>2. /\ site[u].version < MaxVersion => r \in [version : 0..MaxVersion, up : BOOLEAN]
          /\ \A up \in BOOLEAN : s(up) \in [version : 0..MaxVersion, up : BOOLEAN]
      BY <3>1
    <3>3. \/ site[u].version < MaxVersion /\ site' = [site EXCEPT ![u] = r]
          \/ \E up \in BOOLEAN : site' = [site EXCEPT ![u] = s(up)]
      BY <2>2 DEF SiteChanges
    <3> HIDE DEF r, s
    <3> QED BY <1>0, <3>2, <3>3 DEF TypeOK
  <2> QED BY <2>1, <2>2 DEF Cycle, BeginIcon, EndIcon, MoveApp, ScanApp, RemoveApp, world
<1>8. TypeOK'
  BY <1>0, <1>1, <1>6, <1>7, RecordTypes
     DEF TypeOK, Cycle, BeginIcon, EndIcon, MoveApp, ScanApp, RemoveApp, SiteChanges, world, Count
<1> QED BY <1>2, <1>4, <1>5, <1>8 DEF IInv

(* Every step preserves the invariant.                                     *)
LEMMA StepInvariant == IInv /\ [Next]_vars => IInv'
<1> SUFFICES ASSUME IInv, [Next]_vars PROVE IInv'
  OBVIOUS
<1>1. CASE UNCHANGED vars
  BY <1>1 DEF vars, IInv, TypeOK, Targets, SlotsBalance, InFlight, RowsOfLiveApps
<1>2. CASE Next
  BY <1>2, ProbeInvariant, CallerInvariant, WorldInvariant DEF Next
<1> QED BY <1>1, <1>2

(* The inductive invariant holds throughout.                               *)
THEOREM Invariance == Spec => []IInv
<1> QED BY InitInvariant, StepInvariant, PTL DEF Spec

(* Every variable keeps its type; in particular no more than the slots     *)
(* there are is ever taken.                                                *)
THEOREM TypeCorrect == Spec => []TypeOK
<1>1. IInv => TypeOK
  BY DEF IInv
<1> QED BY <1>1, Invariance, PTL

(* No way out of a probe leaks a slot or gives one back twice.             *)
THEOREM SlotDiscipline == Spec => []SlotsBalance
<1>1. IInv => SlotsBalance
  BY DEF IInv
<1> QED BY <1>1, Invariance, PTL

(* Only apps that exist have metadata, however late a probe comes back.    *)
THEOREM NoGhosts == Spec => []RowsOfLiveApps
<1>1. IInv => RowsOfLiveApps
  BY DEF IInv
<1> QED BY <1>1, Invariance, PTL
-----------------------------------------------------------------------------
(***************************************************************************)
(* The safety part of MetadataCatchesUp.                                   *)
(***************************************************************************)
Facts(u, v) == [meta |-> <<u, v>>, health |-> "reachable"]

\* A call about u has nothing else to store; one about another URL is not to store.
Right(q, u, v) ==
    IF probe[q].url = u
    THEN /\ probe[q].st # "keep"
         /\ probe[q].st \in {"recheck", "store"} => probe[q].facts = Facts(u, v)
    ELSE probe[q].st # "store"

\* The app a shows what there is at u, and so do the calls that are under way.
UpToDate(a, u, v) ==
    /\ Settled(a, u, v) /\ http[a] = Facts(u, v)
    /\ \A q \in Busy(Probers) : probe[q].app = a => Right(q, u, v)

\* The deadline of a probe of a that had to wait passes, or the client of refreshApp leaves
\* while its probe of a is under way.
CutShort(a) ==
    \E q \in Probers :
        /\ probe[q].app = a /\ probe'[q].st = "keep"
        /\ probe[q].st = "late" \/ (probe[q].st = "fetch" /\ q \in Refreshers)

(* Metadata that caught up stay: as long as the app and its site do not    *)
(* change, no call that is under way or begins, however late, stores       *)
(* anything else, unless a probe of this very app is cut short.            *)
FactsStay ==
    [][\A a \in Apps, u \in Urls, v \in 0..MaxVersion :
         UpToDate(a, u, v) /\ Settled(a, u, v)' /\ ~CutShort(a) => UpToDate(a, u, v)']_vars

\* A step of one call, whose outcome is right, leaves the others' right.
LEMMA OneCallMoves ==
    ASSUME NEW a \in Apps, NEW u \in Urls, NEW v \in 0..MaxVersion,
           UpToDate(a, u, v), Settled(a, u, v)', http'[a] = Facts(u, v),
           NEW q \in Probers, NEW st, NEW b, NEW w, NEW f, Moves(q, st, b, w, f),
           st # "idle" /\ b = a =>
              IF w = u THEN st # "keep" /\ (st \in {"recheck", "store"} => f = Facts(u, v))
              ELSE st # "store"
    PROVE  UpToDate(a, u, v)'
<1>1. ASSUME NEW r \in Busy(Probers)', probe'[r].app = a PROVE Right(r, u, v)'
  <2>1. CASE r = q
    BY <1>1, <2>1 DEF Moves, Right, Busy
  <2>2. CASE r # q
    <3>1. r \in Busy(Probers) /\ probe'[r] = probe[r]
      BY <1>1, <2>2 DEF Moves, Busy
    <3>2. Right(r, u, v)
      BY <1>1, <3>1 DEF UpToDate
    <3> QED BY <3>1, <3>2 DEF Right
  <2> QED BY <2>1, <2>2
<1> QED BY <1>1 DEF UpToDate

LEMMA CallKeepsFacts ==
    ASSUME IInv, NEW q \in Probers, Step(q),
           NEW a \in Apps, NEW u \in Urls, NEW v \in 0..MaxVersion,
           UpToDate(a, u, v), Settled(a, u, v)', ~CutShort(a)
    PROVE  UpToDate(a, u, v)'
<1>0. /\ TypeOK /\ Targets
      /\ probe \in [Probers -> ProbeRecs] /\ probe[q] \in ProbeRecs
      /\ http[a] = Facts(u, v) /\ url[a] = u /\ site[u] = [version |-> v, up |-> TRUE]
      /\ probe[q].st # "idle" /\ probe[q].app = a => Right(q, u, v)
  BY DEF IInv, TypeOK, UpToDate, Settled, Busy
<1>1. CASE Acquire(q)
  <2>1. /\ \E st \in {"fetch", "late"} : Moves(q, st, probe[q].app, probe[q].url, probe[q].facts)
        /\ http' = http
    BY <1>1, <1>0, GotoMoves DEF Acquire, States
  <2> QED BY <1>0, <2>1, OneCallMoves
<1>2. CASE GiveUp(q)
  <2>1. Moves(q, "idle", None, None, NoFacts) /\ http' = http
    BY <1>2, <1>0, LeaveMoves DEF GiveUp
  <2> QED BY <1>0, <2>1, OneCallMoves
<1>3. CASE Fetch(q)
  <2> DEFINE s == site[probe[q].url]
             f == [meta |-> <<probe[q].url, s.version>>, health |-> "reachable"]
  <2>1. probe[q].st \in {"fetch", "late"} /\ http' = http
    BY <1>3 DEF Fetch, FetchUnless
  <2>2. CASE probe' = [probe EXCEPT ![q].st = "recheck", ![q].facts = f]
    <3>1. probe[q].url \in Urls /\ s.version \in 0..MaxVersion
      BY <1>0, <2>1 DEF Targets, TypeOK
    <3>2. f \in FactRecs /\ (probe[q].url = u => f = Facts(u, v))
      BY <1>0, <3>1 DEF FactRecs, Metadata, Facts
    <3> HIDE DEF f
    <3>3. Moves(q, "recheck", probe[q].app, probe[q].url, f)
      BY <1>0, <2>2, <3>2, FactsMoves
    <3> QED BY <1>0, <2>1, <3>2, <3>3, OneCallMoves
  <2>3. CASE Goto(q, "keep") /\ (~s.up \/ probe[q].st = "late" \/ q \in Refreshers)
    <3>1. Moves(q, "keep", probe[q].app, probe[q].url, probe[q].facts)
      BY <1>0, <2>3, GotoMoves DEF States
    <3>2. ~(probe[q].app = a /\ probe[q].url = u)
      <4>1. SUFFICES ASSUME probe[q].app = a, probe[q].url = u PROVE FALSE
        OBVIOUS
      <4>2. probe[q].st = "late" \/ q \in Refreshers
        BY <1>0, <2>3, <4>1
      <4>3. probe[q].st = "late" \/ (probe[q].st = "fetch" /\ q \in Refreshers)
        BY <2>1, <4>2
      <4>4. probe'[q].st = "keep"
        BY <3>1 DEF Moves
      <4> QED BY <4>1, <4>3, <4>4 DEF CutShort
    <3> QED BY <1>0, <2>1, <3>1, <3>2, OneCallMoves
  <2> QED BY <1>3, <2>2, <2>3 DEF Fetch, FetchUnless
<1>4. CASE KeepMetadata(q)
  <2> DEFINE f == [http[probe[q].app] EXCEPT !.health = "unreachable"]
  <2>1. probe[q].st = "keep" /\ http' = http
    BY <1>4 DEF KeepMetadata
  <2>2. http[probe[q].app] \in FactRecs
    BY <1>0, <2>1 DEF Targets, TypeOK
  <2>3. f \in FactRecs /\ probe' = [probe EXCEPT ![q].st = "recheck", ![q].facts = f]
    BY <1>4, <2>2 DEF FactRecs, KeepMetadata
  <2> HIDE DEF f
  <2>4. Moves(q, "recheck", probe[q].app, probe[q].url, f)
    BY <1>0, <2>3, FactsMoves
  <2>5. ~(probe[q].app = a /\ probe[q].url = u)
    BY <1>0, <2>1 DEF Right
  <2> QED BY <1>0, <2>1, <2>4, <2>5, OneCallMoves
<1>5. CASE Recheck(q)
  <2>1. probe[q].st = "recheck" /\ http' = http
    BY <1>5 DEF Recheck
  <2>2. CASE SameUrl(q)
    <3>1. Moves(q, "store", probe[q].app, probe[q].url, probe[q].facts)
      BY <1>0, <1>5, <2>2, GotoMoves DEF Recheck, States
    <3>2. probe[q].app = a => probe[q].url = u /\ probe[q].facts = Facts(u, v)
      BY <1>0, <2>1, <2>2 DEF SameUrl, Right
    <3> QED BY <1>0, <2>1, <3>1, <3>2, OneCallMoves
  <2>3. CASE ~SameUrl(q)
    <3>1. Moves(q, "idle", None, None, NoFacts)
      BY <1>0, <1>5, <2>3, LeaveMoves DEF Recheck
    <3> QED BY <1>0, <2>1, <3>1, OneCallMoves
  <2> QED BY <2>2, <2>3
<1>6. CASE Store(q)
  <2>1. probe[q].st = "store" /\ Moves(q, "idle", None, None, NoFacts)
    BY <1>0, <1>6, LeaveMoves DEF Store
  <2>2. probe[q].app = a => probe[q].facts = Facts(u, v)
    BY <1>0, <2>1 DEF Right
  <2>3. http'[a] = Facts(u, v)
    BY <1>0, <1>6, <2>2 DEF Store, TypeOK
  <2> QED BY <2>1, <2>3, OneCallMoves
<1>7. CASE Queue(q)
  <2>1. Moves(q, "queue", probe[q].app, probe[q].url, probe[q].facts) /\ http' = http
    BY <1>7, <1>0, GotoMoves DEF Queue, States
  <2> QED BY <1>0, <2>1, OneCallMoves
<1> QED BY <1>1, <1>2, <1>3, <1>4, <1>5, <1>6, <1>7 DEF Step

LEMMA FactsStep ==
    ASSUME IInv, [Next]_vars, NEW a \in Apps, NEW u \in Urls, NEW v \in 0..MaxVersion,
           UpToDate(a, u, v), Settled(a, u, v)', ~CutShort(a)
    PROVE  UpToDate(a, u, v)'
<1>0. /\ probe \in [Probers -> ProbeRecs] /\ url \in [Apps -> Urls \cup {None}]
      /\ http \in [Apps -> FactRecs] /\ http[a] = Facts(u, v)
  BY DEF IInv, TypeOK, UpToDate
<1>1. ASSUME probe' = probe, http'[a] = http[a] PROVE UpToDate(a, u, v)'
  BY <1>0, <1>1 DEF UpToDate, Right, Busy
<1>2. ASSUME NEW q \in Probers, NEW b \in Apps, Begin(q, b), http' = http
      PROVE  UpToDate(a, u, v)'
  <2>1. CASE probe' = probe
    BY <1>1, <1>2, <2>1
  <2>2. CASE Moves(q, "slot", b, url[b], NoFacts)
    BY <1>0, <1>2, <2>2, OneCallMoves
  <2> QED BY <1>0, <1>2, <2>1, <2>2, BeginMoves
<1>3. CASE UNCHANGED vars
  BY <1>1, <1>3 DEF vars
<1>4. ASSUME NEW q \in Probers, Step(q) PROVE UpToDate(a, u, v)'
  BY <1>4, CallKeepsFacts
<1>5. CASE \E q \in Workers : StartWorker(q)
  <2>1. PICK q \in Workers : StartWorker(q)
    BY <1>5
  <2>2. PICK b \in todo : Begin(q, b)
    BY <2>1 DEF StartWorker
  <2>3. q \in Probers /\ b \in Apps /\ http' = http
    BY <2>1 DEF Probers, StartWorker, IInv, TypeOK
  <2> QED BY <1>2, <2>2, <2>3
<1>6. CASE \E q \in Refreshers, b \in Apps : RefreshApp(q, b)
  <2>1. PICK q \in Refreshers, b \in Apps : RefreshApp(q, b)
    BY <1>6
  <2>2. q \in Probers /\ Begin(q, b) /\ http' = http
    BY <2>1 DEF Probers, RefreshApp
  <2> QED BY <1>2, <2>2
<1>7. CASE \E b \in Apps : RemoveApp(b)
  <2>1. PICK b \in Apps : RemoveApp(b)
    BY <1>7
  <2>2. a # b
    BY <2>1 DEF RemoveApp, Settled
  <2> QED BY <1>0, <1>1, <2>1, <2>2 DEF RemoveApp
<1>8. CASE probe' = probe /\ http' = http
  BY <1>1, <1>8
<1> QED
  BY <1>3, <1>4, <1>5, <1>6, <1>7, <1>8
     DEF Next, Cycle, BeginIcon, EndIcon, MoveApp, ScanApp, SiteChanges

(* Once an app's metadata and the calls about it are up to date, they stay *)
(* so until the app, its site or the owner changes something.              *)
THEOREM MetadataStay == Spec => FactsStay
<1>1. IInv /\ [Next]_vars =>
        [\A a \in Apps, u \in Urls, v \in 0..MaxVersion :
           UpToDate(a, u, v) /\ Settled(a, u, v)' /\ ~CutShort(a) => UpToDate(a, u, v)']_vars
  BY FactsStep
<1> QED BY <1>1, Invariance, PTL DEF Spec, FactsStay
=============================================================================
