# Apptrail in TLA+

Apptrail is a Go server with a React client. It scans Docker, Traefik and Caddy
for applications, keeps them in a registry, probes their metadata, and shows
them on pages that an owner lays out or that CEL rules fill. This directory
holds TLA+ specifications translated from that code, configurations for TLC, and
proofs for TLAPS.

## The system

Everything is one process and one SQLite database. `openStore` sets
`SetMaxOpenConns(1)`, so a statement is atomic and a transaction excludes every
other statement; what interleaves are the handlers, between their statements.
`net/http` runs each request in a goroutine of its own, one scheduler goroutine
runs for the life of the process, and it starts up to four enrichment workers.
There are few locks besides the connection: `scans` (one scan or provider edit at
a time), `probes` (eight slots for outgoing probes) and the login table's mutex.

| Component (files) | State | Operations | Interacts with |
|---|---|---|---|
| Registry (`registry.go`, `alias_merge.go`) | `applications`, `identities`, `observations` | `reconcile`, `createApp`, `updateApp`, `deleteApp`, `mergeAliasApps`, `pruneTraefikInternals`, `apps` | scans write it; pages and probes read it |
| Pages (`registry.go`, `dashboard_layout.go`) | `dashboards` with a revision | `saveDashboard`, `deleteDashboard`, `rewriteDashboardReferences`, `publicDashboard` | refer to apps by ID, without a foreign key |
| Auto-add rules (`dashboard_rules.go`) | `auto_rule`, `excluded`, `rule_error` of a page | `applyDashboardRules`, `appendRuleMatches`, preview | run after saves, edits, scans and every scheduler cycle |
| Layout (`dashboard_layout.go`, `web/src/dashboard-layout.tsx`) | tiles on a 12-column grid; the page an editor has loaded | `appendTile`, `normalizeLayout`, `layoutOrder`; in the browser `placeTile`, `editTile`, `moveToSection`, `removeSection`, `saveLayout` | used by saves, rules, every read of a page |
| Scans (`providers.go`) | `providers`, the `scans` lock | `scan`, `saveProvider`, `deleteProvider`, `scheduler` | reconcile, then rules |
| Provider adapters (`providers.go`, `provider_*.go`, `proxy_routes.go`) | none | snapshots: Docker, Traefik, Caddy; route matching; alias grouping | feed `reconcile` |
| Enrichment (`enrich.go`) | the `http` observation of an app, eight probe slots | `enrich`, `refreshApp`, `icon` | reads the app, probes, stores; may claim an explicit ID |
| Sessions (`auth.go`, `main.go`) | `owner`, `sessions`, the login table (in memory, under a mutex) | `setup`, `login`, `logout`, `changePassword`, `resetPassword` | gate every owner route |
| Store and start-up (`main.go`) | tables and schema version, the file `setup-token`, two goroutines | `openStore`, `runServer`, shutdown | `-reset-password` opens the database beside a server |
| Service manager (`service*.go`) | unit file or property list; what systemd, launchd or Windows has loaded and runs | install, uninstall, start, stop, restart, status | outside the server process; stops it with a signal |

What is hard about it:

* A handler reads pages, then apps, then writes: what it read may be stale. The
  revision of a page, and lookups repeated inside a transaction, are all there is
  against it.
* `reconcile` is one transaction that may create apps, merge them, move
  identities, rewrite pages and prune apps, or fail as a whole.
* A probe takes seconds; the app it is for may be edited, merged or deleted
  before its result is stored.
* A refresh that loses a race is dropped silently; only the scheduler repairs it.
* A crash may come between any two statements of start-up and migrations, and another
  process may open the same database meanwhile.
* `bcrypt` takes a tenth of a second: between checking a password and storing a session,
  the password may change.
* `apptrail service` is a list of calls to another program, each of which may fail;
  nothing is rolled back.

## Modules

Each `X.tla` is the model of one component, `X_proofs.tla` holds its theorems
(`Server_proofs.tla` those of Server and of Service), and
`MCX.tla` with `MCX*.cfg` its instances for TLC. A module's state is the tables and
memory of its component plus a small record per handler in flight; an action is
everything a handler does between two points where another one may run.

### Dashboards

Models `saveDashboard`, `deleteDashboard` (`registry.go`), `applyDashboardRules`,
`appendRuleMatches` (`dashboard_rules.go`), `normalizeLayout` and
`rewriteDashboardReferences` (`dashboard_layout.go`), with whatever changes apps
under their feet: edits, deletions, merges, pruning.

* State: `app` (existence, presence, hidden, one fact), `page` (the row: items,
  excluded, sections, tile, rule, destination, revision, error) and per process a
  program counter, the rows it read (`view`, `prev`, `snapPages`, `snapApps`) and
  the row it will write (`draft`).
* `apps()` reads the applications and then their observations, in two queries without a
  transaction: `ApplyRulesReadApps` and `ApplyRulesReadFacts`. A rule may see the owner's
  edits of one moment with the providers' reports of another, or an app of the first
  query without its observations.
* A save is *read the previous row* (`SaveDashboardRead`), *check and normalise*
  (`SaveDashboardValidate`), *write if the revision is still the one read*
  (`SaveDashboardCommit`); then it runs the rules like everybody else. The rules
  are *read pages*, *read apps*, *read their observations*, then *one transaction per page*.
* A tile is only the section it is in. `low` are the cards so near
  row 10000 that `appendTile` may place the next one beyond it, for which
  `normalizeLayout` refuses the page. The rest of the geometry is left to module Layout. A rule is a table of verdicts over facts: yes, no,
  error.
* A rule's write has four outcomes: the page changes, nothing is to be added and the error is
  cleared, or the limit of items (`HitsLimit`) or of rows (`HitsRowLimit`) refuses all of
  it and only the error is stored.

### AtomicPages

The abstract specification of pages: what the owner may rely on, without requests,
snapshots, transactions or revision checks. Its state is the apps there are, the apps
there were, and per page its cards with their sections, exclusions, rule and revision. A
step is one edit, creation or deletion of a page, one addition by a rule, a scan, a
deletion of an app or a merge, and acts on the page *as it is at that moment*: an edit that
takes cards off while a rule is set excludes them, a rule adds nothing that the page
mentions, deletions and merges reach every page. `Dashboards` implements it
(`ChangesAreAtomic`) with `live`, `gone` and `pages` computed from `app` and `page`; every
step of a handler that is not a write is a stutter there.

### Layout

Models `appendTile`, `normalizeLayout`, `rewriteDashboardReferences`
(`dashboard_layout.go`), the grid's side of `saveDashboard` and `appendRuleMatches`, and
the browser's editor (`web/src/dashboard-layout.tsx`): `placeTile`, `editTile`,
`moveToSection`, `moveSection`, `removeSection`, `saveLayout`, "+ Add section" and the drags
of the grid.

* State: `row`, the stored page with its tiles; per editor and for the rule a step, the
  page it read (`page`) and the one it will write (`draft`); `ops`.
* The browser loads the page (`Load`), each gesture sends the whole layout with the
  revision it loaded ("sent", "dragged"), and any answer makes it load again ("reload").
  `removeSection` places the cards of the section one by one ("moving"). The server
  refuses an old revision and tiles outside the grid (`Receive`), appends a tile for each
  card that has none (`Fill`), compares all tiles (`Check`) and writes if the revision is
  still the one read (`Store`). A rule goes the same way from `ReadRule`; merges and
  deletions rewrite the row without the check (`Rewrite`, `Delete`).
* What the grid library does to the cards that a dragged one covers is external: they
  stay, or are pushed below it.
* `placeTile` stops at row 10000, so the test `tile.y > 10000` of `editTile` never holds;
  when a section is full to that row the editor sends overlapping cards and it is the
  server that refuses them. `EditsFit` says that this is the only case.
* Abstracted: the order of items and of the sections after the first, names, the limits
  of 32 sections and 1000 apps, and which apps exist or are excluded (Dashboards).

### Registry

Models `reconcile`, `mergeAliasApps` and `pruneTraefikInternals` (`registry.go`,
`alias_merge.go`), `createApp` as a scope of its own, `updateApp`, `deleteApp`, and
the claim of a manifest's explicit ID in `enrich`.

* State: `db` (apps, key owners, observations, overrides, placements) and `tx`, the
  transaction of a scan with its working copy and the observations still to do.
  One observation is one step, so a conflict in the middle of a snapshot rolls back
  what the earlier ones did. While `tx` is open nothing else runs, since there is one
  connection; `updateApp` and the claim are two statements, and scans commit between
  them.
* Keys keep the order in which the adapter lists them, since the first one that is
  owned decides.

### AtomicRegistry

The abstract specification of the registry. Its state is `db`; a scan is one step from the
registry r to a registry t, described by what t must be and not by an algorithm: every source
of the snapshot is as the last observation of it says, with an app that owns all its keys
(`SourcesScanned`); the provider's others are no longer present, and nothing of other
providers changes; keys stay with a living app and stay together, and a curated app's keys
go to one that carries what the owner did (`KeysScanned`); an app that stays keeps what the
owner did, one that was curated ends only if its keys can go elsewhere, and overrides and
places come from nowhere but the apps whose keys an app took over (`CurationScanned`); a new
app has a key the scan found, and no ID is used again or doubled (`AppsScanned`). Edits, claims, placements, deletions and retiring a provider come between
scans. `Registry` implements it (`ScansAreAtomic`) with `registry` for `db`: the steps of an
open transaction, and a scan that conflicts, are stutters.

### Enrichment

Models `enrich`, `refreshApp`, `icon`, `acquireProbe` and the scheduler's workers
(`enrich.go`, `providers.go`). A probe is *read the app*, *take a slot*, *fetch*,
*on failure read the stored facts*, *read the app's URL again*, *store*. The 18 seconds of a
call begin before it waits: one that had to queue for its slot (`Queue`) fetches with what is
left of them ("late"), and may fail although the site is up. Sites change
version and go down; the owner edits and deletes; a scan may find the app missing.

### Scans

Models `scan`, `scanProviderHTTP`, `saveProvider`, `deleteProvider` and the scheduler's
walk (`providers.go`) around the `scans` lock, which everybody only tries. A scan is
*lock*, *read the row again*, *fetch*, *commit the snapshot*, *report*; a crash may come
between any two of them.

### Routes

Models `traefikMatches`, `caddyMatches`, Caddy's `walk`, `combineMatches` and
`launchURL` (`proxy_routes.go`, `provider_caddy.go`, `provider_traefik.go`). `visit`
is evaluated bottom up with a stack of alternatives, `walk` top down with the same
stack, and `combineMatches` is a loop with one pair per step. Beside every list of
alternatives the module keeps `sem`, the requests that the rule really accepts, computed
from what Traefik and Caddy do with matchers; the program never sees it, and the
properties compare the two. What the proxies do is the only external part of the map.
Paths are compared as they are: that Caddy ignores their case is abstracted.

### LoginAttempts and Sessions

`LoginAttempts` models `allowLogin` (`auth.go`): a call of an address is granted or refused
under the mutex, after the entries whose window is over have left the table. `grants` and
`refused` are its history. `Sessions` extends it with what the requests do: `setup`, `login`,
`logout`, `changePassword`, `setSession`, and `resetPassword` of the command line.

* State: the owner's password, `session` and `expires` of the session a request opens, and
  per request the next statement and the password its client sent. `version` counts the
  passwords, `checked` is the one a request was let in with, and `inFlight` the requests
  that were about to insert their session when the password last changed.
* A sign-in is *allowLogin* (`LoginBegin`), *read and compare* (`LoginCheck`), *insert the
  session* (`OpenSession`), *delete those that expired* (`DeleteExpired`); any of them may
  fail (`Fail`). A change of the password is *check* and then one transaction that sets it
  and deletes every session, after which it goes on like a sign-in. `Restart` empties the
  table and ends all requests; sessions stay.

### Server

Models `openStore`, `resetPassword`'s use of it and `runServer` (`main.go`), with the stop
of the Windows service (`service_windows.go`).

* State: `disk` (how many of the ten creating statements ran, the columns of each
  migration, `user_version`), `token` (the file), and per process the next statement and
  the version it read; per server its token, the context, and the two goroutines.
* Each `CREATE TABLE` commits by itself; a migration is one transaction, which fails and
  writes nothing when one of its columns is there. `os.WriteFile` creates the file
  (`CreateToken`) before it writes (`WriteToken`).
* `runServer` ends over three goroutines: the context ends (`Signal`, or `ListenFails` with
  `stop()`), the scheduler returns, `Shutdown` drains, and `Close` waits for both.
* `Exit` ends a process at any point: killed, or a statement failed.

### Service

Models `apptrail service` on the three systems (`service.go`, `service_linux.go`,
`service_darwin.go`, `service_windows.go`).

* State: the definition `file`, what the manager has loaded (`unit`) and enabled, the
  definition its process was started from (`run`), whether the manager means it to run
  (`wanted`); the command with the calls it has still to make, and what it told the owner.
* `Calls(a)` is the list of calls of a command on this system; each call is an action, whose
  guard is when it succeeds. `Fail` ends a command before any of them, as an error of the
  call or a kill does; processes crash, managers restart them, the machine restarts.
  A call that fails has changed nothing: partial effects of a manager's failing call are not
  modelled.
* External: what `systemctl`, `launchctl` and the Windows service manager do, as far as the
  commands rely on it.

## Runs

| Run | Module, configuration | Question |
|---|---|---|
| `pages` | Dashboards, two handlers of the same kind (symmetric) and the scheduler, one page, two apps (symmetric) of which it can hold one, two sections, `MaxOps` 3 | Do pages refer to existing apps; do saves and rules respect what they have not seen, also at the limit of apps? |
| `pages_live` | Dashboards with fairness, one handler, two pages, two apps, `MaxItems` 2 | Do pages stay readable; does Dashboards implement AtomicPages; does every matching app get its place? Two pages, since what must be rewritten on all of them needs a second one; two cards on a page, so that a merge may meet both, and a rule a card near the last row. |
| `registry` | Registry: a Traefik, a Docker and a manual scope, three apps, four initial registries | Do scans keep overrides, placements and keys; does Registry implement AtomicRegistry, so that a scan takes effect as a whole or not at all? |
| `enrichment` | Enrichment with fairness: a worker, a refresh and two icon requests over two slots, two URLs, `MaxOps` 3 | Do slots balance, do probes end, does metadata catch up, do rows of dead apps appear? |
| `scans` | Scans with fairness: two providers, two settings, a request and the scheduler | Do scans use the settings in force, do deletions hold, is the lock freed, do diagnostics catch up? |
| `layout` | Layout: one editor, the rule, three apps (symmetric), two sections, two columns, rows 0 to 2, `MaxOps` 4 | Can every stored page be shown; do the editor's layouts pass the server's check; does the rule find a place; does a whole layout undo the work of others? |
| `routes` | Routes: two hosts and a wildcard, four paths, up to four matchers, at most five alternatives | Is what `combineMatches` keeps what the rule says; is every route reported; is no launch URL a guess? |
| `pages_hidden_added` | Dashboards, one handler | Finding: a rule adds an app that was hidden, or went missing, after the rule read the apps. |
| `sessions` | Sessions: three requests, two addresses of which one fills the table, two passwords, a window and a session's life of one unit, `MaxTime` 2 | Does a change of the password end every session; does nothing else end one; are attempts bounded and given back? |
| `server` | Server with fairness: a server and a password reset, three creating statements, the database new or of any release, `MaxExits` 4 | Is the schema complete when it is used; does the version ever go back; does a server come up after any cut-off start; does it stop when told? |
| `service` | Service with fairness: all three systems, two configurations, `MaxCommands` 4, `MaxFaults` 4 | Does an install that reports success run what it installed; is an owner who repeats uninstall rid of the service? |
| `setup_token` | Server, one server | Finding: a crash while the setup token is written leaves an empty file, and no owner can be set up. |

### Properties

* *Pages.* `ItemsExist` and `PagesReadable`: one unreadable page makes
  `dashboards()` fail for all. `StaleSavesRejected`: a save with a revision replaces
  what its editor saw. `RemovalsExcluded`: with a rule set, what a save takes off is
  excluded. `ExclusionsHonoured`, `RulesOnlyAdd`: rules evaluated on old rows respect
  the row as it is.
  `ChangesAreAtomic`: whatever overlaps, the pages change as if in single steps.
  `MatchesGetPlaced`: the scheduler repairs lost refreshes; an app waits only while its page
  has no room for all that match, or the rule's section a card near the last row.
* *Layout.* `GridOK`: every card of the stored page, and nothing else, has a tile in the
  grid that covers no other, also after merges, deletions and rules. `EditsFit`: what the
  editor sends overlaps only in the last row. `RuleRefusedAtLimit`: the rule gives up only
  when its cards, three to a row, do not fit between the end of its section's lowest card
  and the last row; other sections, and gaps above that card, do not matter. `UntouchedStay`: a tile or a section that a writer did not change
  stays as it is when the whole layout is stored.
* *Registry.* `ReferencesHold`, `SourcesFollowKeys`: in the committed registry and in
  a transaction's copy. `CurationSurvivesScans`: whoever owns a key after a scan carries
  the overrides and placements of whoever owned it before, through chains of merges and
  pruning. `KeysStay`, `ScansKeepOneID`. `ScansAreAtomic`: a scan is one step, which does
  what its snapshot says of every source of the provider and touches nothing else's, or none.
* *Enrichment.* `SlotsBalance`, `RowsOfLiveApps`, `ProbesEnd`; `MetadataCatchesUp`, as long as
  icon requests do not keep all the slots.
* *Scans.* `SettingsHold`, `DeletedStayAbsent`, `LockFrees`, `StatusCatchesUp`.
* *Routes.* `NothingWidened`: an alternative that is not marked unknown accepts no more
  than the rule. `NothingLost`: what is dropped could not match. `LaunchURLsServed`: a
  launch URL is accepted by its rule, whatever other matchers the request meets.
  `RoutesReported`: what accepts something appears, with a URL or as unresolved.
* *Sessions.* `RevokedByChange`: after a change of the password the only sessions of an
  older one are those of sign-ins whose password had been checked before it. `SessionsLast`:
  a session stays valid until its time, its sign-out or a change. `BurstBounded`: windows
  start with an address's first call, so two may meet, and twice ten calls in 15 minutes is
  the bound the code really gives. `RefusalsExpire`: being refused never extends the wait.
* *Server.* `SchemaComplete`, `VersionsAscend`, `ComesUp`, `StopsWhenTold`.
* *Service.* `InstallTakesEffect`, `UninstallFinishes`.

The type invariants (`TypeOK`) and `LockMatches` are proved, not run: they are parts of the
inductive invariants.

### Bounds

* `MaxOps` limits what owners, providers and sites do in one behaviour; the scheduler
  and the handlers they started are never limited. Three or four are enough for the
  hazards: the longest needs one read, two writes by others, and the write. The liveness
  properties hold because the changes end, which is what "left alone" means in the code
  as well.
* Two apps show exclusions and limits of a page: the limit of apps with `MaxItems` 1
  (`pages`), that of rows, which needs a card on the page, with `MaxItems` 2 (`pages_live`); the registry has three, the least in
  which a merge has a survivor, a victim and a bystander. IDs are never used twice, in
  the code because they are random.
* `MaxItems` is 1000 in the code and the longest rule has 10000 alternatives
  (`MaxRoutes`); both are small here so that they are reached.
* In `layout` appended tiles are half as wide as the grid, asked ones one or two columns
  wide and all two rows high, and the last row is 2: two tiles on top of each other fill a
  column, so the row limit is reached within `MaxOps` 4 (choose apps, add a section,
  move, remove).
* Symmetry: the two handlers and the apps of `pages`, requests, passwords and addresses of `sessions`, the apps of `layout`, and the apps that no initial registry treats
  specially; none of it is used in a run with liveness.
* In `sessions` two attempts per address, a table for one address, and windows and sessions
  of one unit let an address run out of attempts, find the table full, and see its window
  and its session end by `MaxTime` 2. `MaxVersions` 2 is the set-up and one change; three
  requests are the session that ends, the change, and the sign-in under way.
* `server` has three creating statements instead of ten, which are alike; `MaxExits` 4 cuts
  off a start at four places, or cuts off three and stops the fourth. In `service` an
  install, a second one, an uninstall and a start or stop are the longest story needed, with
  a fault for each.
* `registry`, `routes`, `sessions`, `service` and `setup_token` do not check for deadlock: once the bounded operations
  are used up, or an evaluation has ended, nothing remains to be done.

### Fairness

* `RulesStep(Sched)`, `Cycle`, `ListProviders`, `ScanNext`: the scheduler is a goroutine
  that runs for the life of the process, whose ticks do not depend on anybody.
* The steps of a handler that has begun: every outgoing call has a deadline (45 s for a
  scan, 18 s for a probe), reading a body ends with the server's `ReadTimeout` of 15 s,
  and SQL statements return. A handler is not obliged to begin.
* `StartWorker` and `EndIcon`: workers are started by the cycle and an icon's fetch has
  the probe's deadline.
* `Server`: the statements of a start, the scheduler's return after its context ends, and
  `Shutdown`, whose wait is bounded by 30 seconds. `Open(s)`: a server that is down is started
  again; this is what the installed services ask of their managers (`Restart=on-failure`,
  `KeepAlive`, recovery actions), and what an owner does. Crashes stop after `MaxExits`.
* `Service`: the call of a command that runs returns, a process that was told to stop ends
  (`StopsWhenTold` of Server), and an owner who wants the service gone repeats the command.
* Nothing is assumed of the owner, of providers, of sites or of crashes, and all of
  it is weak fairness: nobody who waits for a lock or a slot is promised it. `TryLock`
  gives up, and the slots are a channel.

## Proofs

TLAPS checks the theorems below for every value of the constants that satisfies
the named assumptions of each module (finite sets of names, `None` outside them, bounds
in `Nat`, requests and snapshots of the right type; for Routes that `Prefix` is a
reflexive, transitive relation in which two prefixes of a path are comparable, with `Root`
a prefix of all; for Layout that sizes are positive, an appended tile is of an
allowed size, and the editor asks for tiles within the limits its forms set).

| Module | Theorems | The inductive invariant |
|---|---|---|
| Dashboards_proofs | `TypeCorrect`, `ReferentialIntegrity`, `Readability`, `NoLostUpdates`, `RemovalsStick`, `ExclusionsHold`, `RulesAreAddOnly`, `Refinement` | `IInv`: pages are readable and list existing apps, and every row a process read earlier is `Current`: if it has the page's revision it has the page's contents, and revisions only grow. Without it the revision check means nothing. `RowStep` says what any step may do to a row, and `Current` survives every `RowStep`. |
| Layout_proofs | `TypeCorrect`, `GridHolds`, `EditsFitHolds`, `RuleRefusedAtLimitHolds`, `UntouchedStayHolds` | `IInv`: the stored page fits (`PageFits`), and so does the page every process read, which is the row if the revisions agree (`Current`); a draft fits as far as its step promises (`RecOK`): all but the cards still to be placed, or overlaps in the last row only. `AppendedFits` and `PlacedFits` say that `appendTile` and `placeTile` overlap nothing; for `RuleRefusedAtLimitHolds` also `FillInv`, on which see below; that a section has a greatest end and a set of rows a least element is shown by well-foundedness (`GreatestExists`, `LeastExists`). |
| Registry_proofs | `TypeCorrect`, `ReferentialIntegrity`, `KeysAndSources`, `CurationKept`, `KeysKept`, `ScopesSeparate`, `ScansNameOnce`, `ScansAtomic` | `IInv`: both registries are `Good`, and while a transaction is open its copy is `Since` the committed one: owners carry what the former owners had, keys that were together stay together. `Since` is preserved by one observation, a merge, the end of the scan and the pruning; the first owned key is a least index, which exists by well-foundedness. For `ScansAtomic` also `ScanInv`: the working copy is what `Worked` says of the part of the snapshot that is done, and its apps come from the committed ones (`Descends`). |
| Enrichment_proofs | `TypeCorrect`, `SlotDiscipline`, `NoGhosts`, `MetadataStay` | Types, the app and URL of a call that has begun, the slots counted as the cardinality of the calls in flight. `MetadataStay` needs of each call about the app that what it has to store is what is there (`Right`), or that it has not rechecked another URL yet. |
| Scans_proofs | `TypeCorrect`, `LockDiscipline`, `ScansUseSettings`, `DeletionsHold`, `DiagnosticsInForce` | Their conjunction: settings hold because the lock excludes saves and deletions, deletions hold because settings do. |
| Routes_proofs | `TypeCorrect`, `RulesNotWidened`, `RulesComplete`, `LaunchURLsCorrect`, `RoutesDiscovered` | `Inv`: every list on the stack is `Good` (neither widened nor incomplete), and the loop of `combineMatches` has kept what the pairs before (i, j) have in common and nothing else. Three lemmas about one pair carry it: `DroppedCovers`, `NarrowedCovers`, `NarrowedKnown`. |
| Sessions_proofs | `AttemptsBounded`, `BurstsBounded`, `RefusalsHold`, `TableStaysBounded`, `TableShared`, `RevokedByChangeHolds`, `SessionsLastHolds` | `AttemptsInv`: per address, where the calls it was granted lie: those its entry counts are in the entry's window, those before them earlier than that window, and the entry of a refused address ends within a window's time of the refusal. `TableShared` maps each step of Sessions to one of the table or a stutter. `SessionsInv`: `RevokedByChange`, and the same of requests about to insert a session. |
| Server_proofs, of Server | `SchemaHolds`, `VersionsHold`, `OnlyRacesRefuse`, `WindsDownHolds` | What each program point knows of the disk: a process past a statement has run it, one past a migration finds its columns and version, columns are there exactly if the version says so, and the version a process read is not above the disk's. Other processes only add to the disk. `RaceInv`: a process about to migrate read a version that wants it. `LifeInv`: a server that shuts down or closes has been told to, and one that is down has left nothing running. |
| Server_proofs, of Service | `InstallHolds`, `UninstallHolds` | `ServiceInv`: what is left of the list of calls tells which were made, and so what they established; processes that end, fail and are restarted beside the command do not disturb it. One lemma per system and command says what its next call adds. |

`Refinement` is the theorem `Spec => ChangesAreAtomic`, that Dashboards implements
AtomicPages. The initial states map to initial states (`Shown` of an empty page). For the
steps there is a lemma per handler that writes. A save's commit is an `Edit` or a `Create`:
`Current` of the invariant says that the row it was computed from is the row it replaces, so
what it takes off is excluded in the new one, and what it writes was checked against the
apps in the same transaction. A rule's write is an `Add`, for the same reason, or changes
nothing that `Shown` keeps. Deletions and merges of apps are `Forget` and `Merge`, page by
page (`ShownWithout`, `ShownInstead`); every other step leaves `Shown` of all pages alone.
The steps of AtomicPages act on the pages of that moment, so the theorem is what "nothing
stored in the meantime is lost" means for handlers that read, think and write.

`ScansAtomic` is `Spec => ScansAreAtomic`, that Registry implements AtomicRegistry. The
transaction is a stutter there until it commits, so what the commit does must be known of
the snapshot as a whole: `ScanInv` says that there is a snapshot of the provider of which
the first n observations are worked off, each source having what the last of them said
(`WorkedNext`), and the rest is still to be done. Overrides and places may travel through
several merges of one scan; `Descends` says where they come from. It needs that an app with
keys still has one it had before the scan, because a merge leads back to the app it ended
only by such a key (`DescendsNext`). At the commit n is the whole of the snapshot;
`SourcesCommitted`, `KeysCommitted`, `CurationCommitted` and `AppsCommitted` carry it
through the pruning.

`RuleRefusedAtLimitHolds` counts. `FillInv` says that the cards a rule has added lie in rows
of one height, which begin at the end of its section (`Aligned`), that there are n of these
rows, and that all but the last are full (`InRows`): a row with a free column has a gap,
which `appendTile` takes (`FullRow`, `LaterColumn`), so it begins a new one only when the
last is full. So n rows hold more than n - 1 times the columns (`ColumnsCounted`), and a
card beyond the last row means that the cards do not fit in the rows there are.

Four theorems are the safety part of liveness properties. `OnlyRacesRefuse` (of `ComesUp`): a
migration is refused only to a process that another one has overtaken, which is why a
server that is started again comes up; a start that was cut off never leaves a column that
the version does not know of. `WindsDownHolds` (of `StopsWhenTold`): what a server that
closes waits for has been told and can go on, so the wait is not a deadlock.
`DiagnosticsInForce` (of `StatusCatchesUp`): what a scan stores is about the settings in
force, so diagnostics that have caught up fall behind only when the owner changes the
provider. `MetadataStay` (of `MetadataCatchesUp`): metadata that have caught up stay, once no
call under way has older ones to store, unless a probe is cut short, by its deadline after a
wait for a slot or by the client of `refreshApp`, which stores the app as unreachable although
its site is up. What is left to fairness is that the old calls end and a new one comes.

Only model-checked: the liveness properties (`MatchesGetPlaced`, `MetadataCatchesUp`,
`ProbesEnd`, `LockFrees`, `StatusCatchesUp`, `ComesUp`, `StopsWhenTold`,
`UninstallFinishes`), which need fairness and ENABLED and are out of the prover's reach; and
the two findings, which are counterexamples. Every invariant and every action property of the
runs is a theorem.

## Where the code and what is said of it differ

Two runs show it:

1. Rules may add an app that was hidden or went missing since they read the
   apps (`dashboard_rules.go:187`), against "only present, non-hidden apps". It stays, since
   rules only add (`pages_hidden_added`).
2. A server that ends while it writes `setup-token` leaves an empty file, which the next
   start takes for the token (`main.go:222`), against "the first start prints a setup token";
   `setup` refuses an empty token, so no owner can be set up until the file is removed
   (`setup_token`).

Seen while modelling; the models do what the code does, and no property forbids it:

3. `updateApp` reads, merges and writes without a transaction (`registry.go:451`): of two
   concurrent edits of different fields the later write restores what the earlier changed.
4. Two routers that swap hosts are merged (`registry.go:112`), although the comment of
   `alias_merge.go:9` wants each address declared by the router.
5. A failed probe reads the stored facts and writes them back (`enrich.go:345`), over newer
   ones that another probe stored in between; the next cycle repairs it.
6. An edit between `enrich`'s recheck of the URL and its upsert receives the old URL's
   metadata until the next probe (`enrich.go:345`), against the comment at `enrich.go:317`.
7. The claim of a manifest's ID may give an app a second explicit ID (`enrich.go:327`);
   `ScansKeepOneID` therefore speaks of scans only.
8. `RevokedByChange` cannot be stronger: a sign-in whose password was compared before a
   change of the password inserts its session after it (`auth.go:151-156`).
9. On Windows, "service stop" of a service that crashed and is about to be restarted finds
   it stopped and reports success (`service_windows.go:93`); the manager then restarts it.
   For the same reason an uninstall may report success while a restarted process runs on,
   marked for deletion (`UninstallTakesEffect` has this exception).
10. A client of `refreshApp` that leaves while its probe is out makes the app unreachable
   until the next cycle: the request ends with the client (`enrich.go:192`), what it found is
   stored all the same (`enrich.go:345`). So does a probe that waited for its slot until its
   deadline (`enrich.go:183`). `FactsStay` has these exceptions.
11. A card near the last row of a rule's section makes `appendRuleMatches` refuse in every
   cycle (`dashboard_rules.go:199`), since `appendTile` looks only at the end of a section
   (`dashboard_layout.go:36`): `rule_error` is stored and the matches wait, however few
   apps the page has. `MatchesGetPlaced` has this exception.
12. Icon requests take the probes' slots (`enrich.go:391`). While they keep all eight, the
   workers' calls give up in every cycle and metadata do not catch up; hence the condition
   of `MetadataCatchesUp`.

## Not modelled

* What `apps()` computes from its two reads (facts by priority, `appendURL`) and what
  `publicDashboard` leaves out: functions of one read, which change nothing.
* `layoutOrder`, the order of a page's cards: it sorts and changes nothing.
* Docker's adapter, the HTTP client of providers, alias grouping, HTML and manifest
  parsing, and the probe's network policy: each decodes one answer into values.
* `service status`, which only reads, and the text of unit files and property lists.
* React views other than the layout editor, documentation site, release files.

## Plan

1. `Fields`: facts by priority and `publicDashboard`'s filter against a reference
   definition.
2. The steps that lead from a change to `UpToDate` of Enrichment, and from a match to its
   place on a page, as lemmas one by one: what remains of the liveness properties is then
   fairness alone.
