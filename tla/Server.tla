------------------------------- MODULE Server -------------------------------
(***************************************************************************)
(* The life of an apptrail process: it opens and migrates the database,    *)
(* and a server then makes or reads the setup token, serves, and stops.    *)
(* apptrail -reset-password opens the same database beside a server.       *)
(*                                                                         *)
(* SQLite makes a statement or a transaction one step; processes interleave*)
(* between them and may end at any of them: killed, or because a statement *)
(* failed.  What is on disk then stays.                                    *)
(*                                                                         *)
(* Abstracted here: the contents of the tables (their columns are what     *)
(* matters), the requests that are served, and timeouts, which end a wait  *)
(* at some time.                                                           *)
(***************************************************************************)
EXTENDS Integers, FiniteSets

CONSTANTS
    Servers,       \* processes that serve
    Resets,        \* processes that reset the password
    Statements,    \* statements of openStore that create tables and rows (10)
    Tokens,        \* setup tokens
    Absent,        \* there is no token file
    Empty,         \* the token file is empty; a server has no token
    MaxExits       \* bound: crashes, failures and signals per behaviour

Procs == Servers \cup Resets

ASSUME ServerAssumption ==
    /\ Servers \cap Resets = {}
    /\ Statements \in Nat \ {0} /\ MaxExits \in Nat
    /\ Tokens # {} /\ Absent \notin Tokens /\ Empty \notin Tokens /\ Absent # Empty

VARIABLES
    disk,       \* the database file
    token,      \* the file setup-token
    owner,      \* whether the owner is set up
    pc,         \* pc[p]: the next statement of p
    at,         \* at[p]: the next statement that creates a table
    ver,        \* ver[p]: schemaVersion as p read it
    tok,        \* tok[s]: s.setupToken
    cancelled,  \* cancelled[s]: the context of s has ended
    scheduler,  \* scheduler[s]: whether the scheduler goroutine of s runs
    shutdown,   \* shutdown[s]: where the goroutine that shuts s down is
    exits       \* crashes, failures and signals so far

goroutines == <<cancelled, scheduler, shutdown>>
vars == <<disk, token, owner, pc, at, ver, tok, goroutines, exits>>

(***************************************************************************)
(* The file: how many creating statements ran, and whether the columns of  *)
(* the first and of the second migration are there.                        *)
(***************************************************************************)
Disks == [file : BOOLEAN, made : 0..Statements, kinds : BOOLEAN, layouts : BOOLEAN, ver : 0..3]
NoDatabase == [file |-> FALSE, made |-> 0, kinds |-> FALSE, layouts |-> FALSE, ver |-> 0]
Release(n) == [file |-> TRUE, made |-> Statements, kinds |-> n >= 1, layouts |-> n >= 2, ver |-> n]

\* Nothing yet, or what this or another release of Apptrail left.
Init ==
    /\ disk \in {NoDatabase} \cup {Release(n) : n \in 0..3}
    /\ token = Absent
    /\ owner \in (IF disk = NoDatabase THEN {FALSE} ELSE BOOLEAN)
    /\ pc = [p \in Procs |-> "down"]
    /\ at = [p \in Procs |-> 1]
    /\ ver = [p \in Procs |-> 0]
    /\ tok = [s \in Servers |-> Empty]
    /\ cancelled = [s \in Servers |-> FALSE]
    /\ scheduler = [s \in Servers |-> FALSE]
    /\ shutdown = [s \in Servers |-> "waiting"]
    /\ exits = 0

Goto(p, next) == pc' = [pc EXCEPT ![p] = next]

\* The process ends, and what it had in memory with it.
Ended(p) ==
    /\ Goto(p, "down")
    /\ at' = [at EXCEPT ![p] = 1]
    /\ ver' = [ver EXCEPT ![p] = 0]
    /\ tok' = [s \in Servers |-> IF s = p THEN Empty ELSE tok[s]]
    /\ cancelled' = [s \in Servers |-> IF s = p THEN FALSE ELSE cancelled[s]]
    /\ scheduler' = [s \in Servers |-> IF s = p THEN FALSE ELSE scheduler[s]]
    /\ shutdown' = [s \in Servers |-> IF s = p THEN "waiting" ELSE shutdown[s]]

\* Killed, or a statement or a write failed: the process ends there.
Exit(p) ==
    /\ pc[p] # "down" /\ exits < MaxExits
    /\ exits' = exits + 1
    /\ Ended(p)
    /\ UNCHANGED <<disk, token, owner>>
-----------------------------------------------------------------------------
(***************************************************************************)
(* openStore.                                                              *)
(***************************************************************************)
\* resetPassword wants a database that is there.
Open(p) ==
    /\ pc[p] = "down"
    /\ p \in Servers \/ disk.file
    /\ Goto(p, "version")
    /\ UNCHANGED <<disk, token, owner, at, ver, tok, goroutines, exits>>

ReadVersion(p) ==
    /\ pc[p] = "version"
    /\ disk' = [disk EXCEPT !.file = TRUE]
    /\ IF disk.ver > 2
       THEN Ended(p)
       ELSE /\ ver' = [ver EXCEPT ![p] = disk.ver]
            /\ at' = [at EXCEPT ![p] = 1]
            /\ Goto(p, "schema")
            /\ UNCHANGED <<tok, goroutines>>
    /\ UNCHANGED <<token, owner, exits>>

Opened(p) == IF p \in Servers THEN "owner" ELSE "reset"
Pending(p) == CASE ver[p] < 1 -> "migrate1"
                [] ver[p] = 1 -> "migrate2"
                [] OTHER -> Opened(p)

\* CREATE TABLE IF NOT EXISTS, INSERT OR IGNORE: each commits by itself.
CreateTable(p) ==
    /\ pc[p] = "schema"
    /\ disk' = [disk EXCEPT !.made = IF at[p] > @ THEN at[p] ELSE @]
    /\ IF at[p] < Statements
       THEN at' = [at EXCEPT ![p] = @ + 1] /\ UNCHANGED pc
       ELSE Goto(p, Pending(p)) /\ UNCHANGED at
    /\ UNCHANGED <<token, owner, ver, tok, goroutines, exits>>

\* First, if it added its columns without noting it, and if columns that are
\* there did not stop it.  Then the real ones:
FirstWithoutVersion(d) == IF d.kinds THEN d ELSE [d EXCEPT !.kinds = TRUE]
FirstAgain(d) == [d EXCEPT !.kinds = TRUE, !.ver = 1]
\* a migration is one transaction: its columns and the version, or, because a
\* column is there already, nothing.
First(d) == IF d.kinds THEN d ELSE [d EXCEPT !.kinds = TRUE, !.ver = 1]
Second(d) == IF d.layouts THEN d ELSE [d EXCEPT !.layouts = TRUE, !.ver = 2]

\* The second migration follows the first (AfterFirstOpened: it was forgotten).
AfterFirstOpened(p) == Opened(p)
AfterFirst(p) == "migrate2"

Migrate1(p) ==
    /\ pc[p] = "migrate1"
    /\ disk' = First(disk)
    /\ IF disk' # disk THEN Goto(p, AfterFirst(p)) /\ UNCHANGED <<at, ver, tok, goroutines>>
                       ELSE Ended(p)
    /\ UNCHANGED <<token, owner, exits>>

Migrate2(p) ==
    /\ pc[p] = "migrate2"
    /\ disk' = Second(disk)
    /\ IF disk' # disk THEN Goto(p, Opened(p)) /\ UNCHANGED <<at, ver, tok, goroutines>>
                       ELSE Ended(p)
    /\ UNCHANGED <<token, owner, exits>>

\* resetPassword's own transaction, for which module Sessions speaks.
ResetPassword(p) ==
    /\ pc[p] = "reset"
    /\ Ended(p)
    /\ UNCHANGED <<disk, token, owner, exits>>
-----------------------------------------------------------------------------
(***************************************************************************)
(* runServer.                                                              *)
(***************************************************************************)
\* The scheduler and the goroutine that shuts the server down start, and
\* ListenAndServe.
Serve(s, t) ==
    /\ Goto(s, "serving")
    /\ tok' = [tok EXCEPT ![s] = t]
    /\ scheduler' = [scheduler EXCEPT ![s] = TRUE]
    /\ UNCHANGED <<cancelled, shutdown>>

\* SELECT COUNT(*) FROM owner.
ReadOwner(s) ==
    /\ pc[s] = "owner"
    /\ IF owner THEN Serve(s, Empty) ELSE Goto(s, "token") /\ UNCHANGED <<tok, goroutines>>
    /\ UNCHANGED <<disk, token, owner, at, ver, exits>>

ReadToken(s) ==
    /\ pc[s] = "token"
    /\ IF token = Absent THEN Goto(s, "create") /\ UNCHANGED <<tok, goroutines>>
                         ELSE Serve(s, token)
    /\ UNCHANGED <<disk, token, owner, at, ver, exits>>

\* os.WriteFile creates or empties the file, and then writes a new token.
CreateToken(s) ==
    /\ pc[s] = "create"
    /\ token' = Empty
    /\ Goto(s, "write")
    /\ UNCHANGED <<disk, owner, at, ver, tok, goroutines, exits>>

WriteToken(s) ==
    /\ pc[s] = "write"
    /\ token' \in Tokens
    /\ Serve(s, token')
    /\ UNCHANGED <<disk, owner, at, ver, exits>>

\* POST /api/setup with the server's token, which an empty one never is.
Setup(s) ==
    /\ pc[s] \in {"serving", "closing"} /\ tok[s] # Empty /\ ~owner
    /\ owner' = TRUE
    /\ UNCHANGED <<disk, token, pc, at, ver, tok, goroutines, exits>>

\* An interrupt, SIGTERM or the Windows service manager's stop.
Signal(s) ==
    /\ pc[s] # "down" /\ ~cancelled[s] /\ exits < MaxExits
    /\ exits' = exits + 1
    /\ cancelled' = [cancelled EXCEPT ![s] = TRUE]
    /\ UNCHANGED <<disk, token, owner, pc, at, ver, tok, scheduler, shutdown>>

SchedulerEnds(s) ==
    /\ scheduler[s] /\ cancelled[s]
    /\ scheduler' = [scheduler EXCEPT ![s] = FALSE]
    /\ UNCHANGED <<disk, token, owner, pc, at, ver, tok, cancelled, shutdown, exits>>

\* <-ctx.Done(); then Shutdown, whose wait for requests ends after 30 seconds.
ShutdownStep(s) ==
    /\ pc[s] \in {"serving", "closing"} /\ cancelled[s] /\ shutdown[s] # "done"
    /\ shutdown' = [shutdown EXCEPT ![s] = IF @ = "waiting" THEN "draining" ELSE "done"]
    /\ UNCHANGED <<disk, token, owner, pc, at, ver, tok, cancelled, scheduler, exits>>

\* ListenAndServe returns once Shutdown was called, also if that was before.
ListenReturns(s) ==
    /\ pc[s] = "serving" /\ shutdown[s] # "waiting"
    /\ Goto(s, "closing")
    /\ UNCHANGED <<disk, token, owner, at, ver, tok, goroutines, exits>>

\* The address is taken: ListenAndServe returns, and stop() ends the context
\* (NotStopped: if it did not).
NotStopped(s) == UNCHANGED cancelled
Stopped(s) == cancelled' = [cancelled EXCEPT ![s] = TRUE]

ListenFails(s) ==
    /\ pc[s] = "serving" /\ exits < MaxExits
    /\ exits' = exits + 1
    /\ Goto(s, "closing")
    /\ Stopped(s)
    /\ UNCHANGED <<disk, token, owner, at, ver, tok, scheduler, shutdown>>

\* <-shutdownDone, <-scanDone, and the database is closed.
Close(s) ==
    /\ pc[s] = "closing" /\ shutdown[s] = "done" /\ ~scheduler[s]
    /\ Ended(s)
    /\ UNCHANGED <<disk, token, owner, exits>>
-----------------------------------------------------------------------------
OpenStep(p) == ReadVersion(p) \/ CreateTable(p) \/ Migrate1(p) \/ Migrate2(p)
ServerStep(s) == \/ OpenStep(s) \/ ReadOwner(s) \/ ReadToken(s) \/ CreateToken(s) \/ WriteToken(s)
                 \/ ListenReturns(s) \/ Close(s)

Next ==
    \/ \E p \in Procs : Open(p) \/ Exit(p)
    \/ \E p \in Resets : OpenStep(p) \/ ResetPassword(p)
    \/ \E s \in Servers : \/ ServerStep(s) \/ Setup(s) \/ Signal(s) \/ ListenFails(s)
                          \/ SchedulerEnds(s) \/ ShutdownStep(s)

Spec == Init /\ [][Next]_vars

(***************************************************************************)
(* A server's goroutines run, and somebody, or the service manager, starts *)
(* a server again that is down.                                            *)
(***************************************************************************)
Fairness == \A s \in Servers : /\ WF_vars(Open(s))
                               /\ WF_vars(ServerStep(s))
                               /\ WF_vars(SchedulerEnds(s))
                               /\ WF_vars(ShutdownStep(s))
FairSpec == Spec /\ Fairness
-----------------------------------------------------------------------------
TypeOK ==
    /\ disk \in Disks
    /\ token \in Tokens \cup {Absent, Empty}
    /\ owner \in BOOLEAN
    /\ pc \in [Procs -> {"down", "version", "schema", "migrate1", "migrate2", "reset", "owner",
                         "token", "create", "write", "serving", "closing"}]
    /\ at \in [Procs -> 1..Statements]
    /\ ver \in [Procs -> 0..2]
    /\ tok \in [Servers -> Tokens \cup {Empty}]
    /\ cancelled \in [Servers -> BOOLEAN]
    /\ scheduler \in [Servers -> BOOLEAN]
    /\ shutdown \in [Servers -> {"waiting", "draining", "done"}]
    /\ exits \in 0..MaxExits

\* p is past openStore.
Past(p) == pc[p] \in {"reset", "owner", "token", "create", "write", "serving", "closing"}

(* A process that uses the database finds every table and column of this   *)
(* build, also when another process migrates it at the same time, and      *)
(* wherever an earlier start was cut off.                                  *)
SchemaComplete == \A p \in Procs : Past(p) => disk = Release(2)

(* Nobody undoes a migration: the version that decides what the next start *)
(* does never goes back, although a process acts on the one it read        *)
(* before it created its tables, and a newer database is left as it is.    *)
VersionsAscend == [][disk'.ver >= disk.ver /\ (disk.ver > 2 => disk' = disk)]_vars

(* Whatever a start that was cut off left, one that is not comes up.       *)
ComesUp == \A s \in Servers : []<>(pc[s] = "serving" \/ disk.ver > 2)

(* A server that is told to stop ends, at whatever point of its start the  *)
(* signal came, and so does one that cannot listen.                        *)
StopsWhenTold ==
    \A s \in Servers : /\ cancelled[s] ~> ~cancelled[s]
                       /\ pc[s] = "closing" ~> pc[s] = "down"

(* "The first start prints a setup token, also stored in data/setup-token. *)
(* Paste it into the setup screen" (README): as long as there is no owner, *)
(* a server has a token to set one up with.                                *)
SetupPossible == \A s \in Servers : pc[s] = "serving" /\ ~owner => tok[s] \in Tokens
=============================================================================
