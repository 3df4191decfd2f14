------------------------------ MODULE Service ------------------------------
(***************************************************************************)
(* "apptrail service": one command at a time, run by the owner, installs,  *)
(* starts, stops and removes the background service through the operating  *)
(* system's service manager (systemd, launchd, Windows services).          *)
(*                                                                         *)
(* A command is a list of calls.  Each may fail, the command may be killed *)
(* and the machine may restart between two of them; nothing is rolled      *)
(* back, and the owner runs a command again.                               *)
(*                                                                         *)
(* Abstracted here: what a definition says (a member of Configs),          *)
(* directories, permissions, the copy of the executable, "service status". *)
(* External: the managers, as the commands use them.                       *)
(***************************************************************************)
EXTENDS Integers, Sequences

CONSTANTS
    Systems,       \* the operating systems: "linux", "darwin", "windows"
    Configs,       \* what the owner installs: executable and arguments
    Foreign,       \* a service definition of the user's own
    None,          \* no definition, no process
    MaxCommands,   \* bound: commands the owner runs before wanting it gone
    MaxFaults      \* bound: failed calls, kills, crashes and restarts

ASSUME SystemsAssumption == Systems \subseteq {"linux", "darwin", "windows"}
ASSUME ServiceNames == {Foreign, None} \cap Configs = {} /\ Foreign # None
ASSUME ServiceBounds == MaxCommands \in Nat /\ MaxFaults \in Nat

VARIABLES
    os,        \* the machine's system
    file,      \* the unit file or property list (none on Windows)
    unit,      \* the definition the manager has loaded; on Windows, has at all
    enabled,   \* it starts by itself (Windows: it is not marked for deletion)
    run,       \* the definition the running process was started from
    wanted,    \* the manager means it to run, and restarts it when it fails
    action,    \* the command
    conf,      \* its configuration
    todo,      \* the calls it has still to make
    told,      \* what it told the owner
    wish,      \* "gone" once the owner wants the service removed
    commands, faults

manager == <<unit, enabled, run, wanted>>
command == <<action, conf, todo, told>>
serviceVars == <<os, file, manager, command, wish, commands, faults>>

Actions == {"install", "uninstall", "start", "stop", "restart"}
Definitions == Configs \cup {Foreign, None}
-----------------------------------------------------------------------------
(***************************************************************************)
(* manageService: the calls of each command.                               *)
(***************************************************************************)
\* LinuxCalls, if the file went before the service was stopped.
LinuxRemovingFirst(a) ==
    CASE a = "install" -> <<"write", "reload", "enable", "restart">>
      [] a = "uninstall" -> <<"check", "remove", "disable", "reload">>
      [] OTHER -> <<"check", a>>

LinuxCalls(a) ==
    CASE a = "install" -> <<"write", "reload", "enable", "restart">>
      [] a = "uninstall" -> <<"check", "disable", "remove", "reload">>
      [] OTHER -> <<"check", a>>

\* DarwinCalls, if an install did not stop what runs.
DarwinKeepingOld(a) ==
    CASE a = "install" -> <<"write", "launch">>
      [] a = "uninstall" -> <<"check", "bootout", "remove">>
      [] a = "start" -> <<"check", "launch">>
      [] a = "stop" -> <<"check", "bootout">>
      [] a = "restart" -> <<"check", "bootout", "launch">>

DarwinCalls(a) ==
    CASE a = "install" -> <<"write", "bootout", "launch">>
      [] a = "uninstall" -> <<"check", "bootout", "remove">>
      [] a = "start" -> <<"check", "launch">>
      [] a = "stop" -> <<"check", "bootout">>
      [] a = "restart" -> <<"check", "bootout", "launch">>

WindowsCalls(a) ==
    CASE a = "install" -> <<"absent", "copy", "create", "run", "awaitRunning">>
      [] a = "uninstall" -> <<"open", "control", "awaitStopped", "delete">>
      [] a = "start" -> <<"open", "query", "run", "awaitRunning">>
      [] a = "stop" -> <<"open", "control", "awaitStopped">>
      [] a = "restart" -> <<"open", "control", "awaitStopped", "run", "awaitRunning">>

Calls(a) == CASE os = "linux" -> LinuxCalls(a)
              [] os = "darwin" -> DarwinCalls(a)
              [] os = "windows" -> WindowsCalls(a)
-----------------------------------------------------------------------------
ServiceInit ==
    /\ os \in Systems
    /\ file \in IF os = "windows" THEN {None} ELSE {None, Foreign}
    /\ unit = None /\ run = None
    /\ enabled = FALSE /\ wanted = FALSE
    /\ action = "stop" /\ conf = None /\ todo = <<>> /\ told = "nothing"
    /\ wish = "any"
    /\ commands = 0 /\ faults = 0

Idle == todo = <<>>

\* What "apptrail service" installed is not there and will not come back.
Removed == /\ file \notin Configs /\ run \notin Configs
           /\ os = "windows" => unit \notin Configs

Begin(a, c) == /\ Idle
               /\ action' = a /\ conf' = c /\ todo' = Calls(a) /\ told' = "nothing"
               /\ UNCHANGED <<os, file, manager, faults>>

\* The owner runs a command; wants the service gone; and then runs "uninstall"
\* until it is.
ServiceCommand(a, c) == /\ wish = "any" /\ commands < MaxCommands
                        /\ a = "install" <=> c \in Configs
                        /\ Begin(a, c)
                        /\ commands' = commands + 1
                        /\ UNCHANGED wish
WantGone == /\ wish = "any" /\ Idle /\ wish' = "gone"
            /\ UNCHANGED <<os, file, manager, command, commands, faults>>
UninstallAgain == /\ wish = "gone" /\ ~Removed
                  /\ Begin("uninstall", None)
                  /\ UNCHANGED <<wish, commands>>

\* A call is made, and the last one ends the command; it makes the next one
\* needless; or it ends the command early, with nothing left to do or with an
\* error message.
Succeed == /\ todo' = Tail(todo)
           /\ told' = IF Len(todo) = 1 THEN "ok" ELSE told
           /\ UNCHANGED <<os, action, conf, wish, commands, faults>>
SkipWait == /\ todo' = Tail(Tail(todo))
            /\ told' = IF Len(todo) = 2 THEN "ok" ELSE told
            /\ UNCHANGED <<os, action, conf, wish, commands, faults>>
FinishEarly == /\ todo' = <<>> /\ told' = "ok"
               /\ UNCHANGED <<os, action, conf, wish, commands, faults>>
Refuse == /\ todo' = <<>> /\ told' = "error"
          /\ UNCHANGED <<os, file, manager, action, conf, wish, commands, faults>>

At(call) == todo # <<>> /\ Head(todo) = call
-----------------------------------------------------------------------------
(***************************************************************************)
(* The definition file: managedFile and writeServiceFile.                  *)
(***************************************************************************)
CheckFile ==
    /\ At("check")
    /\ IF file \in Configs THEN Succeed /\ UNCHANGED <<file, manager>> ELSE Refuse

WriteFile ==
    /\ At("write")
    /\ IF file = Foreign THEN Refuse
       ELSE file' = conf /\ Succeed /\ UNCHANGED manager

\* os.Remove fails when there is no file.
RemoveFile ==
    /\ At("remove")
    /\ IF file = None THEN Refuse
       ELSE file' = None /\ Succeed /\ UNCHANGED manager
-----------------------------------------------------------------------------
(***************************************************************************)
(* systemctl --user.                                                       *)
(***************************************************************************)
\* What a manager starts: a definition it has not loaded is read from its file.
Loaded == IF unit = None THEN file ELSE unit

DaemonReload ==
    /\ At("reload")
    /\ unit' = file
    /\ Succeed /\ UNCHANGED <<file, enabled, run, wanted>>

Enable ==
    /\ At("enable")
    /\ IF file = None THEN Refuse
       ELSE enabled' = TRUE /\ Succeed /\ UNCHANGED <<file, unit, run, wanted>>

DisableNow ==
    /\ At("disable")
    /\ IF file = None THEN Refuse
       ELSE /\ enabled' = FALSE /\ run' = None /\ wanted' = FALSE
            /\ Succeed /\ UNCHANGED <<file, unit>>

\* "systemctl restart" starts from what is loaded; "start" leaves a running
\* process alone.
StartUnit ==
    /\ At("restart") \/ At("start")
    /\ IF Loaded = None THEN Refuse
       ELSE /\ unit' = Loaded /\ wanted' = TRUE
            /\ run' = IF At("start") /\ run # None THEN run ELSE Loaded
            /\ Succeed /\ UNCHANGED <<file, enabled>>

StopUnit ==
    /\ At("stop")
    /\ run' = None /\ wanted' = FALSE
    /\ Succeed /\ UNCHANGED <<file, unit, enabled>>
-----------------------------------------------------------------------------
(***************************************************************************)
(* launchctl: stop boots a loaded agent out; start kicks a loaded one, as  *)
(* it was loaded, and bootstraps one that is not from its file.            *)
(***************************************************************************)
Bootout ==
    /\ At("bootout")
    /\ unit' = None /\ run' = None /\ wanted' = FALSE
    /\ Succeed /\ UNCHANGED <<file, enabled>>

Launch ==
    /\ At("launch")
    /\ IF Loaded = None THEN Refuse
       ELSE /\ unit' = Loaded /\ wanted' = TRUE
            /\ run' = IF run = None THEN Loaded ELSE run
            /\ Succeed /\ UNCHANGED <<file, enabled>>
-----------------------------------------------------------------------------
(***************************************************************************)
(* Windows.  A service that is deleted while it runs stays, marked for     *)
(* deletion, until it stops.                                               *)
(***************************************************************************)
CheckAbsent ==
    /\ At("absent")
    /\ IF unit # None THEN Refuse ELSE Succeed /\ UNCHANGED <<file, manager>>
CopyExecutable == At("copy") /\ Succeed /\ UNCHANGED <<file, manager>>
CreateService ==
    /\ At("create")
    /\ unit' = conf /\ enabled' = TRUE
    /\ Succeed /\ UNCHANGED <<file, run, wanted>>

OpenService ==
    /\ At("open")
    /\ IF unit = None THEN Refuse ELSE Succeed /\ UNCHANGED <<file, manager>>

QueryRunning ==
    /\ At("query")
    /\ IF run # None THEN FinishEarly ELSE Succeed
    /\ UNCHANGED <<file, manager>>

StartService ==
    /\ At("run")
    /\ IF run # None \/ ~enabled THEN Refuse
       ELSE run' = unit /\ wanted' = TRUE /\ Succeed /\ UNCHANGED <<file, unit, enabled>>

\* stopWindowsService: when the process is not running there is nothing to
\* stop or to wait for, although the manager may be about to restart it.
StopWindowsService ==
    /\ At("control")
    /\ IF run = None THEN SkipWait /\ UNCHANGED wanted ELSE Succeed /\ wanted' = FALSE
    /\ UNCHANGED <<file, unit, enabled, run>>

\* waitWindowsService gives up after 45 seconds.
Awaited == IF At("awaitRunning") THEN run # None ELSE run = None
WaitWindowsService ==
    /\ At("awaitRunning") \/ At("awaitStopped")
    /\ IF Awaited THEN Succeed /\ UNCHANGED <<file, manager>> ELSE Refuse

DeleteService ==
    /\ At("delete")
    /\ IF ~enabled THEN Refuse
       ELSE /\ enabled' = FALSE
            /\ unit' = IF run = None THEN None ELSE unit
            /\ wanted' = (wanted /\ run # None)
            /\ Succeed /\ UNCHANGED <<file, run>>
-----------------------------------------------------------------------------
(***************************************************************************)
(* What happens beside the commands.                                       *)
(***************************************************************************)
Fault == faults < MaxFaults /\ faults' = faults + 1

\* A call fails, or the command is killed before it.
Fail == /\ ~Idle /\ Fault
        /\ todo' = <<>> /\ told' = "error"
        /\ UNCHANGED <<os, file, manager, action, conf, wish, commands>>

\* A process that was told to stop ends; a deleted service goes with it.
ProcessEnds ==
    /\ run # None /\ ~wanted
    /\ run' = None
    /\ unit' = IF os = "windows" /\ ~enabled THEN None ELSE unit
    /\ UNCHANGED <<os, file, enabled, wanted, command, wish, commands, faults>>

ProcessFails ==
    /\ run # None /\ Fault
    /\ run' = None
    /\ unit' = IF os = "windows" /\ ~enabled THEN None ELSE unit
    /\ UNCHANGED <<os, file, enabled, wanted, command, wish, commands>>

\* Restart=on-failure, KeepAlive, SetRecoveryActions.
ManagerRestarts ==
    /\ run = None /\ wanted /\ unit # None
    /\ run' = unit
    /\ UNCHANGED <<os, file, unit, enabled, wanted, command, wish, commands, faults>>

\* The machine restarts and the user logs in.
Reboot ==
    /\ Fault
    /\ unit' = IF os = "windows" THEN (IF enabled THEN unit ELSE None) ELSE file
    /\ run' = IF os = "linux" /\ ~enabled THEN None ELSE unit'
    /\ wanted' = (run' # None)
    /\ todo' = <<>>
    /\ told' = IF Idle THEN told ELSE "nothing"
    /\ UNCHANGED <<os, file, enabled, action, conf, wish, commands>>

\* The user takes a definition of his own away, as the message asks.
TakeAway == /\ Idle /\ file = Foreign
            /\ file' = None
            /\ UNCHANGED <<os, manager, command, wish, commands, faults>>
-----------------------------------------------------------------------------
Call ==
    \/ CheckFile \/ WriteFile \/ RemoveFile
    \/ DaemonReload \/ Enable \/ DisableNow \/ StartUnit \/ StopUnit
    \/ Bootout \/ Launch
    \/ CheckAbsent \/ CopyExecutable \/ CreateService \/ OpenService \/ QueryRunning
    \/ StartService \/ StopWindowsService \/ WaitWindowsService \/ DeleteService

ServiceNext ==
    \/ \E a \in Actions, c \in Configs \cup {None} : ServiceCommand(a, c)
    \/ WantGone \/ UninstallAgain
    \/ Call
    \/ Fail \/ ProcessEnds \/ ProcessFails \/ ManagerRestarts \/ Reboot \/ TakeAway

ServiceSpec == ServiceInit /\ [][ServiceNext]_serviceVars

(***************************************************************************)
(* A command that was started runs to its end, a process that was told to  *)
(* stop ends (module Server), and an owner who wants the service gone      *)
(* repeats the command.                                                    *)
(***************************************************************************)
ServiceFairSpec ==
    /\ ServiceSpec
    /\ WF_serviceVars(Call) /\ WF_serviceVars(ProcessEnds) /\ WF_serviceVars(UninstallAgain)
-----------------------------------------------------------------------------
(* "Installation enables automatic startup and starts the service          *)
(* immediately" (services guide): an install that says so has the service  *)
(* running from what was installed now, and again at the next login,       *)
(* whatever an earlier command left half done.                             *)
StartsAtLogin == IF os = "windows" THEN enabled ELSE os = "linux" => enabled
InstallTakesEffect ==
    [][told # "ok" /\ told' = "ok" /\ action = "install"
         => /\ run' = conf /\ unit' = conf /\ wanted'
            /\ os # "windows" => file' = conf
            /\ StartsAtLogin']_serviceVars

(* "Uninstall stops the service and removes its registration" (services    *)
(* guide): wherever an earlier command, or an earlier uninstall, stopped,  *)
(* an owner who repeats it is rid of the service in the end.               *)
UninstallFinishes == wish = "gone" ~> Removed
=============================================================================
