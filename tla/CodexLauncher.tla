---------------------------- MODULE CodexLauncher ----------------------------
(***************************************************************************)
(* The Codex terminal (internal/service/codexlauncher) and the home it is  *)
(* started on, which the publisher of PublishRecovery replaces first.      *)
(*                                                                         *)
(* Launch, Stop and Restart are called under the desktop app's codexMu, so *)
(* one of them is under way at a time and `stage` is its next step; the    *)
(* monitor goroutine and the terminal itself run beside it.  That mutex    *)
(* also keeps every `gen != l.gen` comparison from ever being true, which  *)
(* is why generations are left out.                                        *)
(***************************************************************************)
EXTENDS PublishRecovery

VARIABLES
    status,  \* l.status
    run,     \* l.run is set: the monitor and Stop know the terminal
    reason,  \* l.stopReason
    term,    \* the terminal process
    stage,   \* next step of the command under way
    again    \* it is a Restart, which launches after it has stopped

launcherVars == <<status, run, reason, term, stage, again>>
vars == <<publishVars, launcherVars>>

Statuses == {"idle", "starting", "running", "stopping", "stopped", "error"}
Reasons == {"none", "graceful", "shutdown", "timeout_force", "terminal_closed"}
Stages == {"none", "stage_files", "publish", "start", "register",
           "signal", "wait", "kill"}

LauncherTypeOK ==
    /\ status \in Statuses /\ run \in BOOLEAN /\ reason \in Reasons
    /\ term \in {"none", "alive", "exited"}
    /\ stage \in Stages /\ again \in BOOLEAN
AllTypesOK == TypeOK /\ LauncherTypeOK

Init ==
    /\ PublishInit
    /\ status = "idle" /\ run = FALSE /\ reason = "none"
    /\ term = "none" /\ stage = "none" /\ again = FALSE

Busy == {"starting", "running", "stopping"}

-----------------------------------------------------------------------------
(* Launch                                                                  *)

\* Mutant: a stop that timed out leaves a terminal behind, and a launch that
\* is let through.
LaunchWhileStopping ==
    /\ status \notin Busy \ {"stopping"}
    /\ status' = "starting" /\ stage' = "stage_files"

BeginLaunch ==
    /\ status \notin Busy
    /\ status' = "starting" /\ stage' = "stage_files"

Launch ==
    /\ stage = "none" /\ BeginLaunch
    /\ UNCHANGED <<publishVars, run, reason, term, again>>

\* failLaunch
Fail == status' = "error" /\ run' = FALSE /\ stage' = "none"

\* Codex is not found, the route is not there, the files cannot be generated,
\* the app is shutting down; after the publish, the project directory is not
\* there or the process does not start.
LaunchFails ==
    /\ stage \in {"stage_files", "start"} /\ Fail
    /\ UNCHANGED <<publishVars, reason, term, again>>

LaunchPublishes ==
    /\ stage = "stage_files" /\ stage' = "publish"
    /\ Refuse \/ \E in \in Inputs : Begin(in)
    /\ UNCHANGED <<status, run, reason, term, again>>

\* publishStaged returns.
LaunchPublished ==
    /\ stage = "publish" /\ pc = "idle"
    /\ IF published THEN stage' = "start" /\ UNCHANGED <<status, run>> ELSE Fail
    /\ UNCHANGED <<publishVars, reason, term, again>>

StartTerminal ==
    /\ stage = "start"
    /\ term' = "alive" /\ stage' = "register"
    /\ UNCHANGED <<publishVars, status, run, reason, again>>

RegisterRun ==
    /\ stage = "register" /\ stage' = "none"
    /\ run' = TRUE /\ status' = "running" /\ reason' = "none"
    /\ UNCHANGED <<publishVars, term, again>>

-----------------------------------------------------------------------------
(* The terminal, and the monitor that waits for it.                        *)

TerminalExits ==
    /\ term = "alive" /\ term' = "exited"
    /\ UNCHANGED <<publishVars, status, run, reason, stage, again>>

MonitorRun ==
    /\ run /\ term = "exited"
    /\ term' = "none" /\ run' = FALSE
    /\ status' = "stopped"
    /\ reason' = IF reason = "none" THEN "terminal_closed" ELSE reason
    /\ UNCHANGED <<publishVars, stage, again>>

-----------------------------------------------------------------------------
(* Stop and Restart                                                        *)

\* Nothing to stop: Restart goes on to its launch, if it is let through.
NextAfterStop(restart) ==
    IF restart /\ status \notin Busy
    THEN status' = "starting" /\ stage' = "stage_files"
    ELSE stage' = "none" /\ UNCHANGED status

StopNothing(restart) ==
    /\ stage = "none" /\ ~run
    /\ NextAfterStop(restart)
    /\ UNCHANGED <<publishVars, run, reason, term, again>>

Stop(why, restart) ==
    /\ stage = "none" /\ run
    /\ status' = "stopping" /\ reason' = why
    /\ stage' = "signal" /\ again' = restart
    /\ UNCHANGED <<publishVars, run, term>>

\* The CTRL_BREAK is sent, or cannot be and the terminal is killed at once.
Signal ==
    /\ stage = "signal" /\ stage' \in {"wait", "kill"}
    /\ UNCHANGED <<publishVars, status, run, reason, term, again>>

\* The monitor is done in time, or the graceful timeout passes.
Wait ==
    /\ stage = "wait"
    /\ \/ ~run /\ NextAfterStop(again)
       \/ stage' = "kill" /\ UNCHANGED status
    /\ UNCHANGED <<publishVars, run, reason, term, again>>

\* Mutant: a stop that gives up forgets the terminal.
KillForgets ==
    /\ stage = "kill"
    /\ \/ ~run /\ reason' = "timeout_force" /\ NextAfterStop(again) /\ UNCHANGED run
       \/ stage' = "none" /\ status' = "stopped" /\ run' = FALSE /\ UNCHANGED reason
    /\ UNCHANGED <<publishVars, term, again>>

\* TerminateJobObject, whose error is ignored; then the monitor is done, or the
\* force timeout passes and Stop reports an error, which ends a Restart.
\* finishStop rewrites the reason.
Kill ==
    /\ stage = "kill"
    /\ \/ ~run /\ reason' = "timeout_force" /\ NextAfterStop(again)
       \/ stage' = "none" /\ UNCHANGED <<status, reason>>
    /\ UNCHANGED <<publishVars, run, term, again>>

-----------------------------------------------------------------------------
\* The process dies and its terminal with it: the job is closed by the system.
Crash ==
    /\ PublishCrash
    /\ status' = "idle" /\ run' = FALSE /\ reason' = "none"
    /\ term' = "none" /\ stage' = "none" /\ again' = FALSE

Publisher ==
    /\ PublishSteps \/ RollbackSteps \/ ReconcileSteps \/ EditHome \/ EditBackout
    /\ UNCHANGED launcherVars

LaunchSteps ==
    \/ Launch \/ LaunchFails \/ LaunchPublishes \/ LaunchPublished
    \/ StartTerminal \/ RegisterRun
TerminalSteps == TerminalExits \/ MonitorRun
StopSteps ==
    \/ \E restart \in BOOLEAN : StopNothing(restart)
    \/ \E restart \in BOOLEAN, why \in {"graceful", "shutdown"} : Stop(why, restart)
    \/ Signal \/ Wait \/ Kill

Next == Publisher \/ LaunchSteps \/ TerminalSteps \/ StopSteps \/ Crash

Spec == Init /\ [][Next]_vars

-----------------------------------------------------------------------------
\* A terminal that is up runs on the home that was published for it: the launch
\* waited for all of it, and no publish begins while it is there.
TerminalRunsOnItsHome ==
    term = "alive" /\ ~touched => home = mem.expected /\ ~Open

\* A terminal that is up can be stopped: unless a launch is still registering
\* it, the launcher knows it and says so.
TerminalIsOwned ==
    term = "alive" /\ stage # "register" => run /\ status \in {"running", "stopping"}

\* No terminal is left behind: what is up can be stopped, and is on the home of
\* its launch (Launch, Stop and the monitor of the terminal).
TerminalIsAccountedFor == TerminalRunsOnItsHome /\ TerminalIsOwned
=============================================================================
