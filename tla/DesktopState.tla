---------------------------- MODULE DesktopState ----------------------------
(***************************************************************************)
(* What the desktop app's routing commands share: Codex's config.toml, the *)
(* recovery record, the stable front door on :38440, the gateway backend   *)
(* on :38442 and the capture relay on :38441.                              *)
(*                                                                         *)
(* The capture is the traffic Service of TrafficService, seen by a caller  *)
(* that finds no operation in flight: each of its methods is one step.     *)
(***************************************************************************)
EXTENDS RecoveryJournal

CONSTANTS
    MaxRuns,    \* bound on gateway runs
    MaxRelays,  \* bound on capture relays started
    MaxIds,     \* bound on Enable transactions
    MaxTrouble  \* bound on failing writes and listeners, lost gateways, exits of
                \* the app and edits of config.toml, together

ASSUME BoundsAssumption ==
    {MaxRuns, MaxRelays, MaxIds, MaxTrouble} \subseteq Nat

GatewayBackend == "gateway_backend"   \* http://127.0.0.1:38442
CaptureRelay == "capture_relay"       \* http://127.0.0.1:38441
Closed == "closed"

\* The record of the upstream behind the front door was thrown away by the user.
Discarded == "discarded"

ASSUME DoorAssumption ==
    /\ {GatewayBackend, CaptureRelay, Closed, Discarded} \cap Urls = {}

\* The front door forwards to an upstream, to the gateway or to the capture.
Doors == Upstreams \cup {GatewayBackend, CaptureRelay, Closed}

NoRun == 0
Gateway == [run : 0..MaxRuns, up : BOOLEAN, session : BOOLEAN]

\* `gen` counts the relays; it stands for the generation, which also moves when
\* a relay is closed, but is only ever compared while a relay is there.
NoOwner == 0
Capture == [mode : {"idle", "capture_only", "desktop", "recovery"},
            relay : {"none", "capturing", "passthrough", "stopped", "failed"},
            run : 0..MaxRuns, gen : 0..MaxRelays, owner : 0..MaxIds]

\* What has been used up of the bounds.
Budget == [faults : 0..MaxTrouble, exits : 0..MaxTrouble, ids : 0..MaxIds]

VARIABLES
    config,   \* config.toml
    journal,  \* recovery-state-v2.json
    door,     \* a.frontDoor and its upstream
    gw,       \* a.svc and a.session
    cap,      \* a.traffic
    used,     \* history: what has been used up
    replaced, \* history: the upstream the front door took the place of
    userUrl   \* history: what the user last had configured

shared == <<config, journal, door, gw, cap, used, replaced, userUrl>>

SharedTypeOK ==
    /\ config \in Config
    /\ journal \in Journal
    /\ door \in Doors
    /\ gw \in Gateway
    /\ cap \in Capture
    /\ used \in Budget
    /\ replaced \in Upstreams \cup {Discarded}
    /\ userUrl \in Upstreams

SharedInit ==
    /\ \E u \in Upstreams :
         config = [url |-> u, rest |-> 0] /\ userUrl = u /\ replaced = u
    /\ journal = NoJournal
    /\ door = Closed
    /\ gw = [run |-> NoRun, up |-> FALSE, session |-> FALSE]
    /\ cap = [mode |-> "idle", relay |-> "none", run |-> NoRun, gen |-> 0,
              owner |-> NoOwner]
    /\ used = [faults |-> 0, exits |-> 0, ids |-> 0]

-----------------------------------------------------------------------------
(* Writes that may fail.                                                   *)

MoreTrouble == used.faults + used.exits + config.rest < MaxTrouble

Fault == MoreTrouble /\ used' = [used EXCEPT !.faults = @ + 1]
NoFault == UNCHANGED used

\* Store.UpdateOrCreate: an error leaves the file as it was.
Saves(j) == journal' = j /\ NoFault
SaveFails == Fault /\ UNCHANGED journal

\* Best effort: the error is dropped.
SavesOrNot(j) == Saves(j) \/ SaveFails

\* The root URL as this program writes it.
Writes(url) ==
    /\ config' = [config EXCEPT !.url = url]
    /\ replaced' = IF url = FrontDoor /\ config.url # FrontDoor THEN config.url
                   ELSE replaced

\* CommitPreparedRootURLChange: compare-and-swap on the hash.
Commits(url, hash) == config = hash /\ Writes(url) /\ NoFault

\* It refuses a file that has changed; a failing write may or may not have
\* replaced the file before it was reported.
CommitFails(url, hash) ==
    \/ config # hash /\ UNCHANGED <<config, replaced>> /\ NoFault
    \/ /\ config = hash
       /\ Fault
       /\ Writes(url) \/ UNCHANGED <<config, replaced>>

-----------------------------------------------------------------------------
(* The capture (trafficanalysis.Service).                                  *)

Listening == cap.relay \in {"capturing", "passthrough"}

\* BindGatewayRun is refused while a relay is committed.
CanBind == cap.relay = "none"

CanStart ==
    /\ cap.mode \in {"idle", "capture_only"}
    /\ cap.run # NoRun
    /\ cap.relay \in {"none", "stopped"}
    /\ cap.gen < MaxRelays
Started(run) == [cap EXCEPT !.mode = "capture_only", !.relay = "capturing",
                           !.run = run, !.gen = @ + 1]

\* ValidateCaptureExpected, ValidateCaptureOnlyExpected
Matches(gen, run) == cap.gen = gen /\ cap.run = run
IsCaptureOnly(state, gen, run) ==
    cap.mode = "capture_only" /\ cap.relay = state /\ Matches(gen, run)

\* ValidateDesktopIntegrationExpected, ValidateDesktopPassthroughExpected
IsDesktop(state, gen, run, id) ==
    /\ cap.mode = "desktop" /\ cap.relay = state
    /\ Matches(gen, run)
    /\ id # NoOwner /\ cap.owner = id

\* Mutant: a capture of the desktop may be closed too.
CanCloseDesktop == cap.mode # "recovery"

\* CloseCapture: refused to a desktop-managed or recovering capture; a relay
\* that does not close cleanly leaves recovery behind.
CanClose == cap.mode \in {"idle", "capture_only"}
ClosedCapture ==
    [cap EXCEPT !.relay = "none", !.run = NoRun,
                !.mode = IF cap.relay = "none" THEN @ ELSE "idle"]
BadlyClosedCapture == [cap EXCEPT !.relay = "failed", !.mode = "recovery"]

\* MarkGatewayLost, in both of its forms.  A run that stops normally leaves its
\* stopped relay behind; the mode tells the capture of an abnormal end.
AfterStop(run) ==
    IF cap.run # run THEN cap
    ELSE [cap EXCEPT !.mode = "idle", !.run = NoRun,
                     !.relay = IF @ = "none" THEN @ ELSE "stopped"]
AfterLoss(run) ==
    IF cap.run # run THEN cap
    ELSE [cap EXCEPT !.mode = "recovery",
                     !.relay = IF @ = "capturing" THEN "passthrough" ELSE @]

-----------------------------------------------------------------------------
(* The front door (trafficanalysis.CaptureProxy.SetUpstream).  The targets *)
(* are fixed and valid, so that a switch fails only when there is no door. *)

Switch(target) == door # Closed /\ door' = target
=============================================================================
