---------------------------------- MODULE Gui ----------------------------------
(***************************************************************************)
(* The unprivileged application: src/main.rs (the connect and disconnect   *)
(* threads and the 3-second poll) and the healing thread of src/route.rs.  *)
(* `busy` keeps the connect and the disconnect thread apart, so one        *)
(* variable holds whichever runs; busy is `thread # "idle"`.               *)
(***************************************************************************)
EXTENDS Machine

CONSTANTS
  MaxAttempts,   \* MAX_ATTEMPTS of the healing thread
  MaxRestarts    \* bound: times the user quits the application

ASSUME GuiAssumption == MaxAttempts \in Nat \ {0} /\ MaxRestarts \in Nat

VARIABLES
  running,    \* the application process exists
  vpnStatus,  \* SstpApp.vpn_status
  thread,     \* the connect or disconnect thread
  heal,       \* the healing thread; HEALING_IN_PROGRESS is heal.pc # "idle"
  restarts    \* how often the application has quit

guiVars == <<running, vpnStatus, thread, heal, restarts>>
machineVars == <<fileVars, route, hostRoute, elevated, workers>>
sessionVars == <<status, marker, password, snapshot, route, hostRoute, elevated, workers,
                 running, vpnStatus, thread, heal, restarts>>

NotHealing == [pc |-> "idle", gateway |-> None, attempt |-> 0]

GuiTypeOK ==
  /\ running \in BOOLEAN /\ restarts \in 0 .. MaxRestarts
  /\ vpnStatus \in {"Disconnected", "Connecting", "Connected"}
  /\ thread \in {"idle", "staging", "staged", "launching",
                 "requesting", "waiting", "forcing", "finishing", "forgetting", "healing"}
  /\ heal \in [pc : {"idle", "starting", "prompting", "sleeping"},
               gateway : Sessions \cup {Phys, None}, attempt : 0 .. MaxAttempts]

GuiInit ==
  /\ running = TRUE /\ restarts = 0
  /\ vpnStatus = "Disconnected" /\ thread = "idle" /\ heal = NotHealing

Busy == thread # "idle"

-------------------------------------------------------------------------------
(* heal_route_if_broken, lines 161-169, called with the status file `st`.   *)
(* A healthy route also throws the snapshot away.                           *)
WrongHealRouteIfBroken(st) ==      \* does not look for a healing in progress
  \/ HasDefaultRoute(st) /\ snapshot' = None /\ UNCHANGED heal
  \/ ~HasDefaultRoute(st) /\ heal' = [NotHealing EXCEPT !.pc = "starting"] /\ UNCHANGED snapshot

HealRouteIfBroken(st) ==
  \/ HasDefaultRoute(st) /\ snapshot' = None /\ UNCHANGED heal
  \/ ~HasDefaultRoute(st) /\ heal.pc # "idle" /\ UNCHANGED <<snapshot, heal>>
  \/ ~HasDefaultRoute(st) /\ heal.pc = "idle" /\ heal' = [NotHealing EXCEPT !.pc = "starting"]
     /\ UNCHANGED snapshot

Prompt(owner, gateway, kill) ==
  elevated' = elevated \cup {[owner |-> owner, gateway |-> gateway, kill |-> kill]}

PromptOpen(owner) == \E c \in elevated : c.owner = owner

(* Lines 170-182: the thread reads the snapshot and asks for the repair, or *)
(* for the clean-up alone when there is nothing to restore.                 *)
HealStarts ==
  /\ heal.pc = "starting"
  /\ heal' = [pc |-> "prompting", gateway |-> snapshot, attempt |-> 1]
  /\ Prompt("heal", snapshot, PidToKill(status))
  /\ UNCHANGED <<fileVars, route, hostRoute, workers, running, vpnStatus, thread, restarts>>

HealPrompted == heal.pc = "prompting" /\ ~PromptOpen("heal")

HealHasNothing ==
  /\ HealPrompted /\ heal.gateway = None
  /\ heal' = NotHealing
  /\ UNCHANGED <<machineVars, running, vpnStatus, thread, restarts>>

HealSucceeds ==
  /\ HealPrompted /\ heal.gateway # None /\ HasDefaultRoute(status)
  /\ snapshot' = None
  /\ heal' = NotHealing
  /\ UNCHANGED <<status, marker, password, route, hostRoute, elevated, workers,
                 running, vpnStatus, thread, restarts>>

WrongAttemptsLeft == heal.attempt <= MaxAttempts

AttemptsLeft == heal.attempt < MaxAttempts

WrongHealFails ==      \* gives the snapshot up with the last attempt
  /\ HealPrompted /\ heal.gateway # None /\ ~HasDefaultRoute(status)
  /\ IF AttemptsLeft
     THEN heal' = [heal EXCEPT !.pc = "sleeping"] /\ UNCHANGED snapshot
     ELSE heal' = NotHealing /\ snapshot' = None
  /\ UNCHANGED <<status, marker, password, route, hostRoute, elevated, workers,
                 running, vpnStatus, thread, restarts>>

HealFails ==
  /\ HealPrompted /\ heal.gateway # None /\ ~HasDefaultRoute(status)
  /\ heal' = IF AttemptsLeft THEN [heal EXCEPT !.pc = "sleeping"] ELSE NotHealing
  /\ UNCHANGED <<machineVars, running, vpnStatus, thread, restarts>>

(* The next attempt does not look at the route again first. *)
HealRetries ==
  /\ heal.pc = "sleeping"
  /\ heal' = [heal EXCEPT !.pc = "prompting", !.attempt = @ + 1]
  /\ Prompt("heal", heal.gateway, PidToKill(status))
  /\ UNCHANGED <<fileVars, route, hostRoute, workers, running, vpnStatus, thread, restarts>>

HealStep == HealStarts \/ HealHasNothing \/ HealSucceeds \/ HealFails \/ HealRetries

-------------------------------------------------------------------------------
(* spawn_connect, lines 245-323.  The button and the menu item are disabled *)
(* while busy and while not disconnected.                                   *)
SpawnConnect ==
  /\ running /\ ~Busy /\ vpnStatus = "Disconnected"
  /\ \E w \in Sessions : workers[w].pc = "unborn"
  /\ thread' = "staging" /\ vpnStatus' = "Connecting"
  /\ UNCHANGED <<machineVars, running, heal, restarts>>

ConnectAborts ==      \* an empty field, or the password cannot be staged
  /\ thread = "staging"
  /\ thread' = "idle" /\ vpnStatus' = "Disconnected"
  /\ UNCHANGED <<machineVars, running, heal, restarts>>

StagePassword ==
  /\ thread = "staging"
  /\ password' = TRUE /\ thread' = "staged"
  /\ UNCHANGED <<status, marker, snapshot, route, hostRoute, elevated, workers,
                 running, vpnStatus, heal, restarts>>

WrongForgetLastSession ==      \* leaves the status of the last session
  /\ thread = "staged"
  /\ marker' = FALSE /\ thread' = "launching"
  /\ UNCHANGED <<status, password, snapshot, route, hostRoute, elevated, workers,
                 running, vpnStatus, heal, restarts>>

(* clear_status and clear_disconnect_request, as one step. *)
ForgetLastSession ==
  /\ thread = "staged"
  /\ status' = None /\ marker' = FALSE /\ thread' = "launching"
  /\ UNCHANGED <<password, snapshot, route, hostRoute, elevated, workers,
                 running, vpnStatus, heal, restarts>>

(* The thread that waits for the worker's prompt touches nothing else.      *)
LaunchWorker(w) ==
  /\ thread = "launching"
  /\ workers[w].pc = "unborn" /\ \A v \in 1 .. w - 1 : workers[v].pc # "unborn"
  /\ snapshot' = SavedSnapshot(status)
  /\ workers' = [workers EXCEPT ![w].pc = "asked"]
  /\ thread' = "idle"
  /\ UNCHANGED <<status, marker, password, route, hostRoute, elevated,
                 running, vpnStatus, heal, restarts>>

-------------------------------------------------------------------------------
(* spawn_disconnect, lines 331-377. *)
SpawnDisconnect ==
  /\ running /\ ~Busy /\ vpnStatus # "Disconnected"
  /\ thread' = "requesting"
  /\ UNCHANGED <<machineVars, running, vpnStatus, heal, restarts>>

RequestDisconnect ==
  /\ thread = "requesting"
  /\ marker' = TRUE /\ thread' = "waiting"
  /\ UNCHANGED <<status, password, snapshot, route, hostRoute, elevated, workers,
                 running, vpnStatus, heal, restarts>>

Confirmed == RecordedState(status) \in {"Disconnected", "Error", None}

DisconnectConfirmed ==
  /\ thread = "waiting" /\ Confirmed
  /\ thread' = "finishing"
  /\ UNCHANGED <<machineVars, running, vpnStatus, heal, restarts>>

(* Ten seconds went by: the recorded pid, if it is alive, is to be killed.  *)
DisconnectTimesOut ==
  /\ thread = "waiting"
  /\ thread' = "forcing"
  /\ IF PidToKill(status) # None THEN Prompt("disconnect", None, PidToKill(status))
                                  ELSE UNCHANGED elevated
  /\ UNCHANGED <<fileVars, route, hostRoute, workers, running, vpnStatus, heal, restarts>>

WrongDisconnectForced ==      \* leaves only once the worker is known to be dead
  /\ thread = "forcing" /\ ~PromptOpen("disconnect") /\ PidToKill(status) = None
  /\ thread' = "finishing"
  /\ UNCHANGED <<machineVars, running, vpnStatus, heal, restarts>>

DisconnectForced ==
  /\ thread = "forcing" /\ ~PromptOpen("disconnect")
  /\ thread' = "finishing"
  /\ UNCHANGED <<machineVars, running, vpnStatus, heal, restarts>>

(* Lines 366-375, with other processes between any two of the effects. *)
WithdrawRequest ==
  /\ thread = "finishing"
  /\ marker' = FALSE /\ thread' = "forgetting"
  /\ UNCHANGED <<status, password, snapshot, route, hostRoute, elevated, workers,
                 running, vpnStatus, heal, restarts>>

ForgetStatus ==
  /\ thread = "forgetting"
  /\ status' = None /\ vpnStatus' = "Disconnected" /\ thread' = "healing"
  /\ UNCHANGED <<marker, password, snapshot, route, hostRoute, elevated, workers,
                 running, heal, restarts>>

HealAfterDisconnect ==
  /\ thread = "healing"
  /\ HealRouteIfBroken(status)
  /\ thread' = "idle"
  /\ UNCHANGED <<status, marker, password, route, hostRoute, elevated, workers,
                 running, vpnStatus, restarts>>

ThreadStep == \/ ConnectAborts \/ StagePassword \/ ForgetLastSession
              \/ (\E w \in Sessions : LaunchWorker(w))
              \/ RequestDisconnect \/ DisconnectConfirmed \/ DisconnectTimesOut
              \/ DisconnectForced
              \/ WithdrawRequest \/ ForgetStatus \/ HealAfterDisconnect

-------------------------------------------------------------------------------
(* The poll, lines 568-633. *)
WorkerUp == RecordedState(status) = "Connected" /\ PidAlive(RecordedPid(status))

WorkerGaveUp == \/ RecordedState(status) \in {"Error", "Disconnected", None}
                \/ ~PidAlive(RecordedPid(status))

WrongPolled ==      \* a tunnel found up by an application just started is not shown
  CASE vpnStatus = "Connected" /\ ~WorkerUp                    -> "Disconnected"
    [] vpnStatus = "Connecting" /\ WorkerUp                    -> "Connected"
    [] vpnStatus = "Connecting" /\ ~WorkerUp /\ WorkerGaveUp   -> "Disconnected"
    [] OTHER                                                   -> vpnStatus

WrongDropPolled ==      \* only a failed attempt is taken off the display
  CASE WorkerUp                                              -> "Connected"
    [] vpnStatus = "Connecting" /\ ~WorkerUp /\ WorkerGaveUp -> "Disconnected"
    [] OTHER                                                 -> vpnStatus

Polled == CASE WorkerUp                                             -> "Connected"
            [] vpnStatus = "Connected" /\ ~WorkerUp                 -> "Disconnected"
            [] vpnStatus = "Connecting" /\ ~WorkerUp /\ WorkerGaveUp -> "Disconnected"
            [] OTHER                                                -> vpnStatus

TunnelDropped == vpnStatus = "Connected" /\ ~WorkerUp

Poll ==
  /\ running /\ ~Busy
  /\ vpnStatus' = Polled
  /\ IF TunnelDropped THEN HealRouteIfBroken(status) ELSE UNCHANGED <<snapshot, heal>>
  /\ UNCHANGED <<status, marker, password, route, hostRoute, elevated, workers,
                 running, thread, restarts>>

(* The same poll, 30 seconds after the last healing it asked for.           *)
PollHealsAgain ==
  /\ running /\ ~Busy /\ ~TunnelDropped
  /\ vpnStatus' = Polled /\ vpnStatus' = "Disconnected"
  /\ ~HasDefaultRoute(status) /\ HealRouteIfBroken(status)
  /\ UNCHANGED <<status, marker, password, route, hostRoute, elevated, workers,
                 running, thread, restarts>>

-------------------------------------------------------------------------------
(* Quit ends the process and every thread of it; its prompts stay open.     *)
Quit ==
  /\ running /\ restarts < MaxRestarts
  /\ running' = FALSE /\ restarts' = restarts + 1
  /\ vpnStatus' = "Disconnected" /\ thread' = "idle" /\ heal' = NotHealing
  /\ elevated' = {[c EXCEPT !.owner = "orphan"] : c \in elevated}
  /\ UNCHANGED <<fileVars, route, hostRoute, workers>>

(* SstpApp::new, lines 183-200. *)
LaunchApp ==
  /\ ~running
  /\ running' = TRUE
  /\ marker' = FALSE
  /\ IF HasDefaultRoute(status) THEN UNCHANGED <<snapshot, heal>> ELSE HealRouteIfBroken(status)
  /\ UNCHANGED <<status, password, route, hostRoute, elevated, workers,
                 vpnStatus, thread, restarts>>

GuiNext == \/ SpawnConnect \/ SpawnDisconnect \/ ThreadStep
           \/ Poll \/ PollHealsAgain \/ HealStep
           \/ Quit \/ LaunchApp
===============================================================================
