----------------------------- MODULE SessionProofs -----------------------------
(***************************************************************************)
(* Theorems about Session, for any number of sessions, healing attempts    *)
(* and restarts of the application, and every interleaving.                *)
(***************************************************************************)
EXTENDS MCSession, TLAPS

USE DEF Sessions

(* StatusOf makes a status file of the type. *)
LEMMA StatusOfType ==
  ASSUME NEW state \in States, NEW pid \in Sessions \cup {None}, NEW i \in Sessions \cup {None}
  PROVE  StatusOf(state, pid, i) \in Status
BY DEF StatusOf, Status

(* A worker that goes on, or dies, is still one. *)
LEMMA WorkerGoesType ==
  ASSUME MachineTypeOK, NEW w \in Sessions,
         NEW pc \in {"asked", "born", "starting", "resolving", "running", "repointing", "unrouted",
                     "reporting", "closing", "closed", "drainOk", "drainError", "exiting", "gone"}
  PROVE  /\ Goes(w, pc) => workers' \in [Sessions -> WorkerType]
         /\ Die(w) => workers' \in [Sessions -> WorkerType]
BY DEF MachineTypeOK, WorkerType, Goes, Die

(* So is one whose fields change within their types. *)
LEMMA WorkerFieldsType ==
  ASSUME MachineTypeOK, NEW w \in Sessions
  PROVE  /\ [workers EXCEPT ![w].torn = TRUE] \in [Sessions -> WorkerType]
         /\ [workers EXCEPT ![w].tunnel = FALSE] \in [Sessions -> WorkerType]
         /\ \A how \in {"Disconnected", "Error"} :
              /\ [workers EXCEPT ![w].conn = how] \in [Sessions -> WorkerType]
              /\ [workers EXCEPT ![w].conn = how, ![w].tunnel = FALSE] \in [Sessions -> WorkerType]
         /\ [workers EXCEPT ![w].conn = "up", ![w].tunnel = TRUE, ![w].connected = "waiting"]
              \in [Sessions -> WorkerType]
         /\ \A g \in BOOLEAN :
              [workers EXCEPT ![w].pc = "running", ![w].conn = "connecting", ![w].gateway = g]
                \in [Sessions -> WorkerType]
<1>1. workers \in [Sessions -> WorkerType]
  BY DEF MachineTypeOK
<1>2. \A r \in WorkerType :
        /\ [r EXCEPT !.torn = TRUE] \in WorkerType
        /\ [r EXCEPT !.tunnel = FALSE] \in WorkerType
        /\ \A how \in {"Disconnected", "Error"} : [r EXCEPT !.conn = how] \in WorkerType
  BY DEF WorkerType
<1>3. \A r \in WorkerType :
        /\ [r EXCEPT !.conn = "up", !.tunnel = TRUE, !.connected = "waiting"] \in WorkerType
        /\ \A how \in {"Disconnected", "Error"} :
             [r EXCEPT !.conn = how, !.tunnel = FALSE] \in WorkerType
  BY DEF WorkerType
<1>4. \A r \in WorkerType : \A g \in BOOLEAN :
        [r EXCEPT !.pc = "running", !.conn = "connecting", !.gateway = g] \in WorkerType
  BY DEF WorkerType
<1> QED
  BY <1>1, <1>2, <1>3, <1>4

(* What a reader sees of a status file has a type. *)
LEMMA ReadersType ==
  ASSUME MachineTypeOK
  PROVE  /\ PidToKill(status) \in Sessions \cup {None}
         /\ SavedSnapshot(status) \in Sessions \cup {Phys, None}
<1>1. status = None \/ status.pid \in Sessions \cup {None}
  BY DEF MachineTypeOK, Status
<1>2. RecordedPid(status) \in Sessions \cup {None}
  BY <1>1 DEF RecordedPid
<1> QED
  BY <1>2 DEF PidToKill, SavedSnapshot, MachineTypeOK

(* A prompt is opened for a command of the type. *)
LEMMA PromptType ==
  ASSUME MachineTypeOK, NEW owner \in {"heal", "disconnect"},
         NEW gateway \in Sessions \cup {Phys, None}, Prompt(owner, gateway, PidToKill(status))
  PROVE  elevated' \subseteq Commands
BY ReadersType DEF Prompt, Commands, MachineTypeOK

-------------------------------------------------------------------------------
(* Every step of a worker keeps the types. *)
LEMMA WorkerType1 ==
  ASSUME MachineTypeOK, NEW w \in Sessions, WorkerNext(w)
  PROVE  MachineTypeOK'
<1> USE DEF fileVars
<1>1. CASE TruncatesStatus(w)
  BY <1>1, WorkerFieldsType DEF TruncatesStatus, MachineTypeOK
<1>2. CASE ReportConnecting(w) \/ ReportConnected(w) \/ ReportDisconnected(w) \/ ReportError(w)
  <2>1. PICK st, pc : /\ WritesStatus(w, st, pc) /\ st \in Status
                      /\ pc \in {"resolving", "running", "drainOk", "exiting"}
    BY <1>2, StatusOfType
    DEF ReportConnecting, ReportConnected, ReportDisconnected, ReportError, States
  <2> QED
    BY <2>1 DEF WritesStatus, MachineTypeOK, WorkerType
<1>3. CASE WorkerStarts(w)
  BY <1>3, WorkerGoesType DEF WorkerStarts, MachineTypeOK
<1>4. CASE WorkerConnects(w)
  <2>1. RouteIsRead \in BOOLEAN
    BY MachineAssumption DEF RouteIsRead
  <2> QED
    BY <1>4, <2>1, WorkerFieldsType DEF WorkerConnects, MachineTypeOK
<1>5. CASE WorkerHasNoPassword(w)
  BY <1>5, WorkerGoesType DEF WorkerHasNoPassword, MachineTypeOK
<1>6. CASE WorkerCannotConnect(w)
  BY <1>6, WorkerGoesType DEF WorkerCannotConnect, MachineTypeOK
<1>7. CASE Protect(w)
  BY <1>7 DEF Protect, MachineTypeOK, WorkerType
<1>8. CASE Unroute(w)
  BY <1>8, WorkerGoesType DEF Unroute, MachineTypeOK
<1>9. CASE Repoint(w)
  BY <1>9, WorkerGoesType DEF Repoint, MachineTypeOK
<1>10. CASE SeeMarker(w)
  BY <1>10 DEF SeeMarker, MachineTypeOK, WorkerType
<1>11. CASE DisconnectReturns(w)
  BY <1>11, WorkerGoesType DEF DisconnectReturns, MachineTypeOK
<1>12. CASE OnDisconnected(w)
  BY <1>12, WorkerGoesType DEF OnDisconnected, HostRouteAfter, MachineTypeOK, WorkerType
<1>13. CASE OnError(w)
  BY <1>13, WorkerGoesType DEF OnError, HostRouteAfter, MachineTypeOK, WorkerType
<1>14. CASE WorkerExits(w)
  BY <1>14, WorkerGoesType DEF WorkerExits, MachineTypeOK
<1>15. CASE ConnUp(w)
  BY <1>15, WorkerFieldsType DEF ConnUp, MachineTypeOK
<1>16. CASE \E how \in {"Disconnected", "Error"} : ConnEnds(w, how)
  <2>1. PICK how \in {"Disconnected", "Error"} : ConnEnds(w, how)
    BY <1>16
  <2>a. workers' \in {[workers EXCEPT ![w].conn = how],
                     [workers EXCEPT ![w].conn = how, ![w].tunnel = FALSE]}
    BY <2>1 DEF ConnEnds
  <2>b. /\ [workers EXCEPT ![w].conn = how] \in [Sessions -> WorkerType]
        /\ [workers EXCEPT ![w].conn = how, ![w].tunnel = FALSE] \in [Sessions -> WorkerType]
    BY WorkerFieldsType
  <2>2. workers' \in [Sessions -> WorkerType]
    BY <2>a, <2>b
  <2> QED
    BY <2>1, <2>2 DEF ConnEnds, RouteWithout, MachineTypeOK
<1>17. CASE ReaderExits(w)
  <2>0. workers' = [workers EXCEPT ![w].tunnel = FALSE]
    BY <1>17 DEF ReaderExits
  <2>a. [workers EXCEPT ![w].tunnel = FALSE] \in [Sessions -> WorkerType]
    BY WorkerFieldsType
  <2>1. workers' \in [Sessions -> WorkerType]
    BY <2>0, <2>a
  <2> QED
    BY <1>17, <2>1 DEF ReaderExits, RouteWithout, MachineTypeOK
<1> QED
  BY <1>1, <1>2, <1>3, <1>4, <1>5, <1>6, <1>7, <1>8, <1>9, <1>10, <1>11, <1>12, <1>13, <1>14,
     <1>15, <1>16, <1>17 DEF WorkerNext, WorkerStep

(* Answered prompts and processes that end keep the types. *)
LEMMA MachineType1 ==
  ASSUME MachineTypeOK, MachineNext
  PROVE  MachineTypeOK'
<1> USE DEF fileVars
<1>1. CASE \E c \in elevated : Approve(c)
  <2>1. PICK c \in elevated : Approve(c)
    BY <1>1
  <2>2. c \in Commands
    BY <2>1 DEF MachineTypeOK
  <2>3. c.gateway \in Sessions \cup {Phys, None} /\ c.kill \in Sessions \cup {None}
    BY <2>2 DEF Commands
  <2>4. workers' \in [Sessions -> WorkerType]
    <3>1. CASE PidAlive(c.kill)
      BY <2>1, <2>3, <3>1, WorkerGoesType DEF Approve, PidAlive
    <3>2. CASE ~PidAlive(c.kill)
      BY <2>1, <3>2 DEF Approve, MachineTypeOK
    <3> QED
      BY <3>1, <3>2
  <2>5. route' \in Sessions \cup {Phys, None}
    BY <2>1, <2>3 DEF Approve, Repaired, RouteWithout, MachineTypeOK
  <2> QED
    BY <2>1, <2>4, <2>5 DEF Approve, MachineTypeOK
<1>2. CASE \E c \in elevated : Decline(c)
  BY <1>2 DEF Decline, MachineTypeOK
<1>3. CASE \E w \in Sessions : ApproveWorker(w)
  BY <1>3 DEF ApproveWorker, MachineTypeOK, WorkerType
<1>4. CASE \E w \in Sessions : DeclineWorker(w)
  BY <1>4 DEF DeclineWorker, MachineTypeOK, WorkerType
<1>5. CASE \E w \in Sessions : Crash(w)
  <2>1. PICK w \in Sessions : Crash(w)
    BY <1>5
  <2>2. workers' \in [Sessions -> WorkerType]
    BY <2>1, WorkerGoesType DEF Crash
  <2> QED
    BY <2>1, <2>2 DEF Crash, RouteWithout, MachineTypeOK
<1> QED
  BY <1>1, <1>2, <1>3, <1>4, <1>5 DEF MachineNext

-------------------------------------------------------------------------------
(***************************************************************************)
(* The strengthening: the healing thread sleeps only while it has attempts *)
(* left, and whenever a prompt of its own is open it waits for it.         *)
(***************************************************************************)
SleepsWithAttemptsLeft == heal.pc = "sleeping" => heal.attempt < MaxAttempts

HealPromptIsWaitedFor == PromptOpen("heal") => heal.pc = "prompting"

SessionIInv == SessionTypeOK /\ SleepsWithAttemptsLeft /\ HealPromptIsWaitedFor

Heals == [pc : {"idle", "starting", "prompting", "sleeping"},
          gateway : Sessions \cup {Phys, None}, attempt : 0 .. MaxAttempts]

(* A healing that starts, sleeps or ends is one. *)
LEMMA HealType ==
  ASSUME SessionTypeOK
  PROVE  /\ heal \in Heals
         /\ NotHealing \in Heals /\ NotHealing.pc = "idle"
         /\ [NotHealing EXCEPT !.pc = "starting"] \in Heals
         /\ [NotHealing EXCEPT !.pc = "starting"].pc = "starting"
         /\ [heal EXCEPT !.pc = "sleeping"] \in Heals
         /\ [heal EXCEPT !.pc = "sleeping"].pc = "sleeping"
         /\ [heal EXCEPT !.pc = "sleeping"].attempt = heal.attempt
<1>1. heal \in Heals
  BY DEF SessionTypeOK, GuiTypeOK, Heals
<1>2. NotHealing \in Heals
  BY GuiAssumption DEF NotHealing, Heals
<1>3. [NotHealing EXCEPT !.pc = "starting"] \in Heals
  BY GuiAssumption DEF NotHealing, Heals
<1>4. [heal EXCEPT !.pc = "sleeping"] \in Heals
  BY <1>1 DEF Heals
<1> QED
  BY <1>1, <1>2, <1>3, <1>4 DEF NotHealing, Heals

(* The healing thread, the prompts it opens aside. *)
HealGoesOn ==
  /\ heal' \in Heals
  /\ heal'.pc = "sleeping" => heal'.attempt < MaxAttempts
  /\ heal.pc = "prompting" => heal'.pc = "prompting"

(* HealRouteIfBroken starts a healing or leaves the one there is alone. *)
LEMMA HealRouteStarts ==
  ASSUME SessionIInv, NEW st, HealRouteIfBroken(st)
  PROVE  HealGoesOn /\ snapshot' \in {snapshot, None}
<1>1. heal' = heal \/ (heal.pc = "idle" /\ heal' = [NotHealing EXCEPT !.pc = "starting"])
  BY DEF HealRouteIfBroken
<1>2. snapshot' \in {snapshot, None}
  BY DEF HealRouteIfBroken
<1> QED
  BY <1>1, <1>2, HealType DEF HealGoesOn, SessionIInv, SleepsWithAttemptsLeft

(* A step that leaves the prompts alone and the healing in its course.      *)
LEMMA NoPromptIInv ==
  ASSUME SessionIInv, HealGoesOn, elevated' = elevated, SessionTypeOK'
  PROVE  SessionIInv'
<1>1. PromptOpen("heal")' = PromptOpen("heal")
  BY DEF PromptOpen
<1> QED
  BY <1>1 DEF SessionIInv, HealGoesOn, SleepsWithAttemptsLeft, HealPromptIsWaitedFor

(* The machine and the workers open no prompt and never touch the healing.  *)
LEMMA OthersIInv ==
  ASSUME SessionIInv, MachineNext \/ \E w \in Sessions : WorkerNext(w), UNCHANGED guiVars
  PROVE  SessionIInv'
<1>1. MachineTypeOK'
  BY WorkerType1, MachineType1 DEF SessionIInv, SessionTypeOK
<1>2. GuiTypeOK' /\ heal' = heal
  BY DEF SessionIInv, SessionTypeOK, GuiTypeOK, guiVars
<1>3. elevated' \subseteq elevated
  <2>1. CASE MachineNext
    BY <2>1 DEF MachineNext, Approve, Decline, ApproveWorker, DeclineWorker, Crash
  <2>2. CASE \E w \in Sessions : WorkerNext(w)
    BY <2>2 DEF WorkerNext, WorkerStep, TruncatesStatus, WritesStatus, WorkerStarts, ReportConnecting,
      WorkerConnects, WorkerHasNoPassword, WorkerCannotConnect, Protect, Unroute, Repoint,
      ReportConnected, SeeMarker, DisconnectReturns, OnDisconnected, ReportDisconnected, OnError,
      ReportError, WorkerExits, ConnUp, ConnEnds, ReaderExits
  <2> QED
    BY <2>1, <2>2
<1>4. PromptOpen("heal")' => PromptOpen("heal")
  BY <1>3 DEF PromptOpen
<1> QED
  BY <1>1, <1>2, <1>4
  DEF SessionIInv, SessionTypeOK, SleepsWithAttemptsLeft, HealPromptIsWaitedFor

(* The healing thread: a prompt is opened only from where none is open.     *)
LEMMA HealStepIInv ==
  ASSUME SessionIInv, HealStep
  PROVE  SessionIInv'
<1> USE DEF fileVars, machineVars
<1>t. SessionTypeOK /\ MachineTypeOK /\ GuiTypeOK /\ heal \in Heals
  BY HealType DEF SessionIInv, SessionTypeOK
<1>1. CASE HealStarts \/ HealRetries
  <2>1. /\ \E g \in Sessions \cup {Phys, None} : Prompt("heal", g, PidToKill(status))
        /\ UNCHANGED <<fileVars, route, hostRoute, workers, running, vpnStatus, thread, restarts>>
    BY <1>1, <1>t DEF HealStarts, HealRetries, Heals, MachineTypeOK
  <2>2. MachineTypeOK'
    <3>1. elevated' \subseteq Commands
      BY <1>t, <2>1, PromptType
    <3> QED
      BY <1>t, <2>1, <3>1 DEF MachineTypeOK
  <2>3. heal' \in Heals /\ heal'.pc = "prompting"
    <3>1. CASE HealStarts
      BY <1>t, <3>1, GuiAssumption DEF HealStarts, Heals, MachineTypeOK
    <3>2. CASE HealRetries
      <4>1. /\ heal.pc = "sleeping"
            /\ heal' = [heal EXCEPT !.pc = "prompting", !.attempt = heal.attempt + 1]
        BY <3>2 DEF HealRetries
      <4>2. heal.attempt \in 0 .. MaxAttempts /\ heal.attempt < MaxAttempts
        BY <1>t, <4>1 DEF Heals, SessionIInv, SleepsWithAttemptsLeft
      <4>3. heal.attempt + 1 \in 0 .. MaxAttempts
        BY <4>2, GuiAssumption
      <4> QED
        BY <1>t, <4>1, <4>3 DEF Heals
    <3> QED
      BY <1>1, <3>1, <3>2
  <2>4. GuiTypeOK'
    BY <1>t, <2>1, <2>3 DEF GuiTypeOK, Heals
  <2> QED
    BY <2>2, <2>3, <2>4 DEF SessionIInv, SessionTypeOK, SleepsWithAttemptsLeft, HealPromptIsWaitedFor
<1>2. CASE HealHasNothing \/ HealSucceeds \/ HealFails
  <2>1. /\ ~PromptOpen("heal")
        /\ UNCHANGED <<status, marker, password, route, hostRoute, elevated, workers,
                       running, vpnStatus, thread, restarts>>
        /\ snapshot' \in {snapshot, None}
    BY <1>2 DEF HealHasNothing, HealSucceeds, HealFails, HealPrompted
  <2>2. /\ heal' \in Heals
        /\ heal'.pc = "sleeping" => heal'.attempt < MaxAttempts
    BY <1>2, <1>t, HealType DEF HealHasNothing, HealSucceeds, HealFails, AttemptsLeft
  <2>3. SessionTypeOK'
    BY <1>t, <2>1, <2>2 DEF SessionTypeOK, MachineTypeOK, GuiTypeOK, Heals
  <2>4. ~PromptOpen("heal")'
    BY <2>1 DEF PromptOpen
  <2> QED
    BY <2>2, <2>3, <2>4 DEF SessionIInv, SleepsWithAttemptsLeft, HealPromptIsWaitedFor
<1> QED
  BY <1>1, <1>2 DEF HealStep

(* The connect and the disconnect thread open no prompt for a healing. *)
LEMMA ThreadStepIInv ==
  ASSUME SessionIInv, ThreadStep
  PROVE  SessionIInv'
<1> USE DEF fileVars, machineVars
<1>t. SessionTypeOK /\ MachineTypeOK /\ GuiTypeOK /\ heal \in Heals
  BY HealType DEF SessionIInv, SessionTypeOK
<1>s. heal' = heal => HealGoesOn
  BY <1>t DEF HealGoesOn, SessionIInv, SleepsWithAttemptsLeft
<1>1. CASE ConnectAborts \/ StagePassword \/ ForgetLastSession
  <2>1. SessionTypeOK' /\ heal' = heal /\ elevated' = elevated
    BY <1>t, <1>1 DEF ConnectAborts, StagePassword, ForgetLastSession, SessionTypeOK, MachineTypeOK,
                      GuiTypeOK
  <2> QED
    BY <1>s, <2>1, NoPromptIInv
<1>2. CASE \E w \in Sessions : LaunchWorker(w)
  <2>1. PICK w \in Sessions : LaunchWorker(w)
    BY <1>2
  <2>2. workers' \in [Sessions -> WorkerType]
    BY <1>t, <2>1, WorkerGoesType DEF LaunchWorker, Goes
  <2>3. MachineTypeOK'
    BY <1>t, <2>1, <2>2, ReadersType DEF LaunchWorker, MachineTypeOK
  <2>4. GuiTypeOK' /\ heal' = heal /\ elevated' = elevated
    BY <1>t, <2>1 DEF LaunchWorker, GuiTypeOK
  <2> QED
    BY <1>s, <2>3, <2>4, NoPromptIInv DEF SessionTypeOK
<1>3. CASE RequestDisconnect \/ DisconnectConfirmed \/ DisconnectForced \/ WithdrawRequest \/ ForgetStatus
  <2>1. SessionTypeOK' /\ heal' = heal /\ elevated' = elevated
    BY <1>t, <1>3 DEF RequestDisconnect, DisconnectConfirmed, DisconnectForced, WithdrawRequest,
                      ForgetStatus, SessionTypeOK, MachineTypeOK, GuiTypeOK
  <2> QED
    BY <1>s, <2>1, NoPromptIInv
<1>4. CASE DisconnectTimesOut
  <2>1. elevated' \subseteq Commands
    BY <1>t, <1>4, PromptType DEF DisconnectTimesOut, MachineTypeOK
  <2>2. SessionTypeOK' /\ heal' = heal
    BY <1>t, <1>4, <2>1 DEF DisconnectTimesOut, SessionTypeOK, MachineTypeOK, GuiTypeOK
  <2>3. PromptOpen("heal")' => PromptOpen("heal")
    BY <1>4 DEF DisconnectTimesOut, Prompt, PromptOpen
  <2> QED
    BY <1>t, <2>2, <2>3 DEF SessionIInv, SleepsWithAttemptsLeft, HealPromptIsWaitedFor
<1>5. CASE HealAfterDisconnect
  <2>1. /\ HealGoesOn /\ snapshot' \in {snapshot, None}
    BY <1>5, HealRouteStarts DEF HealAfterDisconnect
  <2>2. SessionTypeOK' /\ elevated' = elevated
    BY <1>t, <1>5, <2>1 DEF HealAfterDisconnect, SessionTypeOK, MachineTypeOK, GuiTypeOK, HealGoesOn,
                            Heals
  <2> QED
    BY <2>1, <2>2, NoPromptIInv
<1> QED
  BY <1>1, <1>2, <1>3, <1>4, <1>5 DEF ThreadStep

(* The rest of the application. *)
LEMMA GuiIInv ==
  ASSUME SessionIInv, GuiNext
  PROVE  SessionIInv'
<1> USE DEF fileVars, machineVars
<1>t. SessionTypeOK /\ MachineTypeOK /\ GuiTypeOK /\ heal \in Heals
  BY HealType DEF SessionIInv, SessionTypeOK
<1>s. heal' = heal => HealGoesOn
  BY <1>t DEF HealGoesOn, SessionIInv, SleepsWithAttemptsLeft
<1>1. CASE SpawnConnect \/ SpawnDisconnect
  <2>1. SessionTypeOK' /\ heal' = heal /\ elevated' = elevated
    BY <1>t, <1>1 DEF SpawnConnect, SpawnDisconnect, SessionTypeOK, MachineTypeOK, GuiTypeOK
  <2> QED
    BY <1>s, <2>1, NoPromptIInv
<1>2. CASE Poll \/ PollHealsAgain
  <2>1. HealGoesOn /\ snapshot' \in {snapshot, None}
    BY <1>s, <1>2, HealRouteStarts DEF Poll, PollHealsAgain
  <2>2. vpnStatus' \in {"Disconnected", "Connecting", "Connected"}
    BY <1>t, <1>2 DEF Poll, PollHealsAgain, Polled, GuiTypeOK
  <2>3. SessionTypeOK' /\ elevated' = elevated
    BY <1>t, <1>2, <2>1, <2>2 DEF Poll, PollHealsAgain, SessionTypeOK, MachineTypeOK, GuiTypeOK,
                                  HealGoesOn, Heals
  <2> QED
    BY <2>1, <2>3, NoPromptIInv
<1>3. CASE Quit
  <2>1. /\ elevated' = {[c EXCEPT !.owner = "orphan"] : c \in elevated}
        /\ heal' = NotHealing
        /\ UNCHANGED <<status, marker, password, snapshot, route, hostRoute, workers>>
        /\ running' = FALSE /\ restarts < MaxRestarts /\ restarts' = restarts + 1
        /\ vpnStatus' = "Disconnected" /\ thread' = "idle"
    BY <1>3 DEF Quit
  <2>2. elevated' \subseteq Commands /\ \A c \in elevated' : c.owner = "orphan"
    BY <1>t, <2>1 DEF MachineTypeOK, Commands
  <2>3. MachineTypeOK'
    BY <1>t, <2>1, <2>2 DEF MachineTypeOK
  <2>4. restarts' \in 0 .. MaxRestarts
    BY <1>t, <2>1, GuiAssumption DEF GuiTypeOK
  <2>5. heal' \in Heals /\ heal'.pc = "idle"
    BY <1>t, <2>1, HealType
  <2>6. GuiTypeOK'
    BY <2>1, <2>4, <2>5 DEF GuiTypeOK, Heals
  <2>7. ~PromptOpen("heal")'
    BY <2>2 DEF PromptOpen
  <2> QED
    BY <2>3, <2>5, <2>6, <2>7
    DEF SessionIInv, SessionTypeOK, SleepsWithAttemptsLeft, HealPromptIsWaitedFor
<1>4. CASE LaunchApp
  <2>1. HealGoesOn /\ snapshot' \in {snapshot, None}
    BY <1>s, <1>4, HealRouteStarts DEF LaunchApp
  <2>2. SessionTypeOK' /\ elevated' = elevated
    BY <1>t, <1>4, <2>1 DEF LaunchApp, SessionTypeOK, MachineTypeOK, GuiTypeOK, HealGoesOn, Heals
  <2> QED
    BY <2>1, <2>2, NoPromptIInv
<1> QED
  BY <1>1, <1>2, <1>3, <1>4, ThreadStepIInv, HealStepIInv DEF GuiNext

(* It holds before anything has happened. *)
LEMMA InitSessionIInv == SessionInit => SessionIInv
<1> SUFFICES ASSUME SessionInit PROVE SessionIInv
  OBVIOUS
<1>1. Unborn \in WorkerType
  BY DEF Unborn, WorkerType
<1>2. MachineTypeOK
  BY <1>1 DEF SessionInit, MachineInit, MachineTypeOK
<1>3. NotHealing \in Heals /\ NotHealing.pc = "idle"
  BY GuiAssumption DEF NotHealing, Heals
<1>4. GuiTypeOK
  BY <1>3, GuiAssumption DEF SessionInit, GuiInit, GuiTypeOK, Heals
<1>5. ~PromptOpen("heal")
  BY DEF SessionInit, MachineInit, PromptOpen
<1> QED
  BY <1>2, <1>3, <1>4, <1>5 DEF SessionIInv, SessionTypeOK, SessionInit, GuiInit,
                                SleepsWithAttemptsLeft, HealPromptIsWaitedFor

(* Every step keeps it. *)
LEMMA NextSessionIInv == SessionIInv /\ [SessionNext]_sessionVars => SessionIInv'
<1> SUFFICES ASSUME SessionIInv, [SessionNext]_sessionVars PROVE SessionIInv'
  OBVIOUS
<1>1. CASE GuiNext
  BY <1>1, GuiIInv
<1>2. CASE (MachineNext \/ \E w \in Sessions : WorkerNext(w)) /\ UNCHANGED guiVars
  BY <1>2, OthersIInv
<1>3. CASE UNCHANGED sessionVars
  BY <1>3 DEF sessionVars, SessionIInv, SessionTypeOK, MachineTypeOK, GuiTypeOK, PromptOpen,
              SleepsWithAttemptsLeft, HealPromptIsWaitedFor
<1> QED
  BY <1>1, <1>2, <1>3 DEF SessionNext

(* Files, routes, processes and threads keep their types, and the healing   *)
(* thread its bound on attempts, for any number of sessions and restarts.   *)
THEOREM SessionIsTyped == SessionSpec => []SessionTypeOK
<1>1. SessionIInv => SessionTypeOK
  BY DEF SessionIInv
<1> QED
  BY <1>1, InitSessionIInv, NextSessionIInv, PTL DEF SessionSpec

(* However many threads ask for it, one prompt at a time is open to repair  *)
(* the route, for any number of sessions, attempts and restarts.            *)
THEOREM SessionHealsOneAtATime == SessionSpec => OneHealPrompt
<1>1. SessionIInv /\ [SessionNext]_sessionVars
        => [HealStarts \/ HealRetries => ~PromptOpen("heal")]_sessionVars
  BY DEF SessionIInv, HealPromptIsWaitedFor, HealStarts, HealRetries
<1> QED
  BY <1>1, InitSessionIInv, NextSessionIInv, PTL DEF SessionSpec, OneHealPrompt

-------------------------------------------------------------------------------
(***************************************************************************)
(* Sessions in turn.  LinkIsProtected is not inductive: what carries it is *)
(* that one worker at most is there at a time, that none is while a new    *)
(* one is prepared, that a worker's events come in their order, that a     *)
(* default route through a tunnel was set by the tunnel's own worker, and  *)
(* that no saved gateway, pending repair or healing names a tunnel.  What  *)
(* carries StatusIsCurrent is that a worker is launched over no status.    *)
(***************************************************************************)
Active(r) == r.pc \notin {"unborn", "gone"}

Early == {"unborn", "asked", "born", "starting", "resolving"}

Sound(r) ==
  /\ r.pc \in Early => r.connected = "none"
  /\ r.pc \in Early \cup {"gone"} => r.conn = "none"
  /\ r.conn \in {"none", "connecting"} => ~r.tunnel
  /\ r.conn = "connecting" => r.connected = "none"
  /\ r.pc \in {"repointing", "unrouted", "reporting"} => r.connected = "taken"
  /\ r.pc \in {"closed", "drainOk", "drainError", "exiting"} => r.conn \notin {"connecting", "up"}
  /\ r.pc = "exiting" => ~r.tunnel

Routed(r)    == r.tunnel /\ r.connected = "taken"
Protected(r) == r.connected = "taken" /\ r.conn = "up" /\ r.gateway => hostRoute

WorkersAreSound == \A w \in Sessions : Sound(workers[w])
OneAtATime      == \A v, w \in Sessions : Active(workers[v]) /\ Active(workers[w]) => v = w
ConnectsAlone   == thread \in {"staging", "staged", "launching"}
                     => \A w \in Sessions : ~Active(workers[w])
RouteIsTaken    == \A w \in Sessions : route = w => Routed(workers[w])
NoTunnelIsSaved == /\ snapshot \notin Sessions /\ heal.gateway \notin Sessions
                   /\ \A c \in elevated : c.gateway \notin Sessions
TakenIsProtected == \A w \in Sessions : Protected(workers[w])
LaunchedUnrecorded == thread = "launching" => status = None

InTurnIInv == /\ SessionTypeOK /\ WorkersAreSound /\ OneAtATime /\ ConnectsAlone
              /\ RouteIsTaken /\ NoTunnelIsSaved /\ TakenIsProtected
              /\ LaunchedUnrecorded /\ StatusIsCurrent

(* The invariant gives the property. *)
LEMMA InTurnProtects == InTurnIInv => LinkIsProtected
BY DEF InTurnIInv, RouteIsTaken, TakenIsProtected, Routed, Protected, LinkIsProtected

(* What a step of worker w may do to what the invariant speaks of. *)
Keeps(w) ==
  /\ \A v \in Sessions : v # w => workers'[v] = workers[v] /\ (route' = v => route = v)
  /\ Active(workers[w])
  /\ Sound(workers'[w])
  /\ route' = w => Routed(workers'[w])
  /\ workers'[w].connected = "taken" /\ workers'[w].conn = "up" /\ workers'[w].gateway
       => hostRoute'
  /\ UNCHANGED <<snapshot, elevated>>

LEMMA WorkerKeeps ==
  ASSUME InTurnIInv, NEW w \in Sessions, WorkerNext(w)
  PROVE  Keeps(w)
<1> USE DEF fileVars, Goes, Sound, Early, Active, Routed, Keeps
<1>t. /\ workers \in [Sessions -> WorkerType] /\ workers[w] \in WorkerType
      /\ Sound(workers[w])
      /\ route = w => Routed(workers[w])
      /\ workers[w].connected = "taken" /\ workers[w].conn = "up" /\ workers[w].gateway => hostRoute
      /\ None \notin Sessions
  BY MachineAssumption
  DEF InTurnIInv, SessionTypeOK, MachineTypeOK, WorkersAreSound, RouteIsTaken, TakenIsProtected, Protected
<1>1. CASE TruncatesStatus(w)
  BY <1>t, <1>1 DEF TruncatesStatus, WorkerType
<1>2. CASE ReportConnecting(w)
  BY <1>t, <1>2 DEF ReportConnecting, WritesStatus, WorkerType
<1>3. CASE ReportConnected(w)
  BY <1>t, <1>3 DEF ReportConnected, WritesStatus, WorkerType
<1>4. CASE ReportDisconnected(w)
  BY <1>t, <1>4 DEF ReportDisconnected, WritesStatus, WorkerType
<1>5. CASE ReportError(w)
  BY <1>t, <1>5 DEF ReportError, WritesStatus, WorkerType
<1>6. CASE WorkerStarts(w)
  BY <1>t, <1>6 DEF WorkerStarts, WorkerType
<1>17. CASE WorkerHasNoPassword(w)
  BY <1>t, <1>17 DEF WorkerHasNoPassword, WorkerType
<1>18. CASE WorkerCannotConnect(w)
  BY <1>t, <1>18 DEF WorkerCannotConnect, WorkerType
<1>7. CASE WorkerConnects(w)
  <2>1. /\ workers[w].pc = "resolving"
        /\ workers'[w] = [workers[w] EXCEPT !.pc = "running", !.conn = "connecting",
                                           !.gateway = RouteIsRead]
        /\ \A v \in Sessions : v # w => workers'[v] = workers[v]
        /\ UNCHANGED <<snapshot, route, elevated>>
    BY <1>t, <1>7 DEF WorkerConnects
  <2>2. /\ workers'[w].pc = "running" /\ workers'[w].conn = "connecting"
        /\ workers'[w].connected = workers[w].connected /\ workers'[w].tunnel = workers[w].tunnel
    BY <1>t, <2>1 DEF WorkerType
  <2> QED
    BY <1>t, <2>1, <2>2
<1>8. CASE Protect(w)
  BY <1>t, <1>8 DEF Protect, WorkerType
<1>9. CASE Unroute(w)
  BY <1>t, <1>9 DEF Unroute, WorkerType
<1>10. CASE Repoint(w)
  BY <1>t, <1>10 DEF Repoint, WorkerType
<1>11. CASE SeeMarker(w)
  BY <1>t, <1>11 DEF SeeMarker, WorkerType
<1>19. CASE DisconnectReturns(w)
  BY <1>t, <1>19 DEF DisconnectReturns, WorkerType
<1>12. CASE OnDisconnected(w)
  BY <1>t, <1>12 DEF OnDisconnected, TakesLastEvent, WorkerType
<1>20. CASE OnError(w)
  BY <1>t, <1>20 DEF OnError, TakesLastEvent, WorkerType
<1>13. CASE WorkerExits(w)
  BY <1>t, <1>13 DEF WorkerExits, Die, WorkerType
<1>14. CASE ConnUp(w)
  <2>1. /\ workers[w].conn = "connecting"
        /\ workers'[w] = [workers[w] EXCEPT !.conn = "up", !.tunnel = TRUE, !.connected = "waiting"]
        /\ \A v \in Sessions : v # w => workers'[v] = workers[v]
        /\ UNCHANGED <<snapshot, route, elevated>>
    BY <1>t, <1>14 DEF ConnUp
  <2>2. /\ workers'[w].pc = workers[w].pc /\ workers'[w].conn = "up"
        /\ workers'[w].connected = "waiting" /\ workers'[w].tunnel
    BY <1>t, <2>1 DEF WorkerType
  <2>3. route # w /\ workers[w].pc \notin Early \cup {"gone"} /\ Sound(workers'[w])
    BY <1>t, <2>1, <2>2
  <2> QED
    BY <1>t, <2>1, <2>2, <2>3
<1>15. CASE \E how \in {"Disconnected", "Error"} : ConnEnds(w, how)
  <2>1. PICK how \in {"Disconnected", "Error"} : ConnEnds(w, how)
    BY <1>15
  <2>2. /\ workers[w].conn \in {"connecting", "up"}
        /\ \A v \in Sessions : v # w => workers'[v] = workers[v]
        /\ UNCHANGED <<snapshot, elevated>>
    BY <1>t, <2>1 DEF ConnEnds
  <2>3. /\ workers'[w].pc = workers[w].pc /\ workers'[w].conn = how
        /\ workers'[w].connected = workers[w].connected
        /\ \/ workers'[w].tunnel = workers[w].tunnel /\ route' = route
           \/ ~workers'[w].tunnel /\ route' = RouteWithout(route, w)
    <3>1. CASE /\ workers' = [workers EXCEPT ![w].conn = how] /\ route' = route
      BY <1>t, <3>1 DEF WorkerType
    <3>2. CASE /\ workers' = [workers EXCEPT ![w].conn = how, ![w].tunnel = FALSE]
               /\ route' = RouteWithout(route, w)
      <4>1. workers'[w] = [workers[w] EXCEPT !.conn = how, !.tunnel = FALSE]
        BY <1>t, <3>2
      <4> QED
        BY <1>t, <3>2, <4>1 DEF WorkerType
    <3> QED
      BY <2>1, <3>1, <3>2 DEF ConnEnds
  <2>4. (route' = w => route = w /\ workers'[w].tunnel)
        /\ \A v \in Sessions : route' = v => route = v
    BY <1>t, <2>3 DEF RouteWithout
  <2>5. workers[w].pc \notin Early \cup {"gone"} /\ Sound(workers'[w])
    BY <1>t, <2>2, <2>3
  <2> QED
    BY <1>t, <2>2, <2>3, <2>4, <2>5
<1>16. CASE ReaderExits(w)
  <2>1. /\ workers[w].conn \in {"Disconnected", "Error"}
        /\ workers'[w] = [workers[w] EXCEPT !.tunnel = FALSE]
        /\ \A v \in Sessions : v # w => workers'[v] = workers[v]
        /\ UNCHANGED <<snapshot, elevated>>
        /\ route' = RouteWithout(route, w)
    BY <1>t, <1>16 DEF ReaderExits, ConnEnded
  <2>2. /\ workers'[w].pc = workers[w].pc /\ workers'[w].conn = workers[w].conn
        /\ workers'[w].connected = workers[w].connected /\ ~workers'[w].tunnel
    BY <1>t, <2>1 DEF WorkerType
  <2>3. route' # w /\ \A v \in Sessions : route' = v => route = v
    BY <1>t, <2>1 DEF RouteWithout
  <2> QED
    BY <1>t, <2>1, <2>2, <2>3
<1> QED
  BY <1>1, <1>2, <1>3, <1>4, <1>5, <1>6, <1>7, <1>8, <1>9, <1>10, <1>11, <1>12, <1>13, <1>14,
     <1>15, <1>16, <1>17, <1>18, <1>19, <1>20 DEF WorkerNext, WorkerStep

(* What it has in the status file stays true of it, and an end it reports   *)
(* is followed by its exit alone.                                           *)
LEMMA WorkerRecords ==
  ASSUME InTurnIInv, NEW w \in Sessions, WorkerNext(w),
         status' # None, Active(workers'[w])
  PROVE  Recorded(w)'
<1> DEFINE Ended(st) == RecordedState(st) \in {"Disconnected", "Error"}
<1>t. /\ workers \in [Sessions -> WorkerType] /\ workers[w] \in WorkerType
      /\ Sound(workers[w]) /\ Active(workers[w])
      /\ status # None => Recorded(w)
      /\ w # None
  <2>1. Active(workers[w])
    BY WorkerKeeps DEF Keeps
  <2> QED
    BY <2>1, MachineAssumption
    DEF InTurnIInv, SessionTypeOK, MachineTypeOK, WorkersAreSound, StatusIsCurrent, Active
<1>1. ASSUME NEW state, NEW i, state \notin {"Disconnected", "Error"},
             status' = StatusOf(state, w, i)
      PROVE  Recorded(w)'
  BY <1>t, <1>1 DEF Recorded, StatusOf, RecordedState, RecordedPid
<1>2. CASE ReportConnecting(w)
  BY <1>1, <1>2 DEF ReportConnecting, WritesStatus
<1>3. CASE ReportConnected(w)
  BY <1>1, <1>3 DEF ReportConnected, WritesStatus
<1>4. CASE ReportDisconnected(w) \/ ReportError(w)
  <2>1. /\ workers[w].pc \in {"closed", "drainError"}
        /\ status'.state \in {"Disconnected", "Error"}
        /\ workers'[w].pc \in {"drainOk", "exiting"} /\ workers'[w].conn = workers[w].conn
    BY <1>t, <1>4 DEF ReportDisconnected, ReportError, WritesStatus, StatusOf, WorkerType
  <2> QED
    BY <1>t, <2>1 DEF Recorded, RecordedState, Sound
<1>5. ASSUME status' = status,
             workers[w].pc \in {"drainOk", "exiting"} /\ workers[w].conn \notin {"connecting", "up"}
               => /\ workers'[w].pc \in {"drainOk", "exiting"}
                  /\ workers'[w].conn \notin {"connecting", "up"}
      PROVE  Recorded(w)'
  BY <1>t, <1>5 DEF Recorded, RecordedState, RecordedPid
<1>6. CASE TruncatesStatus(w)
  BY <1>6 DEF TruncatesStatus
<1>7. CASE \/ WorkerStarts(w) \/ WorkerHasNoPassword(w) \/ WorkerCannotConnect(w)
           \/ WorkerConnects(w) \/ Protect(w) \/ Unroute(w) \/ Repoint(w) \/ SeeMarker(w)
           \/ DisconnectReturns(w) \/ OnDisconnected(w) \/ OnError(w)
  <2>1. status' = status /\ workers[w].pc \notin {"drainOk", "exiting"}
    BY <1>7 DEF WorkerStarts, WorkerHasNoPassword, WorkerCannotConnect, WorkerConnects, Protect,
                Unroute, Repoint, SeeMarker, DisconnectReturns, OnDisconnected, OnError,
                TakesLastEvent, fileVars
  <2> QED
    BY <1>5, <2>1
<1>8. CASE ConnUp(w) \/ \E how \in {"Disconnected", "Error"} : ConnEnds(w, how)
  <2>1. status' = status /\ workers[w].conn \in {"connecting", "up"}
    BY <1>8 DEF ConnUp, ConnEnds, fileVars
  <2> QED
    BY <1>5, <2>1
<1>9. CASE ReaderExits(w)
  <2>1. status' = status /\ workers'[w].pc = workers[w].pc /\ workers'[w].conn = workers[w].conn
    BY <1>t, <1>9 DEF ReaderExits, fileVars, WorkerType
  <2> QED
    BY <1>5, <2>1
<1>10. CASE WorkerExits(w)
  BY <1>t, <1>10 DEF WorkerExits, Die, Active, WorkerType
<1> QED
  BY <1>2, <1>3, <1>4, <1>6, <1>7, <1>8, <1>9, <1>10 DEF WorkerNext, WorkerStep

(* So every step of a worker keeps the invariant: the others are not there. *)
LEMMA WorkerInTurn ==
  ASSUME InTurnIInv, SessionTypeOK', NEW w \in Sessions, WorkerNext(w), UNCHANGED guiVars
  PROVE  InTurnIInv'
<1>1. Keeps(w)
  BY WorkerKeeps
<1>2. thread' = thread /\ heal' = heal /\ UNCHANGED <<snapshot, elevated>>
  BY <1>1 DEF guiVars, Keeps
<1>3. \A v \in Sessions : v # w => ~Active(workers[v]) /\ workers'[v] = workers[v]
  BY <1>1 DEF InTurnIInv, OneAtATime, Keeps
<1>4. \A v \in Sessions : ~Active(workers[v]) => workers[v].conn = "none"
  BY DEF InTurnIInv, WorkersAreSound, Sound, Active, Early
<1>5. WorkersAreSound'
  BY <1>1, <1>3 DEF InTurnIInv, WorkersAreSound, Keeps, Sound
<1>6. OneAtATime'
  BY <1>3 DEF OneAtATime, Active
<1>7. ConnectsAlone'
  BY <1>1, <1>2 DEF InTurnIInv, ConnectsAlone, Keeps
<1>8. RouteIsTaken'
  BY <1>1, <1>3 DEF InTurnIInv, RouteIsTaken, Keeps, Routed
<1>9. NoTunnelIsSaved'
  BY <1>2 DEF InTurnIInv, NoTunnelIsSaved
<1>10. TakenIsProtected'
  BY <1>1, <1>3, <1>4 DEF TakenIsProtected, Protected, Keeps
<1>11. LaunchedUnrecorded'
  BY <1>1, <1>2 DEF InTurnIInv, LaunchedUnrecorded, ConnectsAlone, Keeps
<1>12. StatusIsCurrent'
  BY <1>3, WorkerRecords DEF StatusIsCurrent, Active
<1> QED
  BY <1>5, <1>6, <1>7, <1>8, <1>9, <1>10, <1>11, <1>12 DEF InTurnIInv

(* A worker that dies takes its default route with it; a repair names no    *)
(* tunnel.                                                                  *)
LEMMA DeathInTurn ==
  ASSUME InTurnIInv, SessionTypeOK', UNCHANGED <<status, snapshot, hostRoute, thread, heal>>,
         elevated' \subseteq elevated,
         NEW w \in Sessions, Die(w), route' # w, \A v \in Sessions : route' = v => route = v
  PROVE  InTurnIInv'
<1> USE DEF Sound, Early, Active
<1>t. workers \in [Sessions -> WorkerType]
  BY DEF InTurnIInv, SessionTypeOK, MachineTypeOK
<1>1. /\ workers'[w].pc = "gone" /\ workers'[w].conn = "none" /\ ~workers'[w].tunnel
      /\ \A v \in Sessions : v # w => workers'[v] = workers[v]
  BY <1>t DEF Die, WorkerType
<1>2. WorkersAreSound'
  BY <1>1 DEF InTurnIInv, WorkersAreSound
<1>3. OneAtATime'
  BY <1>1 DEF InTurnIInv, OneAtATime
<1>4. ConnectsAlone'
  BY <1>1 DEF InTurnIInv, ConnectsAlone
<1>5. RouteIsTaken'
  BY <1>1 DEF InTurnIInv, RouteIsTaken, Routed
<1>6. NoTunnelIsSaved'
  BY DEF InTurnIInv, NoTunnelIsSaved
<1>7. TakenIsProtected'
  BY <1>1 DEF InTurnIInv, TakenIsProtected, Protected
<1>8. LaunchedUnrecorded' /\ StatusIsCurrent'
  BY <1>1 DEF InTurnIInv, LaunchedUnrecorded, StatusIsCurrent, Recorded
<1> QED
  BY <1>2, <1>3, <1>4, <1>5, <1>6, <1>7, <1>8 DEF InTurnIInv

(* A step that leaves the workers and the routes alone, and saves or asks   *)
(* for no tunnel.                                                           *)
LEMMA QuietInTurn ==
  ASSUME InTurnIInv, SessionTypeOK', UNCHANGED <<workers, hostRoute>>,
         \A v \in Sessions : route' = v => route = v,
         NoTunnelIsSaved', ConnectsAlone', status' \in {status, None}, LaunchedUnrecorded'
  PROVE  InTurnIInv'
<1>1. WorkersAreSound' /\ OneAtATime' /\ TakenIsProtected'
  BY DEF InTurnIInv, WorkersAreSound, OneAtATime, TakenIsProtected, Protected
<1>2. RouteIsTaken'
  BY DEF InTurnIInv, RouteIsTaken
<1>3. StatusIsCurrent'
  BY DEF InTurnIInv, StatusIsCurrent, Recorded
<1> QED
  BY <1>1, <1>2, <1>3 DEF InTurnIInv

(* A worker that is not yet running changes nothing the invariant needs.    *)
LEMMA AskedInTurn ==
  ASSUME InTurnIInv, SessionTypeOK', UNCHANGED <<status, route, hostRoute, elevated, heal>>,
         NEW w \in Sessions, NEW pc \in {"asked", "born", "gone"}, Goes(w, pc),
         workers[w].pc \in {"unborn", "asked"},
         snapshot' \notin Sessions,
         pc = "asked" => status = None /\ \A v \in Sessions : ~Active(workers[v]),
         pc # "asked" => workers[w].pc = "asked",
         thread' \in {"staging", "staged", "launching"} => pc # "asked" /\ thread' = thread
  PROVE  InTurnIInv'
<1> USE DEF Sound, Early, Active
<1>t. workers \in [Sessions -> WorkerType] /\ Sound(workers[w])
  BY DEF InTurnIInv, SessionTypeOK, MachineTypeOK, WorkersAreSound
<1>1. /\ workers'[w] = [workers[w] EXCEPT !.pc = pc]
      /\ \A v \in Sessions : v # w => workers'[v] = workers[v]
  BY <1>t DEF Goes
<1>2. /\ workers'[w].pc = pc /\ workers'[w].conn = "none" /\ workers'[w].connected = "none"
      /\ ~workers'[w].tunnel /\ ~workers[w].tunnel
  BY <1>t, <1>1 DEF WorkerType
<1>3. WorkersAreSound'
  BY <1>1, <1>2 DEF InTurnIInv, WorkersAreSound
<1>4. OneAtATime'
  BY <1>1, <1>2 DEF InTurnIInv, OneAtATime
<1>5. ConnectsAlone'
  BY <1>1, <1>2 DEF InTurnIInv, ConnectsAlone
<1>6. RouteIsTaken'
  BY <1>1, <1>2 DEF InTurnIInv, RouteIsTaken, Routed
<1>7. NoTunnelIsSaved'
  BY DEF InTurnIInv, NoTunnelIsSaved
<1>8. TakenIsProtected'
  BY <1>1, <1>2 DEF InTurnIInv, TakenIsProtected, Protected
<1>9. LaunchedUnrecorded'
  BY DEF InTurnIInv, LaunchedUnrecorded
<1>10. StatusIsCurrent'
  BY <1>1, <1>2 DEF InTurnIInv, StatusIsCurrent, Recorded
<1> QED
  BY <1>3, <1>4, <1>5, <1>6, <1>7, <1>8, <1>9, <1>10 DEF InTurnIInv

(* Without a worker there is no tunnel, and no default route through one.   *)
LEMMA AloneNoTunnel ==
  ASSUME InTurnIInv, \A w \in Sessions : ~Active(workers[w])
  PROVE  route \notin Sessions /\ SavedSnapshot(status) \notin Sessions
<1>1. \A w \in Sessions : ~Routed(workers[w])
  BY DEF InTurnIInv, WorkersAreSound, Sound, Early, Active, Routed
<1>2. route \notin Sessions
  BY <1>1 DEF InTurnIInv, RouteIsTaken
<1> QED
  BY <1>2 DEF InTurnIInv, NoTunnelIsSaved, SavedSnapshot

(* Answered prompts and processes that end. *)
LEMMA MachineInTurn ==
  ASSUME InTurnIInv, SessionTypeOK', MachineNext, UNCHANGED guiVars
  PROVE  InTurnIInv'
<1> USE DEF fileVars, guiVars
<1>t. None \notin Sessions /\ Phys \notin Sessions
  BY MachineAssumption
<1>1. CASE \E c \in elevated : Approve(c)
  <2>1. PICK c \in elevated : Approve(c)
    BY <1>1
  <2>2. c.gateway \notin Sessions /\ c.kill \in Sessions \cup {None}
    BY <2>1 DEF InTurnIInv, NoTunnelIsSaved, SessionTypeOK, MachineTypeOK, Commands
  <2>3. /\ \A v \in Sessions : route' = v => route = v
        /\ PidAlive(c.kill) => route' # c.kill
        /\ elevated' \subseteq elevated
        /\ UNCHANGED <<status, snapshot, hostRoute, thread, heal>>
    BY <1>t, <2>1, <2>2 DEF Approve, Repaired, RouteWithout, PidAlive
  <2>4. CASE PidAlive(c.kill)
    <3>1. c.kill \in Sessions /\ Die(c.kill)
      BY <2>1, <2>2, <2>4 DEF Approve, PidAlive
    <3> QED
      BY <2>3, <2>4, <3>1, DeathInTurn
  <2>5. CASE ~PidAlive(c.kill)
    <3>1. UNCHANGED workers
      BY <2>1, <2>5 DEF Approve
    <3>2. NoTunnelIsSaved' /\ ConnectsAlone' /\ LaunchedUnrecorded'
      BY <2>3, <3>1 DEF InTurnIInv, NoTunnelIsSaved, ConnectsAlone, LaunchedUnrecorded
    <3> QED
      BY <2>3, <3>1, <3>2, QuietInTurn
  <2> QED
    BY <2>4, <2>5
<1>2. CASE \E c \in elevated : Decline(c)
  <2>1. elevated' \subseteq elevated /\ UNCHANGED <<status, snapshot, route, hostRoute, workers>>
    BY <1>2 DEF Decline
  <2>2. NoTunnelIsSaved' /\ ConnectsAlone' /\ LaunchedUnrecorded'
    BY <2>1 DEF InTurnIInv, NoTunnelIsSaved, ConnectsAlone, LaunchedUnrecorded
  <2> QED
    BY <2>1, <2>2, QuietInTurn
<1>3. CASE \E w \in Sessions : ApproveWorker(w) \/ DeclineWorker(w)
  <2>1. PICK w \in Sessions : ApproveWorker(w) \/ DeclineWorker(w)
    BY <1>3
  <2>2. /\ workers[w].pc = "asked" /\ snapshot' = snapshot
        /\ \E pc \in {"born", "gone"} : Goes(w, pc)
        /\ UNCHANGED <<status, route, hostRoute, elevated, heal, thread>>
    BY <2>1 DEF ApproveWorker, DeclineWorker, Goes
  <2>3. snapshot' \notin Sessions
    BY <2>2 DEF InTurnIInv, NoTunnelIsSaved
  <2> QED
    BY <2>2, <2>3, AskedInTurn
<1>4. CASE \E w \in Sessions : Crash(w)
  <2>1. PICK w \in Sessions : Crash(w)
    BY <1>4
  <2>2. /\ route' # w /\ Die(w) /\ \A v \in Sessions : route' = v => route = v
        /\ elevated' \subseteq elevated /\ UNCHANGED <<status, snapshot, hostRoute, thread, heal>>
    BY <1>t, <2>1 DEF Crash, RouteWithout
  <2> QED
    BY <2>2, DeathInTurn
<1> QED
  BY <1>1, <1>2, <1>3, <1>4 DEF MachineNext

(* The application. *)
LEMMA GuiInTurn ==
  ASSUME InTurnIInv, SessionTypeOK', GuiNext, InTurn
  PROVE  InTurnIInv'
<1> USE DEF fileVars, machineVars
<1>t. /\ None \notin Sessions /\ Phys \notin Sessions
      /\ NoTunnelIsSaved /\ ConnectsAlone /\ LaunchedUnrecorded
      /\ elevated \subseteq Commands /\ heal \in Heals
  BY MachineAssumption, HealType DEF InTurnIInv, SessionTypeOK, MachineTypeOK
<1>n. /\ NotHealing.gateway \notin Sessions
      /\ [NotHealing EXCEPT !.pc = "starting"].gateway \notin Sessions
      /\ [heal EXCEPT !.pc = "sleeping"].gateway = heal.gateway
  BY <1>t DEF NotHealing, Heals
<1>h. ASSUME NEW st, HealRouteIfBroken(st)
      PROVE  snapshot' \notin Sessions /\ heal'.gateway \notin Sessions
  BY <1>t, <1>n, <1>h DEF HealRouteIfBroken, NoTunnelIsSaved
<1>q. ASSUME UNCHANGED <<workers, route, hostRoute, elevated>>, snapshot' \notin Sessions,
             heal'.gateway \notin Sessions,
             thread' \in {"staging", "staged", "launching"}
               => thread \in {"staging", "staged", "launching"},
             status' = None \/ (status' = status /\ (thread' = "launching" => thread = "launching"))
      PROVE  InTurnIInv'
  <2>1. NoTunnelIsSaved' /\ ConnectsAlone' /\ LaunchedUnrecorded'
    BY <1>q, <1>t DEF NoTunnelIsSaved, ConnectsAlone, LaunchedUnrecorded
  <2> QED
    BY <1>q, <2>1, QuietInTurn
<1>p. ASSUME NEW owner, NEW g, g \notin Sessions, NEW kill, Prompt(owner, g, kill),
             heal'.gateway \notin Sessions,
             UNCHANGED <<status, workers, route, hostRoute, snapshot>>,
             thread' \in {"staging", "staged", "launching"} => thread' = thread
      PROVE  InTurnIInv'
  <2>1. NoTunnelIsSaved' /\ ConnectsAlone' /\ LaunchedUnrecorded'
    BY <1>p, <1>t DEF NoTunnelIsSaved, ConnectsAlone, LaunchedUnrecorded, Prompt
  <2> QED
    BY <1>p, <2>1, QuietInTurn
<1>1. CASE SpawnConnect
  <2>1. \A w \in Sessions : ~Active(workers[w])
    BY <1>1 DEF InTurn, Active
  <2>2. /\ UNCHANGED <<status, workers, route, hostRoute, snapshot, heal, elevated>>
        /\ thread' = "staging"
    BY <1>1 DEF SpawnConnect
  <2>3. NoTunnelIsSaved' /\ ConnectsAlone' /\ LaunchedUnrecorded'
    BY <1>t, <2>1, <2>2 DEF NoTunnelIsSaved, ConnectsAlone, LaunchedUnrecorded
  <2> QED
    BY <2>2, <2>3, QuietInTurn
<1>2. CASE \E w \in Sessions : LaunchWorker(w)
  <2>1. PICK w \in Sessions : LaunchWorker(w)
    BY <1>2
  <2>2. \A v \in Sessions : ~Active(workers[v])
    BY <1>t, <2>1 DEF LaunchWorker, ConnectsAlone
  <2>3. snapshot' \notin Sessions
    BY <2>1, <2>2, AloneNoTunnel DEF LaunchWorker
  <2>4. /\ Goes(w, "asked") /\ workers[w].pc = "unborn" /\ thread' = "idle"
        /\ UNCHANGED <<status, route, hostRoute, elevated, heal>> /\ status = None
    BY <1>t, <2>1 DEF LaunchWorker, Goes, LaunchedUnrecorded
  <2> QED
    BY <2>2, <2>3, <2>4, AskedInTurn
<1>3. CASE \/ SpawnDisconnect \/ ConnectAborts \/ StagePassword \/ ForgetLastSession
           \/ RequestDisconnect \/ DisconnectConfirmed \/ DisconnectForced
           \/ WithdrawRequest \/ ForgetStatus
  BY <1>3, <1>t, <1>q
  DEF SpawnDisconnect, ConnectAborts, StagePassword, ForgetLastSession, RequestDisconnect,
      DisconnectConfirmed, DisconnectForced, WithdrawRequest, ForgetStatus, NoTunnelIsSaved
<1>4. CASE DisconnectTimesOut
  <2>1. CASE UNCHANGED elevated
    BY <1>4, <2>1, <1>t, <1>q DEF DisconnectTimesOut, NoTunnelIsSaved
  <2>2. CASE Prompt("disconnect", None, PidToKill(status))
    BY <1>4, <2>2, <1>t, <1>p DEF DisconnectTimesOut, NoTunnelIsSaved
  <2> QED
    BY <1>4, <2>1, <2>2 DEF DisconnectTimesOut
<1>5. CASE HealAfterDisconnect
  BY <1>5, <1>h, <1>q DEF HealAfterDisconnect
<1>6. CASE Poll \/ PollHealsAgain
  <2>1. \/ HealRouteIfBroken(status) \/ UNCHANGED <<snapshot, heal>>
    BY <1>6 DEF Poll, PollHealsAgain
  <2>2. snapshot' \notin Sessions /\ heal'.gateway \notin Sessions
    BY <1>h, <1>t, <2>1 DEF NoTunnelIsSaved
  <2> QED
    BY <1>6, <1>q, <2>2 DEF Poll, PollHealsAgain
<1>7. CASE LaunchApp
  <2>1. snapshot' \notin Sessions /\ heal'.gateway \notin Sessions
    BY <1>7, <1>h, <1>t DEF LaunchApp, NoTunnelIsSaved
  <2> QED
    BY <1>7, <1>q, <2>1 DEF LaunchApp
<1>8. CASE HealStarts \/ HealRetries
  <2>1. CASE HealStarts
    <3>1. heal'.gateway \notin Sessions /\ snapshot \notin Sessions
      BY <1>t, <2>1 DEF HealStarts, NoTunnelIsSaved
    <3> QED
      BY <1>p, <2>1, <3>1 DEF HealStarts
  <2>2. CASE HealRetries
    <3>1. heal'.gateway \notin Sessions /\ heal.gateway \notin Sessions
      BY <1>t, <2>2 DEF HealRetries, NoTunnelIsSaved, Heals
    <3> QED
      BY <1>p, <2>2, <3>1 DEF HealRetries
  <2> QED
    BY <1>8, <2>1, <2>2
<1>9. CASE HealHasNothing \/ HealSucceeds \/ HealFails
  <2>1. snapshot' \notin Sessions /\ heal'.gateway \notin Sessions
    BY <1>9, <1>n, <1>t DEF HealHasNothing, HealSucceeds, HealFails, NoTunnelIsSaved
  <2> QED
    BY <1>9, <1>q, <2>1 DEF HealHasNothing, HealSucceeds, HealFails
<1>10. CASE Quit
  <2>1. /\ UNCHANGED <<workers, route, hostRoute, snapshot>>
        /\ heal'.gateway \notin Sessions /\ thread' = "idle" /\ status' = status
        /\ elevated' = {[c EXCEPT !.owner = "orphan"] : c \in elevated}
    BY <1>10, <1>n DEF Quit
  <2>2. \A c \in elevated' : c.gateway \notin Sessions
    BY <1>t, <2>1 DEF Commands, NoTunnelIsSaved
  <2>3. NoTunnelIsSaved' /\ ConnectsAlone' /\ LaunchedUnrecorded'
    BY <1>t, <2>1, <2>2 DEF NoTunnelIsSaved, ConnectsAlone, LaunchedUnrecorded
  <2> QED
    BY <2>1, <2>3, QuietInTurn
<1> QED
  BY <1>1, <1>2, <1>3, <1>4, <1>5, <1>6, <1>7, <1>8, <1>9, <1>10
  DEF GuiNext, ThreadStep, HealStep

(* It holds before anything has happened, and every step keeps it. *)
LEMMA InitInTurnIInv == SessionInit => InTurnIInv
<1> SUFFICES ASSUME SessionInit PROVE InTurnIInv
  OBVIOUS
<1>1. SessionTypeOK
  BY InitSessionIInv DEF SessionIInv
<1>2. \A w \in Sessions : workers[w] = Unborn
  BY DEF SessionInit, MachineInit
<1>3. /\ status = None /\ route = Phys /\ snapshot = None /\ elevated = {} /\ heal = NotHealing /\ thread = "idle"
  BY DEF SessionInit, MachineInit, GuiInit
<1> QED
  BY <1>1, <1>2, <1>3, MachineAssumption
  DEF InTurnIInv, WorkersAreSound, OneAtATime, ConnectsAlone, RouteIsTaken, NoTunnelIsSaved,
      TakenIsProtected, LaunchedUnrecorded, StatusIsCurrent,
      Sound, Early, Active, Protected, Unborn, NotHealing

LEMMA NextInTurnIInv ==
  SessionIInv /\ InTurnIInv /\ [SessionNext /\ InTurn]_sessionVars => SessionIInv' /\ InTurnIInv'
<1> SUFFICES ASSUME SessionIInv, InTurnIInv, [SessionNext /\ InTurn]_sessionVars
             PROVE  SessionIInv' /\ InTurnIInv'
  OBVIOUS
<1>1. SessionIInv'
  BY NextSessionIInv
<1>2. SessionTypeOK'
  BY <1>1 DEF SessionIInv
<1>3. CASE GuiNext /\ InTurn
  BY <1>1, <1>2, <1>3, GuiInTurn
<1>4. CASE MachineNext /\ UNCHANGED guiVars
  BY <1>1, <1>2, <1>4, MachineInTurn
<1>5. CASE (\E w \in Sessions : WorkerNext(w)) /\ UNCHANGED guiVars
  BY <1>1, <1>2, <1>5, WorkerInTurn
<1>6. CASE UNCHANGED sessionVars
  <2>1. NoTunnelIsSaved' /\ ConnectsAlone' /\ LaunchedUnrecorded'
    BY <1>6 DEF sessionVars, InTurnIInv, NoTunnelIsSaved, ConnectsAlone, LaunchedUnrecorded
  <2> QED
    BY <1>1, <1>2, <1>6, <2>1, QuietInTurn DEF sessionVars
<1> QED
  BY <1>3, <1>4, <1>5, <1>6 DEF SessionNext

(* Sessions in turn, of any number: while the default route points at a     *)
(* live connection's tunnel and the physical gateway was known, the host    *)
(* route to the server is there (worker.rs:163-172).                        *)
THEOREM LinkIsProtectedInTurn == InTurnSpec => []LinkIsProtected
<1>1. SessionInit => SessionIInv /\ InTurnIInv
  BY InitSessionIInv, InitInTurnIInv
<1> QED
  BY <1>1, NextInTurnIInv, InTurnProtects, PTL DEF InTurnSpec

(* And no tunnel is ever saved as the gateway to go back to, which sessions *)
(* that overlap do not keep (route.rs:64-68).                               *)
THEOREM SnapshotIsPhysicalInTurn == InTurnSpec => []SnapshotIsPhysical
<1>1. SessionInit => SessionIInv /\ InTurnIInv
  BY InitSessionIInv, InitInTurnIInv
<1>2. InTurnIInv => SnapshotIsPhysical
  BY DEF InTurnIInv, NoTunnelIsSaved, SnapshotIsPhysical
<1> QED
  BY <1>1, <1>2, NextInTurnIInv, PTL DEF InTurnSpec

(* What the status file says of a worker is never said of the one before,   *)
(* and an end it reports is the end (main.rs:339-364): of the confirmations *)
(* a disconnect waits for, only a missing file can mislead it.              *)
THEOREM StatusIsCurrentInTurn == InTurnSpec => []StatusIsCurrent
<1>1. SessionInit => SessionIInv /\ InTurnIInv
  BY InitSessionIInv, InitInTurnIInv
<1>2. InTurnIInv => StatusIsCurrent
  BY DEF InTurnIInv
<1> QED
  BY <1>1, <1>2, NextInTurnIInv, PTL DEF InTurnSpec

-------------------------------------------------------------------------------
(* Sessions that overlap save a tunnel only where `route -n get default`    *)
(* prints a gateway for one (route.rs:28-36): where it does not, the order  *)
(* of clear_status and save_route_snapshot (main.rs:276-282) does no harm,  *)
(* whatever else overlaps.                                                  *)
THEOREM SnapshotIsPhysicalUnlessShown ==
  ASSUME ~TunnelGatewayShown PROVE SessionSpec => []SnapshotIsPhysical
<1>1. SessionInit => SnapshotIsPhysical
  BY MachineAssumption DEF SessionInit, MachineInit, SnapshotIsPhysical
<1>2. SnapshotIsPhysical /\ [SessionNext]_sessionVars => SnapshotIsPhysical'
  <2> SUFFICES ASSUME SnapshotIsPhysical, [SessionNext]_sessionVars
               PROVE  snapshot' \in {snapshot, None, SavedSnapshot(status)}
    BY MachineAssumption DEF SnapshotIsPhysical, SavedSnapshot, RouteIsRead
  <2> USE DEF fileVars, machineVars
  <2>1. CASE GuiNext
    BY <2>1 DEF GuiNext, SpawnConnect, SpawnDisconnect, ThreadStep, ConnectAborts, StagePassword,
                ForgetLastSession, LaunchWorker, RequestDisconnect, DisconnectConfirmed,
                DisconnectTimesOut, DisconnectForced, WithdrawRequest, ForgetStatus,
                HealAfterDisconnect, Poll, PollHealsAgain, HealRouteIfBroken, HealStep, HealStarts,
                HealHasNothing, HealSucceeds, HealFails, HealRetries, Quit, LaunchApp
  <2>2. CASE MachineNext
    BY <2>2 DEF MachineNext, Approve, Decline, ApproveWorker, DeclineWorker, Crash
  <2>3. CASE \E w \in Sessions : WorkerNext(w)
    BY <2>3 DEF WorkerNext, WorkerStep, TruncatesStatus, WritesStatus, WorkerStarts,
                ReportConnecting, WorkerConnects, WorkerHasNoPassword, WorkerCannotConnect,
                Protect, Unroute, Repoint, ReportConnected, DisconnectReturns, OnDisconnected,
                ReportDisconnected, OnError, ReportError, WorkerExits, SeeMarker, ConnUp, ConnEnds,
                ReaderExits
  <2>4. CASE UNCHANGED sessionVars
    BY <2>4 DEF sessionVars
  <2> QED
    BY <2>1, <2>2, <2>3, <2>4 DEF SessionNext
<1> QED
  BY <1>1, <1>2, PTL DEF SessionSpec

===============================================================================
