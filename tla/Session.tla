-------------------------------- MODULE Session --------------------------------
(***************************************************************************)
(* The application, its workers and the machine they share: every          *)
(* interleaving of user, administrator prompts, GUI threads, worker        *)
(* processes and connections.                                              *)
(***************************************************************************)
EXTENDS Gui, Worker

SessionInit == MachineInit /\ GuiInit

MachineNext == \/ \E c \in elevated : Approve(c) \/ Decline(c)
               \/ \E w \in Sessions : ApproveWorker(w) \/ DeclineWorker(w) \/ Crash(w)

SessionNext ==
  \/ GuiNext
  \/ (MachineNext \/ \E w \in Sessions : WorkerNext(w)) /\ UNCHANGED guiVars

AnyHeal(Act(_)) == \E c \in elevated : c.owner = "heal" /\ Act(c)
AnyPrompt(Act(_)) == \E c \in elevated : Act(c)

(* Threads and processes keep running and the poll keeps polling; an open   *)
(* prompt is answered, and a repair asked for again and again is one day    *)
(* approved; some packet for a tunnel always comes along and frees the      *)
(* reader of one that is over (MCConnectionInterface: what if none does).   *)
(* The user, the server and the connection owe nothing.                     *)
SessionFairness ==
  /\ WF_sessionVars(ThreadStep)
  /\ WF_sessionVars(Poll) /\ WF_sessionVars(PollHealsAgain) /\ WF_sessionVars(HealStep)
  /\ WF_sessionVars((AnyPrompt(Approve) \/ AnyPrompt(Decline)) /\ UNCHANGED guiVars)
  /\ SF_sessionVars(AnyHeal(Approve) /\ UNCHANGED guiVars)
  /\ \A w \in Sessions :
       /\ WF_sessionVars(WorkerStep(w) /\ UNCHANGED guiVars)
       /\ WF_sessionVars(ReaderExits(w) /\ UNCHANGED guiVars)

SessionSpec == SessionInit /\ [][SessionNext]_sessionVars /\ SessionFairness

-------------------------------------------------------------------------------
(* Every file, route, process and thread variable has its type. *)
SessionTypeOK == MachineTypeOK /\ GuiTypeOK

(* While the default route points at a live connection's tunnel and the     *)
(* physical gateway was known, the server is reached beside the tunnel, not *)
(* through it (worker.rs:163-172): the host route comes first and goes last. *)
LinkIsProtected ==
  \A w \in Sessions :
    route = w /\ workers[w].conn = "up" /\ workers[w].gateway => hostRoute

(* What the status file says is said of the worker there is: its pid is the *)
(* one a disconnect may have to kill, and an end reported is the end        *)
(* (main.rs:339-364, worker.rs:32-49).  Of a worker that has not written    *)
(* yet nothing is said, and nothing of the one before is left.              *)
Recorded(w) ==
  IF RecordedState(status) \in {"Disconnected", "Error"}
  THEN workers[w].pc \in {"drainOk", "exiting"} /\ workers[w].conn \notin {"connecting", "up"}
  ELSE RecordedPid(status) = w
StatusIsCurrent ==
  status # None => \A w \in Sessions : workers[w].pc \notin {"unborn", "gone"} => Recorded(w)

(* A tunnel that is up and stays up, with the buttons left alone, is shown  *)
(* as Connected, by an application started after it too (main.rs:571-605).  *)
TunnelStaysUp == running /\ ~Busy /\ WorkerUp
UiCatchesUp == []<>~TunnelStaysUp \/ []<>(vpnStatus = "Connected")

(* Connected does not stay on display when no connection is up any more     *)
(* (main.rs:593-600): after a crash nothing is reported, and an error is    *)
(* reported only once the worker's runtime is gone (worker.rs:32-43, 62).   *)
NothingUp == \A w \in Sessions : workers[w].conn # "up"
DropIsShown ==
  (vpnStatus = "Connected" /\ NothingUp) ~> (vpnStatus # "Connected" \/ ~NothingUp)

(* The disconnect thread comes to its end and gives the buttons back,       *)
(* whatever the worker does (main.rs:325-330).                              *)
DisconnectCompletes == thread = "waiting" ~> ~Busy

(* route.rs:117-126: healing never opens a second administrator prompt      *)
(* while its first one is open, whoever asks for it meanwhile.              *)
OneHealPrompt == [][HealStarts \/ HealRetries => ~PromptOpen("heal")]_sessionVars

(* With nothing of ours left running and a snapshot of the physical gateway *)
(* at hand, the default route comes back: no failed attempt gives up the    *)
(* snapshot or the healing (route.rs:142-146).                              *)
AllOver == /\ running /\ \A w \in Sessions : workers[w].pc \in {"unborn", "gone"}
           /\ thread \notin {"staging", "staged", "launching"}
RouteComesBack ==
  (AllOver /\ snapshot = Phys /\ route # Phys) ~> (route = Phys \/ ~AllOver)

-------------------------------------------------------------------------------
(* What comments of the code say and overlapping sessions or an open prompt *)
(* make false. *)

(* main.rs:325-326: spawn_disconnect signals the running worker and waits   *)
(* for it to confirm.  Then no worker of ours is yet to come up.            *)
ConfirmedMeansEnded ==
  [][DisconnectConfirmed =>
       \A w \in Sessions : workers[w].pc \notin {"asked", "born", "starting"}]_sessionVars

(* route.rs:64-68: no snapshot is saved when the route already points at    *)
(* one of our own live tunnels.                                             *)
SnapshotIsPhysical == snapshot \notin Sessions
===============================================================================
