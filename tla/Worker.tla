--------------------------------- MODULE Worker --------------------------------
(***************************************************************************)
(* The root worker process of src/worker.rs, one action per event it acts  *)
(* on, with a step between any two of its effects on the shared machine.   *)
(* The connection task is abstracted to whether it makes a tunnel and how  *)
(* it ends; the module Connection is the detailed one.                     *)
(***************************************************************************)
EXTENDS Machine

Goes(w, pc) == workers' = [workers EXCEPT ![w].pc = pc]

(* write_status truncates the file and then writes it: whoever reads it in  *)
(* between finds nothing, and for good if the worker dies in between.       *)
TruncatesStatus(w) ==
  /\ workers[w].pc \in {"starting", "reporting", "closed"}
       \/ (workers[w].pc = "drainError" /\ ~workers[w].tunnel)
  /\ ~workers[w].torn
  /\ status' = None
  /\ workers' = [workers EXCEPT ![w].torn = TRUE]
  /\ UNCHANGED <<marker, password, snapshot, route, hostRoute, elevated>>

WritesStatus(w, st, pc) ==
  /\ workers[w].torn
  /\ status' = st
  /\ workers' = [workers EXCEPT ![w].pc = pc, ![w].torn = FALSE]
  /\ UNCHANGED <<marker, password, snapshot, route, hostRoute, elevated>>

(* Lines 45-52: the password is taken, then the status says Connecting.     *)
WorkerStarts(w) ==
  /\ workers[w].pc = "born" /\ password
  /\ password' = FALSE
  /\ Goes(w, "starting")
  /\ UNCHANGED <<status, marker, snapshot, route, hostRoute, elevated>>

ReportConnecting(w) ==
  /\ workers[w].pc = "starting"
  /\ WritesStatus(w, StatusOf("Connecting", w, None), "resolving")

(* Lines 58-73: the gateway is looked up and the connection starts. *)
WorkerConnects(w) ==
  /\ workers[w].pc = "resolving"
  /\ workers' = [workers EXCEPT ![w].pc = "running", ![w].conn = "connecting",
                                ![w].gateway = RouteIsRead]
  /\ UNCHANGED <<fileVars, route, hostRoute, elevated>>

(* No password, or an empty one. *)
WorkerHasNoPassword(w) ==
  /\ workers[w].pc = "born"
  /\ password' = FALSE
  /\ Goes(w, "drainError")
  /\ UNCHANGED <<status, marker, snapshot, route, hostRoute, elevated>>

(* No address for the server, or no runtime. *)
WorkerCannotConnect(w) ==
  /\ workers[w].pc = "resolving"
  /\ Goes(w, "drainError")
  /\ UNCHANGED <<fileVars, route, hostRoute, elevated>>

-------------------------------------------------------------------------------
(* The connection task, by what the module Link says of it.  It may go on   *)
(* connecting for ever; once up it may end at any time.                     *)

ConnUp(w) ==
  /\ workers[w].conn = "connecting"
  /\ workers' = [workers EXCEPT ![w].conn = "up", ![w].tunnel = TRUE,
                                ![w].connected = "waiting"]
  /\ UNCHANGED <<fileVars, route, hostRoute, elevated>>

ConnEnds(w, how) ==
  /\ workers[w].conn \in {"connecting", "up"}
  /\ \/ /\ workers' = [workers EXCEPT ![w].conn = how]
        /\ UNCHANGED route
     \/ /\ workers' = [workers EXCEPT ![w].conn = how, ![w].tunnel = FALSE]
        /\ route' = RouteWithout(route, w)
  /\ UNCHANGED <<fileVars, hostRoute, elevated>>

ConnEnded(w) == workers[w].conn \in {"Disconnected", "Error"}

(* Lines 232-245 of connection.rs: once the task is over, the next packet   *)
(* ends the thread that reads the interface, and the interface with it.     *)
ReaderExits(w) ==
  /\ ConnEnded(w) /\ workers[w].tunnel
  /\ workers' = [workers EXCEPT ![w].tunnel = FALSE]
  /\ route' = RouteWithout(route, w)
  /\ UNCHANGED <<fileVars, hostRoute, elevated>>

-------------------------------------------------------------------------------
(* Lines 85-109: Connected.  The event waits in the channel while the       *)
(* worker is doing something else, even past the end of the connection.     *)

WrongProtect(w) ==      \* takes the host route for added
  /\ workers[w].pc = "running" /\ workers[w].connected = "waiting"
  /\ workers' = [workers EXCEPT ![w].pc = "repointing", ![w].connected = "taken",
                                ![w].protected = workers[w].gateway]
  /\ UNCHANGED <<fileVars, route, hostRoute, elevated>>

(* add_protective_host_route *)
Protect(w) ==
  /\ workers[w].pc = "running" /\ workers[w].connected = "waiting"
  /\ hostRoute' = (hostRoute \/ workers[w].gateway)
  /\ workers' = [workers EXCEPT ![w].pc = "repointing", ![w].connected = "taken",
                                ![w].protected = workers[w].gateway]
  /\ UNCHANGED <<fileVars, route, elevated>>

(* set_default_route_via_interface: two commands.  The old default goes     *)
(* even when the new one cannot be added, because the interface is gone or  *)
(* someone else has added a default meanwhile.                              *)
Unroute(w) ==
  /\ workers[w].pc = "repointing"
  /\ route' = None
  /\ Goes(w, "unrouted")
  /\ UNCHANGED <<fileVars, hostRoute, elevated>>

Repoint(w) ==
  /\ workers[w].pc = "unrouted"
  /\ route' = IF workers[w].tunnel /\ route = None THEN w ELSE route
  /\ Goes(w, "reporting")
  /\ UNCHANGED <<fileVars, hostRoute, elevated>>

ReportConnected(w) ==
  /\ workers[w].pc = "reporting"
  /\ WritesStatus(w, StatusOf("Connected", w, w), "running")

-------------------------------------------------------------------------------
(* Lines 130-147: the marker is looked for after 500 ms without an event,   *)
(* so never while events keep coming.                                       *)
SeeMarker(w) ==
  /\ workers[w].pc = "running" /\ ~workers[w].sent /\ marker
  /\ workers' = [workers EXCEPT ![w].pc = "closing", ![w].sent = TRUE]
  /\ UNCHANGED <<fileVars, route, hostRoute, elevated>>

DisconnectReturns(w) ==
  /\ workers[w].pc = "closing" /\ ConnEnded(w)
  /\ Goes(w, "running")
  /\ UNCHANGED <<fileVars, route, hostRoute, elevated>>

(* Lines 110-127 and 151-154: the terminal event, after a waiting Connected. *)
HostRouteAfter(w) == hostRoute /\ ~workers[w].protected

TakesLastEvent(w) ==
  workers[w].pc = "running" /\ ConnEnded(w) /\ workers[w].connected # "waiting"

OnDisconnected(w) ==
  /\ TakesLastEvent(w) /\ workers[w].conn = "Disconnected"
  /\ hostRoute' = HostRouteAfter(w)
  /\ Goes(w, "closed")
  /\ UNCHANGED <<fileVars, route, elevated>>

ReportDisconnected(w) ==
  /\ workers[w].pc = "closed"
  /\ WritesStatus(w, StatusOf("Disconnected", None, None), "drainOk")

OnError(w) ==
  /\ TakesLastEvent(w) /\ workers[w].conn = "Error"
  /\ hostRoute' = HostRouteAfter(w)
  /\ Goes(w, "drainError")
  /\ UNCHANGED <<fileVars, route, elevated>>

(* Lines 32-43: dropping the runtime waits for the reader thread; only then *)
(* is an error reported, and any disconnect request withdrawn.              *)
ReportError(w) ==
  /\ workers[w].pc = "drainError" /\ ~workers[w].tunnel
  /\ WritesStatus(w, StatusOf("Error", None, None), "exiting")

WorkerExits(w) ==
  /\ workers[w].pc = "exiting" \/ (workers[w].pc = "drainOk" /\ ~workers[w].tunnel)
  /\ marker' = FALSE
  /\ Die(w)
  /\ UNCHANGED <<status, password, snapshot, route, hostRoute, elevated>>

WorkerStep(w) ==      \* what the process gets round to, whatever the events
  \/ TruncatesStatus(w)
  \/ WorkerStarts(w) \/ ReportConnecting(w) \/ WorkerConnects(w)
  \/ WorkerHasNoPassword(w) \/ WorkerCannotConnect(w)
  \/ Protect(w) \/ Unroute(w) \/ Repoint(w) \/ ReportConnected(w)
  \/ DisconnectReturns(w)
  \/ OnDisconnected(w) \/ ReportDisconnected(w)
  \/ OnError(w) \/ ReportError(w) \/ WorkerExits(w)

WorkerNext(w) ==
  \/ WorkerStep(w) \/ SeeMarker(w)
  \/ ConnUp(w) \/ (\E how \in {"Disconnected", "Error"} : ConnEnds(w, how))
  \/ ReaderExits(w)
===============================================================================
