-------------------------------- MODULE Machine --------------------------------
(***************************************************************************)
(* What the unprivileged GUI and the root workers share: the files of      *)
(* ipc.rs, the saved gateway and the route reading of route.rs, the        *)
(* machine's routes, and the elevated commands waiting for the user.       *)
(*                                                                         *)
(* A worker's number stands for its process id, for its utun interface and *)
(* for the gateway text that interface shows.  Process ids are not reused. *)
(***************************************************************************)
EXTENDS Naturals

CONSTANTS
  MaxSessions,         \* bound: workers ever launched
  TunnelGatewayShown,  \* `route -n get default` prints a gateway line for a tunnel
  Phys,                \* the physical default gateway
  None                 \* Option::None; no such file; no such route

Sessions == 1 .. MaxSessions

ASSUME MachineAssumption ==
  /\ MaxSessions \in Nat /\ TunnelGatewayShown \in BOOLEAN
  /\ Phys # None /\ {Phys, None} \cap Sessions = {}

VARIABLES
  status,     \* vpn-status.json, None when there is none or nothing in it
  marker,     \* the disconnect request exists
  password,   \* the pending password exists
  snapshot,   \* pre-vpn-gateway.txt
  route,      \* the default route: Phys, a tunnel or None
  hostRoute,  \* the host route to the server, by the physical gateway, exists
  elevated,   \* route and kill commands waiting in an administrator prompt
  workers     \* the worker processes, launched or not

fileVars == <<status, marker, password, snapshot>>

States  == {"Connecting", "Connected", "Disconnected", "Error"}
Status  == [state : States, pid : Sessions \cup {None}, interface : Sessions \cup {None}]
StatusOf(state, pid, interface) == [state |-> state, pid |-> pid, interface |-> interface]

Commands == [owner : {"heal", "disconnect", "orphan"},
             gateway : Sessions \cup {Phys, None}, kill : Sessions \cup {None}]

WorkerType ==
  [pc : {"unborn", "asked",                    \* its own administrator prompt is open
         "born", "starting", "resolving", "running",
         "repointing", "unrouted", "reporting",  \* inside the Connected handler
         "closing",                            \* awaits Handle::disconnect
         "closed",                             \* about to report Disconnected
         "drainOk", "drainError",              \* the runtime waits for the utun reader
         "exiting",
         "gone"},
   conn : {"none", "connecting", "up", "Disconnected", "Error"},  \* the connection task
   tunnel : BOOLEAN,      \* the interface exists
   connected : {"none", "waiting", "taken"},   \* the Connected event
   torn : BOOLEAN,        \* the status file is truncated and not yet written
   sent : BOOLEAN,        \* disconnect_sent
   gateway : BOOLEAN,     \* pre_vpn_gateway.is_some()
   protected : BOOLEAN]   \* route_protected

Unborn == [pc |-> "unborn", conn |-> "none", tunnel |-> FALSE, connected |-> "none", torn |-> FALSE,
           sent |-> FALSE, gateway |-> FALSE, protected |-> FALSE]

PidAlive(w) == w # None /\ workers[w].pc \notin {"unborn", "asked", "gone"}

MachineInit ==
  /\ status = None /\ marker = FALSE /\ password = FALSE /\ snapshot = None
  /\ route = Phys /\ hostRoute = FALSE /\ elevated = {}
  /\ workers = [w \in Sessions |-> Unborn]

-------------------------------------------------------------------------------
(* route.rs.  `st` is the status file at the moment of the call. *)

(* current_default_route needs both a gateway and an interface line. *)
RouteIsRead == route = Phys \/ (route \in Sessions /\ TunnelGatewayShown)

(* What a reader of the status file sees, None when there is no file. *)
RecordedState(st) == IF st = None THEN None ELSE st.state
RecordedPid(st)   == IF st = None THEN None ELSE st.pid

OwnedByLiveWorker(st) == st # None /\ st.interface = route /\ PidAlive(RecordedPid(st))

HasDefaultRoute(st) ==
  /\ RouteIsRead
  /\ route \in Sessions => OwnedByLiveWorker(st) /\ workers[route].tunnel

SavedSnapshot(st) ==
  IF RouteIsRead /\ ~(route \in Sessions /\ OwnedByLiveWorker(st)) THEN route ELSE snapshot

(* cleanup_fragment: the pid to kill is read when the command is written. *)
PidToKill(st) == IF PidAlive(RecordedPid(st)) THEN RecordedPid(st) ELSE None

-------------------------------------------------------------------------------
(* The machine.  The kernel drops the routes of an interface that goes away. *)

RouteWithout(r, w) == IF r = w THEN None ELSE r

Die(w) == workers' = [workers EXCEPT ![w].pc = "gone", ![w].conn = "none",
                                        ![w].tunnel = FALSE, ![w].torn = FALSE]

Crash(w) ==            \* the worker is killed by someone else, or aborts
  /\ PidAlive(w)
  /\ Die(w) /\ route' = RouteWithout(route, w)
  /\ UNCHANGED <<fileVars, hostRoute, elevated>>

(* `route add default gw || route change default gw; kill -9 pid`, approved. *)
Repaired(gateway) ==
  IF gateway = Phys \/ (gateway \in Sessions /\ workers[gateway].tunnel) THEN gateway ELSE route

Approve(c) ==
  /\ c \in elevated
  /\ elevated' = elevated \ {c}
  /\ route' = RouteWithout(Repaired(c.gateway), c.kill)
  /\ IF PidAlive(c.kill) THEN Die(c.kill) ELSE UNCHANGED workers
  /\ UNCHANGED <<fileVars, hostRoute>>

Decline(c) ==
  /\ c \in elevated
  /\ elevated' = elevated \ {c}
  /\ UNCHANGED <<fileVars, route, hostRoute, workers>>

(* The prompt that starts a worker. *)
ApproveWorker(w) ==
  /\ workers[w].pc = "asked"
  /\ workers' = [workers EXCEPT ![w].pc = "born"]
  /\ UNCHANGED <<fileVars, route, hostRoute, elevated>>

DeclineWorker(w) ==
  /\ workers[w].pc = "asked"
  /\ workers' = [workers EXCEPT ![w].pc = "gone"]
  /\ UNCHANGED <<fileVars, route, hostRoute, elevated>>

MachineTypeOK ==
  /\ status \in Status \cup {None}
  /\ marker \in BOOLEAN /\ password \in BOOLEAN /\ hostRoute \in BOOLEAN
  /\ snapshot \in Sessions \cup {Phys, None}
  /\ route \in Sessions \cup {Phys, None}
  /\ elevated \subseteq Commands
  /\ workers \in [Sessions -> WorkerType]
===============================================================================
