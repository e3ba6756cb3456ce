------------------------------ MODULE Connection ------------------------------
(***************************************************************************)
(* The connection task of sstp-proto/src/connection.rs: run_inner with its *)
(* biased select!, the Handle that asks it to disconnect, and the blocking *)
(* thread that reads the utun interface.                                   *)
(*                                                                         *)
(* The engine is abstracted to the events it can return, in any order (the *)
(* module Engine says which orders are real).  An await inside a select!   *)
(* branch is a stage of its own: nothing else of the task runs meanwhile.  *)
(***************************************************************************)
EXTENDS Naturals, Sequences

CONSTANTS
  Chunks,               \* what one read can bring: sequences of engine events
  MaxUnansweredEchoes,  \* MAX_UNANSWERED_ECHOES
  ChannelCapacity,      \* mpsc::channel(64), packets from the utun reader
  MaxTunnels            \* bound: Established events in one connection

EngineEvents == {"Send", "DeliverIpPacket", "Established", "EstablishedNoAddress",
                 "Disconnected", "Fatal",
                 "Malformed"}   \* PacketReader::next_packet fails instead

ASSUME ConnectionAssumption ==
  /\ Chunks \subseteq Seq(EngineEvents)
  /\ MaxUnansweredEchoes \in Nat /\ ChannelCapacity \in Nat \ {0} /\ MaxTunnels \in Nat

Tunnels == 1 .. MaxTunnels

VARIABLES
  stage,       \* where the task is: an await point of run / run_inner
  todo,        \* engine events of the chunk being handled, not yet acted on
  unanswered,  \* unanswered_echoes
  due,         \* the idle timer has run for IDLE_TIMEOUT
  silent,      \* environment: the server will send nothing more
  stuck,       \* environment: the server's side of TCP takes nothing more
  handle,      \* the worker's Handle
  requested,   \* a message waits in the disconnect channel
  tunnels,     \* how many utun interfaces have been created; the last is `utun`
  reader,      \* the blocking reader thread of each interface
  queued,      \* packets in each reader's channel
  events       \* the Events sent to the worker, Progress left out

taskVars == <<stage, todo, unanswered, due, silent, stuck>>
handleVars == <<handle, requested>>
tunnelVars == <<tunnels, reader, queued>>
connVars == <<stage, todo, unanswered, due, silent, stuck, handle, requested,
              tunnels, reader, queued, events>>

Stages == {"tcp", "tls", "http",              \* connecting: plain awaits
           "select",                          \* waiting in select!
           "handling",                        \* in the read branch, between two awaits
           "writing",                         \* tls.write_all inside a branch
           "farewell",                        \* tls.write_all of DISCONNECT
           "awaitAck",                        \* the 3 s read after DISCONNECT
           "done"}

Connecting == stage \in {"tcp", "tls", "http"}
Ended      == stage = "done"

ConnInit ==
  /\ stage = "tcp" /\ todo = <<>> /\ unanswered = 0 /\ due = FALSE
  /\ silent = FALSE /\ stuck = FALSE
  /\ handle = "held" /\ requested = FALSE
  /\ tunnels = 0
  /\ reader = [t \in Tunnels |-> "none"]
  /\ queued = [t \in Tunnels |-> 0]
  /\ events = <<>>

(* `run` reports how run_inner returned; everything the task owned is dropped. *)
Finish(event) ==
  /\ stage' = "done"
  /\ todo' = <<>>
  /\ events' = Append(events, event)
  /\ UNCHANGED <<unanswered, due, silent, stuck, handleVars, tunnelVars>>

-------------------------------------------------------------------------------
(* Lines 123-170: TCP, TLS and HTTP, one await after the other.  None has a *)
(* timeout and none looks at the disconnect channel.                        *)
NextStage == CASE stage = "tcp" -> "tls" [] stage = "tls" -> "http" [] stage = "http" -> "select"

ConnectStep ==
  /\ Connecting /\ ~silent
  /\ stage' = NextStage
  /\ UNCHANGED <<todo, unanswered, due, silent, stuck, handleVars, tunnelVars, events>>

ConnectFails == Connecting /\ Finish("Error")

-------------------------------------------------------------------------------
(* select! is biased: a branch is taken only if none before it is ready.    *)
(* recv() also completes, with None, once the Handle is gone.               *)
DisconnectReady == requested \/ handle = "dropped"

YieldsToDisconnect == ~DisconnectReady

YieldsToTimer == ~due

(* Lines 185-191: whether DISCONNECT could be written makes no difference.  *)
DisconnectBranch ==
  /\ stage = "select" /\ DisconnectReady
  /\ requested' = FALSE
  /\ stage' = "farewell"
  /\ UNCHANGED <<todo, unanswered, due, silent, stuck, handle, tunnelVars, events>>

FarewellOver ==
  /\ stage = "farewell"
  /\ stage' = "awaitAck"
  /\ UNCHANGED <<todo, unanswered, due, silent, stuck, handleVars, tunnelVars, events>>

WrongAckOrTimeout == stage = "awaitAck" /\ ~silent /\ Finish("Disconnected")  \* no timeout

(* The read after DISCONNECT returns something, fails or times out. *)
AckOrTimeout == stage = "awaitAck" /\ Finish("Disconnected")

(* Lines 194-201: bytes arrived. *)
ReadBranch(chunk) ==
  /\ stage = "select" /\ YieldsToDisconnect /\ ~silent
  /\ stage' = "handling" /\ todo' = chunk
  /\ due' = FALSE /\ unanswered' = 0
  /\ UNCHANGED <<silent, stuck, handleVars, tunnelVars, events>>

ReadEnds ==
  /\ stage = "select" /\ YieldsToDisconnect /\ ~silent
  /\ \E event \in {"Disconnected", "Error"} : Finish(event)   \* n = 0, or an error

(* Lines 203-258: the events of the chunk, one at a time. *)
HandleSend ==
  /\ stage = "handling" /\ todo # <<>> /\ Head(todo) = "Send"
  /\ stage' = "writing" /\ todo' = Tail(todo)
  /\ UNCHANGED <<unanswered, due, silent, stuck, handleVars, tunnelVars, events>>

HandleDeliver ==
  /\ stage = "handling" /\ todo # <<>> /\ Head(todo) = "DeliverIpPacket"
  /\ todo' = Tail(todo)
  /\ UNCHANGED <<stage, unanswered, due, silent, stuck, handleVars, tunnelVars, events>>

(* A second Established makes a second interface and replaces `utun` and    *)
(* `utun_rx`; the first reader thread keeps its own reference.              *)
HandleEstablished ==
  /\ stage = "handling" /\ todo # <<>> /\ Head(todo) = "Established"
  /\ tunnels < MaxTunnels
  /\ todo' = Tail(todo)
  /\ tunnels' = tunnels + 1
  /\ reader' = [reader EXCEPT ![tunnels'] = "reading"]
  /\ events' = Append(events, "Connected")
  /\ UNCHANGED <<stage, unanswered, due, silent, stuck, handleVars, queued>>

(* Fatal, a malformed packet, a missing address, a utun that cannot be made *)
HandleFailure ==
  /\ stage = "handling" /\ todo # <<>>
  /\ Head(todo) \in {"Established", "EstablishedNoAddress", "Fatal", "Malformed"}
  /\ Finish("Error")

WrongHandleDisconnected ==      \* reports it and goes on with the loop
  /\ stage = "handling" /\ todo # <<>> /\ Head(todo) = "Disconnected"
  /\ todo' = Tail(todo)
  /\ events' = Append(events, "Disconnected")
  /\ UNCHANGED <<stage, unanswered, due, silent, stuck, handleVars, tunnelVars>>

HandleDisconnected ==
  /\ stage = "handling" /\ todo # <<>> /\ Head(todo) = "Disconnected"
  /\ Finish("Disconnected")

HandleNoMore ==
  /\ stage = "handling" /\ todo = <<>>
  /\ stage' = "select"
  /\ UNCHANGED <<todo, unanswered, due, silent, stuck, handleVars, tunnelVars, events>>

(* Lines 261-267: the idle timer. *)
TimerRuns ==
  /\ ~Ended /\ ~Connecting /\ ~due
  /\ due' = TRUE
  /\ UNCHANGED <<stage, todo, unanswered, silent, stuck, handleVars, tunnelVars, events>>

WrongTooManyEchoes == unanswered > MaxUnansweredEchoes + 1

TooManyEchoes == unanswered >= MaxUnansweredEchoes

WrongEchoBranch ==     \* does not count
  /\ stage = "select" /\ due /\ YieldsToDisconnect /\ ~TooManyEchoes
  /\ due' = FALSE
  /\ stage' = "writing"
  /\ UNCHANGED <<todo, unanswered, silent, stuck, handleVars, tunnelVars, events>>

EchoBranch ==
  /\ stage = "select" /\ due /\ YieldsToDisconnect /\ ~TooManyEchoes
  /\ due' = FALSE
  /\ unanswered' = unanswered + 1
  /\ stage' = "writing"
  /\ UNCHANGED <<todo, silent, stuck, handleVars, tunnelVars, events>>

GiveUpBranch ==
  /\ stage = "select" /\ due /\ YieldsToDisconnect /\ TooManyEchoes
  /\ Finish("Error")

(* Lines 269-272: a packet the reader thread queued. *)
ForwardBranch ==
  /\ stage = "select" /\ YieldsToDisconnect /\ YieldsToTimer
  /\ tunnels # 0 /\ queued[tunnels] > 0
  /\ queued' = [queued EXCEPT ![tunnels] = @ - 1]
  /\ stage' = "writing"
  /\ UNCHANGED <<todo, unanswered, due, silent, stuck, handleVars, tunnels, reader, events>>

(* A write ends when the server's side of TCP takes it, or fails. *)
WriteDone ==
  /\ stage = "writing"
  /\ stage' = "handling"     \* with nothing left of the chunk, back to select!
  /\ UNCHANGED <<todo, unanswered, due, silent, stuck, handleVars, tunnelVars, events>>

WriteFails == stage = "writing" /\ Finish("Error")

-------------------------------------------------------------------------------
(* Lines 232-245: the reader thread of interface t.  Its receiver is gone   *)
(* once the task has ended or has moved on to another interface.            *)
WrongReceiverGone(t) == t # tunnels     \* the task keeps its end of the channel

ReceiverGone(t) == Ended \/ t # tunnels

ReaderTakesPacket(t) ==
  /\ reader[t] = "reading"
  /\ reader' = [reader EXCEPT ![t] = "sending"]
  /\ UNCHANGED <<taskVars, handleVars, tunnels, queued, events>>

ReaderSends(t) ==
  /\ reader[t] = "sending" /\ ~ReceiverGone(t) /\ queued[t] < ChannelCapacity
  /\ reader' = [reader EXCEPT ![t] = "reading"]
  /\ queued' = [queued EXCEPT ![t] = @ + 1]
  /\ UNCHANGED <<taskVars, handleVars, tunnels, events>>

ReaderExits(t) ==
  /\ reader[t] = "sending" /\ ReceiverGone(t)
  /\ reader' = [reader EXCEPT ![t] = "exited"]
  /\ UNCHANGED <<taskVars, handleVars, tunnels, queued, events>>

ReaderFails(t) ==      \* read_packet returns an error
  /\ reader[t] = "reading"
  /\ reader' = [reader EXCEPT ![t] = "exited"]
  /\ UNCHANGED <<taskVars, handleVars, tunnels, queued, events>>

WrongInterfaceUp(t) == reader[t] \in {"reading", "sending"}   \* moved, not shared

(* The fd, and with it the interface, lives while anyone holds the Arc.     *)
InterfaceUp(t) == \/ reader[t] \in {"reading", "sending"}
                  \/ t = tunnels /\ ~Ended

-------------------------------------------------------------------------------
(* The Handle: disconnect() sends a message and awaits the task; it may     *)
(* also just be dropped.                                                    *)
Disconnect ==
  /\ handle = "held"
  /\ handle' = "disconnecting" /\ requested' = ~Ended
  /\ UNCHANGED <<taskVars, tunnelVars, events>>

DisconnectReturns ==
  /\ handle = "disconnecting" /\ Ended
  /\ handle' = "returned"
  /\ UNCHANGED <<taskVars, requested, tunnelVars, events>>

DropHandle ==
  /\ handle = "held"
  /\ handle' = "dropped"
  /\ UNCHANGED <<taskVars, requested, tunnelVars, events>>

(* The server stops talking, or stops listening. *)
GoSilent ==
  /\ ~silent
  /\ silent' = TRUE
  /\ UNCHANGED <<stage, todo, unanswered, due, stuck, handleVars, tunnelVars, events>>

GoStuck ==
  /\ ~stuck
  /\ stuck' = TRUE
  /\ UNCHANGED <<stage, todo, unanswered, due, silent, handleVars, tunnelVars, events>>

-------------------------------------------------------------------------------
HandleEvent == HandleSend \/ HandleDeliver \/ HandleEstablished \/ HandleFailure
               \/ HandleDisconnected \/ HandleNoMore

ConnNext ==
  \/ ConnectStep \/ ConnectFails
  \/ DisconnectBranch \/ FarewellOver \/ AckOrTimeout
  \/ \E chunk \in Chunks : ReadBranch(chunk)
  \/ ReadEnds
  \/ HandleEvent
  \/ TimerRuns \/ EchoBranch \/ GiveUpBranch \/ ForwardBranch
  \/ WriteDone \/ WriteFails
  \/ \E t \in Tunnels : \/ ReaderTakesPacket(t) \/ ReaderSends(t)
                         \/ ReaderExits(t) \/ ReaderFails(t)
  \/ Disconnect \/ DisconnectReturns \/ DropHandle
  \/ GoSilent \/ GoStuck

(* The runtime polls the task whenever it can move, the kernel gives up a   *)
(* TCP connection that is not answered, the timer runs, writes end while    *)
(* the server takes bytes, and the reader thread goes on once it has a      *)
(* packet.  No fairness of the server (TLS, HTTP, ReadBranch), of local     *)
(* traffic (ReaderTakesPacket), nor of a write the server does not take: it *)
(* may fail, be taken by a buffer, or last as long as TCP keeps trying.     *)
ConnFairness ==
  /\ WF_connVars(stage = "tcp" /\ (ConnectStep \/ ConnectFails))
  /\ WF_connVars(DisconnectBranch) /\ WF_connVars(AckOrTimeout)
  /\ WF_connVars(HandleEvent)
  /\ WF_connVars(TimerRuns) /\ WF_connVars(EchoBranch) /\ WF_connVars(GiveUpBranch)
  /\ WF_connVars(ForwardBranch)
  /\ WF_connVars(~stuck /\ WriteDone) /\ WF_connVars(~stuck /\ FarewellOver)
  /\ WF_connVars(DisconnectReturns)
  /\ \A t \in Tunnels : WF_connVars(ReaderSends(t) \/ ReaderExits(t))

ConnSpec == ConnInit /\ [][ConnNext]_connVars /\ ConnFairness

-------------------------------------------------------------------------------
(* Every variable has its type; the counters and channels keep their bounds. *)
ConnTypeOK ==
  /\ stage \in Stages
  /\ todo \in Seq(EngineEvents)
  /\ unanswered \in 0 .. MaxUnansweredEchoes
  /\ due \in BOOLEAN /\ silent \in BOOLEAN /\ stuck \in BOOLEAN /\ requested \in BOOLEAN
  /\ handle \in {"held", "disconnecting", "returned", "dropped"}
  /\ tunnels \in 0 .. MaxTunnels
  /\ reader \in [Tunnels -> {"none", "reading", "sending", "exited"}]
  /\ queued \in [Tunnels -> 0 .. ChannelCapacity]
  /\ events \in Seq({"Connected", "Disconnected", "Error"})

(* The worker is told exactly once that the connection is over, after       *)
(* everything else and when the task is over (connection.rs:46-50, 103-112). *)
Terminal(e) == e \in {"Disconnected", "Error"}
OneTerminalEvent ==
  /\ Ended => events # <<>>
  /\ \A i \in DOMAIN events : Terminal(events[i]) <=> (Ended /\ i = Len(events))

HeldUp == stuck /\ stage \in {"writing", "farewell"}

(* A disconnect asked for while the select! loop runs is carried out,       *)
(* whatever arrives meanwhile from the server, the timer or the interface,  *)
(* unless a write the server does not take holds the task up: no write has  *)
(* a timeout (connection.rs:186, 213, 266, 272).                            *)
DisconnectFromLoopReturns ==
  (handle = "disconnecting" /\ stage \in {"select", "handling", "writing"})
    ~> (handle = "returned" \/ HeldUp)

(* A server that has gone silent is given up, however much local traffic    *)
(* there is to forward (connection.rs:27-32, 261-268), and also when it     *)
(* takes no more bytes, unless a write of ours is held up by that.          *)
SilentServerIsDropped == (silent /\ stage = "select") ~> (Ended \/ HeldUp)

(* A reader thread that waits for room in its channel is set free when the  *)
(* task ends, and lets go of the interface: a full channel cannot hold up   *)
(* the worker's exit (connection.rs:238-240, worker.rs:62).                 *)
ReaderIsReleased ==
  \A t \in Tunnels : (Ended /\ reader[t] = "sending") ~> ~InterfaceUp(t)

(* connection.rs:65-66: disconnect always terminates. *)
DisconnectReturnsAlways == handle = "disconnecting" ~> handle = "returned"

(* utun.rs:68-71: dropping the interface tears it down at once; here: once  *)
(* the task that owned it is over, the interface goes away.                 *)
InterfaceGoesAway == \A t \in Tunnels : (Ended /\ InterfaceUp(t)) ~> ~InterfaceUp(t)

-------------------------------------------------------------------------------
(* What the worker sees of the connection: the last event, and whether an   *)
(* interface is there.                                                      *)
LastEvent ==
  IF events = <<>> THEN "connecting"
  ELSE IF events[Len(events)] = "Connected" THEN "up" ELSE events[Len(events)]

SomeInterface == \E t \in Tunnels : InterfaceUp(t)

Promise == INSTANCE Link WITH conn <- LastEvent, interface <- SomeInterface

(* The connection task keeps the promise of the module Link: Connected only *)
(* with an interface, which stays while the connection is up even if its    *)
(* reader fails; one end, after which nothing comes up (connection.rs:50,   *)
(* 216-246).                                                                *)
ConnectionKeepsPromise == Promise!LinkSpec
===============================================================================
