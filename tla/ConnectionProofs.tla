---------------------------- MODULE ConnectionProofs ---------------------------
(***************************************************************************)
(* Theorems about Connection, for every set of chunks, echo limit, channel *)
(* capacity and number of interfaces.                                      *)
(***************************************************************************)
EXTENDS Connection, TLAPS

(***************************************************************************)
(* The strengthening: a reader thread belongs to an interface that was     *)
(* made, and an event that was sent before the end was Connected, for one. *)
(***************************************************************************)
ReadersHaveInterfaces == \A t \in Tunnels : reader[t] # "none" => t <= tunnels

ConnectedHasInterface == events # <<>> /\ ~Ended => tunnels # 0

ConnIInv == /\ ConnTypeOK
            /\ OneTerminalEvent
            /\ ReadersHaveInterfaces
            /\ ConnectedHasInterface

(* The invariant holds of a connection that has just been started. *)
LEMMA ConnInitIInv == ConnInit => ConnIInv
<1> SUFFICES ASSUME ConnInit PROVE ConnIInv
  OBVIOUS
<1>1. ConnTypeOK
  <2>1. tunnels \in 0 .. MaxTunnels /\ unanswered \in 0 .. MaxUnansweredEchoes
    BY ConnectionAssumption DEF ConnInit
  <2>2. queued \in [Tunnels -> 0 .. ChannelCapacity]
    <3>1. 0 \in 0 .. ChannelCapacity
      BY ConnectionAssumption
    <3> QED
      BY <3>1 DEF ConnInit
  <2>3. todo \in Seq(EngineEvents) /\ events \in Seq({"Connected", "Disconnected", "Error"})
    BY DEF ConnInit
  <2> QED
    BY <2>1, <2>2, <2>3 DEF ConnInit, ConnTypeOK, Stages
<1>2. OneTerminalEvent
  <2>1. DOMAIN events = {}
    BY DEF ConnInit
  <2> QED
    BY <2>1 DEF ConnInit, OneTerminalEvent, Ended
<1> QED
  BY <1>1, <1>2 DEF ConnInit, ConnIInv, ReadersHaveInterfaces, ConnectedHasInterface

(* run reports the end (connection.rs:103-112): the invariant survives it,  *)
(* whichever way run_inner returned.                                        *)
LEMMA FinishIInv ==
  ASSUME ConnIInv, ~Ended, NEW event \in {"Disconnected", "Error"}, Finish(event)
  PROVE  ConnIInv'
<1>1. ConnTypeOK'
  BY ConnectionAssumption
  DEF ConnIInv, ConnTypeOK, Finish, handleVars, tunnelVars, Stages, Tunnels, EngineEvents
<1>2. OneTerminalEvent'
  <2>1. /\ events \in Seq({"Connected", "Disconnected", "Error"})
        /\ \A i \in DOMAIN events : ~Terminal(events[i])
    BY DEF ConnIInv, ConnTypeOK, OneTerminalEvent
  <2>2. events' = Append(events, event) /\ Ended'
    BY DEF Finish, Ended
  <2>3. events' # <<>> /\ Len(events') = Len(events) + 1 /\ events'[Len(events')] = event
    BY <2>1, <2>2
  <2>4. \A i \in DOMAIN events' : i # Len(events') => i \in DOMAIN events /\ events'[i] = events[i]
    BY <2>1, <2>2
  <2> QED
    BY <2>1, <2>2, <2>3, <2>4 DEF OneTerminalEvent, Terminal
<1>3. ReadersHaveInterfaces' /\ ConnectedHasInterface'
  BY DEF ConnIInv, ReadersHaveInterfaces, ConnectedHasInterface, Finish, tunnelVars, Ended
<1> QED
  BY <1>1, <1>2, <1>3 DEF ConnIInv

(* Steps that send no event and make no interface.                          *)
LEMMA QuietIInv ==
  ASSUME ConnIInv, ConnTypeOK', UNCHANGED <<events, tunnels>>, Ended' <=> Ended,
         \A t \in Tunnels : reader'[t] # "none" => reader[t] # "none"
  PROVE  ConnIInv'
  BY DEF ConnIInv, OneTerminalEvent, ReadersHaveInterfaces, ConnectedHasInterface, Terminal

(* A step of the connection keeps its invariant. *)
LEMMA NextConnIInv == ConnIInv /\ [ConnNext]_connVars => ConnIInv'
<1> SUFFICES ASSUME ConnIInv, [ConnNext]_connVars PROVE ConnIInv'
  OBVIOUS
<1> USE ConnectionAssumption
<1>t. ConnTypeOK
  BY DEF ConnIInv
<1>1. CASE \/ ConnectStep \/ DisconnectBranch \/ FarewellOver
           \/ (\E chunk \in Chunks : ReadBranch(chunk))
           \/ HandleSend \/ HandleDeliver \/ HandleNoMore
           \/ TimerRuns \/ EchoBranch \/ ForwardBranch \/ WriteDone
  <2>1. ConnTypeOK'
    <3>1. CASE ConnectStep \/ DisconnectBranch \/ FarewellOver \/ HandleNoMore \/ TimerRuns \/ WriteDone
      BY <1>t, <3>1
      DEF ConnTypeOK, ConnectStep, NextStage, Connecting, DisconnectBranch, FarewellOver,
          HandleNoMore, TimerRuns, WriteDone, Stages, handleVars, tunnelVars
    <3>2. CASE \E chunk \in Chunks : ReadBranch(chunk)
      <4>1. 0 \in 0 .. MaxUnansweredEchoes
        OBVIOUS
      <4>2. Chunks \subseteq Seq(EngineEvents)
        OBVIOUS
      <4> HIDE ConnectionAssumption
      <4> QED
        BY <1>t, <3>2, <4>1, <4>2 DEF ConnTypeOK, ReadBranch, Stages, handleVars, tunnelVars
    <3>3. CASE HandleSend \/ HandleDeliver
      <4>1. todo' \in Seq(EngineEvents)
        <5>1. todo' = Tail(todo) /\ todo # <<>> /\ todo \in Seq(EngineEvents)
          BY <1>t, <3>3 DEF ConnTypeOK, HandleSend, HandleDeliver
        <5> HIDE DEF EngineEvents
        <5> QED
          BY <5>1
      <4> QED
        BY <1>t, <3>3, <4>1
        DEF ConnTypeOK, HandleSend, HandleDeliver, Stages, handleVars, tunnelVars
    <3>4. CASE EchoBranch
      <4>1. unanswered' \in 0 .. MaxUnansweredEchoes
        BY <1>t, <3>4 DEF ConnTypeOK, EchoBranch, TooManyEchoes
      <4> HIDE ConnectionAssumption
      <4> QED
        BY <1>t, <3>4, <4>1 DEF ConnTypeOK, EchoBranch, Stages, handleVars, tunnelVars
    <3>5. CASE ForwardBranch
      BY <1>t, <3>5 DEF ConnTypeOK, ForwardBranch, Stages, Tunnels, handleVars
    <3> QED
      BY <1>1, <3>1, <3>2, <3>3, <3>4, <3>5
  <2>2. UNCHANGED <<events, tunnels, reader>> /\ ~Ended /\ ~Ended'
    BY <1>1
    DEF ConnectStep, NextStage, Connecting, DisconnectBranch, FarewellOver, ReadBranch, HandleSend,
        HandleDeliver, HandleNoMore, TimerRuns, EchoBranch, ForwardBranch, WriteDone, Ended,
        tunnelVars
  <2> QED
    BY <2>1, <2>2, QuietIInv
<1>2. CASE \/ ConnectFails \/ AckOrTimeout \/ ReadEnds \/ HandleFailure
           \/ HandleDisconnected \/ GiveUpBranch \/ WriteFails
  <2>1. ~Ended /\ \E event \in {"Disconnected", "Error"} : Finish(event)
    BY <1>2
    DEF ConnectFails, Connecting, AckOrTimeout, ReadEnds, HandleFailure, HandleDisconnected,
        GiveUpBranch, WriteFails, Ended
  <2> QED
    BY <2>1, FinishIInv
<1>3. CASE HandleEstablished
  <2>1. ConnTypeOK'
    BY <1>t, <1>3 DEF ConnTypeOK, HandleEstablished, Stages, Tunnels, handleVars
  <2>2. OneTerminalEvent'
    BY <1>3 DEF ConnIInv, ConnTypeOK, OneTerminalEvent, HandleEstablished, Ended, Terminal
  <2>3. ReadersHaveInterfaces' /\ ConnectedHasInterface'
    BY <1>3 DEF ConnIInv, ConnTypeOK, ReadersHaveInterfaces, ConnectedHasInterface,
                HandleEstablished, Tunnels
  <2> QED
    BY <2>1, <2>2, <2>3 DEF ConnIInv
<1>4. CASE \E t \in Tunnels : \/ ReaderTakesPacket(t) \/ ReaderSends(t)
                              \/ ReaderExits(t) \/ ReaderFails(t)
  <2>1. ConnTypeOK'
    <3>1. queued' \in [Tunnels -> 0 .. ChannelCapacity]
      BY <1>t, <1>4 DEF ConnTypeOK, ReaderTakesPacket, ReaderSends, ReaderExits, ReaderFails
    <3>2. reader' \in [Tunnels -> {"none", "reading", "sending", "exited"}]
      BY <1>t, <1>4 DEF ConnTypeOK, ReaderTakesPacket, ReaderSends, ReaderExits, ReaderFails
    <3> QED
      BY <1>t, <1>4, <3>1, <3>2
      DEF ConnTypeOK, ReaderTakesPacket, ReaderSends, ReaderExits, ReaderFails,
          taskVars, handleVars
  <2>2. /\ UNCHANGED <<events, tunnels>> /\ (Ended' <=> Ended)
        /\ \A t \in Tunnels : reader'[t] # "none" => reader[t] # "none"
    BY <1>t, <1>4 DEF ConnTypeOK, ReaderTakesPacket, ReaderSends, ReaderExits, ReaderFails,
                      taskVars, Ended
  <2> QED
    BY <2>1, <2>2, QuietIInv
<1>5. CASE \/ Disconnect \/ DisconnectReturns \/ DropHandle \/ GoSilent \/ GoStuck
           \/ UNCHANGED connVars
  <2>1. ConnTypeOK'
    BY <1>t, <1>5 DEF ConnTypeOK, Disconnect, DisconnectReturns, DropHandle, GoSilent, GoStuck,
                      connVars, taskVars, handleVars, tunnelVars
  <2>2. UNCHANGED <<events, tunnels, reader>> /\ (Ended' <=> Ended)
    BY <1>5 DEF Disconnect, DisconnectReturns, DropHandle, GoSilent, GoStuck,
                connVars, taskVars, handleVars, tunnelVars, Ended
  <2> QED
    BY <2>1, <2>2, QuietIInv
<1> QED
  BY <1>1, <1>2, <1>3, <1>4, <1>5 DEF ConnNext, HandleEvent

(* The connection task keeps its type: no counter and no channel passes its *)
(* bound, whatever the server sends (connection.rs:31, 231, 262).           *)
THEOREM ConnectionIsTyped == ConnSpec => []ConnTypeOK
<1>1. ConnIInv => ConnTypeOK
  BY DEF ConnIInv
<1> QED
  BY <1>1, ConnInitIInv, NextConnIInv, PTL DEF ConnSpec

(* The worker is told once that the connection is over, as the last thing.  *)
THEOREM ConnectionEndsOnce == ConnSpec => []OneTerminalEvent
<1>1. ConnIInv => OneTerminalEvent
  BY DEF ConnIInv
<1> QED
  BY <1>1, ConnInitIInv, NextConnIInv, PTL DEF ConnSpec

-------------------------------------------------------------------------------
(* The refinement. *)

(* While the task runs it holds the last interface it made.                 *)
LEMMA InterfaceWhileRunning ==
  ASSUME ConnIInv, ~Ended PROVE SomeInterface <=> tunnels # 0
<1>1. CASE tunnels # 0
  BY <1>1 DEF ConnIInv, ConnTypeOK, SomeInterface, InterfaceUp, Tunnels
<1>2. CASE tunnels = 0
  BY <1>2 DEF ConnIInv, ConnTypeOK, ReadersHaveInterfaces, SomeInterface, InterfaceUp, Tunnels
<1> QED
  BY <1>1, <1>2

(* Until the end the last event, if any, is Connected.                      *)
LEMMA LastEventWhileRunning ==
  ASSUME ConnIInv, ~Ended
  PROVE  /\ LastEvent = IF events = <<>> THEN "connecting" ELSE "up"
         /\ LastEvent \in {"connecting", "up"}
<1>1. CASE events = <<>>
  BY <1>1 DEF LastEvent
<1>2. CASE events # <<>>
  <2>1. Len(events) \in DOMAIN events
    BY <1>2 DEF ConnIInv, ConnTypeOK
  <2>2. events[Len(events)] = "Connected"
    BY <2>1 DEF ConnIInv, ConnTypeOK, OneTerminalEvent, Terminal
  <2> QED
    BY <1>2, <2>2 DEF LastEvent
<1> QED
  BY <1>1, <1>2

(* The initial states map to initial states of the promise.                 *)
LEMMA InitPromise == ConnInit => Promise!LinkInit
  BY ConnectionAssumption
  DEF ConnInit, Promise!LinkInit, LastEvent, SomeInterface, InterfaceUp, Tunnels

(* A return of run_inner maps to the end of the connection.                 *)
LEMMA FinishPromise ==
  ASSUME ConnIInv, ~Ended, NEW event \in {"Disconnected", "Error"}, Finish(event)
  PROVE  Promise!Ends(event)
<1>1. LastEvent \in {"connecting", "up"}
  BY LastEventWhileRunning
<1>2. LastEvent' = event
  BY DEF ConnIInv, ConnTypeOK, Finish, LastEvent
<1>3. SomeInterface' \in {SomeInterface, FALSE}
  BY DEF SomeInterface, InterfaceUp, Finish, tunnelVars, Ended
<1> QED
  BY <1>1, <1>2, <1>3 DEF Promise!Ends

(* Established maps to the connection coming up, or to a stutter when it is *)
(* up already.                                                              *)
LEMMA EstablishedPromise ==
  ASSUME ConnIInv, HandleEstablished
  PROVE  Promise!ComesUp \/ UNCHANGED <<LastEvent, SomeInterface>>
<1>1. ~Ended /\ ~Ended'
  BY DEF HandleEstablished, Ended
<1>2. ConnIInv'
  BY NextConnIInv DEF ConnNext, HandleEvent
<1>3. SomeInterface'
  <2>1. tunnels' # 0
    BY DEF HandleEstablished, ConnIInv, ConnTypeOK
  <2> QED
    BY <1>1, <1>2, <2>1 DEF ConnIInv, ConnTypeOK, SomeInterface, InterfaceUp, Tunnels
<1>4. LastEvent' = "up"
  BY DEF ConnIInv, ConnTypeOK, HandleEstablished, LastEvent
<1>5. CASE events = <<>>
  BY <1>1, <1>3, <1>4, <1>5, LastEventWhileRunning DEF Promise!ComesUp
<1>6. CASE events # <<>>
  BY <1>1, <1>3, <1>4, <1>6, LastEventWhileRunning, InterfaceWhileRunning
  DEF ConnIInv, ConnectedHasInterface
<1> QED
  BY <1>5, <1>6

(* A step of a reader thread maps to the interface going, or to a stutter.  *)
LEMMA ReaderPromise ==
  ASSUME ConnIInv, NEW t \in Tunnels,
         ReaderTakesPacket(t) \/ ReaderSends(t) \/ ReaderExits(t) \/ ReaderFails(t)
  PROVE  Promise!InterfaceGoes \/ UNCHANGED <<LastEvent, SomeInterface>>
<1> USE DEF ReaderTakesPacket, ReaderSends, ReaderExits, ReaderFails, taskVars
<1>1. UNCHANGED <<events, tunnels, stage>> /\ (Ended' <=> Ended) /\ LastEvent' = LastEvent
  BY DEF Ended, LastEvent
<1>2. CASE ~Ended
  <2>1. ConnIInv'
    BY NextConnIInv DEF ConnNext
  <2> QED
    BY <1>1, <1>2, <2>1, InterfaceWhileRunning
    DEF ConnIInv, ConnTypeOK, SomeInterface, InterfaceUp, Tunnels, ReadersHaveInterfaces
<1>3. CASE Ended
  <2>1. SomeInterface' => SomeInterface
    BY <1>1, <1>3 DEF ConnIInv, ConnTypeOK, SomeInterface, InterfaceUp
  <2>2. Len(events) \in DOMAIN events /\ Terminal(events[Len(events)])
    BY <1>3 DEF ConnIInv, ConnTypeOK, OneTerminalEvent
  <2>3. LastEvent \in {"Disconnected", "Error"}
    BY <2>2 DEF LastEvent, Terminal
  <2> QED
    BY <1>1, <2>1, <2>3 DEF Promise!InterfaceGoes, SomeInterface
<1> QED
  BY <1>2, <1>3

(* Every step of the connection is a step of the promise, or a stutter.     *)
LEMMA NextPromise ==
  ASSUME ConnIInv, [ConnNext]_connVars
  PROVE  [Promise!LinkNext]_Promise!linkVars
<1> USE DEF Promise!LinkNext, Promise!linkVars
<1>1. CASE \/ ConnectStep \/ DisconnectBranch \/ FarewellOver
           \/ (\E chunk \in Chunks : ReadBranch(chunk))
           \/ HandleSend \/ HandleDeliver \/ HandleNoMore
           \/ TimerRuns \/ EchoBranch \/ ForwardBranch \/ WriteDone
           \/ Disconnect \/ DisconnectReturns \/ DropHandle \/ GoSilent \/ GoStuck
           \/ UNCHANGED connVars
  <2>1. UNCHANGED <<events, tunnels, reader>> /\ (Ended' <=> Ended)
    BY <1>1
    DEF ConnectStep, NextStage, Connecting, DisconnectBranch, FarewellOver, ReadBranch, HandleSend,
        HandleDeliver, HandleNoMore, TimerRuns, EchoBranch, ForwardBranch, WriteDone, Ended,
        Disconnect, DisconnectReturns, DropHandle, GoSilent, GoStuck,
        connVars, taskVars, handleVars, tunnelVars
  <2> QED
    BY <2>1 DEF LastEvent, SomeInterface, InterfaceUp
<1>2. CASE \/ ConnectFails \/ AckOrTimeout \/ ReadEnds \/ HandleFailure
           \/ HandleDisconnected \/ GiveUpBranch \/ WriteFails
  <2>1. ~Ended /\ \E event \in {"Disconnected", "Error"} : Finish(event)
    BY <1>2
    DEF ConnectFails, Connecting, AckOrTimeout, ReadEnds, HandleFailure, HandleDisconnected,
        GiveUpBranch, WriteFails, Ended
  <2> QED
    BY <2>1, FinishPromise
<1>3. CASE HandleEstablished
  BY <1>3, EstablishedPromise
<1>4. CASE \E t \in Tunnels : \/ ReaderTakesPacket(t) \/ ReaderSends(t)
                              \/ ReaderExits(t) \/ ReaderFails(t)
  BY <1>4, ReaderPromise
<1> QED
  BY <1>1, <1>2, <1>3, <1>4 DEF ConnNext, HandleEvent

(* The connection task implements what the worker relies on: Connected at   *)
(* most once as far as the worker can tell, with an interface that stays    *)
(* while the connection is up; one end (connection.rs:74-113, 216-246).     *)
THEOREM ConnectionImplementsLink == ConnSpec => ConnectionKeepsPromise
<1> QED
  BY ConnInitIInv, NextConnIInv, InitPromise, NextPromise, PTL
  DEF ConnSpec, ConnectionKeepsPromise, Promise!LinkSpec
===============================================================================
