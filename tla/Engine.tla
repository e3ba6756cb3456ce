-------------------------------- MODULE Engine --------------------------------
(***************************************************************************)
(* The protocol engine of sstp-proto/src/engine.rs: struct Engine, and     *)
(* Engine::on_packet for every packet the peer can send in every phase.    *)
(* The peer is arbitrary: it may send any packet at any time, except that  *)
(* only a holder of the password can make an authenticator (`vouched`).    *)
(***************************************************************************)
EXTENDS Lcp, Ipcp, Chap

CONSTANTS
  Nonces,        \* crypto-bind nonces a CONNECT_ACK can carry
  PeerPackets    \* the packets the peer can send

VARIABLES
  phase,          \* Engine.phase
  hashAlgo,       \* Engine.hash_algo
  serverNonce,    \* Engine.server_nonce
  pendingChap,    \* Engine.pending_chap
  authChallenge,  \* Engine.auth_challenge
  mppeKeys,       \* Engine.mppe_keys
  outcome,        \* the event, if any, that on_packet returned besides Send
  responses,      \* history: the NT responses we have sent
  vouched         \* environment: the NT responses a password holder has vouched for

bindVars == <<hashAlgo, serverNonce>>
chapVars == <<pendingChap, authChallenge, mppeKeys>>
peerVars == <<responses, vouched>>
vars == <<lcp, ipcp, toSend, phase, hashAlgo, serverNonce, pendingChap,
          authChallenge, mppeKeys, outcome, responses, vouched>>

Phases    == {"WaitConnectAck", "Lcp", "Chap", "Ipcp", "Established"}
HashAlgos == {"Sha1", "Sha256"}
Outcomes  == {"quiet", "deliverIp", "established", "disconnected", "fatal", "panic"}
CtrlCodes == {"ConnectAck", "ConnectNak", "Abort", "Disconnect", "DisconnectAck",
              "EchoRequest", "EchoReply",
              "Other"}    \* CONNECT_REQUEST, CONNECTED, unknown types

(* The crypto-bind-request attribute of a CONNECT_ACK: the hash the bitmask *)
(* selects and the nonce; None when missing, Malformed when not 36 bytes.   *)
Bindings    == [algo : HashAlgos, nonce : Nonces]
CtrlPackets == [proto : {"Ctrl"}, code : CtrlCodes, bind : Bindings \cup {None, Malformed}]
ChapFrames  == [proto : {"Chap"}, code : ChapCodes, id : Id,
                value : Challenges \cup {Vouching(r) : r \in NtResponses} \cup {Malformed}]
OtherData   == [proto : {"Ip", "Unknown", "TooShort"}]   \* Unknown stands for PAP too

Packets == CtrlPackets \cup ChapFrames \cup OtherData
           \cup Frames("Lcp", LcpKinds, LcpData) \cup Frames("Ipcp", IpcpKinds, IpcpData)

ASSUME PeerPacketsAssumption == PeerPackets \subseteq Packets

ASSUME OptionsAreDistinct ==
  /\ {None, Malformed} \cap ({Vouching(r) : r \in NtResponses} \cup Challenges) = {}
  /\ {Vouching(r) : r \in NtResponses} \cap Challenges = {}
  /\ {None, Malformed} \cap Bindings = {}
  /\ None \notin Nonces \cup PendingResponses \cup {MppeKeys(r) : r \in NtResponses}
  /\ None \notin HashAlgos \cup {"MsChapV2"}

(* A connection that has ended takes no more packets: run_inner returns on  *)
(* Fatal and Disconnected, and a panic unwinds it.                          *)
Alive == outcome \notin {"disconnected", "fatal", "panic"}

Init ==
  /\ LcpInit
  /\ ipcp = NewIpcp
  /\ phase = "WaitConnectAck"
  /\ hashAlgo = None /\ serverNonce = None
  /\ pendingChap = None /\ authChallenge = None /\ mppeKeys = None
  /\ outcome = "quiet"
  /\ responses = {} /\ vouched = {}

-------------------------------------------------------------------------------
(* SSTP control messages: on_ctrl and on_connect_ack. *)

CtrlMessage(code) == [proto |-> "Ctrl", code |-> code]

WrongConnectAckExpected == TRUE      \* every CONNECT_ACK counts

ConnectAckExpected == phase = "WaitConnectAck"

WrongOnConnectAck(p) ==      \* takes the hash and forgets the nonce
  /\ p.code = "ConnectAck" /\ ConnectAckExpected /\ p.bind \in Bindings
  /\ hashAlgo' = p.bind.algo
  /\ phase' = "Lcp"
  /\ LcpStart
  /\ outcome' = "quiet"
  /\ UNCHANGED <<ipcp, serverNonce, chapVars, peerVars>>

OnConnectAck(p) ==
  /\ p.code = "ConnectAck" /\ ConnectAckExpected /\ p.bind \in Bindings
  /\ hashAlgo' = p.bind.algo
  /\ serverNonce' = p.bind.nonce
  /\ phase' = "Lcp"
  /\ LcpStart
  /\ outcome' = "quiet"
  /\ UNCHANGED <<ipcp, chapVars, peerVars>>

OnCtrlFatal(p) ==
  /\ \/ p.code \in {"ConnectNak", "Abort"}
     \/ p.code = "ConnectAck" /\ ConnectAckExpected /\ p.bind \notin Bindings
  /\ outcome' = "fatal" /\ toSend' = <<>>
  /\ UNCHANGED <<lcp, ipcp, phase, bindVars, chapVars, peerVars>>

OnDisconnect(p) ==
  /\ p.code \in {"Disconnect", "DisconnectAck"}
  /\ outcome' = "disconnected"
  /\ toSend' = IF p.code = "Disconnect" THEN <<CtrlMessage("DisconnectAck")>> ELSE <<>>
  /\ UNCHANGED <<lcp, ipcp, phase, bindVars, chapVars, peerVars>>

OnCtrlIdle(p) ==
  /\ \/ p.code \in {"EchoRequest", "EchoReply", "Other"}
     \/ p.code = "ConnectAck" /\ ~ConnectAckExpected
  /\ outcome' = "quiet"
  /\ toSend' = IF p.code = "EchoRequest" THEN <<CtrlMessage("EchoReply")>> ELSE <<>>
  /\ UNCHANGED <<lcp, ipcp, phase, bindVars, chapVars, peerVars>>

OnCtrl(p) == /\ p.proto = "Ctrl"
             /\ OnConnectAck(p) \/ OnCtrlFatal(p) \/ OnDisconnect(p) \/ OnCtrlIdle(p)

-------------------------------------------------------------------------------
(* PPP data: on_ppp_frame.  LCP opening leads to CHAP if the peer asked for *)
(* MS-CHAPv2 and is fatal otherwise; peer_auth never holds another method.  *)

HandleLcp(f) ==
  /\ f.proto = "Lcp"
  /\ LcpReceive(f)
  /\ \/ /\ LcpIsUp(lcp') /\ phase = "Lcp" /\ lcp'.peerAuth = "MsChapV2"
        /\ phase' = "Chap" /\ outcome' = "quiet"
     \/ /\ LcpIsUp(lcp') /\ phase = "Lcp" /\ lcp'.peerAuth = None
        /\ phase' = phase /\ outcome' = "fatal"
     \/ /\ ~(LcpIsUp(lcp') /\ phase = "Lcp")
        /\ phase' = phase /\ outcome' = "quiet"
  /\ UNCHANGED <<ipcp, bindVars, chapVars, peerVars>>

(* A Challenge is answered in every phase, with a peer challenge never      *)
(* drawn before.  TLC bounds the number of answers by PeerChallenges.       *)
FreshPeerChallenges == PeerChallenges \ {r.peerChallenge : r \in responses}

WrongHandleChapChallenge(f) ==      \* stores only the first challenge
  /\ f.code = "Challenge" /\ f.value \in Challenges
  /\ \E peerChallenge \in FreshPeerChallenges :
       LET nt == NtResponse(f.value, peerChallenge)
       IN  /\ pendingChap' = Pending(nt)
           /\ responses' = responses \cup {nt}
           /\ toSend' = <<[proto |-> "Chap", code |-> "Response", id |-> f.id, value |-> nt]>>
  /\ authChallenge' = IF authChallenge = None THEN f.value ELSE authChallenge
  /\ outcome' = "quiet"
  /\ UNCHANGED <<lcp, ipcp, phase, bindVars, mppeKeys, vouched>>

HandleChapChallenge(f) ==
  /\ f.code = "Challenge" /\ f.value \in Challenges
  /\ \E peerChallenge \in FreshPeerChallenges :
       LET nt == NtResponse(f.value, peerChallenge)
       IN  /\ pendingChap' = Pending(nt)
           /\ responses' = responses \cup {nt}
           /\ toSend' = <<[proto |-> "Chap", code |-> "Response", id |-> f.id, value |-> nt]>>
  /\ authChallenge' = f.value
  /\ outcome' = "quiet"
  /\ UNCHANGED <<lcp, ipcp, phase, bindVars, mppeKeys, vouched>>

Verified(f) == /\ pendingChap # None /\ authChallenge # None
               /\ VerifySuccess(f.value, pendingChap, authChallenge)

WrongHandleChapSuccess(f) ==      \* peeks at pending_chap instead of taking it
  /\ f.code = "Success" /\ Verified(f)
  /\ mppeKeys' = MppeKeys(pendingChap.ntResponse)
  /\ phase' = "Ipcp"
  /\ IpcpStart
  /\ outcome' = "quiet"
  /\ UNCHANGED <<lcp, bindVars, pendingChap, authChallenge, peerVars>>

HandleChapSuccess(f) ==
  /\ f.code = "Success" /\ Verified(f)
  /\ mppeKeys' = MppeKeys(pendingChap.ntResponse)
  /\ pendingChap' = None
  /\ phase' = "Ipcp"
  /\ IpcpStart
  /\ outcome' = "quiet"
  /\ UNCHANGED <<lcp, bindVars, authChallenge, peerVars>>

(* pending_chap is taken whether or not the success verifies. *)
HandleChapFatal(f) ==
  /\ \/ f.code \in {"Response", "Failure", "Unknown", "Undecodable"}
     \/ f.code = "Challenge" /\ f.value \notin Challenges
     \/ f.code = "Success" /\ ~Verified(f)
  /\ pendingChap' = IF f.code = "Success" THEN None ELSE pendingChap
  /\ outcome' = "fatal" /\ toSend' = <<>>
  /\ UNCHANGED <<lcp, ipcp, phase, bindVars, authChallenge, mppeKeys, peerVars>>

HandleChap(f) ==
  /\ f.proto = "Chap"
  /\ HandleChapChallenge(f) \/ HandleChapSuccess(f) \/ HandleChapFatal(f)

(* IPCP opening binds the session; each `expect` that fails is a panic.     *)
Bindable == hashAlgo # None /\ serverNonce # None /\ mppeKeys # None

HandleIpcp(f) ==
  /\ f.proto = "Ipcp"
  /\ IpcpReceive(f)
  /\ \/ /\ IpcpIsUp(ipcp') /\ phase = "Ipcp"
        /\ phase' = "Established"
        /\ outcome' = IF Bindable THEN "established" ELSE "panic"
     \/ /\ ~(IpcpIsUp(ipcp') /\ phase = "Ipcp")
        /\ phase' = phase /\ outcome' = "quiet"
  /\ UNCHANGED <<lcp, bindVars, chapVars, peerVars>>

(* IP packets are handed up in every phase; a protocol we do not speak is   *)
(* rejected by LCP; a frame without a protocol number is dropped.           *)
OnOtherData(p) ==
  /\ \/ p.proto = "Ip" /\ outcome' = "deliverIp" /\ toSend' = <<>> /\ UNCHANGED lcp
     \/ p.proto = "Unknown" /\ outcome' = "quiet" /\ LcpProtocolReject
     \/ p.proto = "TooShort" /\ outcome' = "quiet" /\ toSend' = <<>> /\ UNCHANGED lcp
  /\ UNCHANGED <<ipcp, phase, bindVars, chapVars, peerVars>>

OnPacket(p) ==
  /\ Alive
  /\ OnCtrl(p) \/ HandleLcp(p) \/ HandleChap(p) \/ HandleIpcp(p) \/ OnOtherData(p)

(* The messages of the Send events on_packet returned.  A fatal error drops *)
(* what the handler had ready; CONNECTED follows the last IPCP frame.       *)
Connected == [proto |-> "Ctrl", code |-> "Connected",
              bind |-> [algo |-> hashAlgo, nonce |-> serverNonce, keys |-> mppeKeys]]

Emitted == IF outcome \in {"fatal", "panic"} THEN <<>>
           ELSE IF outcome = "established" THEN Append(toSend, Connected)
           ELSE toSend

-------------------------------------------------------------------------------
(* A holder of the password vouches for a response it has received. *)
Vouch(r) == /\ Alive
            /\ r \in responses
            /\ vouched' = vouched \cup {r}
            /\ UNCHANGED <<lcp, ipcp, toSend, phase, bindVars, chapVars, outcome, responses>>

(* Nobody else can make an authenticator. *)
Sendable(p) ==
  (p.proto = "Chap" /\ p.code = "Success") => p.value \in {Vouching(r) : r \in vouched} \cup {Malformed}

Next == \/ \E p \in PeerPackets : Sendable(p) /\ OnPacket(p)
        \/ \E r \in responses : Vouch(r)

Spec == Init /\ [][Next]_vars

-------------------------------------------------------------------------------
(* Every reachable struct Engine has the type Rust gives it. *)
TypeOK ==
  /\ lcp \in LcpType
  /\ ipcp \in IpcpType
  /\ phase \in Phases
  /\ hashAlgo \in HashAlgos \cup {None}
  /\ serverNonce \in Nonces \cup {None}
  /\ pendingChap \in PendingResponses \cup {None}
  /\ authChallenge \in Challenges \cup {None}
  /\ mppeKeys \in {MppeKeys(r) : r \in NtResponses} \cup {None}
  /\ outcome \in Outcomes
  /\ responses \subseteq NtResponses
  /\ vouched \subseteq responses

(* Mutual authentication (chap_fsm.rs:138-142, engine.rs:284-295): keys are *)
(* installed, and IPCP and the tunnel run, only on a response of ours that  *)
(* a holder of the password has vouched for.                                *)
KeysAreVouched ==
  /\ mppeKeys # None => \E r \in vouched : mppeKeys = MppeKeys(r)
  /\ phase \in {"Ipcp", "Established"} => mppeKeys # None

(* The authenticator is checked against the challenge the response was made *)
(* for: auth_challenge and pending_chap are two fields that must never part *)
(* (engine.rs:269-272, 285).                                                *)
PendingMatchesChallenge ==
  pendingChap # None =>
    /\ pendingChap.ntResponse = NtResponse(authChallenge, pendingChap.peerChallenge)
    /\ pendingChap.ntResponse \in responses

(* What the session is bound to is chosen once: no later CONNECT_ACK moves  *)
(* the nonce, the hash or the phase (engine.rs:173-175).                    *)
BindingChosenOnce ==
  [][/\ hashAlgo # None => hashAlgo' = hashAlgo
     /\ serverNonce # None => serverNonce' = serverNonce
     /\ phase # "WaitConnectAck" => phase' # "WaitConnectAck"]_vars

(* No replay: a Success counts once.  Whenever the engine goes (back) to    *)
(* IPCP it is on keys other than those it had (engine.rs:285 takes the      *)
(* pending response).                                                       *)
IpcpBeginsWithNewKeys ==
  [][phase # "Ipcp" /\ phase' = "Ipcp" => mppeKeys' # mppeKeys]_vars

(* All of it together: what the tunnel is opened on is the module Login, of *)
(* which the engine with its two negotiations is one way to do it.          *)
LoginStage == CASE ~Alive                             -> "over"
                [] Alive /\ phase = "Ipcp"            -> "admitted"
                [] Alive /\ phase = "Established"     -> "open"
                [] Alive /\ phase \notin {"Ipcp", "Established"} -> "closed"

AbstractLogin == INSTANCE Login WITH
  Responses  <- NtResponses,
  NoResponse <- None,
  stage      <- LoginStage,
  given      <- responses,
  pending    <- IF pendingChap = None THEN None ELSE pendingChap.ntResponse,
  vouchedFor <- vouched,
  proof      <- IF mppeKeys = None THEN None ELSE mppeKeys.mppe

(* The engine opens the tunnel on a response given once, vouched for by a   *)
(* holder of the password and spent on admission, however often the peer    *)
(* authenticates, renegotiates or replays (engine.rs:260-295, 326-336).     *)
EngineImplementsLogin == AbstractLogin!LoginSpec

(* How far the engine is from that promise: it panics only on a peer from   *)
(* which it has accepted no CONNECT_ACK.  With one accepted no order of     *)
(* packets, reauthentications included, finds a part of the binding missing *)
(* when IPCP opens (engine.rs:326-333).                                     *)
OnlyUnboundPanics == outcome = "panic" => hashAlgo = None

(* engine.rs:52-53 says of the engine: never a panic. *)
NeverPanics == outcome # "panic"
===============================================================================
