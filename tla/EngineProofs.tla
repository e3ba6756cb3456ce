----------------------------- MODULE EngineProofs -----------------------------
(***************************************************************************)
(* Theorems about Engine, for every peer and every value of the constants. *)
(***************************************************************************)
EXTENDS Engine, LcpProofs, IpcpProofs

(***************************************************************************)
(* The strengthening: what KeysAreVouched says of the next step depends on *)
(* the pending response being one of ours, made for the stored challenge;  *)
(* the two action properties depend on the pending response not being the  *)
(* one in use, and on nothing being bound before CONNECT_ACK; the panics   *)
(* on the two parts of the binding coming together.                        *)
(***************************************************************************)
PendingIsUnused == pendingChap # None => mppeKeys # MppeKeys(pendingChap.ntResponse)

UnboundWhileWaiting == phase = "WaitConnectAck" => hashAlgo = None /\ serverNonce = None

(* The two fields a CONNECT_ACK fills are filled together. *)
BoundAtOnce == hashAlgo = None <=> serverNonce = None

IInv == /\ TypeOK
        /\ PendingMatchesChallenge
        /\ KeysAreVouched
        /\ PendingIsUnused
        /\ UnboundWhileWaiting
        /\ BoundAtOnce
        /\ OnlyUnboundPanics

(* It holds of a new engine. *)
LEMMA InitIInv == Init => IInv
<1> SUFFICES ASSUME Init PROVE IInv
  OBVIOUS
<1>1. lcp \in LcpType
  BY NewLcpType DEF Init, LcpInit
<1>2. ipcp \in IpcpType
  BY NewIpcpType DEF Init
<1> QED
  BY <1>1, <1>2 DEF Init, IInv, TypeOK, PendingMatchesChallenge, KeysAreVouched,
                    PendingIsUnused, UnboundWhileWaiting, BoundAtOnce, OnlyUnboundPanics,
                    Phases, Outcomes

(* A packet of the peer has the type its handler takes. *)
LEMMA PacketType ==
  ASSUME NEW p \in Packets
  PROVE  /\ p.proto = "Ctrl" => p \in CtrlPackets
         /\ p.proto = "Lcp"  => p \in Frames("Lcp", LcpKinds, LcpData)
         /\ p.proto = "Chap" => p \in ChapFrames
         /\ p.proto = "Ipcp" => p \in Frames("Ipcp", IpcpKinds, IpcpData)
         /\ p.proto \in {"Ctrl", "Lcp", "Chap", "Ipcp", "Ip", "Unknown", "TooShort"}
<1>1. \A q \in CtrlPackets : q.proto = "Ctrl"
  BY DEF CtrlPackets
<1>2. \A q \in ChapFrames : q.proto = "Chap"
  BY DEF ChapFrames
<1>3. \A q \in OtherData : q.proto \in {"Ip", "Unknown", "TooShort"}
  BY DEF OtherData
<1>4. \A q \in Frames("Lcp", LcpKinds, LcpData) : q.proto = "Lcp"
  BY DEF Frames
<1>5. \A q \in Frames("Ipcp", IpcpKinds, IpcpData) : q.proto = "Ipcp"
  BY DEF Frames
<1> QED
  BY <1>1, <1>2, <1>3, <1>4, <1>5 DEF Packets

(* Control messages touch the binding, the phase and LCP, never the keys. *)
LEMMA OnCtrlIInv ==
  ASSUME IInv, NEW p \in Packets, OnCtrl(p) PROVE IInv'
<1> USE DEF IInv, TypeOK, PendingMatchesChallenge, KeysAreVouched,
            PendingIsUnused, UnboundWhileWaiting, BoundAtOnce, OnlyUnboundPanics, chapVars, peerVars, bindVars
<1>1. CASE OnConnectAck(p)
  <2>1. lcp' \in LcpType
    BY <1>1, LcpStartType DEF OnConnectAck
  <2>2. hashAlgo' \in HashAlgos /\ serverNonce' \in Nonces /\ phase' = "Lcp" /\ outcome' = "quiet"
    BY <1>1 DEF OnConnectAck, Bindings
  <2>3. hashAlgo' # None /\ serverNonce' # None
    BY <2>2, OptionsAreDistinct
  <2> QED
    BY <1>1, <2>1, <2>2, <2>3 DEF OnConnectAck, Phases, Outcomes
<1>2. CASE OnCtrlFatal(p)
  BY <1>2 DEF OnCtrlFatal, Outcomes
<1>3. CASE OnDisconnect(p)
  BY <1>3 DEF OnDisconnect, Outcomes
<1>4. CASE OnCtrlIdle(p)
  BY <1>4 DEF OnCtrlIdle, Outcomes
<1> QED
  BY <1>1, <1>2, <1>3, <1>4 DEF OnCtrl

(* LCP frames move the engine to CHAP at most. *)
LEMMA HandleLcpIInv ==
  ASSUME IInv, NEW f \in Packets, HandleLcp(f) PROVE IInv'
<1>1. lcp' \in LcpType
  BY PacketType, LcpReceiveType DEF HandleLcp, IInv, TypeOK
<1>2. /\ phase' \in {phase, "Chap"}
      /\ outcome' \in {"quiet", "fatal"}
      /\ UNCHANGED <<ipcp, bindVars, chapVars, peerVars>>
  BY DEF HandleLcp
<1> QED
  BY <1>1, <1>2 DEF IInv, TypeOK, PendingMatchesChallenge, KeysAreVouched,
                    PendingIsUnused, UnboundWhileWaiting, BoundAtOnce, OnlyUnboundPanics,
                    chapVars, peerVars, bindVars, Phases, Outcomes

(* CHAP frames: a Challenge sets both fields, a Success needs a voucher. *)
LEMMA HandleChapIInv ==
  ASSUME IInv, NEW f \in Packets, Sendable(f), HandleChap(f) PROVE IInv'
<1> USE DEF IInv, TypeOK, PendingMatchesChallenge, KeysAreVouched,
            PendingIsUnused, UnboundWhileWaiting, BoundAtOnce, OnlyUnboundPanics
<1>0. f \in ChapFrames /\ f.proto = "Chap"
  BY PacketType DEF HandleChap
<1>1. CASE HandleChapChallenge(f)
  <2>1. PICK pc \in FreshPeerChallenges :
          /\ pendingChap' = Pending(NtResponse(f.value, pc))
          /\ responses' = responses \cup {NtResponse(f.value, pc)}
    BY <1>1 DEF HandleChapChallenge
  <2>2. /\ pc \in PeerChallenges
        /\ f.value \in Challenges
        /\ authChallenge' = f.value
        /\ outcome' = "quiet"
        /\ UNCHANGED <<lcp, ipcp, phase, bindVars, mppeKeys, vouched>>
    BY <1>1 DEF HandleChapChallenge, FreshPeerChallenges
  <2>3. NtResponse(f.value, pc) \in NtResponses
    BY <2>2 DEF NtResponse, NtResponses
  <2>4. Pending(NtResponse(f.value, pc)) \in PendingResponses
    BY <2>2, <2>3 DEF Pending, PendingResponses, NtResponse
  <2>5. TypeOK'
    BY <2>1, <2>2, <2>3, <2>4 DEF bindVars, Outcomes
  <2>6. PendingMatchesChallenge'
    BY <2>1, <2>2 DEF Pending, NtResponse
  <2>7. PendingIsUnused'
    <3>1. NtResponse(f.value, pc) \notin responses
      BY <2>1 DEF FreshPeerChallenges, NtResponse
    <3>2. mppeKeys # MppeKeys(NtResponse(f.value, pc))
      BY <3>1, OptionsAreDistinct, <2>3 DEF MppeKeys
    <3> QED
      BY <2>1, <2>2, <3>2 DEF Pending
  <2> QED
    BY <2>2, <2>5, <2>6, <2>7 DEF bindVars
<1>2. CASE HandleChapSuccess(f)
  <2>1. /\ pendingChap \in PendingResponses
        /\ f.value = Authenticator(pendingChap.ntResponse, pendingChap.peerChallenge, authChallenge)
        /\ mppeKeys' = MppeKeys(pendingChap.ntResponse)
        /\ pendingChap' = None /\ phase' = "Ipcp" /\ outcome' = "quiet"
        /\ UNCHANGED <<lcp, bindVars, authChallenge, peerVars>>
    BY <1>2 DEF HandleChapSuccess, Verified, VerifySuccess
  <2>2. ipcp' \in IpcpType
    BY <1>2, IpcpStartType DEF HandleChapSuccess
  <2>3. pendingChap.ntResponse = NtResponse(authChallenge, pendingChap.peerChallenge)
    BY <2>1, OptionsAreDistinct
  <2>4. f.value = Vouching(pendingChap.ntResponse)
    BY <2>1, <2>3 DEF Vouching, NtResponse
  <2>5. PICK r \in vouched : f.value = Vouching(r)
    <3>1. f.value \in {Vouching(r) : r \in vouched} \cup {Malformed}
      BY <1>0, <1>2 DEF Sendable, HandleChapSuccess
    <3>2. pendingChap.ntResponse \in NtResponses
      BY <2>1 DEF PendingResponses
    <3>3. f.value # Malformed
      BY <2>4, <3>2, OptionsAreDistinct
    <3> QED
      BY <3>1, <3>3
  <2>6. r = pendingChap.ntResponse
    BY <2>4, <2>5 DEF Vouching, Authenticator
  <2>7. mppeKeys' # None /\ mppeKeys' \in {MppeKeys(q) : q \in NtResponses}
    BY <2>1, OptionsAreDistinct DEF PendingResponses
  <2> QED
    BY <2>1, <2>2, <2>5, <2>6, <2>7 DEF bindVars, peerVars, Phases, Outcomes
<1>3. CASE HandleChapFatal(f)
  BY <1>3 DEF HandleChapFatal, Outcomes, bindVars, peerVars
<1> QED
  BY <1>1, <1>2, <1>3 DEF HandleChap

(* IPCP frames reach Established from IPCP only, where the keys are there:  *)
(* what a panic can miss is the binding.                                    *)
LEMMA HandleIpcpIInv ==
  ASSUME IInv, NEW f \in Packets, HandleIpcp(f) PROVE IInv'
<1>1. ipcp' \in IpcpType
  BY PacketType, IpcpReceiveType DEF HandleIpcp, IInv, TypeOK
<1>2. /\ phase' = phase \/ (phase = "Ipcp" /\ phase' = "Established")
      /\ outcome' \in {"quiet", "established", "panic"}
      /\ UNCHANGED <<lcp, bindVars, chapVars, peerVars>>
  BY DEF HandleIpcp
<1>3. outcome' = "panic" => hashAlgo = None
  BY DEF HandleIpcp, Bindable, IInv, KeysAreVouched, BoundAtOnce
<1> QED
  BY <1>1, <1>2, <1>3 DEF IInv, TypeOK, PendingMatchesChallenge, KeysAreVouched,
                          PendingIsUnused, UnboundWhileWaiting, BoundAtOnce, OnlyUnboundPanics,
                    chapVars, peerVars, bindVars, Phases, Outcomes

(* Other data at most makes LCP send a Protocol-Reject. *)
LEMMA OnOtherDataIInv ==
  ASSUME IInv, NEW p \in Packets, OnOtherData(p) PROVE IInv'
<1>1. lcp' \in LcpType
  BY LcpProtocolRejectType DEF OnOtherData, IInv, TypeOK
<1>2. /\ outcome' \in {"deliverIp", "quiet"}
      /\ UNCHANGED <<ipcp, phase, bindVars, chapVars, peerVars>>
  BY DEF OnOtherData
<1> QED
  BY <1>1, <1>2 DEF IInv, TypeOK, PendingMatchesChallenge, KeysAreVouched,
                    PendingIsUnused, UnboundWhileWaiting, BoundAtOnce, OnlyUnboundPanics,
                    chapVars, peerVars, bindVars, Outcomes

(* A voucher for one of our responses is harmless. *)
LEMMA VouchIInv ==
  ASSUME IInv, NEW r \in responses, Vouch(r) PROVE IInv'
  BY DEF IInv, TypeOK, PendingMatchesChallenge, KeysAreVouched,
         PendingIsUnused, UnboundWhileWaiting, BoundAtOnce, OnlyUnboundPanics, Vouch, bindVars, chapVars

(* A packet preserves it, whatever it is, unless it is a forged voucher. *)
LEMMA PacketIInv ==
  ASSUME IInv, NEW p \in Packets, Sendable(p), OnPacket(p) PROVE IInv'
  BY OnCtrlIInv, HandleLcpIInv, HandleChapIInv, HandleIpcpIInv, OnOtherDataIInv DEF OnPacket

(* Every step preserves the strengthening. *)
LEMMA NextIInv == IInv /\ [Next]_vars => IInv'
<1> SUFFICES ASSUME IInv, [Next]_vars PROVE IInv'
  OBVIOUS
<1>1. ASSUME NEW p \in PeerPackets, Sendable(p), OnPacket(p) PROVE IInv'
  BY <1>1, PacketIInv, PeerPacketsAssumption
<1>2. ASSUME NEW r \in responses, Vouch(r) PROVE IInv'
  BY <1>2, VouchIInv
<1>3. CASE UNCHANGED vars
  BY <1>3 DEF vars, IInv, TypeOK, PendingMatchesChallenge, KeysAreVouched,
              PendingIsUnused, UnboundWhileWaiting, BoundAtOnce, OnlyUnboundPanics
<1> QED
  BY <1>1, <1>2, <1>3 DEF Next

(* The strengthening is an invariant. *)
THEOREM SpecIInv == Spec => []IInv
  BY InitIInv, NextIInv, PTL DEF Spec

(* Every reachable engine is well typed, whatever the peer sends. *)
THEOREM EngineTypeOK == Spec => []TypeOK
<1>1. IInv => TypeOK
  BY DEF IInv
<1> QED
  BY SpecIInv, <1>1, PTL

(* The stored challenge is the one the pending response was made for. *)
THEOREM EnginePending == Spec => []PendingMatchesChallenge
<1>1. IInv => PendingMatchesChallenge
  BY DEF IInv
<1> QED
  BY SpecIInv, <1>1, PTL

(* Mutual authentication: whatever the peer sends, in whatever order, keys  *)
(* are installed and the tunnel runs only if a holder of the password has   *)
(* vouched for the very response the keys come from.                        *)
THEOREM EngineKeysAreVouched == Spec => []KeysAreVouched
<1>1. IInv => KeysAreVouched
  BY DEF IInv
<1> QED
  BY SpecIInv, <1>1, PTL

(* Once a CONNECT_ACK has been accepted the engine cannot panic, whatever   *)
(* the peer sends and however often it authenticates again.                 *)
THEOREM EnginePanicsOnlyUnbound == Spec => []OnlyUnboundPanics
<1>1. IInv => OnlyUnboundPanics
  BY DEF IInv
<1> QED
  BY SpecIInv, <1>1, PTL

(* The nonce and the hash a session is bound to never change once chosen.   *)
THEOREM EngineBindingChosenOnce == Spec => BindingChosenOnce
<1>1. IInv /\ [Next]_vars =>
        [/\ hashAlgo # None => hashAlgo' = hashAlgo
         /\ serverNonce # None => serverNonce' = serverNonce
         /\ phase # "WaitConnectAck" => phase' # "WaitConnectAck"]_vars
  <2> SUFFICES ASSUME IInv, Next
               PROVE  /\ hashAlgo # None => hashAlgo' = hashAlgo
                      /\ serverNonce # None => serverNonce' = serverNonce
                      /\ phase # "WaitConnectAck" => phase' # "WaitConnectAck"
    OBVIOUS
  <2>1. ASSUME NEW p \in PeerPackets, OnConnectAck(p)
        PROVE  phase = "WaitConnectAck" /\ hashAlgo = None /\ serverNonce = None
    BY <2>1 DEF OnConnectAck, ConnectAckExpected, IInv, UnboundWhileWaiting
  <2>2. ASSUME NEW p \in PeerPackets, OnPacket(p), ~OnConnectAck(p)
        PROVE  UNCHANGED bindVars /\ phase' \in {phase, "Chap", "Ipcp", "Established"}
    BY <2>2 DEF OnPacket, OnCtrl, OnCtrlFatal, OnDisconnect, OnCtrlIdle, HandleLcp,
                HandleChap, HandleChapChallenge, HandleChapSuccess, HandleChapFatal,
                HandleIpcp, OnOtherData
  <2>3. ASSUME NEW r \in responses, Vouch(r) PROVE UNCHANGED <<bindVars, phase>>
    BY <2>3 DEF Vouch
  <2> QED
    BY <2>1, <2>2, <2>3 DEF Next, bindVars
<1> QED
  BY SpecIInv, <1>1, PTL DEF Spec, BindingChosenOnce

(* A Success is good for one start of IPCP: replaying it cannot bring the   *)
(* engine back to IPCP on the keys it has.                                  *)
THEOREM EngineNoReplay == Spec => IpcpBeginsWithNewKeys
<1>1. IInv /\ [Next]_vars =>
        [phase # "Ipcp" /\ phase' = "Ipcp" => mppeKeys' # mppeKeys]_vars
  <2> SUFFICES ASSUME IInv, Next, phase # "Ipcp", phase' = "Ipcp"
               PROVE  mppeKeys' # mppeKeys
    OBVIOUS
  <2>1. PICK p \in PeerPackets : OnPacket(p)
    BY DEF Next, Vouch
  <2>2. p.proto = "Chap" /\ HandleChapSuccess(p)
    BY <2>1 DEF OnPacket, OnCtrl, OnConnectAck, OnCtrlFatal, OnDisconnect, OnCtrlIdle,
                HandleLcp, HandleChap, HandleChapChallenge, HandleChapFatal, HandleIpcp,
                OnOtherData
  <2> QED
    BY <2>2 DEF HandleChapSuccess, Verified, IInv, PendingIsUnused
<1> QED
  BY SpecIInv, <1>1, PTL DEF Spec, IpcpBeginsWithNewKeys

-------------------------------------------------------------------------------
(* The refinement of Login, by what each kind of packet does to it. *)

(* A response is never mistaken for none, nor the stage for another one. *)
LEMMA LoginMapping ==
  ASSUME TypeOK
  PROVE  /\ pendingChap # None => pendingChap.ntResponse \in NtResponses
         /\ LoginStage = "over" <=> ~Alive
<1>1. pendingChap # None => pendingChap \in PendingResponses
  BY DEF TypeOK
<1>2. pendingChap # None => pendingChap.ntResponse \in NtResponses
  BY <1>1 DEF PendingResponses
<1>3. LoginStage = "over" <=> ~Alive
  BY DEF LoginStage
<1> QED
  BY <1>2, <1>3

(* A new engine has let nobody in. *)
LEMMA InitImplementsLogin == Init => AbstractLogin!LoginInit
BY DEF Init, AbstractLogin!LoginInit, LoginStage, Alive

(* A packet that ends the session spends nothing but the pending response.  *)
LEMMA EndImplementsLogin ==
  ASSUME IInv, Alive, ~Alive', UNCHANGED <<mppeKeys, peerVars>>, pendingChap' \in {pendingChap, None}
  PROVE  AbstractLogin!End
BY DEF AbstractLogin!End, LoginStage, peerVars

(* One that does not, and leaves the authentication alone, at most opens it. *)
LEMMA OtherImplementsLogin ==
  ASSUME IInv, Alive, Alive', UNCHANGED <<chapVars, peerVars>>,
         \/ phase' = phase
         \/ phase = "Ipcp" /\ phase' = "Established"
         \/ {phase, phase'} \cap {"Ipcp", "Established"} = {}
  PROVE  AbstractLogin!Open \/ UNCHANGED AbstractLogin!loginVars
<1>1. UNCHANGED <<responses, pendingChap, vouched, mppeKeys>>
  BY DEF chapVars, peerVars
<1>2. CASE phase = "Ipcp" /\ phase' = "Established"
  BY <1>1, <1>2 DEF AbstractLogin!Open, LoginStage
<1>3. CASE phase' = phase \/ {phase, phase'} \cap {"Ipcp", "Established"} = {}
  <2>1. LoginStage' = LoginStage
    BY <1>3 DEF LoginStage
  <2> QED
    BY <1>1, <2>1 DEF AbstractLogin!loginVars
<1> QED
  BY <1>2, <1>3

(* A Challenge gives a fresh response, a Success admits on the pending one. *)
LEMMA ChapImplementsLogin ==
  ASSUME IInv, NEW f \in Packets, Sendable(f), Alive, HandleChap(f)
  PROVE  \/ \E r \in NtResponses : AbstractLogin!Give(r)
         \/ AbstractLogin!Admit
         \/ AbstractLogin!End
<1>t. TypeOK /\ PendingMatchesChallenge /\ LoginStage # "over"
  BY LoginMapping DEF IInv
<1>0. f \in ChapFrames
  BY PacketType DEF HandleChap
<1>1. CASE HandleChapChallenge(f)
  <2>1. PICK pc \in FreshPeerChallenges :
          /\ pendingChap' = Pending(NtResponse(f.value, pc))
          /\ responses' = responses \cup {NtResponse(f.value, pc)}
    BY <1>1 DEF HandleChapChallenge
  <2>2. /\ f.value \in Challenges /\ outcome' = "quiet"
        /\ UNCHANGED <<phase, mppeKeys, vouched>>
    BY <1>1 DEF HandleChapChallenge
  <2> DEFINE r == NtResponse(f.value, pc)
  <2>3. r \in NtResponses /\ r \notin responses
    BY <2>1, <2>2 DEF FreshPeerChallenges, NtResponse, NtResponses
  <2>4. Pending(r) \in PendingResponses /\ Pending(r).ntResponse = r
    BY <2>2, <2>3 DEF Pending, PendingResponses, NtResponse, NtResponses, FreshPeerChallenges
  <2> HIDE DEF r
  <2>5. pendingChap' # None /\ pendingChap'.ntResponse = r
    BY <2>1, <2>4, OptionsAreDistinct DEF r
  <2>6. LoginStage' = LoginStage
    BY <1>t, <2>2 DEF LoginStage, Alive
  <2>7. AbstractLogin!Give(r)
    BY <1>t, <2>1, <2>2, <2>3, <2>5, <2>6 DEF AbstractLogin!Give, r
  <2> QED
    BY <2>3, <2>7
<1>2. CASE HandleChapSuccess(f)
  <2>1. /\ pendingChap # None
        /\ f.value = Authenticator(pendingChap.ntResponse, pendingChap.peerChallenge, authChallenge)
        /\ mppeKeys' = MppeKeys(pendingChap.ntResponse)
        /\ pendingChap' = None /\ phase' = "Ipcp" /\ outcome' = "quiet"
        /\ UNCHANGED peerVars
    BY <1>2 DEF HandleChapSuccess, Verified, VerifySuccess
  <2>2. pendingChap.ntResponse \in NtResponses
    BY <1>t, <2>1, LoginMapping
  <2>3. f.value = Vouching(pendingChap.ntResponse)
    BY <1>t, <2>1 DEF PendingMatchesChallenge, Vouching, NtResponse
  <2>4. pendingChap.ntResponse \in vouched
    <3>1. f.value \in {Vouching(r) : r \in vouched} \cup {Malformed}
      BY <1>0, <1>2 DEF Sendable, HandleChapSuccess, HandleChap, ChapFrames
    <3>2. f.value # Malformed
      BY <2>2, <2>3, OptionsAreDistinct
    <3>3. PICK r \in vouched : f.value = Vouching(r)
      BY <3>1, <3>2
    <3>4. r = pendingChap.ntResponse
      BY <2>3, <3>3 DEF Vouching, Authenticator
    <3> QED
      BY <3>4
  <2>5. mppeKeys' # None /\ mppeKeys'.mppe = pendingChap.ntResponse
    BY <2>1, <2>2, OptionsAreDistinct DEF MppeKeys
  <2>6. LoginStage' = "admitted"
    BY <2>1 DEF LoginStage, Alive
  <2>7. AbstractLogin!Admit
    BY <1>t, <2>1, <2>4, <2>5, <2>6 DEF AbstractLogin!Admit, peerVars
  <2> QED
    BY <2>7
<1>3. CASE HandleChapFatal(f)
  BY <1>3, EndImplementsLogin DEF HandleChapFatal, Alive
<1> QED
  BY <1>1, <1>2, <1>3 DEF HandleChap

(* Every packet but CHAP's leaves the authentication alone. *)
LEMMA PacketImplementsLogin ==
  ASSUME IInv, NEW p \in Packets, Alive, ~HandleChap(p), OnPacket(p)
  PROVE  AbstractLogin!End \/ AbstractLogin!Open \/ UNCHANGED AbstractLogin!loginVars
<1>1. UNCHANGED <<chapVars, peerVars>>
  BY DEF OnPacket, OnCtrl, OnConnectAck, OnCtrlFatal, OnDisconnect, OnCtrlIdle, HandleLcp,
         HandleIpcp, OnOtherData
<1>2. \/ phase' = phase
      \/ phase = "Ipcp" /\ phase' = "Established"
      \/ {phase, phase'} \cap {"Ipcp", "Established"} = {}
  BY DEF OnPacket, OnCtrl, OnConnectAck, ConnectAckExpected, OnCtrlFatal, OnDisconnect,
         OnCtrlIdle, HandleLcp, HandleIpcp, OnOtherData
<1>3. UNCHANGED mppeKeys /\ pendingChap' = pendingChap
  BY <1>1 DEF chapVars
<1>4. CASE Alive'
  BY <1>1, <1>2, <1>4, OtherImplementsLogin
<1>5. CASE ~Alive'
  BY <1>1, <1>3, <1>5, EndImplementsLogin
<1> QED
  BY <1>4, <1>5

(* A packet is a step of Login, or none. *)
LEMMA PacketStepsLogin ==
  ASSUME IInv, NEW p \in Packets, Sendable(p), OnPacket(p)
  PROVE  [AbstractLogin!LoginNext]_AbstractLogin!loginVars
<1>1. Alive
  BY DEF OnPacket
<1> QED
  BY <1>1, ChapImplementsLogin, PacketImplementsLogin DEF AbstractLogin!LoginNext

(* So is a voucher. *)
LEMMA VouchStepsLogin ==
  ASSUME IInv, NEW r \in responses, Vouch(r)
  PROVE  [AbstractLogin!LoginNext]_AbstractLogin!loginVars
<1>1. r \in NtResponses /\ LoginStage # "over" /\ LoginStage' = LoginStage
  BY LoginMapping DEF IInv, TypeOK, Vouch, LoginStage, Alive
<1>2. AbstractLogin!VouchFor(r)
  BY <1>1 DEF AbstractLogin!VouchFor, Vouch, chapVars
<1> QED
  BY <1>1, <1>2 DEF AbstractLogin!LoginNext

(* Every step of the engine is one of Login, or none. *)
LEMMA NextImplementsLogin ==
  ASSUME IInv, [Next]_vars
  PROVE  [AbstractLogin!LoginNext]_AbstractLogin!loginVars
<1>1. ASSUME NEW p \in PeerPackets, Sendable(p), OnPacket(p)
      PROVE  [AbstractLogin!LoginNext]_AbstractLogin!loginVars
  BY <1>1, PacketStepsLogin, PeerPacketsAssumption
<1>2. ASSUME NEW r \in responses, Vouch(r)
      PROVE  [AbstractLogin!LoginNext]_AbstractLogin!loginVars
  BY <1>2, VouchStepsLogin
<1>3. CASE UNCHANGED vars
  BY <1>3 DEF vars, AbstractLogin!loginVars, LoginStage, Alive
<1> QED
  BY <1>1, <1>2, <1>3 DEF Next

(* The engine with its negotiations implements Login: whatever the peer     *)
(* sends, the tunnel opens only on a response a holder of the password      *)
(* vouched for, and each response admits the server once.                   *)
THEOREM EngineImplementsAbstractLogin == Spec => EngineImplementsLogin
BY InitIInv, NextIInv, InitImplementsLogin, NextImplementsLogin, PTL
   DEF Spec, EngineImplementsLogin, AbstractLogin!LoginSpec
===============================================================================
