---------------------------- MODULE HandshakeProofs ----------------------------
(***************************************************************************)
(* Theorems about Handshake: the engine and a server that follows the      *)
(* protocol agree, whatever the server chooses, however the two run ahead  *)
(* of each other, and for every value of the constants, the number of      *)
(* unsolicited packets, of authentications and of identifiers included.    *)
(***************************************************************************)
EXTENDS Handshake, EngineProofs, SequenceTheorems

(***************************************************************************)
(* Types of the server and of the two channels.                            *)
(***************************************************************************)
LinkKinds == {"MagicNumber", "Pfc", "Acfc"}

ServerType ==
  [bind : Bindings,
   lcpRejects : SUBSET LinkKinds, lcpNaks : BOOLEAN,
   ipcpRejects : {{}, {"PrimaryDns", "SecondaryDns"}},
   extraOption : BOOLEAN,
   lcpId : Id, ipcpId : Id,
   accepted : BOOLEAN, requested : BOOLEAN,
   lcpAcked : BOOLEAN, lcpWanted : Options(LcpKinds, LcpData) \cup {None},
   ipcpAcked : BOOLEAN, ipcpWanted : Options(IpcpKinds, IpcpData) \cup {None},
   ipcpRequested : BOOLEAN,
   challenge : Challenges \cup {None},
   keys : {MppeKeys(r) : r \in NtResponses} \cup {None},
   bound : {"no", "yes", "refused"},
   noise : Nat, reauths : Nat]

Contents == [algo : HashAlgos \cup {None}, nonce : Nonces \cup {None},
             keys : {MppeKeys(r) : r \in NtResponses} \cup {None}]

ClientPackets ==
  [proto : {"Ctrl"}, code : {"ConnectRequest", "EchoReply", "DisconnectAck"}]
  \cup [proto : {"Ctrl"}, code : {"Connected"}, bind : Contents]
  \cup [proto : {"Chap"}, code : {"Response"}, id : Id, value : NtResponses]
  \cup Frames("Lcp", LcpKinds, LcpData)
  \cup Frames("Ipcp", IpcpKinds, IpcpData)

(* With them: no voucher in flight is forged, no response is another's.     *)
ChannelsOK ==
  /\ server \in ServerType
  /\ toServer \in Seq(ClientPackets)
  /\ toClient \in Seq(Packets)
  /\ \A p \in Range(toClient) : Sendable(p)
  /\ \A p \in Range(toServer) : p.proto = "Chap" => p.value \in responses

-------------------------------------------------------------------------------
(***************************************************************************)
(* Tokens.  Two conversations run over the channels, each of which hands a *)
(* single packet to and fro: LCP's request for the options we want, and    *)
(* authentication, from the server's Challenge to our CONNECTED.  Whoever  *)
(* holds the token of a conversation agrees with whoever passed it.        *)
(***************************************************************************)
Role(p) ==
  IF p.proto = "Lcp"
  THEN CASE p.code = "ConfigureRequest" -> "request"
         [] p.code \in {"ConfigureAck", "ConfigureNak", "ConfigureReject"} -> "answer"
         [] OTHER -> "other"
  ELSE IF p.proto = "Chap" THEN "auth"
  ELSE IF p.proto = "Ctrl" /\ p.code = "Connected" THEN "auth"
  ELSE "other"

Without(q, role) == \A p \in Range(q) : Role(p) # role

AtMostOne(q, role) ==
  \A i, j \in 1 .. Len(q) : Role(q[i]) = role /\ Role(q[j]) = role => i = j

(* Role a in channel q and role b in channel r make a token. *)
NoToken(q, a, r, b)  == Without(q, a) /\ Without(r, b)
OneToken(q, a, r, b) == /\ AtMostOne(q, a) /\ AtMostOne(r, b)
                        /\ Without(q, a) \/ Without(r, b)

NoLinkToken  == NoToken(toServer, "request", toClient, "answer")
NoAuthToken  == NoToken(toServer, "auth", toClient, "auth")

(***************************************************************************)
(* What the two ends agree on about the link.  Nothing is said about the   *)
(* identifiers: with one request in flight an answer cannot be mistaken.   *)
(***************************************************************************)
LinkInv ==
  /\ OneToken(toServer, "request", toClient, "answer")
  /\ phase = "WaitConnectAck" => NoLinkToken /\ ~lcp.localUp
  /\ lcp.localUp => NoLinkToken /\ server.lcpWanted = lcp.desired
  /\ \A p \in Range(toServer) : Role(p) = "request" => p.opts = lcp.desired
  /\ \A p \in Range(toClient) :
       p.proto = "Lcp" /\ p.code = "ConfigureAck" => server.lcpWanted = lcp.desired

(* The server never asks for a link without MS-CHAPv2. *)
AsksMsChapV2(p) ==
  p.proto = "Lcp" /\ p.code = "ConfigureRequest" =>
    "AuthProtocol" \in DOMAIN p.opts /\ p.opts["AuthProtocol"] = "MsChapV2"

PeerAuthInv ==
  /\ lcp.remoteUp => lcp.peerAuth = "MsChapV2"
  /\ \A p \in Range(toClient) : AsksMsChapV2(p)

(***************************************************************************)
(* Addresses.  IPCP starts again with every authentication, so requests    *)
(* may overtake answers; but our options move one way only, from the ones  *)
(* we begin with to the ones the server is content with, and an Ack in     *)
(* flight means that they have arrived there.                              *)
(***************************************************************************)
Wanted  == OurKinds \ server.ipcpRejects
Settled == [k \in Wanted |-> Assigned(k)]

ServerName(kind) == IF kind \in server.ipcpRejects THEN None ELSE DnsAddress

AddressesHeld == /\ ipcp.localIp = ClientAddress
                 /\ ipcp.dns1 = ServerName("PrimaryDns")
                 /\ ipcp.dns2 = ServerName("SecondaryDns")

IpcpToServer(p) ==
  p.proto = "Ipcp" /\ p.code = "ConfigureRequest" =>
    /\ Wanted \subseteq DOMAIN p.opts /\ DOMAIN p.opts \subseteq OurKinds
    /\ p.opts = Settled => ipcp.desired = Settled

IpcpToClient(p) ==
  p.proto = "Ipcp" =>
    /\ p.code = "ConfigureRequest" => p.opts = [k \in {"IpAddress"} |-> DnsAddress]
    /\ p.code = "ConfigureAck"     => ipcp.desired = Settled
    /\ p.code = "ConfigureNak"     => \A k \in DOMAIN p.opts : p.opts[k] = Assigned(k)
    /\ p.code = "ConfigureReject"  => DOMAIN p.opts \subseteq server.ipcpRejects

AddressInv ==
  /\ Wanted \subseteq DOMAIN ipcp.desired
  /\ \A p \in Range(toServer) : IpcpToServer(p)
  /\ \A p \in Range(toClient) : IpcpToClient(p)
  /\ "PrimaryDns" \in server.ipcpRejects => ipcp.dns1 = None
  /\ "SecondaryDns" \in server.ipcpRejects => ipcp.dns2 = None
  /\ ipcp.localUp \/ phase = "Established" => AddressesHeld
  /\ ipcp.remoteUp \/ phase = "Established" => ipcp.peerIp = DnsAddress

(***************************************************************************)
(* The first CONNECT_ACK to arrive is the first that was sent: nothing is  *)
(* sent before it, and what comes later finds the engine past it.          *)
(***************************************************************************)
Peaceful(p) ==
  p.proto = "Ctrl" => p.code = "EchoRequest" \/ (p.code = "ConnectAck" /\ p.bind \in Bindings)

OfferInv ==
  /\ \A p \in Range(toClient) : Peaceful(p)
  /\ ~server.accepted => /\ phase = "WaitConnectAck" /\ toClient = <<>>
                         /\ ~server.lcpAcked /\ server.keys = None
                         /\ \A p \in Range(toServer) : p.proto = "Ctrl" /\ p.code = "ConnectRequest"
  /\ server.accepted /\ phase = "WaitConnectAck" =>
       toClient # <<>> /\ Head(toClient) = [proto |-> "Ctrl", code |-> "ConnectAck", bind |-> server.bind]
  /\ phase # "WaitConnectAck" => hashAlgo = server.bind.algo /\ serverNonce = server.bind.nonce

(***************************************************************************)
(* Authentication.  The token is the server's Challenge, our Response, its *)
(* Success, phase Ipcp (the engine holds it) and CONNECTED, in this order. *)
(***************************************************************************)
ServerIdle == server.challenge = None /\ (server.keys = None \/ server.bound = "yes")

(* What CONNECTED promises, and its acceptance confirms. *)
TunnelHeld == phase = "Established" /\ mppeKeys = server.keys

AuthToClient(p) ==
  p.proto = "Chap" =>
    \/ p.code = "Challenge" /\ p.value = server.challenge /\ p.value \in Challenges
    \/ /\ p.code = "Success" /\ pendingChap # None
       /\ p.value = Vouching(pendingChap.ntResponse)
       /\ server.challenge = None /\ server.keys = MppeKeys(pendingChap.ntResponse)

AuthToServer(p) ==
  /\ p.proto = "Chap" =>
       /\ pendingChap # None /\ p.value = pendingChap.ntResponse
       /\ p.value.authChallenge = server.challenge
  /\ p.proto = "Ctrl" /\ p.code = "Connected" =>
       /\ server.challenge = None /\ TunnelHeld
       /\ p.bind = [algo |-> server.bind.algo, nonce |-> server.bind.nonce, keys |-> server.keys]

AuthInv ==
  /\ OneToken(toServer, "auth", toClient, "auth")
  /\ phase = "Ipcp" => NoAuthToken /\ mppeKeys = server.keys /\ server.challenge = None
  /\ ServerIdle => NoAuthToken /\ phase # "Ipcp"
  /\ \A p \in Range(toClient) : AuthToClient(p)
  /\ \A p \in Range(toServer) : AuthToServer(p)
  /\ BindingAccepted
  /\ server.bound = "yes" => TunnelHeld

-------------------------------------------------------------------------------
(***************************************************************************)
(* Channels.                                                               *)
(***************************************************************************)

(* What is left of a channel held it before, one place further back. *)
LEMMA TailOfChannel ==
  ASSUME NEW S, NEW q \in Seq(S), q # <<>>
  PROVE  /\ Head(q) \in S /\ Head(q) \in Range(q) /\ Head(q) = q[1] /\ Len(q) >= 1
         /\ Tail(q) \in Seq(S) /\ Len(Tail(q)) = Len(q) - 1
         /\ \A i \in 1 .. Len(q) - 1 : Tail(q)[i] = q[i + 1]
         /\ Range(Tail(q)) \subseteq Range(q)
<1>1. /\ Len(q) \in Nat /\ Len(q) >= 1
      /\ Head(q) \in S /\ Head(q) = q[1]
      /\ Tail(q) \in Seq(S) /\ Len(Tail(q)) = Len(q) - 1
      /\ \A i \in 1 .. Len(q) - 1 : Tail(q)[i] = q[i + 1]
  BY HeadTailProperties, EmptySeq, LenProperties
<1>2. DOMAIN q = 1 .. Len(q) /\ DOMAIN Tail(q) = 1 .. Len(q) - 1
  BY <1>1, LenProperties
<1>3. Range(Tail(q)) \subseteq Range(q)
  BY <1>1, <1>2 DEF Range
<1>4. Head(q) \in Range(q)
  BY <1>1, <1>2 DEF Range
<1> QED
  BY <1>1, <1>3, <1>4

(* Sending puts packets behind those in flight. *)
LEMMA SendOnChannel ==
  ASSUME NEW S, NEW r \in Seq(S), NEW e \in Seq(S)
  PROVE  /\ r \o e \in Seq(S) /\ Len(r \o e) = Len(r) + Len(e)
         /\ \A i \in 1 .. Len(r) : (r \o e)[i] = r[i]
         /\ \A i \in 1 .. Len(e) : (r \o e)[Len(r) + i] = e[i]
         /\ Range(r \o e) = Range(r) \cup Range(e)
  BY ConcatProperties, RangeConcatenation

(* A token that is taken off a channel is no longer there. *)
LEMMA TakeToken ==
  ASSUME NEW S, NEW q \in Seq(S), q # <<>>, NEW a, AtMostOne(q, a)
  PROVE  /\ AtMostOne(Tail(q), a)
         /\ Role(Head(q)) = a => Without(Tail(q), a)
<1>1. /\ Head(q) = q[1] /\ Len(q) >= 1 /\ Len(q) \in Nat
      /\ Tail(q) \in Seq(S) /\ Len(Tail(q)) = Len(q) - 1
      /\ \A i \in 1 .. Len(q) - 1 : Tail(q)[i] = q[i + 1]
  BY TailOfChannel, LenProperties
<1>2. AtMostOne(Tail(q), a)
  <2> SUFFICES ASSUME NEW i \in 1 .. Len(q) - 1, NEW j \in 1 .. Len(q) - 1,
                      Role(q[i + 1]) = a, Role(q[j + 1]) = a
               PROVE  i = j
    BY <1>1 DEF AtMostOne
  <2>1. i + 1 \in 1 .. Len(q) /\ j + 1 \in 1 .. Len(q)
    BY <1>1
  <2>2. i + 1 = j + 1
    BY <2>1 DEF AtMostOne
  <2> QED
    BY <2>2
<1>3. ASSUME Role(Head(q)) = a, NEW p \in Range(Tail(q)) PROVE Role(p) # a
  <2>1. DOMAIN Tail(q) = 1 .. Len(q) - 1
    BY <1>1, LenProperties
  <2>2. PICK i \in 1 .. Len(q) - 1 : p = Tail(q)[i]
    BY <1>3, <2>1 DEF Range
  <2>3. 1 \in 1 .. Len(q) /\ i + 1 \in 1 .. Len(q) /\ i + 1 # 1
    BY <1>1
  <2>4. p = q[i + 1]
    BY <1>1, <2>2
  <2> QED
    BY <1>1, <1>3, <2>3, <2>4 DEF AtMostOne
<1> QED
  BY <1>2, <1>3 DEF Without

(* A channel without the token can be given it, one with it other packets. *)
LEMMA GiveToken ==
  ASSUME NEW S, NEW r \in Seq(S), NEW e \in Seq(S), NEW b,
         \/ Without(r, b) /\ AtMostOne(e, b)
         \/ AtMostOne(r, b) /\ Without(e, b)
  PROVE  AtMostOne(r \o e, b)
<1>1. /\ Len(r) \in Nat /\ Len(e) \in Nat /\ Len(r \o e) = Len(r) + Len(e)
      /\ \A i \in 1 .. Len(r) : (r \o e)[i] = r[i]
      /\ \A i \in 1 .. Len(e) : (r \o e)[Len(r) + i] = e[i]
      /\ DOMAIN r = 1 .. Len(r) /\ DOMAIN e = 1 .. Len(e)
  BY SendOnChannel, LenProperties
<1> SUFFICES ASSUME NEW i \in 1 .. Len(r) + Len(e), NEW j \in 1 .. Len(r) + Len(e),
                    Role((r \o e)[i]) = b, Role((r \o e)[j]) = b
             PROVE  i = j
  BY <1>1 DEF AtMostOne
<1>2. CASE Without(r, b) /\ AtMostOne(e, b)
  <2>1. \A k \in 1 .. Len(r) : Role((r \o e)[k]) # b
    BY <1>1, <1>2 DEF Without, Range
  <2>2. i \notin 1 .. Len(r) /\ j \notin 1 .. Len(r)
    BY <2>1
  <2>3. i - Len(r) \in 1 .. Len(e) /\ j - Len(r) \in 1 .. Len(e)
    BY <1>1, <2>2
  <2>4. (r \o e)[i] = e[i - Len(r)] /\ (r \o e)[j] = e[j - Len(r)]
    <3>1. Len(r) + (i - Len(r)) = i /\ Len(r) + (j - Len(r)) = j
      BY <1>1
    <3> QED
      BY <1>1, <2>3, <3>1
  <2>5. i - Len(r) = j - Len(r)
    BY <1>2, <2>3, <2>4 DEF AtMostOne
  <2> QED
    BY <1>1, <2>5
<1>3. CASE AtMostOne(r, b) /\ Without(e, b)
  <2>1. \A k \in 1 .. Len(e) : Role((r \o e)[Len(r) + k]) # b
    BY <1>1, <1>3 DEF Without, Range
  <2>2. ASSUME NEW k \in 1 .. Len(r) + Len(e), Role((r \o e)[k]) = b PROVE k \in 1 .. Len(r)
    <3>1. SUFFICES ASSUME k \notin 1 .. Len(r) PROVE FALSE
      OBVIOUS
    <3>2. k - Len(r) \in 1 .. Len(e) /\ Len(r) + (k - Len(r)) = k
      BY <1>1, <3>1
    <3> QED
      BY <2>1, <2>2, <3>2
  <2>3. i \in 1 .. Len(r) /\ j \in 1 .. Len(r)
    BY <2>2
  <2> QED
    BY <1>1, <1>3, <2>3 DEF AtMostOne
<1> QED
  BY <1>2, <1>3

(* Few packets. *)
LEMMA FewPackets ==
  ASSUME NEW a
  PROVE  /\ Without(<<>>, a) /\ AtMostOne(<<>>, a) /\ Range(<<>>) = {}
         /\ \A p : /\ Range(<<p>>) = {p} /\ AtMostOne(<<p>>, a)
                   /\ Without(<<p>>, a) <=> Role(p) # a
<1>1. Range(<<>>) = {}
  BY DEF Range
<1>2. ASSUME NEW p PROVE Range(<<p>>) = {p} /\ AtMostOne(<<p>>, a)
  BY DEF Range, AtMostOne
<1> QED
  BY <1>1, <1>2 DEF Without, AtMostOne

LEMMA SendOne ==
  ASSUME NEW S, NEW q \in Seq(S), NEW p \in S
  PROVE  Range(q \o <<p>>) = Range(q) \cup {p}
<1>1. <<p>> \in Seq(S)
  OBVIOUS
<1>2. Range(q \o <<p>>) = Range(q) \cup Range(<<p>>)
  BY <1>1, RangeConcatenation
<1>3. Range(<<p>>) = {p}
  BY FewPackets
<1> QED
  BY <1>2, <1>3, Zenon

(***************************************************************************)
(* A step takes the first packet off channel q and puts e into channel r.  *)
(* A token in q is passed on or ends there; other packets leave it alone.  *)
(***************************************************************************)
LEMMA PassToken ==
  ASSUME NEW S, NEW T, NEW q \in Seq(S), q # <<>>, NEW r \in Seq(T), NEW e \in Seq(T),
         NEW a, NEW b, OneToken(q, a, r, b),
         \/ Role(Head(q)) = a /\ AtMostOne(e, b)
         \/ Without(e, b)
  PROVE  /\ OneToken(Tail(q), a, r \o e, b)
         /\ Role(Head(q)) = a => Without(Tail(q), a) /\ Without(r, b)
         /\ Without(e, b) /\ (Role(Head(q)) = a \/ NoToken(q, a, r, b))
              => NoToken(Tail(q), a, r \o e, b)
<1>1. Head(q) \in Range(q) /\ Range(Tail(q)) \subseteq Range(q)
  BY TailOfChannel
<1>2. Range(r \o e) = Range(r) \cup Range(e)
  BY SendOnChannel
<1>3. AtMostOne(Tail(q), a) /\ (Role(Head(q)) = a => Without(Tail(q), a))
  BY TakeToken DEF OneToken
<1>4. Role(Head(q)) = a => Without(r, b)
  BY <1>1 DEF OneToken, Without
<1>5. AtMostOne(r \o e, b)
  BY <1>4, GiveToken DEF OneToken
<1>6. Without(Tail(q), a) \/ Without(r \o e, b)
  BY <1>1, <1>2, <1>3, <1>4 DEF OneToken, Without
<1> QED
  BY <1>1, <1>2, <1>3, <1>4, <1>5, <1>6 DEF OneToken, NoToken, Without

(* A step that only sends can make a token where there is none. *)
LEMMA MakeToken ==
  ASSUME NEW T, NEW q, NEW r \in Seq(T), NEW e \in Seq(T), NEW a, NEW b, OneToken(q, a, r, b),
         \/ NoToken(q, a, r, b) /\ AtMostOne(e, b)
         \/ Without(e, b)
  PROVE  /\ OneToken(q, a, r \o e, b)
         /\ Without(e, b) /\ NoToken(q, a, r, b) => NoToken(q, a, r \o e, b)
<1>1. Range(r \o e) = Range(r) \cup Range(e)
  BY SendOnChannel
<1>2. AtMostOne(r \o e, b)
  BY GiveToken DEF OneToken, NoToken
<1> QED
  BY <1>1, <1>2 DEF OneToken, NoToken, Without

-------------------------------------------------------------------------------
(***************************************************************************)
(* What the client sends has the type of the channel.                      *)
(***************************************************************************)

(* A list of some of the kinds. *)
LEMMA OptionsIntro ==
  ASSUME NEW S, NEW D, NEW K \in SUBSET S, NEW d \in [K -> D]
  PROVE  d \in Options(S, D)
  BY DEF Options

(* Part of a list is a list. *)
LEMMA RestrictType ==
  ASSUME NEW S, NEW D, NEW d \in Options(S, D), NEW K \in SUBSET DOMAIN d
  PROVE  Restrict(d, K) \in Options(S, D)
<1>1. PICK L \in SUBSET S : d \in [L -> D]
  BY DEF Options
<1>2. Restrict(d, K) \in [K -> D] /\ K \in SUBSET S
  BY <1>1 DEF Restrict
<1> QED
  BY <1>2, OptionsIntro

(* The kinds and data of a list. *)
LEMMA OptionsElim ==
  ASSUME NEW S, NEW D, NEW d \in Options(S, D)
  PROVE  DOMAIN d \subseteq S /\ d \in [DOMAIN d -> D]
  BY DEF Options

(* The empty list is one of any kinds, as long as Malformed is data. *)
LEMMA NoOptionsType == ASSUME NEW S, NEW D PROVE NoOptions \in Options(S, D)
<1>1. NoOptions \in [{} -> D]
  BY DEF NoOptions
<1> QED
  BY <1>1, OptionsIntro

(* A frame put together from its parts. *)
LEMMA FrameType ==
  ASSUME NEW proto, NEW S, NEW D, NEW code \in CpCodes, NEW id \in Id, NEW o \in Options(S, D)
  PROVE  /\ Frame(proto, code, id, o) \in Frames(proto, S, D)
         /\ Frame(proto, code, id, o).proto = proto /\ Frame(proto, code, id, o).code = code
         /\ Frame(proto, code, id, o).id = id /\ Frame(proto, code, id, o).opts = o
  BY DEF Frame, Frames

(* An answer is a frame, and no request. *)
LEMMA AnswerType ==
  ASSUME NEW proto, NEW S, NEW D, NEW f \in Frames(proto, S, D),
         NEW reject \in Options(S, D), NEW nak \in Options(S, D)
  PROVE  /\ Answer(proto, f, reject, nak) \in Frames(proto, S, D)
         /\ Answer(proto, f, reject, nak).code \in {"ConfigureAck", "ConfigureNak", "ConfigureReject"}
<1>1. f.id \in Id /\ f.opts \in Options(S, D)
  BY DEF Frames
<1>2. {"ConfigureAck", "ConfigureNak", "ConfigureReject"} \subseteq CpCodes
  BY DEF CpCodes
<1> QED
  BY <1>1, <1>2, FrameType DEF Answer

(* The request of an LCP automaton that has just been renumbered. *)
LEMMA LcpRequestType ==
  ASSUME NEW l \in LcpType, l.lastSentId \in Id
  PROVE  /\ RequestOf("Lcp", l) \in Frames("Lcp", LcpKinds, LcpData)
         /\ RequestOf("Lcp", l).proto = "Lcp" /\ RequestOf("Lcp", l).code = "ConfigureRequest"
         /\ RequestOf("Lcp", l).opts = l.desired
<1>1. l.desired \in Options(LcpKinds, LcpData)
  BY DEF LcpType, LcpKinds, Options
<1>2. "ConfigureRequest" \in CpCodes
  BY DEF CpCodes
<1> QED
  BY <1>1, <1>2, FrameType DEF RequestOf

(* The request of an IPCP automaton. *)
LEMMA IpcpRequestType ==
  ASSUME NEW i \in IpcpType, i.lastSentId \in Id
  PROVE  /\ RequestOf("Ipcp", i) \in Frames("Ipcp", IpcpKinds, IpcpData)
         /\ RequestOf("Ipcp", i).proto = "Ipcp" /\ RequestOf("Ipcp", i).code = "ConfigureRequest"
         /\ RequestOf("Ipcp", i).opts = i.desired
<1>1. i.desired \in Options(IpcpKinds, IpcpData)
  BY DEF IpcpType, IpcpKinds, Options
<1>2. "ConfigureRequest" \in CpCodes
  BY DEF CpCodes
<1> QED
  BY <1>1, <1>2, FrameType DEF RequestOf

(* Renumbering changes the identifiers only. *)
LEMMA LcpRenumbered ==
  ASSUME NEW l \in LcpType
  PROVE  /\ Renumbered(l) \in LcpType /\ Renumbered(l).lastSentId \in Id
         /\ Renumbered(l).desired = l.desired /\ Renumbered(l).localUp = l.localUp
         /\ Renumbered(l).remoteUp = l.remoteUp /\ Renumbered(l).peerAuth = l.peerAuth
  BY LcpRenumberedType, NextIdType DEF Renumbered, LcpType

(* The same of IPCP. *)
LEMMA IpcpRenumbered ==
  ASSUME NEW i \in IpcpType
  PROVE  /\ Renumbered(i) \in IpcpType /\ Renumbered(i).lastSentId \in Id
         /\ Renumbered(i).desired = i.desired /\ Renumbered(i).localUp = i.localUp
         /\ Renumbered(i).remoteUp = i.remoteUp /\ Renumbered(i).localIp = i.localIp
         /\ Renumbered(i).peerIp = i.peerIp
         /\ Renumbered(i).dns1 = i.dns1 /\ Renumbered(i).dns2 = i.dns2
  BY IpcpRenumberedType, NextIdType DEF Renumbered, IpcpType

(***************************************************************************)
(* What LCP does with a frame, as far as the link is concerned: it keeps   *)
(* its options and requests nothing, or an Ack brings our direction up, or *)
(* another answer takes it down and makes a request of what is wanted now. *)
(***************************************************************************)
LcpKeepsOn == /\ lcp'.desired = lcp.desired /\ lcp'.localUp \in {lcp.localUp, FALSE}
              /\ \/ toSend' = <<>>
                 \/ \E r \in Frames("Lcp", LcpKinds, LcpData) : toSend' = <<r>> /\ Role(r) # "request"

LcpRequests == \E r \in Frames("Lcp", LcpKinds, LcpData) :
                 toSend' = <<r>> /\ r.code = "ConfigureRequest" /\ r.opts = lcp'.desired

LEMMA LcpReceiveEffect ==
  ASSUME lcp \in LcpType, NEW f \in Frames("Lcp", LcpKinds, LcpData), LcpReceive(f)
  PROVE  \/ LcpKeepsOn
         \/ /\ f.code = "ConfigureAck" /\ lcp'.desired = lcp.desired /\ lcp'.localUp = TRUE
            /\ toSend' = <<>>
         \/ /\ f.code \in {"ConfigureNak", "ConfigureReject"} /\ lcp'.localUp = FALSE
            /\ LcpRequests
<1>0. f.opts \in Options(LcpKinds, LcpData) /\ f.id \in Id /\ f.proto = "Lcp"
  BY DEF Frames
<1>1. CASE LcpReceiveConfigureRequest(f)
  <2>1. PICK newMagic \in Magics :
          LET reject == Restrict(f.opts, Unacceptable(f.opts))
              nak    == Suggestions(lcp, f.opts, newMagic)
              answer == Answer("Lcp", f, reject, nak)
          IN  /\ lcp' = [lcp EXCEPT !.peerAuth = Proposed(lcp, f.opts),
                                    !.remoteUp = (answer.code = "ConfigureAck")]
              /\ toSend' = <<answer>>
    BY <1>1 DEF LcpReceiveConfigureRequest
  <2> DEFINE reject == Restrict(f.opts, Unacceptable(f.opts))
             nak    == Suggestions(lcp, f.opts, newMagic)
             answer == Answer("Lcp", f, reject, nak)
  <2>2. reject \in Options(LcpKinds, LcpData)
    BY <1>0, RestrictType DEF Unacceptable
  <2>3. nak \in Options(LcpKinds, LcpData)
    <3>1. PICK K \in SUBSET LcpKinds : nak \in [K -> LcpData]
      <4> DEFINE K == {k \in DOMAIN f.opts : \/ k = "MagicNumber" /\ LoopedBack(lcp, f.opts)
                                             \/ k = "AuthProtocol" /\ UnsupportedAuth(f.opts)}
      <4>1. K \in SUBSET LcpKinds
        BY <1>0, OptionsElim
      <4>2. nak \in [K -> LcpData]
        BY DEF Suggestions, LcpData
      <4> QED
        BY <4>1, <4>2
    <3> QED
      BY <3>1, OptionsIntro
  <2>4. /\ answer \in Frames("Lcp", LcpKinds, LcpData)
        /\ answer.code \in {"ConfigureAck", "ConfigureNak", "ConfigureReject"}
    BY <2>2, <2>3, AnswerType
  <2>5. Role(answer) = "answer"
    BY <2>4 DEF Role, Frames
  <2>6. toSend' = <<answer>> /\ lcp'.desired = lcp.desired /\ lcp'.localUp = lcp.localUp
    BY <2>1 DEF LcpType
  <2> HIDE DEF answer
  <2> QED
    BY <2>4, <2>5, <2>6 DEF LcpKeepsOn
<1>2. CASE LcpReceiveConfigureAck(f)
  BY <1>2 DEF LcpReceiveConfigureAck, LcpType
<1>3. CASE LcpReceiveConfigureNak(f) \/ LcpReceiveConfigureReject(f)
  <2>1. /\ f.code \in {"ConfigureNak", "ConfigureReject"}
        /\ lcp'.localUp = FALSE /\ lcp'.lastSentId \in Id
        /\ toSend' = <<RequestOf("Lcp", lcp')>>
    BY <1>3, NextIdType DEF LcpReceiveConfigureNak, LcpReceiveConfigureReject, Renumbered, LcpType
  <2>2. lcp' \in LcpType
    BY <1>3, LcpReceiveType
  <2> QED
    BY <2>1, <2>2, LcpRequestType DEF LcpRequests
<1>4. CASE LcpReceiveEchoRequest(f)
  <2> DEFINE o == [k \in {"MagicNumber"} |-> lcp.magic]
  <2>1. o \in Options(LcpKinds, LcpData)
    <3>1. lcp.magic \in LcpData /\ {"MagicNumber"} \subseteq LcpKinds
      BY DEF LcpData, LcpType, LcpKinds
    <3> QED
      BY <3>1, OptionsIntro
  <2>2. "EchoReply" \in CpCodes
    BY DEF CpCodes
  <2>3. /\ Frame("Lcp", "EchoReply", f.id, o) \in Frames("Lcp", LcpKinds, LcpData)
        /\ Role(Frame("Lcp", "EchoReply", f.id, o)) = "other"
    BY <1>0, <2>1, <2>2, FrameType DEF Role
  <2> QED
    BY <1>4, <2>3 DEF LcpReceiveEchoRequest, LcpKeepsOn
<1>5. CASE LcpReceiveTerminateRequest(f)
  <2>1. "TerminateAck" \in CpCodes
    BY DEF CpCodes
  <2>2. /\ Frame("Lcp", "TerminateAck", f.id, NoOptions) \in Frames("Lcp", LcpKinds, LcpData)
        /\ Role(Frame("Lcp", "TerminateAck", f.id, NoOptions)) = "other"
    BY <1>0, <2>1, NoOptionsType, FrameType DEF Role
  <2>3. /\ toSend' = <<Frame("Lcp", "TerminateAck", f.id, NoOptions)>>
        /\ lcp'.desired = lcp.desired /\ lcp'.localUp = FALSE
    BY <1>5 DEF LcpReceiveTerminateRequest, LcpType
  <2> QED
    BY <2>2, <2>3 DEF LcpKeepsOn
<1>6. CASE LcpIgnore(f)
  BY <1>6 DEF LcpIgnore, LcpKeepsOn
<1> QED
  BY <1>1, <1>2, <1>3, <1>4, <1>5, <1>6 DEF LcpReceive

(***************************************************************************)
(* What IPCP does with a frame: it keeps its options and addresses, or an  *)
(* Ack captures them, or another answer changes the options.               *)
(***************************************************************************)
IpcpRequests == \E r \in Frames("Ipcp", IpcpKinds, IpcpData) :
                  toSend' = <<r>> /\ r.code = "ConfigureRequest" /\ r.opts = ipcp'.desired

IpcpKeepsOn == /\ ipcp'.desired = ipcp.desired /\ ipcp'.localUp \in {ipcp.localUp, FALSE}
               /\ ipcp'.localIp = ipcp.localIp /\ ipcp'.dns1 = ipcp.dns1 /\ ipcp'.dns2 = ipcp.dns2
               /\ \/ toSend' = <<>>
                  \/ \E r \in Frames("Ipcp", IpcpKinds, IpcpData) :
                       toSend' = <<r>> /\ r.code # "ConfigureRequest"

IpcpCaptures == /\ ipcp'.desired = ipcp.desired /\ ipcp'.localUp = TRUE
                /\ ipcp'.localIp = Captured(ipcp, "IpAddress", ipcp.localIp)
                /\ ipcp'.dns1 = Captured(ipcp, "PrimaryDns", ipcp.dns1)
                /\ ipcp'.dns2 = Captured(ipcp, "SecondaryDns", ipcp.dns2)
                /\ toSend' = <<>>

IpcpPeerKept == ipcp'.peerIp = ipcp.peerIp /\ ipcp'.remoteUp \in {ipcp.remoteUp, FALSE}

LEMMA IpcpReceiveEffect ==
  ASSUME ipcp \in IpcpType, NEW f \in Frames("Ipcp", IpcpKinds, IpcpData), IpcpReceive(f)
  PROVE  /\ \/ IpcpKeepsOn
            \/ f.code = "ConfigureAck" /\ IpcpCaptures
            \/ /\ \/ f.code = "ConfigureNak" /\ ipcp'.desired = ApplyNak(ipcp.desired, f.opts)
                  \/ f.code = "ConfigureReject" /\ ipcp'.desired = ApplyReject(ipcp.desired, f.opts)
               /\ ipcp'.localUp = FALSE
               /\ ipcp'.localIp = ipcp.localIp /\ ipcp'.dns1 = ipcp.dns1 /\ ipcp'.dns2 = ipcp.dns2
               /\ IpcpRequests
         /\ \/ IpcpPeerKept
            \/ f.code = "ConfigureRequest" /\ ipcp'.peerIp = AnnouncedIp(ipcp, f.opts)
<1>0. f.opts \in Options(IpcpKinds, IpcpData) /\ f.id \in Id /\ f.proto = "Ipcp"
  BY DEF Frames
<1>1. CASE IpcpReceiveConfigureRequest(f)
  <2> DEFINE reject == Restrict(f.opts, UnacceptableToIpcp(f.opts))
             answer == Answer("Ipcp", f, reject, NoOptions)
  <2>1. reject \in Options(IpcpKinds, IpcpData) /\ NoOptions \in Options(IpcpKinds, IpcpData)
    BY <1>0, RestrictType, NoOptionsType DEF UnacceptableToIpcp
  <2>2. answer \in Frames("Ipcp", IpcpKinds, IpcpData) /\ answer.code # "ConfigureRequest"
    BY <2>1, AnswerType
  <2>3. /\ toSend' = <<answer>>
        /\ ipcp' = [ipcp EXCEPT !.peerIp   = AnnouncedIp(ipcp, f.opts),
                                !.remoteUp = (answer.code = "ConfigureAck")]
    BY <1>1 DEF IpcpReceiveConfigureRequest
  <2> HIDE DEF answer
  <2>4. IpcpKeepsOn /\ ipcp'.peerIp = AnnouncedIp(ipcp, f.opts)
    BY <2>2, <2>3 DEF IpcpKeepsOn, IpcpType
  <2> QED
    BY <1>1, <2>4 DEF IpcpReceiveConfigureRequest
<1>2. CASE IpcpReceiveConfigureAck(f)
  BY <1>2 DEF IpcpReceiveConfigureAck, IpcpType, IpcpCaptures, IpcpPeerKept
<1>3. CASE IpcpReceiveConfigureNak(f) \/ IpcpReceiveConfigureReject(f)
  <2> DEFINE new == IF f.code = "ConfigureNak" THEN ApplyNak(ipcp.desired, f.opts)
                    ELSE ApplyReject(ipcp.desired, f.opts)
             i == [ipcp EXCEPT !.desired = new, !.localUp = FALSE]
  <2>1. ipcp' = Renumbered(i) /\ toSend' = <<RequestOf("Ipcp", ipcp')>>
        /\ f.code \in {"ConfigureNak", "ConfigureReject"}
    BY <1>3 DEF IpcpReceiveConfigureNak, IpcpReceiveConfigureReject
  <2>2. ipcp' \in IpcpType
    BY <1>3, IpcpReceiveType
  <2>3. /\ ipcp'.desired = new /\ ipcp'.localUp = FALSE /\ ipcp'.remoteUp = ipcp.remoteUp
        /\ ipcp'.localIp = ipcp.localIp /\ ipcp'.peerIp = ipcp.peerIp
        /\ ipcp'.dns1 = ipcp.dns1 /\ ipcp'.dns2 = ipcp.dns2 /\ ipcp'.lastSentId \in Id
    BY <2>1, NextIdType DEF Renumbered, IpcpType
  <2>4. IpcpRequests
    BY <2>1, <2>2, <2>3, IpcpRequestType DEF IpcpRequests
  <2> QED
    BY <2>1, <2>3, <2>4 DEF IpcpPeerKept
<1>4. CASE IpcpReceiveTerminateRequest(f)
  <2>1. "TerminateAck" \in CpCodes
    BY DEF CpCodes
  <2>2. /\ Frame("Ipcp", "TerminateAck", f.id, NoOptions) \in Frames("Ipcp", IpcpKinds, IpcpData)
        /\ Frame("Ipcp", "TerminateAck", f.id, NoOptions).code # "ConfigureRequest"
    BY <1>0, <2>1, NoOptionsType, FrameType
  <2> QED
    BY <1>4, <2>2 DEF IpcpReceiveTerminateRequest, IpcpType, IpcpKeepsOn, IpcpPeerKept
<1>5. CASE IpcpIgnore(f)
  BY <1>5 DEF IpcpIgnore, IpcpKeepsOn, IpcpPeerKept
<1> QED
  BY <1>1, <1>2, <1>3, <1>4, <1>5 DEF IpcpReceive

(* Starting it sends what is wanted and leaves the rest as it is. *)
LEMMA IpcpStartEffect ==
  ASSUME ipcp \in IpcpType, IpcpStart
  PROVE  /\ IpcpRequests /\ ipcp'.desired = ipcp.desired
         /\ ipcp'.localUp = ipcp.localUp /\ ipcp'.remoteUp = ipcp.remoteUp
         /\ ipcp'.localIp = ipcp.localIp /\ ipcp'.peerIp = ipcp.peerIp
         /\ ipcp'.dns1 = ipcp.dns1 /\ ipcp'.dns2 = ipcp.dns2
  BY IpcpRenumbered, IpcpRequestType DEF IpcpStart, IpcpRequests

(***************************************************************************)
(* What a packet makes the client send.                                    *)
(***************************************************************************)
Sends(R) == Emitted' = <<>> \/ \E r \in R : Emitted' = <<r>>

(* Control messages: the first CONNECT_ACK starts LCP, none else touches it. *)
LEMMA OnCtrlEffect ==
  ASSUME TypeOK, NEW p \in Packets, OnCtrl(p)
  PROVE  \/ /\ OnConnectAck(p) /\ LcpRequests
            /\ lcp'.desired = lcp.desired /\ lcp'.localUp = lcp.localUp
            /\ lcp'.remoteUp = lcp.remoteUp /\ lcp'.peerAuth = lcp.peerAuth
            /\ Emitted' = toSend'
         \/ /\ ~OnConnectAck(p) /\ UNCHANGED <<lcp, ipcp, phase, bindVars, chapVars, peerVars>>
            /\ Sends([proto : {"Ctrl"}, code : {"EchoReply", "DisconnectAck"}])
            /\ p.code # "ConnectAck" \/ phase # "WaitConnectAck" \/ p.bind \notin Bindings
<1>1. CASE OnConnectAck(p)
  <2>1. lcp \in LcpType /\ LcpStart /\ outcome' = "quiet"
    BY <1>1 DEF OnConnectAck, TypeOK
  <2>2. /\ lcp' = Renumbered(lcp) /\ toSend' = <<RequestOf("Lcp", lcp')>>
        /\ Emitted' = toSend'
    BY <2>1 DEF LcpStart, Emitted
  <2>3. LcpRequests
    BY <2>1, <2>2, LcpRenumbered, LcpRequestType DEF LcpRequests
  <2> QED
    BY <1>1, <2>1, <2>2, <2>3, LcpRenumbered
<1>2. CASE ~OnConnectAck(p)
  <2>1. OnCtrlFatal(p) \/ OnDisconnect(p) \/ OnCtrlIdle(p)
    BY <1>2 DEF OnCtrl
  <2>2. UNCHANGED <<lcp, ipcp, phase, bindVars, chapVars, peerVars>>
    BY <2>1 DEF OnCtrlFatal, OnDisconnect, OnCtrlIdle
  <2>3. p.code # "ConnectAck" \/ phase # "WaitConnectAck" \/ p.bind \notin Bindings
    BY <2>1 DEF OnCtrlFatal, OnDisconnect, OnCtrlIdle, ConnectAckExpected
  <2>4. Sends([proto : {"Ctrl"}, code : {"EchoReply", "DisconnectAck"}])
    BY <2>1 DEF OnCtrlFatal, OnDisconnect, OnCtrlIdle, Sends, Emitted, CtrlMessage
  <2> QED
    BY <1>2, <2>2, <2>3, <2>4
<1> QED
  BY <1>1, <1>2

(* LCP frames: what the automaton answers is sent, unless the engine fails. *)
LEMMA HandleLcpEffect ==
  ASSUME NEW p \in Packets, HandleLcp(p)
  PROVE  /\ p \in Frames("Lcp", LcpKinds, LcpData) /\ LcpReceive(p)
         /\ Emitted' \in {<<>>, toSend'}
         /\ phase' = phase \/ (phase = "Lcp" /\ phase' = "Chap")
         /\ outcome' = "fatal" => lcp'.remoteUp /\ lcp'.peerAuth = None
         /\ outcome' \in {"quiet", "fatal"}
         /\ UNCHANGED <<ipcp, bindVars, chapVars, peerVars>>
BY PacketType DEF HandleLcp, Emitted, LcpIsUp

(* CHAP frames: a Challenge is answered, a Success starts IPCP, anything     *)
(* else is fatal.                                                           *)
ChapAnswers(p) ==
  /\ p.code = "Challenge" /\ p.value \in Challenges
  /\ \E nt \in NtResponses :
       /\ nt.authChallenge = p.value /\ pendingChap' = Pending(nt) /\ nt \in responses'
       /\ Emitted' = <<[proto |-> "Chap", code |-> "Response", id |-> p.id, value |-> nt]>>
  /\ outcome' = "quiet"
  /\ UNCHANGED <<ipcp, phase, mppeKeys>>

ChapAdmits(p) ==
  /\ HandleChapSuccess(p) /\ IpcpRequests /\ Emitted' = toSend' /\ outcome' = "quiet"
  /\ mppeKeys' = MppeKeys(pendingChap.ntResponse) /\ phase' = "Ipcp"

LEMMA HandleChapEffect ==
  ASSUME TypeOK, NEW p \in Packets, HandleChap(p)
  PROVE  /\ p \in ChapFrames
         /\ UNCHANGED <<lcp, bindVars, vouched>> /\ responses \subseteq responses'
         /\ \/ ChapAnswers(p)
            \/ ChapAdmits(p)
            \/ HandleChapFatal(p) /\ Emitted' = <<>>
<1>1. p \in ChapFrames
  BY PacketType DEF HandleChap
<1>2. CASE HandleChapChallenge(p)
  <2>1. PICK pc \in FreshPeerChallenges :
          /\ pendingChap' = Pending(NtResponse(p.value, pc))
          /\ responses' = responses \cup {NtResponse(p.value, pc)}
          /\ toSend' = <<[proto |-> "Chap", code |-> "Response", id |-> p.id,
                          value |-> NtResponse(p.value, pc)]>>
    BY <1>2 DEF HandleChapChallenge
  <2>2. /\ p.code = "Challenge" /\ p.value \in Challenges /\ outcome' = "quiet"
        /\ UNCHANGED <<lcp, ipcp, phase, bindVars, mppeKeys, vouched>>
    BY <1>2 DEF HandleChapChallenge
  <2>3. NtResponse(p.value, pc) \in NtResponses /\ NtResponse(p.value, pc).authChallenge = p.value
    BY <2>2 DEF NtResponse, NtResponses, FreshPeerChallenges
  <2>4. Emitted' = toSend'
    BY <2>2 DEF Emitted
  <2>5. ChapAnswers(p)
    BY <2>1, <2>2, <2>3, <2>4 DEF ChapAnswers
  <2> QED
    BY <1>1, <2>1, <2>2, <2>5
<1>3. CASE HandleChapSuccess(p)
  <2>1. IpcpRequests
    BY <1>3, IpcpStartEffect DEF HandleChapSuccess, TypeOK
  <2>2. Emitted' = toSend'
    BY <1>3 DEF HandleChapSuccess, Emitted
  <2>3. ChapAdmits(p)
    BY <1>3, <2>1, <2>2 DEF HandleChapSuccess, ChapAdmits
  <2> QED
    BY <1>1, <1>3, <2>3 DEF HandleChapSuccess, peerVars
<1>4. CASE HandleChapFatal(p)
  BY <1>1, <1>4 DEF HandleChapFatal, Emitted, peerVars
<1> QED
  BY <1>2, <1>3, <1>4 DEF HandleChap

(* IPCP frames: when both directions are up for the first time since the    *)
(* authentication, CONNECTED follows the answer.                            *)
IpcpOpens == /\ phase = "Ipcp" /\ phase' = "Established" /\ IpcpIsUp(ipcp')
             /\ \/ ~Bindable /\ outcome' = "panic" /\ Emitted' = <<>>
                \/ Bindable /\ outcome' = "established" /\ Emitted' = Append(toSend', Connected')

LEMMA HandleIpcpEffect ==
  ASSUME NEW p \in Packets, HandleIpcp(p)
  PROVE  /\ p \in Frames("Ipcp", IpcpKinds, IpcpData) /\ IpcpReceive(p)
         /\ UNCHANGED <<lcp, bindVars, chapVars, peerVars>>
         /\ \/ IpcpOpens
            \/ Emitted' = toSend' /\ phase' = phase /\ outcome' = "quiet"
BY PacketType DEF HandleIpcp, Emitted, IpcpOpens

(* The packets of each role. *)
LEMMA LinkRoles ==
  \A q : /\ Role(q) = "request" <=> q.proto = "Lcp" /\ q.code = "ConfigureRequest"
         /\ Role(q) = "answer"  <=> /\ q.proto = "Lcp"
                                    /\ q.code \in {"ConfigureAck", "ConfigureNak", "ConfigureReject"}
         /\ Role(q) = "auth"    <=> q.proto = "Chap" \/ (q.proto = "Ctrl" /\ q.code = "Connected")
BY DEF Role

(* An IPCP frame is answered by one at most, and CONNECTED. *)
LEMMA IpcpEmits ==
  ASSUME IInv, NEW p \in Packets, HandleIpcp(p)
  PROVE  /\ Emitted' \in Seq(ClientPackets)
         /\ Range(Emitted') \subseteq Range(toSend') \cup {Connected'}
         /\ toSend' = <<>> \/ \E r \in Frames("Ipcp", IpcpKinds, IpcpData) : toSend' = <<r>>
         /\ Connected'.proto = "Ctrl" /\ Connected'.code = "Connected"
         /\ Connected'.bind = [algo |-> hashAlgo, nonce |-> serverNonce, keys |-> mppeKeys]
         /\ \A q \in Range(Emitted') : q.proto # "Lcp" /\ q.proto # "Chap"
         /\ AtMostOne(Emitted', "auth")
         /\ ~IpcpOpens => Without(Emitted', "auth") /\ Range(Emitted') \subseteq Range(toSend')
<1>1. toSend' = <<>> \/ \E r \in Frames("Ipcp", IpcpKinds, IpcpData) : toSend' = <<r>>
  BY HandleIpcpEffect, IpcpReceiveEffect DEF IpcpKeepsOn, IpcpCaptures, IpcpRequests, IInv, TypeOK
<1>2. /\ UNCHANGED <<bindVars, chapVars>>
      /\ \/ IpcpOpens /\ (Emitted' = <<>> \/ Emitted' = Append(toSend', Connected'))
         \/ ~IpcpOpens /\ Emitted' = toSend'
  BY HandleIpcpEffect DEF IpcpOpens
<1>3. /\ Connected' \in ClientPackets /\ Connected'.proto = "Ctrl" /\ Connected'.code = "Connected"
      /\ Connected'.bind = [algo |-> hashAlgo, nonce |-> serverNonce, keys |-> mppeKeys]
  <2>1. /\ Connected'.bind = [algo |-> hashAlgo, nonce |-> serverNonce, keys |-> mppeKeys]
        /\ Connected'.bind \in Contents
    BY <1>2 DEF Connected, Contents, IInv, TypeOK, bindVars, chapVars
  <2> QED
    BY <2>1 DEF Connected, ClientPackets
<1>4. \A r \in Frames("Ipcp", IpcpKinds, IpcpData) :
        r \in ClientPackets /\ r.proto = "Ipcp" /\ Role(r) = "other"
  BY DEF ClientPackets, Frames, Role
<1>5. /\ toSend' \in Seq(ClientPackets)
      /\ \A q \in Range(toSend') : q.proto = "Ipcp"
      /\ Without(toSend', "auth") /\ AtMostOne(toSend', "auth")
  <2>1. CASE toSend' = <<>>
    BY <2>1, FewPackets, EmptySeq
  <2>2. ASSUME NEW r \in Frames("Ipcp", IpcpKinds, IpcpData), toSend' = <<r>>
        PROVE  /\ toSend' \in Seq(ClientPackets)
               /\ \A q \in Range(toSend') : q.proto = "Ipcp"
               /\ Without(toSend', "auth") /\ AtMostOne(toSend', "auth")
    <3>1. r \in ClientPackets /\ r.proto = "Ipcp" /\ Role(r) # "auth"
      BY <1>4
    <3> QED
      BY <2>2, <3>1, FewPackets
  <2> QED
    BY <1>1, <2>1, <2>2
<1>6. CASE ~IpcpOpens
  BY <1>1, <1>2, <1>3, <1>5, <1>6
<1>7. CASE IpcpOpens /\ Emitted' = <<>>
  BY <1>1, <1>3, <1>7, FewPackets, EmptySeq
<1>8. CASE IpcpOpens /\ Emitted' = Append(toSend', Connected')
  <2>1. <<Connected'>> \in Seq(ClientPackets) /\ Range(<<Connected'>>) = {Connected'}
        /\ AtMostOne(<<Connected'>>, "auth")
    BY <1>3, FewPackets
  <2>2. Emitted' = toSend' \o <<Connected'>>
    BY <1>3, <1>5, <1>8, AppendIsConcat
  <2>3. /\ Emitted' \in Seq(ClientPackets)
        /\ Range(Emitted') = Range(toSend') \cup {Connected'}
    <3>1. /\ toSend' \o <<Connected'>> \in Seq(ClientPackets)
          /\ Range(toSend' \o <<Connected'>>) = Range(toSend') \cup Range(<<Connected'>>)
      BY <1>5, <2>1, SendOnChannel
    <3> QED
      BY <2>1, <2>2, <3>1
  <2>4. AtMostOne(Emitted', "auth")
    BY <1>5, <2>1, <2>2, GiveToken
  <2> QED
    BY <1>1, <1>3, <1>5, <1>8, <2>3, <2>4
<1> QED
  BY <1>2, <1>6, <1>7, <1>8

(* Other data at most makes LCP reject the protocol, on another identifier. *)
LEMMA OnOtherDataEffect ==
  ASSUME TypeOK, NEW p \in Packets, OnOtherData(p)
  PROVE  /\ lcp'.desired = lcp.desired /\ lcp'.localUp = lcp.localUp
         /\ lcp'.remoteUp = lcp.remoteUp /\ lcp'.peerAuth = lcp.peerAuth
         /\ UNCHANGED <<ipcp, phase, bindVars, chapVars, peerVars>>
         /\ outcome' \in {"quiet", "deliverIp"}
         /\ \/ Emitted' = <<>>
            \/ \E r \in Frames("Lcp", LcpKinds, LcpData) :
                 Emitted' = <<r>> /\ r.code = "ProtocolReject"
<1>1. CASE p.proto = "Unknown"
  <2>1. LcpProtocolReject /\ outcome' = "quiet"
    BY <1>1 DEF OnOtherData
  <2>2. /\ lcp' = [lcp EXCEPT !.identifier = NextId(@)]
        /\ Emitted' = <<Frame("Lcp", "ProtocolReject", lcp'.identifier, NoOptions)>>
    BY <2>1 DEF LcpProtocolReject, Emitted
  <2>3. lcp'.identifier \in Id /\ "ProtocolReject" \in CpCodes
    BY <2>2, NextIdType DEF TypeOK, LcpType, CpCodes
  <2>4. /\ Frame("Lcp", "ProtocolReject", lcp'.identifier, NoOptions) \in Frames("Lcp", LcpKinds, LcpData)
        /\ Frame("Lcp", "ProtocolReject", lcp'.identifier, NoOptions).code = "ProtocolReject"
    BY <2>3, NoOptionsType, FrameType
  <2> QED
    BY <2>1, <2>2, <2>4 DEF OnOtherData, TypeOK, LcpType
<1>2. CASE p.proto # "Unknown"
  BY <1>2 DEF OnOtherData, Emitted
<1> QED
  BY <1>1, <1>2

-------------------------------------------------------------------------------
(***************************************************************************)
(* What the server sends, and the types of it all.                         *)
(***************************************************************************)
Says(P) == toClient' = toClient \o <<>> \/ \E p \in P : toClient' = toClient \o <<p>>

Listens == toServer' = toServer \/ (toServer # <<>> /\ toServer' = Tail(toServer))

(* The channels after a step of the server. *)
LEMMA ServerChannels ==
  ASSUME ChannelsOK, Listens, Says({p \in Packets : Sendable(p)'}), server' \in ServerType,
         responses' = responses, vouched \subseteq vouched'
  PROVE  ChannelsOK'
<1>1. PICK ps \in Seq(Packets) : /\ toClient' = toClient \o ps
                                 /\ \A p \in Range(ps) : Sendable(p)'
  <2>1. CASE toClient' = toClient \o <<>>
    BY <2>1, EmptySeq, FewPackets
  <2>2. CASE \E p \in Packets : Sendable(p)' /\ toClient' = toClient \o <<p>>
    <3>1. PICK p \in Packets : Sendable(p)' /\ toClient' = toClient \o <<p>>
      BY <2>2
    <3>2. <<p>> \in Seq(Packets) /\ Range(<<p>>) = {p}
      BY FewPackets
    <3> QED
      BY <3>1, <3>2
  <2> QED
    BY <2>1, <2>2 DEF Says
<1>2. toClient' \in Seq(Packets) /\ Range(toClient') = Range(toClient) \cup Range(ps)
  BY <1>1, SendOnChannel DEF ChannelsOK
<1>3. \A p \in Range(toClient) : Sendable(p)'
  BY DEF ChannelsOK, Sendable
<1>4. toServer' \in Seq(ClientPackets) /\ Range(toServer') \subseteq Range(toServer)
  BY TailOfChannel DEF ChannelsOK, Listens
<1> QED
  BY <1>1, <1>2, <1>3, <1>4 DEF ChannelsOK

(* What the first packet to the server can be. *)
LEMMA FirstToServer ==
  ASSUME ChannelsOK, toServer # <<>>
  PROVE  /\ Head(toServer) \in Range(toServer)
         /\ Head(toServer).proto = "Lcp"  => Head(toServer) \in Frames("Lcp", LcpKinds, LcpData)
         /\ Head(toServer).proto = "Ipcp" => Head(toServer) \in Frames("Ipcp", IpcpKinds, IpcpData)
         /\ Head(toServer).proto = "Chap" => Head(toServer).value \in responses
<1>1. Head(toServer) \in ClientPackets /\ Head(toServer) \in Range(toServer)
  BY TailOfChannel DEF ChannelsOK
<1>2. \A q \in Frames("Lcp", LcpKinds, LcpData) : q.proto = "Lcp"
  BY DEF Frames
<1>3. \A q \in Frames("Ipcp", IpcpKinds, IpcpData) : q.proto = "Ipcp"
  BY DEF Frames
<1>4. \A q \in ClientPackets : \/ q.proto \in {"Ctrl", "Chap"}
                               \/ q \in Frames("Lcp", LcpKinds, LcpData)
                               \/ q \in Frames("Ipcp", IpcpKinds, IpcpData)
  BY DEF ClientPackets
<1> QED
  BY <1>1, <1>2, <1>3, <1>4 DEF ChannelsOK

(* What the server asks of the link. *)
LEMMA LcpOfferType ==
  ASSUME NEW extra \in BOOLEAN, NEW id \in Id
  PROVE  /\ LcpOffer(extra) \in Options(LcpKinds, LcpData)
         /\ "AuthProtocol" \in DOMAIN LcpOffer(extra) /\ LcpOffer(extra)["AuthProtocol"] = "MsChapV2"
         /\ Frame("Lcp", "ConfigureRequest", id, LcpOffer(extra)) \in Frames("Lcp", LcpKinds, LcpData)
<1> DEFINE K == {"AuthProtocol"} \cup (IF extra THEN {"Unknown"} ELSE {})
<1>1. LcpOffer(extra) \in [K -> LcpData] /\ K \in SUBSET LcpKinds
  BY DEF LcpOffer, LcpData, LcpKinds
<1>2. LcpOffer(extra) \in Options(LcpKinds, LcpData)
  BY <1>1, OptionsIntro
<1>3. "ConfigureRequest" \in CpCodes
  BY DEF CpCodes
<1> QED
  BY <1>2, <1>3, FrameType DEF LcpOffer

(* LCP and IPCP frames are sendable packets whoever has vouched for what.   *)
LEMMA FramesAreSendable ==
  \A p \in Frames("Lcp", LcpKinds, LcpData) \cup Frames("Ipcp", IpcpKinds, IpcpData) :
    p \in Packets /\ Sendable(p) /\ Sendable(p)'
<1>1. \A p \in Frames("Lcp", LcpKinds, LcpData) \cup Frames("Ipcp", IpcpKinds, IpcpData) : p.proto # "Chap"
  BY DEF Frames
<1> QED
  BY <1>1 DEF Packets, Sendable

(* So are control messages and data. *)
LEMMA CtrlIsSendable ==
  \A p \in CtrlPackets \cup OtherData : p \in Packets /\ Sendable(p) /\ Sendable(p)' /\ p.proto # "Chap"
<1>1. \A p \in CtrlPackets \cup OtherData : p.proto # "Chap"
  BY DEF CtrlPackets, OtherData
<1> QED
  BY <1>1 DEF Packets, Sendable

(* Steps of the server that neither read a frame's options nor vouch.       *)
SrvSimple == \/ SrvAccept \/ SrvLcpRequest \/ SrvOnLcpAnswer \/ SrvChallenge
             \/ SrvIpcpRequest \/ SrvOnIpcpAnswer \/ SrvOnConnected \/ SrvOnOther \/ SrvNoise

LEMMA SrvSimpleChannels ==
  ASSUME IInv, ChannelsOK, SrvSimple PROVE IInv' /\ ChannelsOK'
<1>t. server \in ServerType /\ 0 \in Id /\ server.lcpId \in Id /\ NextId(server.lcpId) \in Id
  <2>1. server \in ServerType /\ server.lcpId \in Id
    BY DEF ChannelsOK, ServerType
  <2> QED
    BY <2>1, NextIdType, IdModulusAssumption DEF Id
<1>u. EngineUntouched /\ Listens
  BY DEF SrvSimple, SrvAccept, SrvLcpRequest, SrvOnLcpAnswer, SrvChallenge, SrvIpcpRequest,
         SrvOnIpcpAnswer, SrvOnConnected, SrvOnOther, SrvNoise, Receive, Listens
<1>v. UNCHANGED <<responses, vouched>>
  BY <1>u DEF EngineUntouched, engineVars, vars
<1>w. IInv'
  BY <1>u DEF EngineUntouched, engineVars, vars, IInv, TypeOK, PendingMatchesChallenge,
              KeysAreVouched, PendingIsUnused, UnboundWhileWaiting,
              BoundAtOnce, OnlyUnboundPanics
<1> DEFINE P == {p \in Packets : Sendable(p)'}
<1>1. CASE SrvAccept
  <2>1. [proto |-> "Ctrl", code |-> "ConnectAck", bind |-> server.bind] \in CtrlPackets
    BY <1>t DEF CtrlPackets, CtrlCodes, ServerType
  <2>2. Says(P)
    BY <1>1, <2>1, CtrlIsSendable DEF SrvAccept, Send, Says
  <2>3. server' \in ServerType
    BY <1>1, <1>t DEF SrvAccept, ServerType
  <2> QED
    BY <1>u, <1>v, <1>w, <2>2, <2>3, ServerChannels
<1>2. CASE SrvLcpRequest
  <2>1. server.extraOption \in BOOLEAN
    BY <1>t DEF ServerType
  <2>2. Frame("Lcp", "ConfigureRequest", 0, LcpOffer(server.extraOption)) \in P
    BY <1>t, <2>1, LcpOfferType, FramesAreSendable
  <2>3. Says(P)
    BY <1>2, <2>2 DEF SrvLcpRequest, Send, Says
  <2>4. server' \in ServerType
    BY <1>2, <1>t DEF SrvLcpRequest, ServerType
  <2> QED
    BY <1>u, <1>v, <1>w, <2>3, <2>4, ServerChannels
<1>3. CASE SrvOnLcpAnswer
  <2>1. server' \in ServerType
    <3>1. CASE server' = [server EXCEPT !.lcpAcked = TRUE]
      BY <1>t, <3>1 DEF ServerType
    <3>2. CASE server' = [server EXCEPT !.lcpId = NextId(@)]
      BY <1>t, <3>2 DEF ServerType
    <3> QED
      BY <1>3, <3>1, <3>2 DEF SrvOnLcpAnswer
  <2>2. server'.lcpId \in Id
    BY <2>1 DEF ServerType
  <2>3. Frame("Lcp", "ConfigureRequest", server'.lcpId, LcpOffer(FALSE)) \in P
    BY <2>2, LcpOfferType, FramesAreSendable
  <2>4. Says(P)
    BY <1>3, <2>3 DEF SrvOnLcpAnswer, Send, Says
  <2> QED
    BY <1>u, <1>v, <1>w, <2>1, <2>4, ServerChannels
<1>4. CASE SrvChallenge
  <2>1. PICK c \in Challenges :
          /\ server' = [server EXCEPT !.challenge = c,
                                      !.reauths = IF server.keys = None THEN 0 ELSE @ + 1]
          /\ toClient' = toClient \o <<[proto |-> "Chap", code |-> "Challenge", id |-> 0, value |-> c]>>
    BY <1>4 DEF SrvChallenge, Send
  <2>2. [proto |-> "Chap", code |-> "Challenge", id |-> 0, value |-> c] \in P
    <3>1. [proto |-> "Chap", code |-> "Challenge", id |-> 0, value |-> c] \in ChapFrames
      BY <1>t DEF ChapFrames, ChapCodes
    <3> QED
      BY <3>1 DEF Packets, Sendable
  <2>3. server' \in ServerType
    <3> DEFINE n == IF server.keys = None THEN 0 ELSE server.reauths + 1
    <3>1. n \in Nat
      BY <1>t DEF ServerType
    <3>2. server' = [server EXCEPT !.challenge = c, !.reauths = n]
      BY <2>1, <1>t DEF ServerType
    <3> HIDE DEF n
    <3> QED
      BY <1>t, <3>1, <3>2 DEF ServerType
  <2> QED
    BY <1>u, <1>v, <1>w, <2>1, <2>2, <2>3, ServerChannels DEF Says
<1>5. CASE SrvIpcpRequest
  <2> DEFINE o == [k \in {"IpAddress"} |-> DnsAddress]
  <2>1. o \in [{"IpAddress"} -> IpcpData] /\ {"IpAddress"} \in SUBSET IpcpKinds
    BY AssignedAddresses DEF IpcpData, IpcpKinds, OurKinds
  <2>2. o \in Options(IpcpKinds, IpcpData) /\ "ConfigureRequest" \in CpCodes
    BY <2>1, OptionsIntro DEF CpCodes
  <2>3. Frame("Ipcp", "ConfigureRequest", 0, o) \in P
    BY <1>t, <2>2, FrameType, FramesAreSendable
  <2>4. server' \in ServerType
    BY <1>5, <1>t DEF SrvIpcpRequest, ServerType
  <2> QED
    BY <1>5, <1>u, <1>v, <1>w, <2>3, <2>4, ServerChannels DEF SrvIpcpRequest, Send, Says
<1>6. CASE SrvOnIpcpAnswer \/ SrvOnConnected \/ SrvOnOther
  <2>1. toClient' = toClient \o <<>>
    BY <1>6 DEF SrvOnIpcpAnswer, SrvOnConnected, SrvOnOther, Send
  <2>2. \/ server' = [server EXCEPT !.ipcpAcked = TRUE]
        \/ \E b \in {"yes", "refused"} : server' = [server EXCEPT !.bound = b]
        \/ server' = server
    BY <1>6 DEF SrvOnIpcpAnswer, SrvOnConnected, SrvOnOther
  <2>3. server' \in ServerType
    <3>1. CASE server' = [server EXCEPT !.ipcpAcked = TRUE]
      BY <1>t, <3>1 DEF ServerType
    <3>2. ASSUME NEW b \in {"yes", "refused"}, server' = [server EXCEPT !.bound = b]
          PROVE  server' \in ServerType
      BY <1>t, <3>2 DEF ServerType
    <3> QED
      BY <1>t, <2>2, <3>1, <3>2
  <2> QED
    BY <1>u, <1>v, <1>w, <2>1, <2>3, ServerChannels DEF Says
<1>7. CASE SrvNoise
  <2>1. PICK p \in {[proto |-> "Unknown"], [proto |-> "Ip"],
                    [proto |-> "Ctrl", code |-> "EchoRequest", bind |-> None],
                    Frame("Lcp", "EchoRequest", 0, NoOptions)}
                   \cup {[proto |-> "Ctrl", code |-> "ConnectAck", bind |-> b] : b \in Bindings} :
          toClient' = toClient \o <<p>>
    BY <1>7 DEF SrvNoise, Send
  <2>2. Frame("Lcp", "EchoRequest", 0, NoOptions) \in P
    <3>1. "EchoRequest" \in CpCodes
      BY DEF CpCodes
    <3> QED
      BY <1>t, <3>1, NoOptionsType, FrameType, FramesAreSendable
  <2>3. p \in CtrlPackets \cup OtherData \/ p = Frame("Lcp", "EchoRequest", 0, NoOptions)
    BY <2>1 DEF CtrlPackets, CtrlCodes, OtherData
  <2>4. p \in P
    BY <2>2, <2>3, CtrlIsSendable
  <2>5. server' \in ServerType
    BY <1>7, <1>t DEF SrvNoise, ServerType
  <2> QED
    BY <1>u, <1>v, <1>w, <2>1, <2>4, <2>5, ServerChannels DEF Says
<1> QED
  BY <1>1, <1>2, <1>3, <1>4, <1>5, <1>6, <1>7 DEF SrvSimple

(* The server's answer to a request for the link. *)
SrvAnswersLcp(r) ==
  /\ toClient' = toClient \o <<r>>
  /\ \/ /\ r.code = "ConfigureAck" /\ server' = [server EXCEPT !.lcpWanted = Head(toServer).opts]
     \/ /\ r.code \in {"ConfigureNak", "ConfigureReject"}
        /\ server' = server \/ server' = [server EXCEPT !.lcpNaks = FALSE]

LEMMA SrvOnLcpRequestEffect ==
  ASSUME IInv, ChannelsOK, SrvOnLcpRequest
  PROVE  /\ toServer # <<>> /\ toServer' = Tail(toServer) /\ Role(Head(toServer)) = "request"
         /\ Head(toServer).opts \in Options(LcpKinds, LcpData)
         /\ EngineUntouched
         /\ \E r \in Frames("Lcp", LcpKinds, LcpData) : SrvAnswersLcp(r)
<1> DEFINE f      == Head(toServer)
           reject == Restrict(f.opts, DOMAIN f.opts \cap server.lcpRejects)
           m0     == CHOOSE m \in Magics : m # f.opts["MagicNumber"]
           nak    == [k \in DOMAIN f.opts \cap {"MagicNumber"} |-> m0]
<1>1. toServer # <<>> /\ f.proto = "Lcp" /\ f.code = "ConfigureRequest" /\ EngineUntouched
      /\ toServer' = Tail(toServer)
  BY DEF SrvOnLcpRequest, Receive
<1>2. f \in Frames("Lcp", LcpKinds, LcpData)
  BY <1>1, FirstToServer
<1>3. f.id \in Id /\ f.opts \in Options(LcpKinds, LcpData)
  BY <1>2 DEF Frames
<1>4. reject \in Options(LcpKinds, LcpData)
  BY <1>3, RestrictType
<1>5. nak \in Options(LcpKinds, LcpData)
  <2>1. \E m \in Magics : m # f.opts["MagicNumber"]
    <3>1. lcp.magic \in Magics
      BY DEF IInv, TypeOK, LcpType
    <3> QED
      BY <3>1, AnotherMagic
  <2>2. m0 \in LcpData
    BY <2>1 DEF LcpData
  <2> HIDE DEF m0
  <2>3. nak \in [DOMAIN f.opts \cap {"MagicNumber"} -> LcpData]
        /\ DOMAIN f.opts \cap {"MagicNumber"} \in SUBSET LcpKinds
    BY <2>2 DEF LcpKinds
  <2> QED
    BY <2>3, OptionsIntro
<1>6. {"ConfigureAck", "ConfigureNak", "ConfigureReject"} \subseteq CpCodes
  BY DEF CpCodes
<1>7. \/ /\ toClient' = toClient \o <<Frame("Lcp", "ConfigureReject", f.id, reject)>>
         /\ server' = server
      \/ /\ toClient' = toClient \o <<Frame("Lcp", "ConfigureNak", f.id, nak)>>
         /\ server' = [server EXCEPT !.lcpNaks = FALSE]
      \/ /\ toClient' = toClient \o <<Frame("Lcp", "ConfigureAck", f.id, f.opts)>>
         /\ server' = [server EXCEPT !.lcpWanted = f.opts]
  BY DEF SrvOnLcpRequest, Send
<1> HIDE DEF f, reject, nak
<1>8. \E r \in Frames("Lcp", LcpKinds, LcpData) : SrvAnswersLcp(r)
  <2>1. ASSUME NEW code \in {"ConfigureAck", "ConfigureNak", "ConfigureReject"},
               NEW o \in Options(LcpKinds, LcpData)
        PROVE  /\ Frame("Lcp", code, f.id, o) \in Frames("Lcp", LcpKinds, LcpData)
               /\ Frame("Lcp", code, f.id, o).code = code
    BY <1>3, <1>6, FrameType
  <2>2. CASE /\ toClient' = toClient \o <<Frame("Lcp", "ConfigureReject", f.id, reject)>>
             /\ server' = server
    BY <1>4, <2>1, <2>2 DEF SrvAnswersLcp
  <2>3. CASE /\ toClient' = toClient \o <<Frame("Lcp", "ConfigureNak", f.id, nak)>>
             /\ server' = [server EXCEPT !.lcpNaks = FALSE]
    BY <1>5, <2>1, <2>3 DEF SrvAnswersLcp
  <2>4. CASE /\ toClient' = toClient \o <<Frame("Lcp", "ConfigureAck", f.id, f.opts)>>
             /\ server' = [server EXCEPT !.lcpWanted = f.opts]
    BY <1>3, <2>1, <2>4 DEF SrvAnswersLcp, f
  <2> QED
    BY <1>7, <2>2, <2>3, <2>4
<1> QED
  BY <1>1, <1>3, <1>8 DEF Role, f

LEMMA SrvOnLcpRequestChannels ==
  ASSUME IInv, ChannelsOK, SrvOnLcpRequest PROVE IInv' /\ ChannelsOK'
<1>1. /\ Listens /\ EngineUntouched
      /\ Head(toServer).opts \in Options(LcpKinds, LcpData)
      /\ \E r \in Frames("Lcp", LcpKinds, LcpData) : SrvAnswersLcp(r)
  BY SrvOnLcpRequestEffect DEF Listens
<1>2. server \in ServerType
  BY DEF ChannelsOK
<1>3. PICK r \in Frames("Lcp", LcpKinds, LcpData) : SrvAnswersLcp(r)
  BY <1>1
<1>4. server' \in ServerType
  <2>1. CASE server' = [server EXCEPT !.lcpWanted = Head(toServer).opts]
    BY <1>1, <1>2, <2>1 DEF ServerType
  <2>2. CASE server' = server \/ server' = [server EXCEPT !.lcpNaks = FALSE]
    BY <1>2, <2>2 DEF ServerType
  <2> QED
    BY <1>3, <2>1, <2>2 DEF SrvAnswersLcp
<1>5. Says({p \in Packets : Sendable(p)'})
  BY <1>3, FramesAreSendable DEF SrvAnswersLcp, Says
<1>6. UNCHANGED <<responses, vouched>> /\ IInv'
  BY <1>1 DEF EngineUntouched, engineVars, vars, IInv, TypeOK, PendingMatchesChallenge,
              KeysAreVouched, PendingIsUnused, UnboundWhileWaiting,
              BoundAtOnce, OnlyUnboundPanics
<1> QED
  BY <1>1, <1>4, <1>5, <1>6, ServerChannels

(* Its answer to a request for addresses. *)
SrvAnswersIpcp(r) ==
  /\ toClient' = toClient \o <<r>>
  /\ LET f      == Head(toServer)
         reject == DOMAIN f.opts \cap server.ipcpRejects
         differ == {k \in DOMAIN f.opts : f.opts[k] # Assigned(k)}
     IN  \/ /\ r.code = "ConfigureReject" /\ DOMAIN r.opts = reject /\ server' = server
         \/ /\ r.code = "ConfigureNak" /\ DOMAIN r.opts = differ /\ server' = server
            /\ \A k \in DOMAIN r.opts : r.opts[k] = Assigned(k)
         \/ /\ r.code = "ConfigureAck" /\ reject = {} /\ differ = {}
            /\ server' = [server EXCEPT !.ipcpWanted = f.opts]

LEMMA AssignedType == \A k : Assigned(k) \in Addresses
BY AssignedAddresses DEF Assigned

LEMMA SrvOnIpcpRequestEffect ==
  ASSUME ChannelsOK, SrvOnIpcpRequest
  PROVE  /\ toServer # <<>> /\ toServer' = Tail(toServer)
         /\ Head(toServer).proto = "Ipcp" /\ Head(toServer).code = "ConfigureRequest"
         /\ Head(toServer).opts \in Options(IpcpKinds, IpcpData)
         /\ EngineUntouched
         /\ \E r \in Frames("Ipcp", IpcpKinds, IpcpData) : SrvAnswersIpcp(r)
<1> DEFINE f      == Head(toServer)
           K      == DOMAIN f.opts \cap server.ipcpRejects
           reject == Restrict(f.opts, K)
           D      == {k \in DOMAIN f.opts : f.opts[k] # Assigned(k)}
           nak    == [k \in D |-> Assigned(k)]
           r      == Answer("Ipcp", f, reject, nak)
<1>1. /\ toServer # <<>> /\ f.proto = "Ipcp" /\ f.code = "ConfigureRequest" /\ EngineUntouched
      /\ toServer' = Tail(toServer)
      /\ toClient' = toClient \o <<r>>
      /\ server' = IF DOMAIN reject \cup DOMAIN nak = {}
                   THEN [server EXCEPT !.ipcpWanted = f.opts] ELSE server
  BY DEF SrvOnIpcpRequest, Receive, Send
<1>2. f \in Frames("Ipcp", IpcpKinds, IpcpData)
  BY <1>1, FirstToServer
<1>3. f.id \in Id /\ f.opts \in Options(IpcpKinds, IpcpData)
  BY <1>2 DEF Frames
<1>4. reject \in Options(IpcpKinds, IpcpData) /\ DOMAIN reject = K
  BY <1>3, RestrictType DEF Restrict
<1>5. nak \in Options(IpcpKinds, IpcpData) /\ DOMAIN nak = D /\ \A k \in D : nak[k] = Assigned(k)
  <2>1. nak \in [D -> IpcpData] /\ D \in SUBSET IpcpKinds
    BY <1>3, AssignedType, OptionsElim DEF IpcpData
  <2>2. nak \in Options(IpcpKinds, IpcpData)
    BY <2>1, OptionsIntro
  <2> QED
    BY <2>2
<1>6. {"ConfigureAck", "ConfigureNak", "ConfigureReject"} \subseteq CpCodes
  BY DEF CpCodes
<1>7. /\ DOMAIN reject = K /\ DOMAIN nak = D
      /\ K = DOMAIN f.opts \cap server.ipcpRejects
      /\ D = {k \in DOMAIN f.opts : f.opts[k] # Assigned(k)}
  BY <1>4, <1>5
<1> HIDE DEF reject, nak, K, D
<1>8. r \in Frames("Ipcp", IpcpKinds, IpcpData)
  BY <1>2, <1>4, <1>5, AnswerType
<1>9. \/ K # {} /\ r.code = "ConfigureReject" /\ r.opts = reject
      \/ K = {} /\ D # {} /\ r.code = "ConfigureNak" /\ r.opts = nak
      \/ K = {} /\ D = {} /\ r.code = "ConfigureAck"
  <2>1. ASSUME NEW code \in {"ConfigureAck", "ConfigureNak", "ConfigureReject"},
               NEW o \in Options(IpcpKinds, IpcpData)
        PROVE  /\ Frame("Ipcp", code, f.id, o).code = code
               /\ Frame("Ipcp", code, f.id, o).opts = o
    BY DEF Frame
  <2>2. CASE K # {}
    <3>1. r = Frame("Ipcp", "ConfigureReject", f.id, reject)
      BY <1>7, <2>2 DEF Answer
    <3> QED
      BY <1>4, <2>1, <2>2, <3>1
  <2>3. CASE K = {} /\ D # {}
    <3>1. r = Frame("Ipcp", "ConfigureNak", f.id, nak)
      BY <1>7, <2>3 DEF Answer
    <3> QED
      BY <1>5, <2>1, <2>3, <3>1
  <2>4. CASE K = {} /\ D = {}
    <3>1. r = Frame("Ipcp", "ConfigureAck", f.id, f.opts)
      BY <1>7, <2>4 DEF Answer
    <3> QED
      BY <1>3, <2>1, <2>4, <3>1
  <2> QED
    BY <2>2, <2>3, <2>4
<1> HIDE DEF r
<1>10. SrvAnswersIpcp(r)
  BY <1>1, <1>5, <1>7, <1>9 DEF SrvAnswersIpcp
<1> QED
  BY <1>1, <1>3, <1>8, <1>10

LEMMA SrvOnIpcpRequestChannels ==
  ASSUME IInv, ChannelsOK, SrvOnIpcpRequest PROVE IInv' /\ ChannelsOK'
<1>1. /\ Listens /\ EngineUntouched
      /\ Head(toServer).opts \in Options(IpcpKinds, IpcpData)
      /\ \E r \in Frames("Ipcp", IpcpKinds, IpcpData) : SrvAnswersIpcp(r)
  BY SrvOnIpcpRequestEffect DEF Listens
<1>2. server \in ServerType
  BY DEF ChannelsOK
<1>3. PICK r \in Frames("Ipcp", IpcpKinds, IpcpData) : SrvAnswersIpcp(r)
  BY <1>1
<1>4. server' \in ServerType
  <2>1. server' = server \/ server' = [server EXCEPT !.ipcpWanted = Head(toServer).opts]
    BY <1>3 DEF SrvAnswersIpcp
  <2> QED
    BY <1>1, <1>2, <2>1 DEF ServerType
<1>5. Says({p \in Packets : Sendable(p)'})
  BY <1>3, FramesAreSendable DEF SrvAnswersIpcp, Says
<1>6. UNCHANGED <<responses, vouched>> /\ IInv'
  BY <1>1 DEF EngineUntouched, engineVars, vars, IInv, TypeOK, PendingMatchesChallenge,
              KeysAreVouched, PendingIsUnused, UnboundWhileWaiting,
              BoundAtOnce, OnlyUnboundPanics
<1> QED
  BY <1>1, <1>4, <1>5, <1>6, ServerChannels

(* The server vouches for the response, if it is for its own challenge.     *)
LEMMA SrvOnResponseEffect ==
  ASSUME ChannelsOK, SrvOnResponse
  PROVE  LET nt == Head(toServer).value
         IN  /\ toServer # <<>> /\ toServer' = Tail(toServer) /\ Head(toServer).proto = "Chap"
             /\ Head(toServer) \in Range(toServer)
             /\ nt \in responses
             /\ UNCHANGED <<lcp, ipcp, toSend, phase, bindVars, chapVars, outcome, responses>>
             /\ \/ /\ nt.authChallenge = server.challenge
                   /\ server' = [server EXCEPT !.challenge = None, !.keys = MppeKeys(nt),
                                               !.bound = "no"]
                   /\ vouched' = vouched \cup {nt}
                   /\ toClient' = toClient \o
                        <<[proto |-> "Chap", code |-> "Success", id |-> 0, value |-> Vouching(nt)]>>
                \/ /\ nt.authChallenge # server.challenge
                   /\ server' = server /\ vouched' = vouched
                   /\ toClient' = toClient \o
                        <<[proto |-> "Chap", code |-> "Failure", id |-> 0, value |-> Malformed]>>
BY FirstToServer DEF SrvOnResponse, Receive, Send

LEMMA SrvOnResponseChannels ==
  ASSUME IInv, ChannelsOK, SrvOnResponse PROVE IInv' /\ ChannelsOK'
<1>0. PICK nt : nt = Head(toServer).value
  OBVIOUS
<1>1. /\ Listens /\ nt \in responses /\ nt \in NtResponses /\ 0 \in Id
      /\ vouched \subseteq vouched' /\ vouched' \subseteq vouched \cup {nt}
      /\ UNCHANGED <<lcp, ipcp, toSend, phase, bindVars, chapVars, outcome, responses>>
  BY <1>0, SrvOnResponseEffect, IdModulusAssumption DEF Listens, IInv, TypeOK, Id
<1>2. IInv'
  BY <1>1 DEF IInv, TypeOK, PendingMatchesChallenge, KeysAreVouched, PendingIsUnused,
              UnboundWhileWaiting, BoundAtOnce, OnlyUnboundPanics, bindVars, chapVars
<1>3. server \in ServerType
  BY DEF ChannelsOK
<1>4. server' \in ServerType
  <2>1. \/ server' = [server EXCEPT !.challenge = None, !.keys = MppeKeys(nt), !.bound = "no"]
        \/ server' = server
    BY <1>0, SrvOnResponseEffect
  <2>2. MppeKeys(nt) \in {MppeKeys(q) : q \in NtResponses}
    BY <1>1
  <2>3. CASE server' = [server EXCEPT !.challenge = None, !.keys = MppeKeys(nt), !.bound = "no"]
    BY <1>3, <2>2, <2>3 DEF ServerType
  <2> QED
    BY <1>3, <2>1, <2>3
<1>5. Says({p \in Packets : Sendable(p)'})
  <2>1. ASSUME NEW p \in ChapFrames, toClient' = toClient \o <<p>>,
               p.code = "Success" => p.value \in {Vouching(r) : r \in vouched'}
        PROVE  Says({q \in Packets : Sendable(q)'})
    <3>1. p \in Packets /\ Sendable(p)'
      BY <2>1 DEF Packets, Sendable
    <3> QED
      BY <2>1, <3>1 DEF Says
  <2>2. CASE /\ vouched' = vouched \cup {nt}
             /\ toClient' = toClient \o
                  <<[proto |-> "Chap", code |-> "Success", id |-> 0, value |-> Vouching(nt)]>>
    <3>1. Vouching(nt) \in {Vouching(r) : r \in NtResponses} /\ Vouching(nt) \in {Vouching(r) : r \in vouched'}
      BY <1>1, <2>2
    <3>2. [proto |-> "Chap", code |-> "Success", id |-> 0, value |-> Vouching(nt)] \in ChapFrames
      BY <1>1, <3>1 DEF ChapFrames, ChapCodes
    <3> QED
      BY <2>1, <2>2, <3>1, <3>2
  <2>3. CASE toClient' = toClient \o
               <<[proto |-> "Chap", code |-> "Failure", id |-> 0, value |-> Malformed]>>
    <3>1. [proto |-> "Chap", code |-> "Failure", id |-> 0, value |-> Malformed] \in ChapFrames
      BY <1>1 DEF ChapFrames, ChapCodes
    <3> QED
      BY <2>1, <2>3, <3>1
  <2> QED
    BY <1>0, <2>2, <2>3, SrvOnResponseEffect
<1> QED
  BY <1>1, <1>2, <1>4, <1>5, ServerChannels

(***************************************************************************)
(* The client's step.                                                      *)
(***************************************************************************)

(* What comes of its first packet has the type of the channel. *)
LEMMA EmittedType ==
  ASSUME IInv, NEW p \in Packets, Sendable(p), OnPacket(p)
  PROVE  /\ Emitted' \in Seq(ClientPackets)
         /\ \A q \in Range(Emitted') : q.proto = "Chap" => q.value \in responses'
         /\ responses \subseteq responses' /\ vouched' = vouched
<1> USE DEF IInv
<1>1. ASSUME NEW r \in ClientPackets, Emitted' = <<r>>, r.proto = "Chap" => r.value \in responses'
      PROVE  /\ Emitted' \in Seq(ClientPackets)
             /\ \A q \in Range(Emitted') : q.proto = "Chap" => q.value \in responses'
  BY <1>1, FewPackets
<1>2. ASSUME Emitted' = <<>>
      PROVE  /\ Emitted' \in Seq(ClientPackets)
             /\ \A q \in Range(Emitted') : q.proto = "Chap" => q.value \in responses'
  BY <1>2, FewPackets, EmptySeq
<1>3. \A r \in Frames("Lcp", LcpKinds, LcpData) \cup Frames("Ipcp", IpcpKinds, IpcpData) :
        r \in ClientPackets /\ r.proto # "Chap"
  BY DEF ClientPackets, Frames
<1>4. CASE OnCtrl(p)
  <2>1. \A r \in [proto : {"Ctrl"}, code : {"EchoReply", "DisconnectAck"}] :
          r \in ClientPackets /\ r.proto # "Chap"
    BY DEF ClientPackets
  <2> QED
    BY <1>1, <1>2, <1>3, <1>4, <2>1, OnCtrlEffect
       DEF Sends, LcpRequests, peerVars, OnConnectAck
<1>5. CASE HandleLcp(p)
  <2>1. UNCHANGED peerVars /\ Emitted' \in {<<>>, toSend'}
    BY <1>5, HandleLcpEffect
  <2>2. toSend' = <<>> \/ \E r \in Frames("Lcp", LcpKinds, LcpData) : toSend' = <<r>>
    BY <1>5, HandleLcpEffect, LcpReceiveEffect DEF LcpKeepsOn, LcpRequests, TypeOK
  <2> QED
    BY <1>1, <1>2, <1>3, <2>1, <2>2 DEF peerVars
<1>6. CASE HandleChap(p)
  <2>1. responses \subseteq responses' /\ vouched' = vouched /\ p \in ChapFrames
    BY <1>6, HandleChapEffect
  <2>2. CASE ChapAnswers(p)
    <3>1. PICK nt \in NtResponses :
            /\ nt \in responses'
            /\ Emitted' = <<[proto |-> "Chap", code |-> "Response", id |-> p.id, value |-> nt]>>
      BY <2>2 DEF ChapAnswers
    <3>2. p.id \in Id
      BY <2>1 DEF ChapFrames
    <3>3. [proto |-> "Chap", code |-> "Response", id |-> p.id, value |-> nt] \in ClientPackets
      BY <3>2 DEF ClientPackets
    <3> QED
      BY <1>1, <2>1, <3>1, <3>3
  <2>3. CASE ChapAdmits(p)
    BY <1>1, <1>3, <2>1, <2>3 DEF ChapAdmits, IpcpRequests
  <2> QED
    BY <1>2, <1>6, <2>1, <2>2, <2>3, HandleChapEffect
<1>7. CASE HandleIpcp(p)
  BY <1>7, IpcpEmits, HandleIpcpEffect DEF peerVars
<1>8. CASE OnOtherData(p)
  BY <1>1, <1>2, <1>3, <1>8, OnOtherDataEffect DEF peerVars
<1> QED
  BY <1>4, <1>5, <1>6, <1>7, <1>8 DEF OnPacket

(* The channels after the client's step: it takes the first packet to it,   *)
(* which nobody forged, and sends what it makes of it.                      *)
LEMMA ClientStepChannels ==
  ASSUME IInv, ChannelsOK, ClientStep
  PROVE  /\ IInv' /\ ChannelsOK'
         /\ Head(toClient) \in Packets /\ Head(toClient) \in Range(toClient)
         /\ Sendable(Head(toClient)) /\ OnPacket(Head(toClient))
         /\ toClient # <<>> /\ toClient' = Tail(toClient)
         /\ Range(toClient') \subseteq Range(toClient)
         /\ Emitted' \in Seq(ClientPackets)
         /\ toServer' = toServer \o Emitted' /\ Range(toServer') = Range(toServer) \cup Range(Emitted')
<1>1. /\ toClient # <<>> /\ OnPacket(Head(toClient)) /\ toClient' = Tail(toClient)
      /\ toServer' = toServer \o Emitted' /\ server' = server
  BY DEF ClientStep
<1>2. /\ Head(toClient) \in Packets /\ Head(toClient) \in Range(toClient)
      /\ Tail(toClient) \in Seq(Packets) /\ Range(Tail(toClient)) \subseteq Range(toClient)
  BY <1>1, TailOfChannel DEF ChannelsOK
<1>3. Sendable(Head(toClient))
  BY <1>2 DEF ChannelsOK
<1>4. IInv'
  BY <1>1, <1>2, <1>3, PacketIInv
<1>5. /\ Emitted' \in Seq(ClientPackets)
      /\ \A q \in Range(Emitted') : q.proto = "Chap" => q.value \in responses'
      /\ responses \subseteq responses' /\ vouched' = vouched
  BY <1>1, <1>2, <1>3, EmittedType
<1>6. toServer' \in Seq(ClientPackets) /\ Range(toServer') = Range(toServer) \cup Range(Emitted')
  BY <1>1, <1>5, SendOnChannel DEF ChannelsOK
<1>7. \A p \in Range(toClient') : Sendable(p)'
  BY <1>1, <1>2, <1>5 DEF ChannelsOK, Sendable
<1>8. ChannelsOK'
  BY <1>1, <1>2, <1>5, <1>6, <1>7 DEF ChannelsOK
<1> QED
  BY <1>1, <1>2, <1>3, <1>4, <1>5, <1>6, <1>8

-------------------------------------------------------------------------------
(***************************************************************************)
(* The invariant, layer by layer: each one is preserved by the steps that  *)
(* begin and end where those before it hold.                               *)
(***************************************************************************)
SrvNext == SrvSimple \/ SrvOnLcpRequest \/ SrvOnResponse \/ SrvOnIpcpRequest

LEMMA NextCases == HandshakeNext <=> ClientStep \/ SrvNext
BY DEF HandshakeNext, SrvReceive, SrvNext, SrvSimple

(* The server before its first step. *)
LEMMA NewServerType ==
  ASSUME server \in NewServer
  PROVE  /\ server \in ServerType
         /\ server.lcpWanted = None /\ server.challenge = None /\ server.keys = None
         /\ server.bound = "no" /\ server.accepted = FALSE /\ server.lcpAcked = FALSE
<1>1. 0 \in Id
  BY IdModulusAssumption DEF Id
<1>2. /\ {{}, {"Pfc", "Acfc"}, {"MagicNumber", "Pfc", "Acfc"}} \subseteq SUBSET LinkKinds
      /\ 0 \in Nat
  BY DEF LinkKinds
<1> QED
  BY <1>1, <1>2 DEF NewServer, ServerType

LEMMA InitChannels == HandshakeInit => IInv /\ ChannelsOK
<1> SUFFICES ASSUME HandshakeInit PROVE IInv /\ ChannelsOK
  OBVIOUS
<1>1. IInv /\ server \in ServerType
  BY InitIInv, NewServerType DEF HandshakeInit
<1> DEFINE p == [proto |-> "Ctrl", code |-> "ConnectRequest"]
<1>2. toServer = <<p>> /\ toClient = <<>> /\ p \in ClientPackets /\ p.proto # "Chap"
  BY DEF HandshakeInit, ClientPackets
<1>3. toServer \in Seq(ClientPackets) /\ Range(toServer) = {p}
      /\ toClient \in Seq(Packets) /\ Range(toClient) = {}
  BY <1>2, FewPackets, EmptySeq
<1> QED
  BY <1>1, <1>2, <1>3 DEF ChannelsOK

LEMMA NextChannels ==
  ASSUME IInv, ChannelsOK, [HandshakeNext]_allVars PROVE IInv' /\ ChannelsOK'
<1>1. CASE ClientStep
  BY <1>1, ClientStepChannels
<1>2. CASE SrvNext
  BY <1>2, SrvSimpleChannels, SrvOnLcpRequestChannels, SrvOnResponseChannels,
     SrvOnIpcpRequestChannels DEF SrvNext
<1>3. CASE UNCHANGED allVars
  <2>1. UNCHANGED <<toServer, toClient, server, lcp, ipcp, toSend, phase, hashAlgo, serverNonce,
                    pendingChap, authChallenge, mppeKeys, outcome, responses, vouched>>
    BY <1>3 DEF allVars, engineVars, vars
  <2>2. IInv'
    BY <2>1 DEF IInv, TypeOK, PendingMatchesChallenge, KeysAreVouched, PendingIsUnused,
                UnboundWhileWaiting, BoundAtOnce, OnlyUnboundPanics
  <2>3. ChannelsOK'
    BY <2>1 DEF ChannelsOK, Sendable
  <2> QED
    BY <2>2, <2>3
<1> QED
  BY <1>1, <1>2, <1>3, NextCases

(* Types, and the strengthening of Engine with this peer.                   *)
LEMMA SpecChannels == HandshakeSpec => [](IInv /\ ChannelsOK)
BY InitChannels, NextChannels, PTL DEF HandshakeSpec

(***************************************************************************)
(* The link.                                                               *)
(***************************************************************************)
LEMMA InitLink == HandshakeInit => LinkInv
<1> SUFFICES ASSUME HandshakeInit PROVE LinkInv
  OBVIOUS
<1> DEFINE p == [proto |-> "Ctrl", code |-> "ConnectRequest"]
<1>1. toServer = <<p>> /\ toClient = <<>> /\ Role(p) = "other"
  BY DEF HandshakeInit, Role
<1>2. Without(toServer, "request") /\ Without(toClient, "answer")
      /\ AtMostOne(toServer, "request") /\ AtMostOne(toClient, "answer")
      /\ Range(toServer) = {p} /\ Range(toClient) = {}
  BY <1>1, FewPackets
<1>3. ~lcp.localUp
  BY DEF HandshakeInit, Init, LcpInit, NewLcp
<1> QED
  BY <1>1, <1>2, <1>3 DEF LinkInv, OneToken, NoToken, NoLinkToken

(* Our request, its answer and our next request follow each other. *)
LEMMA ClientLink == ASSUME IInv, ChannelsOK, LinkInv, ClientStep PROVE LinkInv'
<1>1. PICK p : p = Head(toClient)
  OBVIOUS
<1>2. /\ toClient # <<>> /\ toClient \in Seq(Packets) /\ toServer \in Seq(ClientPackets)
      /\ p \in Packets /\ p \in Range(toClient) /\ OnPacket(p)
      /\ toClient' = Tail(toClient) /\ Range(toClient') \subseteq Range(toClient)
      /\ Emitted' \in Seq(ClientPackets)
      /\ toServer' = toServer \o Emitted' /\ Range(toServer') = Range(toServer) \cup Range(Emitted')
      /\ server' = server /\ TypeOK
  BY <1>1, ClientStepChannels DEF ClientStep, ChannelsOK, IInv
<1>3. /\ OneToken(toClient, "answer", toServer, "request")
      /\ NoToken(toClient, "answer", toServer, "request") <=> NoLinkToken
      /\ OneToken(toServer', "request", toClient', "answer")
           <=> OneToken(toClient', "answer", toServer', "request")
      /\ NoToken(toClient', "answer", toServer', "request") <=> NoLinkToken'
  BY DEF LinkInv, OneToken, NoToken, NoLinkToken
<1>4. Role(p) = "answer" => phase # "WaitConnectAck" /\ ~lcp.localUp
  BY <1>2 DEF LinkInv, NoLinkToken, NoToken, Without
<1>n. ASSUME \/ Emitted' = <<>>
             \/ \E r : Emitted' = <<r>> /\ Role(r) # "request"
      PROVE  Without(Emitted', "request")
  <2>1. CASE Emitted' = <<>>
    BY <2>1, FewPackets
  <2>2. ASSUME NEW r, Emitted' = <<r>>, Role(r) # "request"
        PROVE  Without(Emitted', "request")
    BY <2>2, FewPackets
  <2> QED
    BY <1>n, <2>1, <2>2
<1>5. ASSUME Without(Emitted', "request"), lcp'.desired = lcp.desired,
             \/ lcp'.localUp \in {lcp.localUp, FALSE}
             \/ p.proto = "Lcp" /\ p.code = "ConfigureAck",
             phase' = "WaitConnectAck" => phase = "WaitConnectAck"
      PROVE  LinkInv'
  <2>1. /\ OneToken(toClient', "answer", toServer', "request")
        /\ Role(p) = "answer" \/ NoLinkToken => NoLinkToken'
    BY <1>1, <1>2, <1>3, <1>5, PassToken
  <2>2. \A q \in Range(toServer') : Role(q) = "request" => q.opts = lcp'.desired
    BY <1>2, <1>5 DEF LinkInv, Without
  <2>3. CASE lcp'.localUp \in {lcp.localUp, FALSE}
    <3>1. phase' = "WaitConnectAck" => NoLinkToken' /\ ~lcp'.localUp
      BY <1>5, <2>1, <2>3 DEF LinkInv, TypeOK, LcpType
    <3>2. lcp'.localUp => NoLinkToken' /\ server'.lcpWanted = lcp'.desired
      BY <1>2, <1>5, <2>1, <2>3 DEF LinkInv
    <3> QED
      BY <1>2, <1>3, <1>5, <2>1, <2>2, <3>1, <3>2 DEF LinkInv
  <2>4. CASE p.proto = "Lcp" /\ p.code = "ConfigureAck"
    <3>1. Role(p) = "answer" /\ server.lcpWanted = lcp.desired
      BY <1>2, <2>4, LinkRoles DEF LinkInv
    <3> QED
      BY <1>2, <1>3, <1>4, <1>5, <2>1, <2>2, <3>1 DEF LinkInv
  <2> QED
    BY <1>5, <2>3, <2>4
<1>6. ASSUME NEW r, Emitted' = <<r>>, r.opts = lcp'.desired, lcp'.localUp = FALSE,
             phase' # "WaitConnectAck", Role(p) = "answer" \/ NoLinkToken
      PROVE  LinkInv'
  <2>1. AtMostOne(Emitted', "request") /\ Range(Emitted') = {r}
    BY <1>6, FewPackets
  <2>2. Without(toServer, "request") /\ Without(toClient', "answer")
    <3>1. CASE Role(p) = "answer"
      BY <1>1, <1>2, <1>3, <3>1, TakeToken DEF OneToken, Without
    <3>2. CASE NoLinkToken
      BY <1>2, <3>2 DEF NoLinkToken, NoToken, Without
    <3> QED
      BY <1>6, <3>1, <3>2
  <2>3. AtMostOne(toClient', "answer")
    BY <1>2, <1>3, TakeToken DEF OneToken
  <2>4. AtMostOne(toServer', "request")
    BY <1>2, <2>1, <2>2, GiveToken
  <2>5. \A q \in Range(toServer') : Role(q) = "request" => q.opts = lcp'.desired
    BY <1>2, <1>6, <2>1, <2>2 DEF Without
  <2>6. \A q \in Range(toClient') : ~(q.proto = "Lcp" /\ q.code = "ConfigureAck")
    BY <2>2, LinkRoles DEF Without
  <2> QED
    BY <1>6, <2>2, <2>3, <2>4, <2>5, <2>6 DEF LinkInv, OneToken
<1>7. CASE OnCtrl(p)
  <2>1. CASE OnConnectAck(p) /\ LcpRequests
    <3>1. phase = "WaitConnectAck" /\ phase' = "Lcp"
      BY <2>1 DEF OnConnectAck, ConnectAckExpected
    <3>2. /\ lcp'.localUp = lcp.localUp /\ Emitted' = toSend'
      BY <1>2, <1>7, <2>1, OnCtrlEffect
    <3>3. NoLinkToken /\ lcp'.localUp = FALSE
      BY <1>2, <3>1, <3>2 DEF LinkInv, TypeOK, LcpType
    <3> QED
      BY <1>6, <2>1, <3>1, <3>2, <3>3 DEF LcpRequests
  <2>2. CASE ~OnConnectAck(p)
    <3>1. UNCHANGED <<lcp, phase>> /\ Sends([proto : {"Ctrl"}, code : {"EchoReply", "DisconnectAck"}])
      BY <1>2, <1>7, <2>2, OnCtrlEffect
    <3>2. Without(Emitted', "request")
      BY <1>n, <3>1, LinkRoles DEF Sends
    <3> QED
      BY <1>5, <3>1, <3>2
  <2> QED
    BY <1>2, <1>7, <2>1, <2>2, OnCtrlEffect
<1>8. CASE HandleLcp(p)
  <2>1. /\ p \in Frames("Lcp", LcpKinds, LcpData) /\ LcpReceive(p) /\ lcp \in LcpType
        /\ Emitted' \in {<<>>, toSend'} /\ p.proto = "Lcp"
        /\ phase' = "WaitConnectAck" => phase = "WaitConnectAck"
    BY <1>2, <1>8, HandleLcpEffect DEF TypeOK, HandleLcp
  <2>2. CASE LcpKeepsOn
    <3>1. Without(Emitted', "request")
      BY <1>n, <2>1, <2>2 DEF LcpKeepsOn
    <3> QED
      BY <1>5, <2>1, <2>2, <3>1 DEF LcpKeepsOn
  <2>3. CASE /\ p.code = "ConfigureAck" /\ lcp'.desired = lcp.desired /\ lcp'.localUp = TRUE
             /\ toSend' = <<>>
    BY <1>5, <2>1, <2>3, FewPackets
  <2>4. CASE /\ p.code \in {"ConfigureNak", "ConfigureReject"} /\ lcp'.localUp = FALSE
             /\ LcpRequests
    <3>1. Role(p) = "answer"
      BY <2>1, <2>4, LinkRoles
    <3>2. phase' # "WaitConnectAck"
      BY <1>4, <2>1, <3>1
    <3>3. PICK r : toSend' = <<r>> /\ r.opts = lcp'.desired
      BY <2>4 DEF LcpRequests
    <3>4. HandleLcp(p) /\ outcome' # "fatal"
      BY <1>8, <2>4 DEF HandleLcp, LcpIsUp
    <3>5. Emitted' = toSend'
      BY <3>4 DEF HandleLcp, Emitted
    <3> QED
      BY <1>6, <2>4, <3>1, <3>2, <3>3, <3>5
  <2> QED
    BY <2>1, <2>2, <2>3, <2>4, LcpReceiveEffect
<1>9. CASE HandleChap(p)
  <2>1. lcp' = lcp
    BY <1>2, <1>9, HandleChapEffect
  <2>2. phase' = "WaitConnectAck" => phase = "WaitConnectAck"
    BY <1>2, <1>9, HandleChapEffect DEF ChapAnswers, ChapAdmits, HandleChapFatal
  <2>3. Without(Emitted', "request")
    <3>1. CASE ChapAnswers(p)
      BY <1>n, <3>1, LinkRoles DEF ChapAnswers
    <3>2. CASE ChapAdmits(p)
      BY <1>n, <3>2, LinkRoles DEF ChapAdmits, IpcpRequests, Frames
    <3>3. CASE Emitted' = <<>>
      BY <3>3, FewPackets
    <3> QED
      BY <1>2, <1>9, <3>1, <3>2, <3>3, HandleChapEffect
  <2> QED
    BY <1>5, <2>1, <2>2, <2>3
<1>10. CASE HandleIpcp(p)
  <2>1. lcp' = lcp /\ (phase' = "WaitConnectAck" => phase = "WaitConnectAck")
    BY <1>2, <1>10, HandleIpcpEffect DEF IpcpOpens
  <2>2. Without(Emitted', "request")
    <3>1. \A q \in Range(Emitted') : q.proto # "Lcp"
      BY <1>2, <1>10, IpcpEmits
    <3> QED
      BY <3>1, LinkRoles DEF Without
  <2> QED
    BY <1>5, <2>1, <2>2
<1>11. CASE OnOtherData(p)
  <2>1. lcp'.desired = lcp.desired /\ lcp'.localUp = lcp.localUp /\ phase' = phase
    BY <1>2, <1>11, OnOtherDataEffect
  <2>2. Without(Emitted', "request")
    BY <1>n, <1>2, <1>11, OnOtherDataEffect, LinkRoles
  <2> QED
    BY <1>5, <2>1, <2>2
<1> QED
  BY <1>2, <1>7, <1>8, <1>9, <1>10, <1>11 DEF OnPacket

(* What the server sends without being asked a question. *)
Volunteered(p) ==
  /\ Role(p) # "answer"
  /\ AsksMsChapV2(p)
  /\ Peaceful(p)
  /\ p.proto = "Ipcp" => p.code = "ConfigureRequest" /\ p.opts = [k \in {"IpAddress"} |-> DnsAddress]
  /\ p.proto = "Chap" => SrvChallenge /\ p.code = "Challenge" /\ p.value \in Challenges
                         /\ server' = [server EXCEPT !.challenge = p.value, !.reauths = server'.reauths]
  /\ Role(p) = "auth" => p.proto = "Chap"

LEMMA SrvSimpleEffect ==
  ASSUME IInv, ChannelsOK, SrvSimple
  PROVE  /\ EngineUntouched /\ Listens
         /\ server'.lcpWanted = server.lcpWanted /\ server'.bind = server.bind
         /\ server'.ipcpRejects = server.ipcpRejects /\ server'.keys = server.keys
         /\ ~SrvChallenge => server'.challenge = server.challenge
         /\ ~SrvOnConnected => server'.bound = server.bound
         /\ server.accepted => server'.accepted
         /\ \/ toClient' = toClient
            \/ \E p \in Packets : Volunteered(p) /\ toClient' = toClient \o <<p>>
<1>t. /\ server \in ServerType /\ 0 \in Id /\ toClient \o <<>> = toClient
      /\ server.extraOption \in BOOLEAN /\ server.lcpId \in Id
  <2>1. server \in ServerType /\ toClient \in Seq(Packets)
    BY DEF ChannelsOK
  <2> QED
    BY <2>1, ConcatEmptySeq, IdModulusAssumption DEF Id, ServerType
<1>u. EngineUntouched /\ Listens
  BY DEF SrvSimple, SrvAccept, SrvLcpRequest, SrvOnLcpAnswer, SrvChallenge, SrvIpcpRequest,
         SrvOnIpcpAnswer, SrvOnConnected, SrvOnOther, SrvNoise, Receive, Listens
<1>c. /\ server'.lcpWanted = server.lcpWanted /\ server'.bind = server.bind
      /\ server'.ipcpRejects = server.ipcpRejects /\ server'.keys = server.keys
      /\ ~SrvChallenge => server'.challenge = server.challenge
      /\ ~SrvOnConnected => server'.bound = server.bound
      /\ server.accepted => server'.accepted
  <2>1. CASE SrvAccept \/ SrvLcpRequest \/ SrvIpcpRequest \/ SrvOnIpcpAnswer \/ SrvOnOther
    BY <1>t, <2>1 DEF SrvAccept, SrvLcpRequest, SrvIpcpRequest, SrvOnIpcpAnswer, SrvOnOther, ServerType
  <2>2. CASE SrvOnLcpAnswer \/ SrvNoise
    BY <1>t, <2>2 DEF SrvOnLcpAnswer, SrvNoise, ServerType
  <2>3. CASE SrvOnConnected
    BY <1>t, <2>3 DEF SrvOnConnected, ServerType
  <2>4. CASE SrvChallenge
    BY <1>t, <2>4 DEF SrvChallenge, ServerType
  <2> QED
    BY <2>1, <2>2, <2>3, <2>4 DEF SrvSimple
<1> SUFFICES \/ toClient' = toClient
             \/ \E p \in Packets : Volunteered(p) /\ toClient' = toClient \o <<p>>
  BY <1>u, <1>c
<1>1. CASE SrvAccept
  <2>1. /\ server.bind \in Bindings
        /\ [proto |-> "Ctrl", code |-> "ConnectAck", bind |-> server.bind] \in Packets
    BY <1>t, CtrlIsSendable DEF CtrlPackets, CtrlCodes, ServerType
  <2> QED
    BY <1>1, <2>1 DEF SrvAccept, Send, Volunteered, AsksMsChapV2, Peaceful, Role
<1>2. CASE SrvLcpRequest \/ SrvOnLcpAnswer
  <2>1. CASE toClient' = toClient \o <<>>
    BY <1>t, <2>1
  <2>2. ASSUME NEW x \in BOOLEAN, NEW id \in Id,
               toClient' = toClient \o <<Frame("Lcp", "ConfigureRequest", id, LcpOffer(x))>>
        PROVE  \E p \in Packets : Volunteered(p) /\ toClient' = toClient \o <<p>>
    <3> DEFINE p == Frame("Lcp", "ConfigureRequest", id, LcpOffer(x))
    <3>1. p \in Packets /\ p.proto = "Lcp" /\ p.code = "ConfigureRequest" /\ p.opts = LcpOffer(x)
      BY LcpOfferType, FramesAreSendable DEF Frame
    <3>2. Volunteered(p)
      BY <3>1, LcpOfferType DEF Volunteered, AsksMsChapV2, Peaceful, Role
    <3> QED
      BY <2>2, <3>1, <3>2
  <2>3. server'.lcpId \in Id
    <3>1. server' \in ServerType
      BY <1>2, SrvSimpleChannels DEF SrvSimple, ChannelsOK
    <3> QED
      BY <3>1 DEF ServerType
  <2> QED
    BY <1>2, <1>t, <2>1, <2>2, <2>3 DEF SrvLcpRequest, SrvOnLcpAnswer, Send
<1>3. CASE SrvChallenge
  <2>1. PICK c \in Challenges :
          /\ server' = [server EXCEPT !.challenge = c,
                                      !.reauths = IF server.keys = None THEN 0 ELSE @ + 1]
          /\ toClient' = toClient \o <<[proto |-> "Chap", code |-> "Challenge", id |-> 0, value |-> c]>>
    BY <1>3 DEF SrvChallenge, Send
  <2> DEFINE p == [proto |-> "Chap", code |-> "Challenge", id |-> 0, value |-> c]
  <2>2. p \in Packets
    BY <1>t DEF Packets, ChapFrames, ChapCodes
  <2>3. server' = [server EXCEPT !.challenge = c, !.reauths = server'.reauths]
    BY <1>t, <2>1 DEF ServerType
  <2>4. Volunteered(p)
    BY <1>3, <2>3 DEF Volunteered, AsksMsChapV2, Peaceful, Role
  <2> QED
    BY <2>1, <2>2, <2>4
<1>4. CASE SrvIpcpRequest
  <2> DEFINE o == [k \in {"IpAddress"} |-> DnsAddress]
             p == Frame("Ipcp", "ConfigureRequest", 0, o)
  <2>1. o \in [{"IpAddress"} -> IpcpData] /\ {"IpAddress"} \in SUBSET IpcpKinds
    BY AssignedAddresses DEF IpcpData, IpcpKinds, OurKinds
  <2>2. o \in Options(IpcpKinds, IpcpData) /\ "ConfigureRequest" \in CpCodes
    BY <2>1, OptionsIntro DEF CpCodes
  <2>3. p \in Packets
    BY <1>t, <2>2, FrameType, FramesAreSendable
  <2>4. Volunteered(p)
    BY DEF Volunteered, AsksMsChapV2, Peaceful, Role, Frame
  <2> QED
    BY <1>4, <2>3, <2>4 DEF SrvIpcpRequest, Send
<1>5. CASE SrvOnIpcpAnswer \/ SrvOnConnected \/ SrvOnOther
  BY <1>t, <1>5 DEF SrvOnIpcpAnswer, SrvOnConnected, SrvOnOther, Send
<1>6. CASE SrvNoise
  <2>1. PICK p \in {[proto |-> "Unknown"], [proto |-> "Ip"],
                    [proto |-> "Ctrl", code |-> "EchoRequest", bind |-> None],
                    Frame("Lcp", "EchoRequest", 0, NoOptions)}
                   \cup {[proto |-> "Ctrl", code |-> "ConnectAck", bind |-> b] : b \in Bindings} :
          toClient' = toClient \o <<p>>
    BY <1>6 DEF SrvNoise, Send
  <2>2. CASE p = Frame("Lcp", "EchoRequest", 0, NoOptions)
    <3>1. "EchoRequest" \in CpCodes
      BY DEF CpCodes
    <3>2. p \in Packets
      BY <1>t, <2>2, <3>1, NoOptionsType, FrameType, FramesAreSendable
    <3>3. Volunteered(p)
      BY <2>2 DEF Volunteered, AsksMsChapV2, Peaceful, Role, Frame
    <3> QED
      BY <2>1, <3>2, <3>3
  <2>3. CASE p # Frame("Lcp", "EchoRequest", 0, NoOptions)
    <3>1. p \in CtrlPackets \cup OtherData
      BY <2>1, <2>3 DEF CtrlPackets, CtrlCodes, OtherData
    <3>2. p \in Packets
      BY <3>1, CtrlIsSendable
    <3>3. Volunteered(p)
      <4>1. /\ p.proto \in {"Unknown", "Ip", "Ctrl"}
            /\ p.proto = "Ctrl" => p.code = "EchoRequest" \/ (p.code = "ConnectAck" /\ p.bind \in Bindings)
        BY <2>1, <2>3
      <4> QED
        BY <4>1 DEF Volunteered, AsksMsChapV2, Peaceful, Role
    <3> QED
      BY <2>1, <3>2, <3>3
  <2> QED
    BY <2>2, <2>3
<1> QED
  BY <1>1, <1>2, <1>3, <1>4, <1>5, <1>6 DEF SrvSimple

(* A step of the server that passes no token of a conversation.             *)
LEMMA QuietServer ==
  ASSUME ChannelsOK, Listens, NEW a, NEW b, OneToken(toServer, a, toClient, b),
         \/ toClient' = toClient
         \/ \E p \in Packets : Role(p) # b /\ toClient' = toClient \o <<p>>
  PROVE  /\ OneToken(toServer', a, toClient', b)
         /\ NoToken(toServer, a, toClient, b) => NoToken(toServer', a, toClient', b)
         /\ toServer # <<>> /\ toServer' = Tail(toServer) /\ Role(Head(toServer)) = a
              => NoToken(toServer', a, toClient', b)
<1>1. PICK ps \in Seq(Packets) : toClient' = toClient \o ps /\ Without(ps, b)
  <2>1. CASE toClient' = toClient
    <3>1. toClient \o <<>> = toClient
      BY ConcatEmptySeq DEF ChannelsOK
    <3> QED
      BY <2>1, <3>1, FewPackets, EmptySeq
  <2>2. ASSUME NEW p \in Packets, Role(p) # b, toClient' = toClient \o <<p>>
        PROVE  \E ps \in Seq(Packets) : toClient' = toClient \o ps /\ Without(ps, b)
    <3>1. Without(<<p>>, b) /\ <<p>> \in Seq(Packets)
      BY <2>2, FewPackets
    <3> QED
      BY <2>2, <3>1
  <2> QED
    BY <2>1, <2>2
<1>2. toServer \in Seq(ClientPackets) /\ toClient \in Seq(Packets)
  BY DEF ChannelsOK
<1>3. CASE toServer # <<>> /\ toServer' = Tail(toServer)
  BY <1>1, <1>2, <1>3, PassToken
<1>4. CASE toServer' = toServer /\ ~(toServer # <<>> /\ toServer' = Tail(toServer))
  BY <1>1, <1>2, <1>4, MakeToken
<1> QED
  BY <1>3, <1>4 DEF Listens

(* What is in the channels after a step of the server. *)
LEMMA ServerRanges ==
  ASSUME ChannelsOK, Listens,
         NEW P, toClient' = toClient \/ \E p \in P \cap Packets : toClient' = toClient \o <<p>>
  PROVE  Range(toServer') \subseteq Range(toServer) /\ Range(toClient') \subseteq Range(toClient) \cup P
<1>1. Range(toServer') \subseteq Range(toServer)
  BY TailOfChannel DEF ChannelsOK, Listens
<1>2. ASSUME NEW p \in P \cap Packets, toClient' = toClient \o <<p>>
      PROVE  Range(toClient') \subseteq Range(toClient) \cup P
  <2>1. Range(toClient \o <<p>>) = Range(toClient) \cup {p}
    BY SendOne DEF ChannelsOK
  <2> QED
    BY <1>2, <2>1
<1> QED
  BY <1>1, <1>2

LEMMA QuietServerLink ==
  ASSUME ChannelsOK, LinkInv, Listens, UNCHANGED <<lcp, phase>>, server'.lcpWanted = server.lcpWanted,
         \/ toClient' = toClient
         \/ \E p \in Packets : Role(p) # "answer" /\ toClient' = toClient \o <<p>>
  PROVE  LinkInv'
<1>1. /\ OneToken(toServer', "request", toClient', "answer")
      /\ NoLinkToken => NoLinkToken'
  BY QuietServer DEF LinkInv, NoLinkToken
<1>2. /\ Range(toServer') \subseteq Range(toServer)
      /\ Range(toClient') \subseteq Range(toClient) \cup {p \in Packets : Role(p) # "answer"}
  <2> DEFINE P == {p \in Packets : Role(p) # "answer"}
  <2>1. toClient' = toClient \/ \E p \in P \cap Packets : toClient' = toClient \o <<p>>
    OBVIOUS
  <2> HIDE DEF P
  <2>2. Range(toServer') \subseteq Range(toServer) /\ Range(toClient') \subseteq Range(toClient) \cup P
    BY <2>1, ServerRanges
  <2> QED
    BY <2>2 DEF P
<1> QED
  BY <1>1, <1>2, LinkRoles DEF LinkInv

LEMMA ServerLink == ASSUME IInv, ChannelsOK, LinkInv, SrvNext PROVE LinkInv'
<1>1. CASE SrvSimple
  BY <1>1, SrvSimpleEffect, QuietServerLink DEF Volunteered, EngineUntouched, engineVars, vars
<1>2. CASE SrvOnLcpRequest
  <2>1. /\ toServer # <<>> /\ toServer' = Tail(toServer) /\ Role(Head(toServer)) = "request"
        /\ UNCHANGED <<lcp, phase>>
    BY <1>2, SrvOnLcpRequestEffect DEF EngineUntouched, engineVars, vars
  <2>2. PICK r \in Frames("Lcp", LcpKinds, LcpData) : SrvAnswersLcp(r)
    BY <1>2, SrvOnLcpRequestEffect
  <2>3. /\ server \in ServerType /\ toServer \in Seq(ClientPackets) /\ toClient \in Seq(Packets)
        /\ r \in Packets /\ toClient' = toClient \o <<r>>
    BY <2>2, FramesAreSendable DEF ChannelsOK, SrvAnswersLcp
  <2>4. /\ Head(toServer) \in Range(toServer)
        /\ Range(toServer') \subseteq Range(toServer)
        /\ <<r>> \in Seq(Packets) /\ Range(<<r>>) = {r} /\ AtMostOne(<<r>>, "answer")
    <3>1. Head(toServer) \in Range(toServer) /\ Range(toServer') \subseteq Range(toServer)
      BY <2>1, <2>3, TailOfChannel
    <3>2. Range(<<r>>) = {r} /\ AtMostOne(<<r>>, "answer")
      BY FewPackets
    <3>3. <<r>> \in Seq(Packets)
      BY <2>3
    <3> QED
      BY <3>1, <3>2, <3>3
  <2>5. /\ OneToken(toServer', "request", toClient', "answer")
        /\ Without(toServer', "request") /\ Without(toClient, "answer")
    BY <2>1, <2>3, <2>4, PassToken DEF LinkInv
  <2>6. phase' # "WaitConnectAck" /\ ~lcp'.localUp /\ Head(toServer).opts = lcp.desired
    <3>1. ~NoLinkToken
      BY <2>1, <2>4 DEF NoLinkToken, NoToken, Without
    <3>2. phase # "WaitConnectAck" /\ ~lcp.localUp
      BY <3>1 DEF LinkInv
    <3>3. Head(toServer).opts = lcp.desired
      BY <2>1, <2>4 DEF LinkInv
    <3> QED
      BY <2>1, <3>2, <3>3
  <2>7. Range(toClient') = Range(toClient) \cup {r}
    <3>1. Range(toClient \o <<r>>) = Range(toClient) \cup {r}
      BY <2>3, SendOne
    <3> QED
      BY <2>3, <3>1
  <2>8. \A q \in Range(toClient') :
          q.proto = "Lcp" /\ q.code = "ConfigureAck" => server'.lcpWanted = lcp'.desired
    <3>1. r.code = "ConfigureAck" => server'.lcpWanted = Head(toServer).opts
      BY <2>2, <2>3 DEF SrvAnswersLcp, ServerType
    <3> QED
      BY <2>1, <2>5, <2>6, <2>7, <3>1, LinkRoles DEF Without
  <2>9. \A q \in Range(toServer') : Role(q) = "request" => q.opts = lcp'.desired
    BY <2>1, <2>4 DEF LinkInv
  <2> QED
    BY <2>5, <2>6, <2>8, <2>9 DEF LinkInv
<1>3. CASE SrvOnResponse
  <2>1. Listens /\ UNCHANGED <<lcp, phase>>
    BY <1>3, SrvOnResponseEffect DEF Listens
  <2>2. PICK nt : nt = Head(toServer).value
    OBVIOUS
  <2>3. /\ nt \in NtResponses /\ 0 \in Id /\ server \in ServerType
        /\ \/ server' = server
           \/ server' = [server EXCEPT !.challenge = None, !.keys = MppeKeys(nt), !.bound = "no"]
    BY <1>3, <2>2, SrvOnResponseEffect, IdModulusAssumption DEF IInv, TypeOK, Id, ChannelsOK
  <2>4. server'.lcpWanted = server.lcpWanted
    BY <2>3 DEF ServerType
  <2>5. \E p \in ChapFrames : toClient' = toClient \o <<p>>
    <3>1. /\ [proto |-> "Chap", code |-> "Success", id |-> 0, value |-> Vouching(nt)] \in ChapFrames
          /\ [proto |-> "Chap", code |-> "Failure", id |-> 0, value |-> Malformed] \in ChapFrames
      BY <2>3 DEF ChapFrames, ChapCodes
    <3> QED
      BY <1>3, <2>2, <3>1, SrvOnResponseEffect
  <2>6. \A p \in ChapFrames : p \in Packets /\ Role(p) # "answer"
    BY DEF ChapFrames, Packets, Role
  <2> QED
    BY <2>1, <2>4, <2>5, <2>6, QuietServerLink
<1>4. CASE SrvOnIpcpRequest
  <2>1. /\ Listens /\ UNCHANGED <<lcp, phase>>
        /\ \E r \in Frames("Ipcp", IpcpKinds, IpcpData) : SrvAnswersIpcp(r)
    BY <1>4, SrvOnIpcpRequestEffect DEF Listens, EngineUntouched, engineVars, vars
  <2>2. PICK r \in Frames("Ipcp", IpcpKinds, IpcpData) : SrvAnswersIpcp(r)
    BY <2>1
  <2>3. r \in Packets /\ Role(r) # "answer"
    BY FramesAreSendable DEF Frames, Role
  <2>4. server'.lcpWanted = server.lcpWanted /\ toClient' = toClient \o <<r>>
    BY <2>2 DEF SrvAnswersIpcp, ChannelsOK, ServerType
  <2> QED
    BY <2>1, <2>3, <2>4, QuietServerLink
<1> QED
  BY <1>1, <1>2, <1>3, <1>4 DEF SrvNext

LEMMA NextLink == ASSUME IInv, ChannelsOK, LinkInv, [HandshakeNext]_allVars PROVE LinkInv'
<1>1. CASE UNCHANGED allVars
  BY <1>1 DEF allVars, engineVars, vars, LinkInv, OneToken, NoToken, NoLinkToken
<1> QED
  BY <1>1, ClientLink, ServerLink, NextCases

LEMMA SpecLink == HandshakeSpec => []LinkInv
BY SpecChannels, InitLink, NextLink, PTL DEF HandshakeSpec

(* Whenever the client believes its link options acknowledged, they are the *)
(* ones the server has acknowledged, whichever request that answered.       *)
THEOREM HandshakeLinkAgreement == HandshakeSpec => []LinkAgreement
<1>1. LinkInv => LinkAgreement
  BY DEF LinkInv, LinkAgreement
<1> QED
  BY SpecLink, <1>1, PTL

(***************************************************************************)
(* Authentication is always asked for.                                     *)
(***************************************************************************)
(* A request that names MS-CHAPv2 is recorded as it is acknowledged.        *)
LEMMA LcpReceiveAuth ==
  ASSUME lcp \in LcpType, NEW f, LcpReceive(f), f.proto = "Lcp", AsksMsChapV2(f),
         lcp.remoteUp => lcp.peerAuth = "MsChapV2"
  PROVE  lcp'.remoteUp => lcp'.peerAuth = "MsChapV2"
<1>1. CASE LcpReceiveConfigureRequest(f)
  <2>1. Proposed(lcp, f.opts) = "MsChapV2"
    BY <1>1 DEF LcpReceiveConfigureRequest, AsksMsChapV2, Proposed
  <2> QED
    BY <1>1, <2>1 DEF LcpReceiveConfigureRequest, LcpType
<1>2. CASE LcpReceiveConfigureAck(f)
  BY <1>2 DEF LcpReceiveConfigureAck, LcpType
<1>3. CASE LcpReceiveConfigureNak(f)
  BY <1>3 DEF LcpReceiveConfigureNak, Renumbered, LcpType
<1>4. CASE LcpReceiveConfigureReject(f)
  BY <1>4 DEF LcpReceiveConfigureReject, Renumbered, LcpType
<1>5. CASE LcpReceiveEchoRequest(f) \/ LcpIgnore(f)
  BY <1>5 DEF LcpReceiveEchoRequest, LcpIgnore
<1>6. CASE LcpReceiveTerminateRequest(f)
  BY <1>6 DEF LcpReceiveTerminateRequest, LcpType
<1> QED
  BY <1>1, <1>2, <1>3, <1>4, <1>5, <1>6 DEF LcpReceive

LEMMA InitPeerAuth == HandshakeInit => PeerAuthInv
<1> SUFFICES ASSUME HandshakeInit PROVE PeerAuthInv
  OBVIOUS
<1>1. Range(toClient) = {} /\ ~lcp.remoteUp
  BY FewPackets DEF HandshakeInit, Init, LcpInit, NewLcp
<1> QED
  BY <1>1 DEF PeerAuthInv

(* What the server answers. *)
LEMMA ServerAnswers ==
  ASSUME IInv, ChannelsOK, SrvNext, ~SrvSimple
  PROVE  /\ Listens /\ UNCHANGED <<lcp, ipcp, toSend, phase, bindVars, chapVars, outcome, responses>>
         /\ \E p \in Packets : /\ toClient' = toClient \o <<p>>
                               /\ p.proto = "Lcp"  => SrvOnLcpRequest /\ p.code # "ConfigureRequest"
                               /\ p.proto = "Ipcp" => SrvAnswersIpcp(p) /\ SrvOnIpcpRequest
                               /\ p.proto = "Chap" => SrvOnResponse
                               /\ p.proto # "Ctrl"
         /\ server'.bind = server.bind /\ server'.ipcpRejects = server.ipcpRejects
         /\ server'.accepted = server.accepted
         /\ ~SrvOnResponse => /\ server'.challenge = server.challenge /\ server'.keys = server.keys
                              /\ server'.bound = server.bound /\ vouched' = vouched
<1>t. server \in ServerType
  BY DEF ChannelsOK
<1>1. CASE SrvOnLcpRequest
  <2>1. PICK r \in Frames("Lcp", LcpKinds, LcpData) : SrvAnswersLcp(r)
    BY <1>1, SrvOnLcpRequestEffect
  <2>2. r \in Packets /\ r.proto = "Lcp" /\ r.code # "ConfigureRequest" /\ toClient' = toClient \o <<r>>
    BY <2>1, FramesAreSendable DEF SrvAnswersLcp, Frames
  <2>3. /\ server'.bind = server.bind /\ server'.ipcpRejects = server.ipcpRejects
        /\ server'.accepted = server.accepted
        /\ server'.challenge = server.challenge /\ server'.keys = server.keys
        /\ server'.bound = server.bound
    BY <1>t, <2>1 DEF SrvAnswersLcp, ServerType
  <2>4. Listens /\ EngineUntouched
    BY <1>1, SrvOnLcpRequestEffect DEF Listens
  <2> QED
    BY <1>1, <2>2, <2>3, <2>4 DEF EngineUntouched, engineVars, vars, bindVars, chapVars
<1>2. CASE SrvOnResponse
  <2>1. PICK nt : nt = Head(toServer).value
    OBVIOUS
  <2>2. /\ nt \in NtResponses /\ 0 \in Id
        /\ \/ server' = server
           \/ server' = [server EXCEPT !.challenge = None, !.keys = MppeKeys(nt), !.bound = "no"]
    BY <1>2, <2>1, SrvOnResponseEffect, IdModulusAssumption DEF IInv, TypeOK, Id
  <2>3. /\ server'.bind = server.bind /\ server'.ipcpRejects = server.ipcpRejects
        /\ server'.accepted = server.accepted
    BY <1>t, <2>2 DEF ServerType
  <2>4. \E p \in ChapFrames : toClient' = toClient \o <<p>>
    <3>1. /\ [proto |-> "Chap", code |-> "Success", id |-> 0, value |-> Vouching(nt)] \in ChapFrames
          /\ [proto |-> "Chap", code |-> "Failure", id |-> 0, value |-> Malformed] \in ChapFrames
      BY <2>2 DEF ChapFrames, ChapCodes
    <3> QED
      BY <1>2, <2>1, <3>1, SrvOnResponseEffect
  <2>5. \A p \in ChapFrames : p \in Packets /\ p.proto = "Chap"
    BY DEF ChapFrames, Packets
  <2>6. Listens /\ UNCHANGED <<lcp, ipcp, toSend, phase, bindVars, chapVars, outcome, responses>>
    BY <1>2, SrvOnResponseEffect DEF Listens
  <2> QED
    BY <1>2, <2>3, <2>4, <2>5, <2>6
<1>3. CASE SrvOnIpcpRequest
  <2>1. PICK r \in Frames("Ipcp", IpcpKinds, IpcpData) : SrvAnswersIpcp(r)
    BY <1>3, SrvOnIpcpRequestEffect
  <2>2. r \in Packets /\ r.proto = "Ipcp" /\ toClient' = toClient \o <<r>>
    BY <2>1, FramesAreSendable DEF SrvAnswersIpcp, Frames
  <2>3. /\ server'.bind = server.bind /\ server'.ipcpRejects = server.ipcpRejects
        /\ server'.accepted = server.accepted
        /\ server'.challenge = server.challenge /\ server'.keys = server.keys
        /\ server'.bound = server.bound
    BY <1>t, <2>1 DEF SrvAnswersIpcp, ServerType
  <2>4. Listens /\ EngineUntouched
    BY <1>3, SrvOnIpcpRequestEffect DEF Listens
  <2> QED
    BY <1>3, <2>1, <2>2, <2>3, <2>4 DEF EngineUntouched, engineVars, vars, bindVars, chapVars
<1> QED
  BY <1>1, <1>2, <1>3 DEF SrvNext

LEMMA NextPeerAuth ==
  ASSUME IInv, ChannelsOK, PeerAuthInv, [HandshakeNext]_allVars PROVE PeerAuthInv'
<1>1. CASE ClientStep
  <2>1. PICK p : p = Head(toClient)
    OBVIOUS
  <2>2. /\ p \in Packets /\ p \in Range(toClient) /\ OnPacket(p) /\ TypeOK
        /\ Range(toClient') \subseteq Range(toClient)
    BY <1>1, <2>1, ClientStepChannels DEF IInv
  <2>3. lcp'.remoteUp => lcp'.peerAuth = "MsChapV2"
    <3>1. CASE HandleLcp(p)
      BY <2>2, <3>1, LcpReceiveAuth DEF HandleLcp, PeerAuthInv, TypeOK
    <3>2. CASE OnCtrl(p) \/ OnOtherData(p)
      BY <2>2, <3>2, OnCtrlEffect, OnOtherDataEffect DEF PeerAuthInv
    <3>3. CASE HandleChap(p) \/ HandleIpcp(p)
      BY <2>2, <3>3, HandleChapEffect, HandleIpcpEffect DEF PeerAuthInv
    <3> QED
      BY <2>2, <3>1, <3>2, <3>3 DEF OnPacket
  <2> QED
    BY <2>2, <2>3 DEF PeerAuthInv
<1>2. CASE SrvNext
  <2>1. /\ Listens /\ lcp' = lcp
        /\ \/ toClient' = toClient
           \/ \E p \in Packets : AsksMsChapV2(p) /\ toClient' = toClient \o <<p>>
    <3>1. CASE SrvSimple
      BY <3>1, SrvSimpleEffect DEF Volunteered, EngineUntouched, engineVars, vars
    <3>2. CASE ~SrvSimple
      BY <1>2, <3>2, ServerAnswers DEF AsksMsChapV2
    <3> QED
      BY <3>1, <3>2
  <2> DEFINE P == {p \in Packets : AsksMsChapV2(p)}
  <2>2. toClient' = toClient \/ \E p \in P \cap Packets : toClient' = toClient \o <<p>>
    BY <2>1
  <2> HIDE DEF P
  <2>3. Range(toClient') \subseteq Range(toClient) \cup P
    BY <2>1, <2>2, ServerRanges
  <2> QED
    BY <2>1, <2>3 DEF PeerAuthInv, P
<1>3. CASE UNCHANGED allVars
  BY <1>3 DEF allVars, engineVars, vars, PeerAuthInv
<1> QED
  BY <1>1, <1>2, <1>3, NextCases

LEMMA SpecPeerAuth == HandshakeSpec => []PeerAuthInv
BY SpecChannels, InitPeerAuth, NextPeerAuth, PTL DEF HandshakeSpec

(***************************************************************************)
(* Addresses.                                                              *)
(***************************************************************************)

(* What the server is content with is an address for each kind it accepts.  *)
LEMMA SettledType ==
  ASSUME server \in ServerType
  PROVE  /\ Wanted \subseteq OurKinds /\ "IpAddress" \in Wanted
         /\ \A k \in OurKinds : k \in Wanted <=> k \notin server.ipcpRejects
         /\ DOMAIN Settled = Wanted
         /\ \A k \in Wanted : Settled[k] = Assigned(k) /\ Assigned(k) \in Addresses
BY AssignedType DEF Wanted, Settled, OurKinds, ServerType

(* Once settled, the server's suggestions and refusals change nothing.      *)
LEMMA SettledStays ==
  ASSUME server \in ServerType, NEW o,
         \/ \A k \in DOMAIN o : o[k] = Assigned(k)
         \/ DOMAIN o \subseteq server.ipcpRejects
  PROVE  /\ (\A k \in DOMAIN o : o[k] = Assigned(k)) => ApplyNak(Settled, o) = Settled
         /\ DOMAIN o \subseteq server.ipcpRejects => ApplyReject(Settled, o) = Settled
<1>1. ASSUME \A k \in DOMAIN o : o[k] = Assigned(k) PROVE ApplyNak(Settled, o) = Settled
  BY <1>1 DEF ApplyNak, Settled
<1>2. ASSUME DOMAIN o \subseteq server.ipcpRejects PROVE ApplyReject(Settled, o) = Settled
  <2>1. DOMAIN Settled \ DOMAIN o = Wanted
    BY <1>2 DEF Settled, Wanted
  <2> QED
    BY <2>1 DEF ApplyReject, Restrict, Settled
<1> QED
  BY <1>1, <1>2

(* Captured from the settled options, the addresses are the server's.       *)
LEMMA SettledIsCaptured ==
  ASSUME server \in ServerType, ipcp.desired = Settled,
         "PrimaryDns" \in server.ipcpRejects => ipcp.dns1 = None,
         "SecondaryDns" \in server.ipcpRejects => ipcp.dns2 = None
  PROVE  /\ Captured(ipcp, "IpAddress", ipcp.localIp) = ClientAddress
         /\ Captured(ipcp, "PrimaryDns", ipcp.dns1) = ServerName("PrimaryDns")
         /\ Captured(ipcp, "SecondaryDns", ipcp.dns2) = ServerName("SecondaryDns")
<1>1. {"IpAddress", "PrimaryDns", "SecondaryDns"} \subseteq OurKinds
  BY DEF OurKinds
<1>2. \A k \in OurKinds : \A old : Captured(ipcp, k, old) = IF k \in Wanted THEN Assigned(k) ELSE old
  BY SettledType DEF Captured
<1>3. /\ Assigned("IpAddress") = ClientAddress
      /\ Assigned("PrimaryDns") = DnsAddress /\ Assigned("SecondaryDns") = DnsAddress
  BY DEF Assigned
<1>4. /\ "IpAddress" \in Wanted
      /\ "PrimaryDns" \in Wanted <=> "PrimaryDns" \notin server.ipcpRejects
      /\ "SecondaryDns" \in Wanted <=> "SecondaryDns" \notin server.ipcpRejects
  BY <1>1, SettledType
<1> QED
  BY <1>1, <1>2, <1>3, <1>4 DEF ServerName

LEMMA InitAddress == HandshakeInit => AddressInv
<1> SUFFICES ASSUME HandshakeInit PROVE AddressInv
  OBVIOUS
<1> DEFINE p == [proto |-> "Ctrl", code |-> "ConnectRequest"]
<1>1. toServer = <<p>> /\ toClient = <<>> /\ ipcp = NewIpcp /\ phase = "WaitConnectAck"
  BY DEF HandshakeInit, Init
<1>2. Range(toServer) = {p} /\ Range(toClient) = {}
  BY <1>1, FewPackets
<1>3. Wanted \subseteq OurKinds
  BY DEF Wanted
<1> QED
  BY <1>1, <1>2, <1>3 DEF AddressInv, IpcpToServer, NewIpcp

(* Packets other than those of IPCP and the Success of CHAP.                *)
LEMMA EmitsNoIpcp ==
  ASSUME TypeOK, NEW p \in Packets, OnPacket(p), ~HandleIpcp(p), ~ChapAdmits(p)
  PROVE  /\ ipcp' = ipcp
         /\ phase' \in {"Ipcp", "Established"} => phase' = phase
         /\ \A q \in Range(Emitted') : q.proto # "Ipcp"
<1>n. ASSUME \/ Emitted' = <<>>
             \/ \E r : Emitted' = <<r>> /\ r.proto # "Ipcp"
      PROVE  \A q \in Range(Emitted') : q.proto # "Ipcp"
  <2>1. CASE Emitted' = <<>>
    BY <2>1, FewPackets
  <2>2. ASSUME NEW r, Emitted' = <<r>>, r.proto # "Ipcp"
        PROVE  \A q \in Range(Emitted') : q.proto # "Ipcp"
    BY <2>2, FewPackets
  <2> QED
    BY <1>n, <2>1, <2>2
<1>f. \A r \in Frames("Lcp", LcpKinds, LcpData) : r.proto # "Ipcp"
  BY DEF Frames
<1>1. CASE OnCtrl(p)
  BY <1>n, <1>f, <1>1, OnCtrlEffect DEF Sends, LcpRequests, OnConnectAck
<1>2. CASE HandleLcp(p)
  <2>1. Emitted' \in {<<>>, toSend'} /\ ipcp' = ipcp /\ (phase' = phase \/ phase' = "Chap")
    BY <1>2, HandleLcpEffect
  <2>2. toSend' = <<>> \/ \E r \in Frames("Lcp", LcpKinds, LcpData) : toSend' = <<r>>
    BY <1>2, HandleLcpEffect, LcpReceiveEffect DEF LcpKeepsOn, LcpRequests, TypeOK
  <2> QED
    BY <1>n, <1>f, <2>1, <2>2
<1>3. CASE HandleChap(p)
  <2>1. ChapAnswers(p) \/ (HandleChapFatal(p) /\ Emitted' = <<>>)
    BY <1>3, HandleChapEffect
  <2> QED
    BY <1>n, <2>1 DEF ChapAnswers, HandleChapFatal
<1>4. CASE OnOtherData(p)
  BY <1>n, <1>f, <1>4, OnOtherDataEffect
<1> QED
  BY <1>1, <1>2, <1>3, <1>4 DEF OnPacket

(* Once the options are settled, a frame of this server leaves them alone;  *)
(* it never makes us ask for less than the server accepts.                  *)
LEMMA FrameKeepsSettled ==
  ASSUME IInv, server \in ServerType, AddressInv, NEW p \in Range(toClient),
         p \in Frames("Ipcp", IpcpKinds, IpcpData), IpcpReceive(p)
  PROVE  /\ Wanted \subseteq DOMAIN ipcp'.desired /\ DOMAIN ipcp'.desired \subseteq OurKinds
         /\ ipcp.desired = Settled => ipcp'.desired = Settled
<1>1. p.proto = "Ipcp" /\ IpcpToClient(p) /\ Wanted \subseteq DOMAIN ipcp.desired
  BY DEF Frames, AddressInv
<1>2. ipcp' \in IpcpType
  BY IpcpReceiveType DEF IInv, TypeOK
<1>3. DOMAIN ipcp'.desired \subseteq OurKinds
  BY <1>2, OptionsElim DEF IpcpType
<1>4. CASE ipcp'.desired = ipcp.desired
  BY <1>1, <1>3, <1>4
<1>5. CASE p.code = "ConfigureNak" /\ ipcp'.desired = ApplyNak(ipcp.desired, p.opts)
  <2>1. \A k \in DOMAIN p.opts : p.opts[k] = Assigned(k)
    BY <1>1, <1>5 DEF IpcpToClient
  <2>2. DOMAIN ipcp'.desired = DOMAIN ipcp.desired
    BY <1>5 DEF ApplyNak
  <2> QED
    BY <1>1, <1>3, <1>5, <2>1, <2>2, SettledStays
<1>6. CASE p.code = "ConfigureReject" /\ ipcp'.desired = ApplyReject(ipcp.desired, p.opts)
  <2>1. DOMAIN p.opts \subseteq server.ipcpRejects
    BY <1>1, <1>6 DEF IpcpToClient
  <2>2. DOMAIN ipcp'.desired = DOMAIN ipcp.desired \ DOMAIN p.opts
    BY <1>6 DEF ApplyReject, Restrict
  <2>3. Wanted \subseteq DOMAIN ipcp'.desired
    BY <1>1, <2>1, <2>2 DEF Wanted
  <2> QED
    BY <1>3, <1>6, <2>1, <2>3, SettledStays
<1> QED
  BY <1>4, <1>5, <1>6, IpcpReceiveEffect DEF IpcpKeepsOn, IpcpCaptures, IInv, TypeOK

LEMMA ClientAddresses == ASSUME IInv, ChannelsOK, AddressInv, ClientStep PROVE AddressInv'
<1>1. PICK p : p = Head(toClient)
  OBVIOUS
<1>2. /\ p \in Packets /\ p \in Range(toClient) /\ OnPacket(p) /\ TypeOK /\ IInv'
      /\ Range(toClient') \subseteq Range(toClient)
      /\ Range(toServer') = Range(toServer) \cup Range(Emitted')
      /\ server' = server /\ server \in ServerType
  BY <1>1, ClientStepChannels DEF IInv, ChannelsOK, ClientStep
<1>3. Wanted' = Wanted /\ Settled' = Settled /\ (AddressesHeld' <=>
        /\ ipcp'.localIp = ClientAddress
        /\ ipcp'.dns1 = ServerName("PrimaryDns") /\ ipcp'.dns2 = ServerName("SecondaryDns"))
  BY <1>2 DEF Wanted, Settled, AddressesHeld, ServerName
<1>4. ASSUME Wanted \subseteq DOMAIN ipcp'.desired, ipcp.desired = Settled => ipcp'.desired = Settled,
             \A q \in Range(Emitted') :
               q.proto = "Ipcp" /\ q.code = "ConfigureRequest" =>
                 q.opts = ipcp'.desired /\ DOMAIN q.opts \subseteq OurKinds
      PROVE  /\ Wanted' \subseteq DOMAIN ipcp'.desired
             /\ \A q \in Range(toServer') : IpcpToServer(q)'
             /\ \A q \in Range(toClient') : IpcpToClient(q)'
  <2>1. \A q \in Range(toServer') : IpcpToServer(q)'
    BY <1>2, <1>3, <1>4 DEF AddressInv, IpcpToServer
  <2>2. \A q \in Range(toClient') : IpcpToClient(q)'
    BY <1>2, <1>3, <1>4 DEF AddressInv, IpcpToClient
  <2> QED
    BY <1>3, <1>4, <2>1, <2>2
<1>5. CASE ~HandleIpcp(p) /\ ~ChapAdmits(p)
  <2>1. /\ ipcp' = ipcp /\ (phase' = "Established" => phase = "Established")
        /\ \A q \in Range(Emitted') : q.proto # "Ipcp"
    BY <1>2, <1>5, EmitsNoIpcp
  <2> QED
    BY <1>2, <1>3, <1>4, <2>1 DEF AddressInv, AddressesHeld
<1>6. CASE ChapAdmits(p)
  <2>1. PICK r : Emitted' = <<r>> /\ r.opts = ipcp'.desired
    BY <1>6 DEF ChapAdmits, IpcpRequests
  <2>2. /\ ipcp'.desired = ipcp.desired /\ phase' = "Ipcp"
        /\ ipcp'.localUp = ipcp.localUp /\ ipcp'.remoteUp = ipcp.remoteUp
        /\ ipcp'.localIp = ipcp.localIp /\ ipcp'.peerIp = ipcp.peerIp
        /\ ipcp'.dns1 = ipcp.dns1 /\ ipcp'.dns2 = ipcp.dns2
    BY <1>2, <1>6, IpcpStartEffect DEF ChapAdmits, HandleChapSuccess, TypeOK
  <2>3. DOMAIN ipcp.desired \subseteq OurKinds
    BY <1>2, OptionsElim DEF TypeOK, IpcpType
  <2>4. \A q \in Range(Emitted') : q.opts = ipcp'.desired /\ DOMAIN q.opts \subseteq OurKinds
    BY <2>1, <2>2, <2>3, FewPackets
  <2> QED
    BY <1>2, <1>3, <1>4, <2>2, <2>4 DEF AddressInv, AddressesHeld
<1>7. CASE HandleIpcp(p)
  <2>1. /\ p \in Frames("Ipcp", IpcpKinds, IpcpData) /\ p.proto = "Ipcp" /\ IpcpReceive(p)
        /\ ipcp \in IpcpType /\ ipcp' \in IpcpType
        /\ phase' = "Established" => phase = "Established" \/ IpcpIsUp(ipcp')
    BY <1>2, <1>7, HandleIpcpEffect DEF IpcpOpens, HandleIpcp, IInv, TypeOK
  <2>2. /\ Wanted \subseteq DOMAIN ipcp'.desired /\ DOMAIN ipcp'.desired \subseteq OurKinds
        /\ ipcp.desired = Settled => ipcp'.desired = Settled
    BY <1>2, <2>1, FrameKeepsSettled
  <2>3. IpcpToClient(p)
    BY <1>2 DEF AddressInv
  <2>4. \A q \in Range(toSend') : q.proto = "Ipcp" /\ q.code = "ConfigureRequest" => q.opts = ipcp'.desired
    <3>1. CASE toSend' = <<>>
      BY <3>1, FewPackets
    <3>2. ASSUME NEW r, toSend' = <<r>>, r.code = "ConfigureRequest" => r.opts = ipcp'.desired
          PROVE  \A q \in Range(toSend') : q.code = "ConfigureRequest" => q.opts = ipcp'.desired
      BY <3>2, FewPackets
    <3> QED
      BY <2>1, <3>1, <3>2, IpcpReceiveEffect DEF IpcpKeepsOn, IpcpCaptures, IpcpRequests
  <2>5. \A q \in Range(Emitted') : q.proto = "Ipcp" /\ q.code = "ConfigureRequest" =>
                                      q.opts = ipcp'.desired /\ DOMAIN q.opts \subseteq OurKinds
    BY <1>2, <1>7, <2>2, <2>4, IpcpEmits
  <2>6. /\ "PrimaryDns" \in server.ipcpRejects => ipcp.dns1 = None
        /\ "SecondaryDns" \in server.ipcpRejects => ipcp.dns2 = None
    BY DEF AddressInv
  <2>7. \/ /\ ipcp'.localIp = ipcp.localIp /\ ipcp'.dns1 = ipcp.dns1 /\ ipcp'.dns2 = ipcp.dns2
           /\ ipcp'.localUp \in {ipcp.localUp, FALSE}
        \/ AddressesHeld'
    <3>1. CASE p.code = "ConfigureAck" /\ IpcpCaptures
      <4>1. ipcp.desired = Settled
        BY <2>1, <2>3, <3>1 DEF IpcpToClient
      <4> QED
        BY <1>2, <1>3, <2>6, <3>1, <4>1, SettledIsCaptured DEF IpcpCaptures
    <3>2. CASE ~(p.code = "ConfigureAck" /\ IpcpCaptures)
      BY <2>1, <3>2, IpcpReceiveEffect DEF IpcpKeepsOn
    <3> QED
      BY <3>1, <3>2
  <2>8. IpcpPeerKept \/ ipcp'.peerIp = DnsAddress
    <3>1. CASE p.code = "ConfigureRequest"
      <4>1. p.opts = [k \in {"IpAddress"} |-> DnsAddress]
        BY <2>1, <2>3, <3>1 DEF IpcpToClient
      <4>2. AnnouncedIp(ipcp, p.opts) = DnsAddress
        BY <4>1, AssignedAddresses DEF AnnouncedIp
      <4> QED
        BY <2>1, <4>2, IpcpReceiveEffect
    <3> QED
      BY <2>1, <3>1, IpcpReceiveEffect
  <2>9. ipcp'.localUp \/ phase' = "Established" => AddressesHeld'
    BY <1>3, <2>1, <2>7 DEF AddressInv, AddressesHeld, IpcpIsUp, IpcpType
  <2>10. ipcp'.remoteUp \/ phase' = "Established" => ipcp'.peerIp = DnsAddress
    BY <2>1, <2>8 DEF AddressInv, IpcpIsUp, IpcpPeerKept, IpcpType
  <2>11. /\ "PrimaryDns" \in server.ipcpRejects => ipcp'.dns1 = None
         /\ "SecondaryDns" \in server.ipcpRejects => ipcp'.dns2 = None
    BY <1>3, <2>6, <2>7 DEF ServerName
  <2> QED
    BY <1>2, <1>4, <2>2, <2>5, <2>9, <2>10, <2>11 DEF AddressInv
<1> QED
  BY <1>5, <1>6, <1>7

(* The server acknowledges only what it is content with. *)
LEMMA AnswerIsTrue ==
  ASSUME server \in ServerType, AddressInv, NEW r \in Frames("Ipcp", IpcpKinds, IpcpData), SrvAnswersIpcp(r),
         Head(toServer) \in Range(toServer),
         Head(toServer).proto = "Ipcp", Head(toServer).code = "ConfigureRequest",
         Head(toServer).opts \in Options(IpcpKinds, IpcpData)
  PROVE  IpcpToClient(r)
<1> DEFINE f == Head(toServer)
<1>1. /\ Wanted \subseteq DOMAIN f.opts /\ DOMAIN f.opts \subseteq OurKinds
      /\ f.opts = Settled => ipcp.desired = Settled
  BY DEF AddressInv, IpcpToServer
<1>2. CASE r.code = "ConfigureReject" /\ DOMAIN r.opts = DOMAIN f.opts \cap server.ipcpRejects
  BY <1>2 DEF IpcpToClient
<1>3. CASE r.code = "ConfigureNak" /\ \A k \in DOMAIN r.opts : r.opts[k] = Assigned(k)
  BY <1>3 DEF IpcpToClient
<1>4. CASE /\ r.code = "ConfigureAck" /\ DOMAIN f.opts \cap server.ipcpRejects = {}
           /\ {k \in DOMAIN f.opts : f.opts[k] # Assigned(k)} = {}
  <2>1. DOMAIN f.opts = Wanted
    BY <1>1, <1>4 DEF Wanted
  <2>2. f.opts = Settled
    <3>1. f.opts \in [DOMAIN f.opts -> IpcpData]
      BY OptionsElim
    <3>2. \A k \in Wanted : f.opts[k] = Assigned(k)
      BY <1>4, <2>1
    <3>3. Settled \in [Wanted -> IpcpData]
      BY SettledType DEF Settled, IpcpData
    <3>4. \A k \in Wanted : Settled[k] = Assigned(k)
      BY DEF Settled
    <3> HIDE DEF f
    <3> QED
      BY <2>1, <3>1, <3>2, <3>3, <3>4
  <2> QED
    BY <1>1, <1>4, <2>2 DEF IpcpToClient
<1> QED
  BY <1>2, <1>3, <1>4 DEF SrvAnswersIpcp

LEMMA ServerAddresses == ASSUME IInv, ChannelsOK, AddressInv, SrvNext PROVE AddressInv'
<1>t. server \in ServerType
  BY DEF ChannelsOK
<1>1. /\ Listens /\ UNCHANGED <<ipcp, phase>> /\ server'.ipcpRejects = server.ipcpRejects
      /\ \/ toClient' = toClient
         \/ \E p \in Packets : IpcpToClient(p) /\ toClient' = toClient \o <<p>>
  <2>1. CASE SrvSimple
    <3>1. \A p : Volunteered(p) => IpcpToClient(p)
      BY DEF Volunteered, IpcpToClient
    <3> QED
      BY <2>1, <3>1, SrvSimpleEffect DEF EngineUntouched, engineVars, vars
  <2>2. CASE ~SrvSimple
    <3>1. PICK p \in Packets : /\ toClient' = toClient \o <<p>>
                               /\ p.proto = "Ipcp" => SrvAnswersIpcp(p) /\ SrvOnIpcpRequest
      BY <2>2, ServerAnswers
    <3>2. p.proto = "Ipcp" => p \in Frames("Ipcp", IpcpKinds, IpcpData)
      BY PacketType
    <3>3. SrvOnIpcpRequest => Head(toServer) \in Range(toServer)
      BY SrvOnIpcpRequestEffect, FirstToServer
    <3>4. IpcpToClient(p)
      <4>1. CASE p.proto = "Ipcp"
        BY <1>t, <3>1, <3>2, <3>3, <4>1, AnswerIsTrue, SrvOnIpcpRequestEffect
      <4>2. CASE p.proto # "Ipcp"
        BY <4>2 DEF IpcpToClient
      <4> QED
        BY <4>1, <4>2
    <3> QED
      BY <2>2, <3>1, <3>4, ServerAnswers
  <2> QED
    BY <2>1, <2>2
<1> DEFINE P == {p \in Packets : IpcpToClient(p)}
<1>2. /\ Range(toServer') \subseteq Range(toServer)
      /\ \A p \in Range(toClient') : p \in Range(toClient) \/ IpcpToClient(p)
  <2>1. toClient' = toClient \/ \E p \in P \cap Packets : toClient' = toClient \o <<p>>
    BY <1>1
  <2>2. \A p \in P : IpcpToClient(p)
    OBVIOUS
  <2> HIDE DEF P
  <2> QED
    BY <1>1, <2>1, <2>2, ServerRanges
<1>3. Wanted' = Wanted /\ Settled' = Settled
  BY <1>1 DEF Wanted, Settled
<1>4. \A p \in Range(toServer') : IpcpToServer(p)'
  BY <1>1, <1>2, <1>3 DEF AddressInv, IpcpToServer
<1>5. \A p \in Range(toClient') : IpcpToClient(p)'
  BY <1>1, <1>2, <1>3 DEF AddressInv, IpcpToClient
<1>6. AddressesHeld' <=> AddressesHeld
  BY <1>1 DEF AddressesHeld, ServerName
<1> QED
  BY <1>1, <1>3, <1>4, <1>5, <1>6 DEF AddressInv

LEMMA NextAddress ==
  ASSUME IInv, ChannelsOK, AddressInv, [HandshakeNext]_allVars PROVE AddressInv'
<1>1. CASE UNCHANGED allVars
  BY <1>1 DEF allVars, engineVars, vars, AddressInv, IpcpToServer, IpcpToClient, Wanted, Settled,
              AddressesHeld, ServerName
<1> QED
  BY <1>1, ClientAddresses, ServerAddresses, NextCases

LEMMA SpecAddress == HandshakeSpec => []AddressInv
BY SpecChannels, InitAddress, NextAddress, PTL DEF HandshakeSpec

(* The addresses of an established tunnel are the ones the server assigned, *)
(* however many of our requests were in flight at once.                     *)
THEOREM HandshakeAddressAgreement == HandshakeSpec => []AddressAgreement
<1>1. AddressInv => AddressAgreement
  BY DEF AddressInv, AddressesHeld, ServerName, AddressAgreement
<1> QED
  BY SpecAddress, <1>1, PTL

(***************************************************************************)
(* The binding that is offered.                                            *)
(***************************************************************************)
LEMMA HeadAfterSend ==
  ASSUME NEW S, NEW q \in Seq(S), NEW p \in S
  PROVE  /\ q # <<>> => q \o <<p>> # <<>> /\ Head(q \o <<p>>) = Head(q)
         /\ q = <<>> => q \o <<p>> # <<>> /\ Head(q \o <<p>>) = p
<1>1. q \o <<p>> = Append(q, p)
  BY AppendIsConcat
<1>2. Append(q, p) # <<>>
  BY AppendProperties
<1>3. Head(Append(q, p)) = IF q = <<>> THEN p ELSE Head(q)
  BY HeadTailAppend
<1> QED
  BY <1>1, <1>2, <1>3

LEMMA InitOffer == HandshakeInit => OfferInv
<1> SUFFICES ASSUME HandshakeInit PROVE OfferInv
  OBVIOUS
<1> DEFINE p == [proto |-> "Ctrl", code |-> "ConnectRequest"]
<1>1. toServer = <<p>> /\ toClient = <<>> /\ phase = "WaitConnectAck"
  BY DEF HandshakeInit, Init
<1>2. Range(toServer) = {p} /\ Range(toClient) = {}
  BY <1>1, FewPackets
<1>3. ~server.accepted /\ ~server.lcpAcked /\ server.keys = None
  BY NewServerType DEF HandshakeInit
<1> QED
  BY <1>1, <1>2, <1>3 DEF OfferInv

(* The first CONNECT_ACK is the one that counts. *)
LEMMA ClientOffer == ASSUME IInv, ChannelsOK, OfferInv, ClientStep PROVE OfferInv'
<1>1. PICK p : p = Head(toClient)
  OBVIOUS
<1>2. /\ p \in Packets /\ p \in Range(toClient) /\ OnPacket(p) /\ TypeOK
      /\ toClient # <<>> /\ Range(toClient') \subseteq Range(toClient)
      /\ server' = server /\ server \in ServerType
  BY <1>1, ClientStepChannels DEF IInv, ChannelsOK, ClientStep
<1>3. server.accepted
  BY <1>2 DEF OfferInv, ServerType
<1>4. CASE phase = "WaitConnectAck"
  <2>1. p.proto = "Ctrl" /\ p.code = "ConnectAck" /\ p.bind = server.bind /\ p.bind \in Bindings
    BY <1>1, <1>2, <1>3, <1>4 DEF OfferInv, ServerType
  <2>2. OnConnectAck(p)
    BY <1>2, <1>4, <2>1 DEF OnPacket, OnCtrl, OnCtrlFatal, OnDisconnect, OnCtrlIdle, ConnectAckExpected,
                            HandleLcp, HandleChap, HandleIpcp, OnOtherData
  <2>3. phase' = "Lcp" /\ hashAlgo' = server.bind.algo /\ serverNonce' = server.bind.nonce
    BY <2>1, <2>2 DEF OnConnectAck
  <2> QED
    BY <1>2, <1>3, <2>3 DEF OfferInv
<1>5. CASE phase # "WaitConnectAck"
  <2>1. UNCHANGED <<hashAlgo, serverNonce>> /\ phase' # "WaitConnectAck"
    <3>1. CASE OnCtrl(p)
      BY <1>2, <1>5, <3>1, OnCtrlEffect DEF OnConnectAck, ConnectAckExpected, bindVars
    <3>2. CASE HandleLcp(p) \/ HandleIpcp(p) \/ OnOtherData(p)
      BY <1>2, <1>5, <3>2, HandleLcpEffect, HandleIpcpEffect, OnOtherDataEffect DEF IpcpOpens, bindVars
    <3>3. CASE HandleChap(p)
      BY <1>2, <1>5, <3>3, HandleChapEffect DEF ChapAnswers, ChapAdmits, HandleChapFatal, bindVars
    <3> QED
      BY <1>2, <3>1, <3>2, <3>3 DEF OnPacket
  <2> QED
    BY <1>2, <1>3, <1>5, <2>1 DEF OfferInv
<1> QED
  BY <1>4, <1>5

(* The server begins with its offer, and what it says later comes behind.   *)
LEMMA ServerOffer == ASSUME IInv, ChannelsOK, OfferInv, SrvNext PROVE OfferInv'
<1>t. server \in ServerType /\ toClient \in Seq(Packets)
  BY DEF ChannelsOK
<1>1. /\ Listens /\ UNCHANGED <<phase, hashAlgo, serverNonce>> /\ server'.bind = server.bind
      /\ server.accepted => server'.accepted
      /\ \/ toClient' = toClient
         \/ \E p \in Packets : Peaceful(p) /\ toClient' = toClient \o <<p>>
  <2>1. CASE SrvSimple
    BY <2>1, SrvSimpleEffect DEF Volunteered, EngineUntouched, engineVars, vars
  <2>2. CASE ~SrvSimple
    <3>1. \E p \in Packets : Peaceful(p) /\ toClient' = toClient \o <<p>>
      BY <2>2, ServerAnswers DEF Peaceful
    <3> QED
      BY <2>2, <3>1, ServerAnswers DEF bindVars
  <2> QED
    BY <2>1, <2>2
<1>2. \A p \in Range(toClient') : Peaceful(p)
  <2> DEFINE P == {p \in Packets : Peaceful(p)}
  <2>1. toClient' = toClient \/ \E p \in P \cap Packets : toClient' = toClient \o <<p>>
    BY <1>1
  <2>2. \A p \in P : Peaceful(p)
    OBVIOUS
  <2> HIDE DEF P
  <2> QED
    BY <1>1, <2>1, <2>2, ServerRanges DEF OfferInv
<1>3. CASE server.accepted
  <2>1. phase' = "WaitConnectAck" => /\ toClient' # <<>>
                                     /\ Head(toClient') = [proto |-> "Ctrl", code |-> "ConnectAck",
                                                           bind |-> server.bind]
    <3>1. ASSUME toClient # <<>>
          PROVE  toClient' # <<>> /\ Head(toClient') = Head(toClient)
      <4>1. ASSUME NEW p \in Packets, toClient' = toClient \o <<p>>
            PROVE  toClient' # <<>> /\ Head(toClient') = Head(toClient)
        BY <1>t, <3>1, <4>1, HeadAfterSend
      <4> QED
        BY <1>1, <3>1, <4>1
    <3> QED
      BY <1>1, <1>3, <3>1 DEF OfferInv
  <2> QED
    BY <1>1, <1>2, <1>3, <2>1 DEF OfferInv
<1>4. CASE ~server.accepted
  <2>1. /\ phase = "WaitConnectAck" /\ toClient = <<>> /\ ~LcpOpen /\ server.keys = None
        /\ \A p \in Range(toServer) : p.proto = "Ctrl" /\ p.code = "ConnectRequest"
    BY <1>4 DEF OfferInv, LcpOpen
  <2>2. toServer # <<>> => Head(toServer).proto = "Ctrl" /\ Head(toServer).code = "ConnectRequest"
    BY <2>1, FirstToServer
  <2>3. SrvAccept
    BY <1>4, <2>1, <2>2
       DEF SrvNext, SrvSimple, SrvLcpRequest, SrvOnLcpRequest, SrvOnLcpAnswer, SrvChallenge,
           SrvOnResponse, SrvIpcpRequest, SrvOnIpcpRequest, SrvOnIpcpAnswer, SrvOnConnected,
           SrvOnOther, SrvNoise, Receive
  <2> DEFINE a == [proto |-> "Ctrl", code |-> "ConnectAck", bind |-> server.bind]
  <2>4. toClient' = toClient \o <<a>> /\ server'.accepted
    BY <1>t, <2>3 DEF SrvAccept, Send, ServerType
  <2>5. a \in Packets
    BY <1>t, CtrlIsSendable DEF CtrlPackets, CtrlCodes, ServerType
  <2>6. toClient' # <<>> /\ Head(toClient') = a
    BY <1>t, <2>1, <2>4, <2>5, HeadAfterSend
  <2> QED
    BY <1>1, <1>2, <2>1, <2>4, <2>6 DEF OfferInv
<1> QED
  BY <1>3, <1>4

LEMMA NextOffer ==
  ASSUME IInv, ChannelsOK, OfferInv, [HandshakeNext]_allVars PROVE OfferInv'
<1>1. CASE UNCHANGED allVars
  BY <1>1 DEF allVars, engineVars, vars, OfferInv
<1> QED
  BY <1>1, ClientOffer, ServerOffer, NextCases

LEMMA SpecOffer == HandshakeSpec => []OfferInv
BY SpecChannels, InitOffer, NextOffer, PTL DEF HandshakeSpec

(***************************************************************************)
(* Authentication.                                                         *)
(***************************************************************************)
LEMMA InitAuth == HandshakeInit => AuthInv
<1> SUFFICES ASSUME HandshakeInit PROVE AuthInv
  OBVIOUS
<1> DEFINE p == [proto |-> "Ctrl", code |-> "ConnectRequest"]
<1>1. toServer = <<p>> /\ toClient = <<>> /\ phase = "WaitConnectAck" /\ Role(p) # "auth"
  BY DEF HandshakeInit, Init, Role
<1>2. /\ Without(toServer, "auth") /\ AtMostOne(toServer, "auth") /\ Range(toServer) = {p}
      /\ Without(toClient, "auth") /\ AtMostOne(toClient, "auth") /\ Range(toClient) = {}
  BY <1>1, FewPackets
<1>3. BindingAccepted /\ server.bound = "no"
  BY NewServerType DEF HandshakeInit, BindingAccepted, NewServer
<1> QED
  BY <1>1, <1>2, <1>3 DEF AuthInv, NoAuthToken, NoToken, OneToken, AuthToServer

(* What this server sends of CHAP is always as the engine expects it.       *)
LEMMA ChapIsExpected ==
  ASSUME IInv, AuthInv, NEW p \in Packets, p \in Range(toClient), HandleChap(p)
  PROVE  \/ p.code = "Challenge" /\ p.value = server.challenge /\ ChapAnswers(p)
         \/ /\ p.code = "Success" /\ ChapAdmits(p)
            /\ mppeKeys' = server.keys /\ server.challenge = None
<1>0. p.proto = "Chap" /\ AuthToClient(p)
  BY DEF HandleChap, AuthInv
<1>1. CASE p.code = "Challenge" /\ p.value = server.challenge /\ p.value \in Challenges
  BY <1>1, HandleChapEffect DEF ChapAdmits, HandleChapSuccess, HandleChapFatal, IInv
<1>2. CASE /\ p.code = "Success" /\ pendingChap # None
           /\ p.value = Vouching(pendingChap.ntResponse)
           /\ server.challenge = None /\ server.keys = MppeKeys(pendingChap.ntResponse)
  <2>1. /\ pendingChap \in PendingResponses
        /\ pendingChap.ntResponse = NtResponse(authChallenge, pendingChap.peerChallenge)
    BY <1>2 DEF IInv, TypeOK, PendingMatchesChallenge
  <2>2. authChallenge # None
    <3>1. pendingChap.ntResponse \in NtResponses
      BY <2>1 DEF PendingResponses
    <3>2. authChallenge \in Challenges
      BY <2>1, <3>1 DEF NtResponse, NtResponses
    <3> QED
      BY <3>2, OptionsAreDistinct
  <2>3. Verified(p)
    BY <1>2, <2>1, <2>2 DEF Verified, VerifySuccess, Vouching, Authenticator, NtResponse
  <2>4. ChapAdmits(p)
    BY <1>2, <2>3, HandleChapEffect DEF ChapAnswers, HandleChapFatal, IInv
  <2> QED
    BY <1>2, <2>4 DEF ChapAdmits
<1> QED
  BY <1>0, <1>1, <1>2 DEF AuthToClient

(* The client answers a Challenge, starts IPCP on a Success, and when IPCP  *)
(* opens spends the keys on CONNECTED.                                      *)
LEMMA ClientAuth ==
  ASSUME IInv, ChannelsOK, OfferInv, AuthInv, ClientStep PROVE AuthInv'
<1>1. PICK p : p = Head(toClient)
  OBVIOUS
<1>2. /\ toClient # <<>> /\ toClient \in Seq(Packets) /\ toServer \in Seq(ClientPackets)
      /\ p \in Packets /\ p \in Range(toClient) /\ OnPacket(p)
      /\ toClient' = Tail(toClient) /\ Range(toClient') \subseteq Range(toClient)
      /\ Emitted' \in Seq(ClientPackets)
      /\ toServer' = toServer \o Emitted' /\ Range(toServer') = Range(toServer) \cup Range(Emitted')
      /\ server' = server /\ TypeOK
  BY <1>1, ClientStepChannels DEF ClientStep, ChannelsOK, IInv
<1>3. /\ OneToken(toClient, "auth", toServer, "auth")
      /\ NoToken(toClient, "auth", toServer, "auth") <=> NoAuthToken
      /\ OneToken(toServer', "auth", toClient', "auth")
           <=> OneToken(toClient', "auth", toServer', "auth")
      /\ NoToken(toClient', "auth", toServer', "auth") <=> NoAuthToken'
      /\ ServerIdle' <=> ServerIdle
      /\ BindingAccepted'
  BY <1>2 DEF AuthInv, OneToken, NoToken, NoAuthToken, ServerIdle, BindingAccepted
<1>4. Role(p) = "auth" => phase # "Ipcp" /\ ~ServerIdle /\ ~NoAuthToken
  BY <1>2 DEF AuthInv, NoAuthToken, NoToken, Without
<1>n. ASSUME \/ Emitted' = <<>>
             \/ \E r : Emitted' = <<r>> /\ Role(r) # "auth"
      PROVE  Without(Emitted', "auth")
  <2>1. CASE Emitted' = <<>>
    BY <2>1, FewPackets
  <2>2. ASSUME NEW r, Emitted' = <<r>>, Role(r) # "auth"
        PROVE  Without(Emitted', "auth")
    BY <2>2, FewPackets
  <2> QED
    BY <1>n, <2>1, <2>2
<1>f. \A r \in Frames("Lcp", LcpKinds, LcpData) \cup Frames("Ipcp", IpcpKinds, IpcpData) : Role(r) # "auth"
  BY DEF Frames, Role
<1>5. ASSUME Role(p) # "auth", Without(Emitted', "auth"), UNCHANGED <<pendingChap, mppeKeys>>,
             phase' = "Ipcp" => phase = "Ipcp",
             phase = "Established" => phase' = "Established"
      PROVE  AuthInv'
  <2>1. /\ OneToken(toClient', "auth", toServer', "auth")
        /\ NoAuthToken => NoAuthToken'
    BY <1>1, <1>2, <1>3, <1>5, PassToken
  <2>2. \A q \in Range(toClient') : AuthToClient(q)'
    BY <1>2, <1>5 DEF AuthInv, AuthToClient
  <2>3. \A q \in Range(toServer') : AuthToServer(q)'
    <3>1. ASSUME NEW q \in Range(Emitted') PROVE AuthToServer(q)'
      BY <1>5, <3>1, LinkRoles DEF Without, AuthToServer
    <3> QED
      BY <1>2, <1>5, <3>1 DEF AuthInv, AuthToServer, TunnelHeld
  <2> QED
    BY <1>2, <1>3, <1>5, <2>1, <2>2, <2>3 DEF AuthInv, TunnelHeld
<1>6. CASE HandleChap(p)
  <2>1. Role(p) = "auth" /\ p.proto = "Chap"
    BY <1>6, LinkRoles DEF HandleChap
  <2>2. Without(toServer, "auth") /\ Without(toClient', "auth") /\ AtMostOne(toClient', "auth")
    BY <1>1, <1>2, <1>3, <2>1, TakeToken DEF OneToken, Without
  <2>3. \A q \in Range(toClient') : AuthToClient(q)'
    BY <2>2, LinkRoles DEF Without, AuthToClient
  <2>4. \A q \in Range(toServer) : AuthToServer(q)'
    BY <2>2, LinkRoles DEF Without, AuthToServer
  <2>5. CASE p.value = server.challenge /\ ChapAnswers(p)
    <3>1. PICK nt \in NtResponses :
            /\ nt.authChallenge = p.value /\ pendingChap' = Pending(nt)
            /\ Emitted' = <<[proto |-> "Chap", code |-> "Response", id |-> p.id, value |-> nt]>>
      BY <2>5 DEF ChapAnswers
    <3> DEFINE r == [proto |-> "Chap", code |-> "Response", id |-> p.id, value |-> nt]
    <3>2. pendingChap' # None /\ pendingChap'.ntResponse = nt
      <4>1. Pending(nt) \in PendingResponses
        BY DEF Pending, PendingResponses, NtResponses
      <4> QED
        BY <3>1, <4>1, OptionsAreDistinct DEF Pending
    <3>3. AuthToServer(r)'
      BY <1>2, <2>5, <3>1, <3>2 DEF AuthToServer
    <3>4. Range(Emitted') = {r} /\ AtMostOne(Emitted', "auth")
      BY <3>1, FewPackets
    <3>5. AtMostOne(toServer', "auth")
      BY <1>2, <2>2, <3>4, GiveToken
    <3>6. phase' # "Ipcp"
      BY <1>4, <2>1, <2>5 DEF ChapAnswers
    <3> HIDE DEF r
    <3>7. \A q \in Range(toServer') : AuthToServer(q)'
      BY <1>2, <2>4, <3>3, <3>4
    <3>8. server'.bound = "yes" => TunnelHeld'
      BY <1>2, <2>5 DEF AuthInv, TunnelHeld, ChapAnswers
    <3> QED
      BY <1>3, <1>4, <2>1, <2>2, <2>3, <3>5, <3>6, <3>7, <3>8 DEF AuthInv, OneToken
  <2>6. CASE ChapAdmits(p) /\ mppeKeys' = server.keys /\ server.challenge = None
    <3>1. Without(Emitted', "auth")
      BY <1>n, <1>f, <2>6 DEF ChapAdmits, IpcpRequests
    <3>2. NoAuthToken' /\ OneToken(toServer', "auth", toClient', "auth")
      BY <1>1, <1>2, <1>3, <2>1, <3>1, PassToken
    <3>3. \A q \in Range(toServer') : AuthToServer(q)'
      BY <3>2, LinkRoles DEF NoAuthToken, NoToken, Without, AuthToServer
    <3>4. server'.bound # "yes"
      BY <1>2, <1>4, <2>1, <2>6 DEF ServerIdle
    <3> QED
      BY <1>2, <1>3, <1>4, <2>1, <2>3, <2>6, <3>2, <3>3, <3>4 DEF AuthInv
  <2> QED
    BY <1>2, <1>6, <2>5, <2>6, ChapIsExpected
<1>7. CASE HandleIpcp(p)
  <2>1. /\ UNCHANGED <<pendingChap, mppeKeys>> /\ Role(p) # "auth"
        /\ IpcpOpens \/ phase' = phase
    BY <1>2, <1>7, HandleIpcpEffect DEF chapVars, HandleIpcp, Role
  <2>2. CASE ~IpcpOpens
    <3>1. Without(Emitted', "auth")
      BY <1>2, <1>7, <2>2, IpcpEmits
    <3> QED
      BY <1>5, <2>1, <2>2, <3>1
  <2>3. CASE IpcpOpens
    <3>1. /\ phase = "Ipcp" /\ phase' = "Established" /\ NoAuthToken /\ ~ServerIdle
          /\ mppeKeys = server.keys /\ server.challenge = None
      BY <2>3 DEF IpcpOpens, AuthInv
    <3>2. AtMostOne(Emitted', "auth")
      BY <1>2, <1>7, IpcpEmits
    <3>3. /\ Without(toServer, "auth") /\ Without(toClient', "auth")
          /\ AtMostOne(toServer', "auth") /\ AtMostOne(toClient', "auth")
      BY <1>2, <1>3, <3>1, <3>2, GiveToken, TakeToken DEF NoAuthToken, NoToken, Without, OneToken
    <3>4. hashAlgo = server.bind.algo /\ serverNonce = server.bind.nonce
      BY <3>1 DEF OfferInv
    <3>5. ASSUME NEW q \in Range(Emitted') PROVE AuthToServer(q)'
      <4>1. q.proto # "Chap"
        BY <1>2, <1>7, IpcpEmits
      <4>2. q.proto = "Ctrl" /\ q.code = "Connected" => q = Connected'
        <5>1. q \in Range(toSend') \cup {Connected'}
          BY <1>2, <1>7, IpcpEmits
        <5>2. \A r \in Range(toSend') : r.proto = "Ipcp"
          <6>1. CASE toSend' = <<>>
            BY <6>1, FewPackets
          <6>2. ASSUME NEW r \in Frames("Ipcp", IpcpKinds, IpcpData), toSend' = <<r>>
                PROVE  \A x \in Range(toSend') : x.proto = "Ipcp"
            BY <6>2, FewPackets DEF Frames
          <6> QED
            BY <1>2, <1>7, <6>1, <6>2, IpcpEmits
        <5> QED
          BY <5>1, <5>2
      <4>3. Connected'.bind = [algo |-> server.bind.algo, nonce |-> server.bind.nonce,
                               keys |-> server.keys]
        BY <1>2, <1>7, <3>1, <3>4, IpcpEmits
      <4> QED
        BY <1>2, <2>1, <3>1, <4>1, <4>2, <4>3 DEF AuthToServer, TunnelHeld
    <3>6. \A q \in Range(toServer') : AuthToServer(q)'
      BY <1>2, <3>3, <3>5, LinkRoles DEF Without, AuthToServer
    <3>7. \A q \in Range(toClient') : AuthToClient(q)'
      BY <3>3, LinkRoles DEF Without, AuthToClient
    <3>8. server'.bound # "yes"
      BY <1>2, <3>1 DEF ServerIdle
    <3> QED
      BY <1>3, <3>1, <3>3, <3>6, <3>7, <3>8 DEF AuthInv, OneToken
  <2> QED
    BY <2>2, <2>3
<1>8. CASE OnCtrl(p) \/ HandleLcp(p) \/ OnOtherData(p)
  <2>1. Role(p) # "auth"
    BY <1>2, <1>8, LinkRoles DEF OnCtrl, HandleLcp, OnOtherData, OfferInv, Peaceful
  <2>2. /\ UNCHANGED <<pendingChap, mppeKeys>> /\ (phase' = "Ipcp" => phase = "Ipcp")
        /\ phase = "Established" => phase' = "Established"
    BY <1>2, <1>8, OnCtrlEffect, HandleLcpEffect, OnOtherDataEffect
       DEF OnConnectAck, ConnectAckExpected, chapVars
  <2>3. Without(Emitted', "auth")
    <3>1. CASE OnCtrl(p)
      BY <1>n, <1>f, <1>2, <3>1, OnCtrlEffect, LinkRoles DEF Sends, LcpRequests
    <3>2. CASE HandleLcp(p)
      <4>1. Emitted' \in {<<>>, toSend'}
        BY <1>2, <3>2, HandleLcpEffect
      <4>2. toSend' = <<>> \/ \E r \in Frames("Lcp", LcpKinds, LcpData) : toSend' = <<r>>
        BY <1>2, <3>2, HandleLcpEffect, LcpReceiveEffect DEF LcpKeepsOn, LcpRequests, TypeOK
      <4> QED
        BY <1>n, <1>f, <4>1, <4>2
    <3>3. CASE OnOtherData(p)
      BY <1>n, <1>f, <1>2, <3>3, OnOtherDataEffect
    <3> QED
      BY <1>8, <3>1, <3>2, <3>3
  <2> QED
    BY <1>5, <2>1, <2>2, <2>3
<1> QED
  BY <1>2, <1>6, <1>7, <1>8 DEF OnPacket

(* A step of the server that has no part in it. *)
LEMMA QuietServerAuth ==
  ASSUME ChannelsOK, AuthInv, Listens, UNCHANGED <<phase, mppeKeys, pendingChap>>,
         server'.bind = server.bind, server'.challenge = server.challenge,
         server'.keys = server.keys, server'.bound = server.bound,
         \/ toClient' = toClient
         \/ \E p \in Packets : Role(p) # "auth" /\ toClient' = toClient \o <<p>>
  PROVE  AuthInv'
<1>1. /\ OneToken(toServer', "auth", toClient', "auth")
      /\ NoAuthToken => NoAuthToken'
  BY QuietServer DEF AuthInv, NoAuthToken
<1>2. /\ Range(toServer') \subseteq Range(toServer)
      /\ Range(toClient') \subseteq Range(toClient) \cup {p \in Packets : Role(p) # "auth"}
  <2> DEFINE P == {p \in Packets : Role(p) # "auth"}
  <2>1. toClient' = toClient \/ \E p \in P \cap Packets : toClient' = toClient \o <<p>>
    OBVIOUS
  <2> HIDE DEF P
  <2>2. Range(toServer') \subseteq Range(toServer) /\ Range(toClient') \subseteq Range(toClient) \cup P
    BY <2>1, ServerRanges
  <2> QED
    BY <2>2 DEF P
<1>3. \A q \in Range(toClient') : AuthToClient(q)'
  BY <1>2, LinkRoles DEF AuthInv, AuthToClient
<1>4. \A q \in Range(toServer') : AuthToServer(q)'
  BY <1>2 DEF AuthInv, AuthToServer, TunnelHeld
<1>5. /\ (ServerIdle' <=> ServerIdle) /\ BindingAccepted'
      /\ server'.bound = "yes" => TunnelHeld'
  BY DEF ServerIdle, BindingAccepted, AuthInv, TunnelHeld
<1> QED
  BY <1>1, <1>3, <1>4, <1>5 DEF AuthInv

(* A Challenge begins when nothing is in flight, a Success answers our      *)
(* Response, and CONNECTED carries what the server holds.                   *)
LEMMA ServerAuth ==
  ASSUME IInv, ChannelsOK, AuthInv, SrvNext PROVE AuthInv'
<1>t. server \in ServerType /\ toClient \in Seq(Packets) /\ toServer \in Seq(ClientPackets)
  BY DEF ChannelsOK
<1>1. CASE SrvChallenge
  <2>1. PICK c \in Challenges :
          /\ server' = [server EXCEPT !.challenge = c,
                                      !.reauths = IF server.keys = None THEN 0 ELSE @ + 1]
          /\ toClient' = toClient \o <<[proto |-> "Chap", code |-> "Challenge", id |-> 0, value |-> c]>>
    BY <1>1 DEF SrvChallenge, Send
  <2> DEFINE p == [proto |-> "Chap", code |-> "Challenge", id |-> 0, value |-> c]
  <2>2. ServerIdle /\ toServer' = toServer /\ phase' = phase
    BY <1>1 DEF SrvChallenge, ServerIdle, EngineUntouched, engineVars, vars
  <2>3. NoAuthToken /\ phase' # "Ipcp"
    BY <2>2 DEF AuthInv
  <2>4. server'.challenge = c /\ c # None /\ server'.bound = server.bound
    BY <1>t, <2>1, OptionsAreDistinct DEF ServerType
  <2>5. p \in Packets
    BY <1>t, IdModulusAssumption DEF Packets, ChapFrames, ChapCodes, Id
  <2>6. Range(toClient') = Range(toClient) \cup {p}
    BY <1>t, <2>1, <2>5, SendOne
  <2>7. OneToken(toServer', "auth", toClient', "auth")
    <3>1. AtMostOne(<<p>>, "auth") /\ <<p>> \in Seq(Packets)
      BY <2>5, FewPackets
    <3> QED
      BY <1>t, <2>1, <2>2, <2>3, <3>1, MakeToken DEF AuthInv, NoAuthToken
  <2>8. AuthToClient(p)'
    BY <2>4 DEF AuthToClient
  <2>9. \A q \in Range(toClient') : AuthToClient(q)'
    <3>1. \A q \in Range(toClient) : AuthToClient(q)'
      BY <2>3, LinkRoles DEF NoAuthToken, NoToken, Without, AuthToClient
    <3> HIDE DEF p
    <3> QED
      BY <2>6, <2>8, <3>1
  <2>10. \A q \in Range(toServer') : AuthToServer(q)'
    BY <2>2, <2>3, LinkRoles DEF NoAuthToken, NoToken, Without, AuthToServer
  <2>11. /\ ~ServerIdle' /\ BindingAccepted'
         /\ server'.bound = "yes" => TunnelHeld'
    <3>1. server'.keys = server.keys /\ mppeKeys' = mppeKeys
      BY <1>1, <1>t, <2>1 DEF ServerType, SrvChallenge, EngineUntouched, engineVars, vars
    <3> QED
      BY <2>2, <2>4, <3>1 DEF ServerIdle, BindingAccepted, AuthInv, TunnelHeld
  <2> QED
    BY <2>3, <2>7, <2>9, <2>10, <2>11 DEF AuthInv
<1>2. CASE SrvOnConnected
  <2>1. /\ toServer # <<>> /\ toServer' = Tail(toServer) /\ toClient' = toClient
        /\ Head(toServer).proto = "Ctrl" /\ Head(toServer).code = "Connected"
        /\ Head(toServer) \in Range(toServer)
        /\ UNCHANGED <<phase, mppeKeys, pendingChap>>
    BY <1>2, <1>t, FirstToServer, ConcatEmptySeq
       DEF SrvOnConnected, Receive, Send, EngineUntouched, engineVars, vars
  <2>2. Role(Head(toServer)) = "auth" /\ AuthToServer(Head(toServer))
    BY <2>1 DEF Role, AuthInv
  <2>3. server' = [server EXCEPT !.bound = "yes"]
    BY <1>2, <2>1, <2>2 DEF SrvOnConnected, AuthToServer
  <2>4. NoAuthToken' /\ OneToken(toServer', "auth", toClient', "auth")
    BY <2>1, <2>2, QuietServer DEF Listens, AuthInv, NoAuthToken
  <2>5. phase' # "Ipcp"
    BY <2>1, <2>2 DEF AuthInv, NoAuthToken, NoToken, Without
  <2>6. /\ \A q \in Range(toClient') : AuthToClient(q)'
        /\ \A q \in Range(toServer') : AuthToServer(q)'
    BY <2>4, LinkRoles DEF NoAuthToken, NoToken, Without, AuthToClient, AuthToServer
  <2>7. BindingAccepted' /\ TunnelHeld'
    BY <1>t, <2>1, <2>2, <2>3 DEF BindingAccepted, ServerType, AuthToServer, TunnelHeld
  <2> QED
    BY <2>4, <2>5, <2>6, <2>7 DEF AuthInv
<1>3. CASE SrvOnResponse
  <2>1. PICK nt : nt = Head(toServer).value
    OBVIOUS
  <2>2. /\ toServer # <<>> /\ toServer' = Tail(toServer) /\ Head(toServer).proto = "Chap"
        /\ Head(toServer) \in Range(toServer) /\ nt \in NtResponses
        /\ UNCHANGED <<phase, mppeKeys, pendingChap>>
    BY <1>3, <2>1, SrvOnResponseEffect DEF IInv, TypeOK, chapVars
  <2>3. /\ Role(Head(toServer)) = "auth"
        /\ pendingChap # None /\ nt = pendingChap.ntResponse /\ nt.authChallenge = server.challenge
    BY <2>1, <2>2, LinkRoles DEF AuthInv, AuthToServer
  <2> DEFINE p == [proto |-> "Chap", code |-> "Success", id |-> 0, value |-> Vouching(nt)]
  <2>4. /\ server' = [server EXCEPT !.challenge = None, !.keys = MppeKeys(nt), !.bound = "no"]
        /\ toClient' = toClient \o <<p>>
    BY <1>3, <2>1, <2>3, SrvOnResponseEffect
  <2>5. /\ server'.challenge = None /\ server'.keys = MppeKeys(nt) /\ server'.bound = "no"
        /\ MppeKeys(nt) # None
    BY <1>t, <2>2, <2>4, OptionsAreDistinct DEF ServerType
  <2>6. p \in Packets
    <3>1. Vouching(nt) \in {Vouching(r) : r \in NtResponses}
      BY <2>2
    <3> QED
      BY <3>1, IdModulusAssumption DEF Packets, ChapFrames, ChapCodes, Id
  <2>7. Range(toClient') = Range(toClient) \cup {p}
    BY <1>t, <2>4, <2>6, SendOne
  <2>8. /\ OneToken(toServer', "auth", toClient', "auth")
        /\ Without(toServer', "auth") /\ Without(toClient, "auth")
    <3>1. AtMostOne(<<p>>, "auth") /\ <<p>> \in Seq(Packets)
      BY <2>6, FewPackets
    <3> QED
      BY <1>t, <2>2, <2>3, <2>4, <3>1, PassToken DEF AuthInv
  <2>9. phase' # "Ipcp"
    BY <2>2, <2>3 DEF AuthInv, NoAuthToken, NoToken, Without
  <2>10. AuthToClient(p)'
    BY <2>2, <2>3, <2>5 DEF AuthToClient
  <2>11. \A q \in Range(toClient') : AuthToClient(q)'
    <3>1. \A q \in Range(toClient) : AuthToClient(q)'
      BY <2>8, LinkRoles DEF Without, AuthToClient
    <3> HIDE DEF p
    <3> QED
      BY <2>7, <2>10, <3>1
  <2>12. \A q \in Range(toServer') : AuthToServer(q)'
    BY <2>8, LinkRoles DEF Without, AuthToServer
  <2>13. ~ServerIdle' /\ BindingAccepted' /\ server'.bound # "yes"
    BY <2>5 DEF ServerIdle, BindingAccepted
  <2> QED
    BY <2>8, <2>9, <2>11, <2>12, <2>13 DEF AuthInv
<1>4. CASE SrvSimple /\ ~SrvChallenge /\ ~SrvOnConnected
  <2>1. /\ Listens /\ UNCHANGED <<phase, mppeKeys, pendingChap>>
        /\ server'.bind = server.bind /\ server'.challenge = server.challenge
        /\ server'.keys = server.keys /\ server'.bound = server.bound
    BY <1>4, SrvSimpleEffect DEF EngineUntouched, engineVars, vars
  <2>2. \/ toClient' = toClient
        \/ \E p \in Packets : Role(p) # "auth" /\ toClient' = toClient \o <<p>>
    BY <1>4, SrvSimpleEffect DEF Volunteered
  <2> QED
    BY <2>1, <2>2, QuietServerAuth
<1>5. CASE ~SrvSimple /\ ~SrvOnResponse
  <2>1. /\ Listens /\ UNCHANGED <<phase, mppeKeys, pendingChap>>
        /\ server'.bind = server.bind /\ server'.challenge = server.challenge
        /\ server'.keys = server.keys /\ server'.bound = server.bound
    BY <1>5, ServerAnswers DEF chapVars
  <2>2. \E p \in Packets : Role(p) # "auth" /\ toClient' = toClient \o <<p>>
    BY <1>5, ServerAnswers, LinkRoles
  <2> QED
    BY <2>1, <2>2, QuietServerAuth
<1> QED
  BY <1>1, <1>2, <1>3, <1>4, <1>5

LEMMA NextAuth ==
  ASSUME IInv, ChannelsOK, OfferInv, AuthInv, [HandshakeNext]_allVars PROVE AuthInv'
<1>1. CASE UNCHANGED allVars
  BY <1>1 DEF allVars, engineVars, vars, AuthInv, AuthToClient, AuthToServer, NoAuthToken,
              ServerIdle, BindingAccepted, TunnelHeld
<1> QED
  BY <1>1, ClientAuth, ServerAuth, NextCases

LEMMA SpecAuth == HandshakeSpec => []AuthInv
BY SpecChannels, SpecOffer, InitAuth, NextAuth, PTL DEF HandshakeSpec

(* The server never has to refuse our CONNECTED: however often it           *)
(* authenticates us, both ends compute the crypto binding from the offer    *)
(* it began with and the keys it holds (engine.rs:324-334).                 *)
THEOREM HandshakeBindingAccepted == HandshakeSpec => []BindingAccepted
<1>1. AuthInv => BindingAccepted
  BY DEF AuthInv
<1> QED
  BY SpecAuth, <1>1, PTL

(* Admitted and established on the same keys, nonce and hash, from the      *)
(* server's acceptance to the next response it accepts.                     *)
THEOREM HandshakeKeyAgreement == HandshakeSpec => []KeyAgreement
<1>1. AuthInv /\ OfferInv => KeyAgreement
  BY DEF AuthInv, OfferInv, KeyAgreement, TunnelHeld
<1> QED
  BY SpecAuth, SpecOffer, <1>1, PTL

(***************************************************************************)
(* No failure.                                                             *)
(***************************************************************************)
LEMMA InitNoFailure == HandshakeInit => NoFailure
BY DEF HandshakeInit, Init, NoFailure, Alive

(* Every way to fail is closed: control messages by what the server says,   *)
(* LCP's by what it asks for, CHAP's by the token, IPCP's panic by what an   *)
(* engine in phase Ipcp holds.                                              *)
LEMMA ClientNoFailure ==
  ASSUME IInv, ChannelsOK, PeerAuthInv, PeerAuthInv', OfferInv, AuthInv, ClientStep
  PROVE  NoFailure'
<1>1. PICK p \in Packets : p \in Range(toClient) /\ OnPacket(p)
  BY ClientStepChannels, TailOfChannel DEF ClientStep, ChannelsOK
<1>t. TypeOK
  BY DEF IInv
<1> SUFFICES outcome' \notin {"disconnected", "fatal", "panic"}
  BY DEF NoFailure, Alive
<1>2. CASE OnCtrl(p)
  <2>1. p.code = "EchoRequest" \/ (p.code = "ConnectAck" /\ p.bind \in Bindings)
    BY <1>1, <1>2 DEF OnCtrl, OfferInv, Peaceful
  <2> QED
    BY <1>2, <2>1 DEF OnCtrl, OnConnectAck, OnCtrlFatal, OnDisconnect, OnCtrlIdle
<1>3. CASE HandleLcp(p)
  <2>1. ~(lcp'.remoteUp /\ lcp'.peerAuth = None)
    BY OptionsAreDistinct DEF PeerAuthInv
  <2> QED
    BY <1>3, <2>1, HandleLcpEffect
<1>4. CASE HandleChap(p)
  BY <1>1, <1>4, ChapIsExpected DEF ChapAnswers, ChapAdmits
<1>5. CASE HandleIpcp(p)
  <2>1. CASE IpcpOpens
    <3>1. phase = "Ipcp" /\ mppeKeys # None
      BY <2>1 DEF IpcpOpens, IInv, KeysAreVouched
    <3>2. hashAlgo = server.bind.algo /\ serverNonce = server.bind.nonce
      BY <3>1 DEF OfferInv
    <3>3. server.bind.algo \in HashAlgos /\ server.bind.nonce \in Nonces
      BY DEF ChannelsOK, ServerType, Bindings
    <3>4. Bindable
      BY <3>1, <3>2, <3>3, OptionsAreDistinct DEF Bindable
    <3> QED
      BY <2>1, <3>4 DEF IpcpOpens
  <2>2. CASE ~IpcpOpens
    BY <1>5, <2>2, HandleIpcpEffect
  <2> QED
    BY <2>1, <2>2
<1>6. CASE OnOtherData(p)
  BY <1>t, <1>6, OnOtherDataEffect
<1> QED
  BY <1>1, <1>2, <1>3, <1>4, <1>5, <1>6 DEF OnPacket

LEMMA NextNoFailure ==
  ASSUME IInv, ChannelsOK, PeerAuthInv, PeerAuthInv', OfferInv, AuthInv, NoFailure,
         [HandshakeNext]_allVars
  PROVE  NoFailure'
<1>1. CASE UNCHANGED allVars
  BY <1>1 DEF allVars, engineVars, vars, NoFailure, Alive
<1>2. CASE SrvNext
  <2>1. outcome' = outcome
    BY <1>2, SrvSimpleEffect, ServerAnswers DEF EngineUntouched, engineVars, vars
  <2> QED
    BY <2>1 DEF NoFailure, Alive
<1> QED
  BY <1>1, <1>2, ClientNoFailure, NextCases

(* The engine never ends a connection with a server that follows the        *)
(* protocol, neither with a fatal error nor with a panic, whatever choices  *)
(* the server makes and whatever it interleaves (engine.rs:51-53).          *)
THEOREM HandshakeNoFailure == HandshakeSpec => []NoFailure
BY SpecChannels, SpecPeerAuth, SpecOffer, SpecAuth, InitNoFailure, NextNoFailure, PTL DEF HandshakeSpec

(***************************************************************************)
(* The server of Handshake is one of the peers of Engine.                  *)
(***************************************************************************)
LEMMA HandshakeStepIsEngineStep ==
  ASSUME Packets \subseteq PeerPackets, ChannelsOK, NoFailure, [HandshakeNext]_allVars
  PROVE  [Next]_vars
<1>1. CASE UNCHANGED allVars
  BY <1>1 DEF allVars, engineVars
<1>2. CASE ClientStep
  <2>1. PICK p \in Packets : p \in Range(toClient) /\ OnPacket(p)
    BY <1>2, TailOfChannel DEF ClientStep, ChannelsOK
  <2>2. Sendable(p)
    BY <2>1 DEF ChannelsOK
  <2> QED
    BY <2>1, <2>2 DEF Next
<1>3. CASE SrvOnResponse
  <2>1. PICK nt : nt = Head(toServer).value
    OBVIOUS
  <2>2. /\ nt \in responses
        /\ UNCHANGED <<lcp, ipcp, toSend, phase, bindVars, chapVars, outcome, responses>>
        /\ vouched' = vouched \cup {nt} \/ vouched' = vouched
    BY <1>3, <2>1, SrvOnResponseEffect
  <2>3. CASE vouched' = vouched \cup {nt}
    BY <2>2, <2>3 DEF Next, Vouch, NoFailure
  <2>4. CASE vouched' = vouched
    BY <2>2, <2>4 DEF vars, bindVars, chapVars
  <2> QED
    BY <2>2, <2>3, <2>4
<1>4. CASE SrvNext /\ ~SrvOnResponse
  BY <1>4 DEF SrvNext, SrvSimple, SrvAccept, SrvLcpRequest, SrvOnLcpAnswer, SrvChallenge,
              SrvIpcpRequest, SrvOnIpcpAnswer, SrvOnConnected, SrvOnOther, SrvNoise,
              SrvOnLcpRequest, SrvOnIpcpRequest, EngineUntouched, engineVars
<1> QED
  BY <1>1, <1>2, <1>3, <1>4, NextCases

(* All that Engine promises against any peer (EngineProofs) it keeps here:  *)
(* what the server of Handshake does is a behaviour Engine allows its peer, *)
(* vouchers included (chap_fsm.rs:138-142).                                 *)
THEOREM HandshakeImplementsEngine ==
  ASSUME Packets \subseteq PeerPackets
  PROVE  HandshakeSpec => Spec
<1>1. HandshakeInit => Init
  BY DEF HandshakeInit
<1>2. ChannelsOK /\ NoFailure /\ [HandshakeNext]_allVars => [Next]_vars
  BY HandshakeStepIsEngineStep
<1> QED
  BY <1>1, <1>2, SpecChannels, HandshakeNoFailure, PTL DEF HandshakeSpec, Spec
===============================================================================
