------------------------------- MODULE Handshake ------------------------------
(***************************************************************************)
(* Engine talking to an SSTP/PPP server that follows the protocol, over    *)
(* two FIFO channels (TLS over TCP: nothing is lost or reordered, each     *)
(* direction runs ahead of the other as it likes).  The server is not part *)
(* of the repository: it does what the engine's code and tests expect of   *)
(* one, and where a real server has a choice so has this one.              *)
(***************************************************************************)
EXTENDS Engine

CONSTANTS
  ClientAddress,   \* what the server assigns to us
  DnsAddress,      \* the name servers it offers
  NoiseBudget,     \* bound: unsolicited packets the server sends
  Reauthentications \* bound: challenges the server issues after the first

ASSUME AssignedAddresses ==
  ClientAddress \in Addresses \ {Unspecified} /\ DnsAddress \in Addresses \ {Unspecified}

(* A server that refuses a magic number has another one to suggest. *)
ASSUME AnotherMagic == \A m \in Magics : \E other \in Magics : other # m

VARIABLES
  toServer,   \* packets in flight to the server; the first was CONNECT_REQUEST
  toClient,   \* packets in flight to the client
  server      \* the server

engineVars == vars
allVars == <<engineVars, toServer, toClient, server>>

NewServer ==
  [bind : Bindings,                                  \* what its CONNECT_ACK offers
   lcpRejects  : {{}, {"Pfc", "Acfc"}, {"MagicNumber", "Pfc", "Acfc"}},
   lcpNaks     : BOOLEAN,                            \* suggests another magic number once
   ipcpRejects : {{}, {"PrimaryDns", "SecondaryDns"}},
   extraOption : BOOLEAN,                            \* first asks for an option we lack
   lcpId : {0}, ipcpId : {0},                        \* identifier of its last request
   accepted : {FALSE}, requested : {FALSE},          \* CONNECT_ACK, first LCP request sent
   lcpAcked : {FALSE}, lcpWanted : {None},           \* client acked ours; what we acked
   ipcpAcked : {FALSE}, ipcpWanted : {None}, ipcpRequested : {FALSE},
   challenge : {None}, keys : {None},
   bound : {"no"},                                   \* to `keys`: "yes" or "refused" after CONNECTED
   noise : {0}, reauths : {0}]

HandshakeInit == /\ Init
                 /\ server \in NewServer
                 /\ toServer = <<[proto |-> "Ctrl", code |-> "ConnectRequest"]>>
                 /\ toClient = <<>>

-------------------------------------------------------------------------------
(* The client: run_inner feeds the next packet to the engine and writes     *)
(* what the engine returns, in order.                                       *)
ClientStep ==
  /\ toClient # <<>>
  /\ OnPacket(Head(toClient))
  /\ toClient' = Tail(toClient)
  /\ toServer' = toServer \o Emitted'
  /\ UNCHANGED server

-------------------------------------------------------------------------------
(* The server.  `Send` is what a step puts on the wire. *)

Send(ps) == toClient' = toClient \o ps
Receive(proto, code) ==
  /\ toServer # <<>>
  /\ Head(toServer).proto = proto /\ Head(toServer).code = code
  /\ toServer' = Tail(toServer)
EngineUntouched == UNCHANGED engineVars

LcpOffer(extra) ==
  [k \in {"AuthProtocol"} \cup (IF extra THEN {"Unknown"} ELSE {}) |->
     IF k = "AuthProtocol" THEN "MsChapV2" ELSE Malformed]

SrvAccept ==
  /\ Receive("Ctrl", "ConnectRequest")
  /\ server' = [server EXCEPT !.accepted = TRUE]
  /\ Send(<<[proto |-> "Ctrl", code |-> "ConnectAck", bind |-> server.bind]>>)
  /\ EngineUntouched

SrvLcpRequest ==
  /\ server.accepted /\ ~server.requested
  /\ server' = [server EXCEPT !.requested = TRUE]
  /\ Send(<<Frame("Lcp", "ConfigureRequest", 0, LcpOffer(server.extraOption))>>)
  /\ UNCHANGED toServer /\ EngineUntouched

SrvOnLcpRequest ==
  /\ Receive("Lcp", "ConfigureRequest")
  /\ LET f      == Head(toServer)
         reject == Restrict(f.opts, DOMAIN f.opts \cap server.lcpRejects)
         nak    == [k \in DOMAIN f.opts \cap {"MagicNumber"} |->
                      CHOOSE m \in Magics : m # f.opts["MagicNumber"]]
     IN  IF DOMAIN reject # {}
         THEN /\ Send(<<Frame("Lcp", "ConfigureReject", f.id, reject)>>)
              /\ UNCHANGED server
         ELSE IF server.lcpNaks /\ DOMAIN nak # {}
         THEN /\ Send(<<Frame("Lcp", "ConfigureNak", f.id, nak)>>)
              /\ server' = [server EXCEPT !.lcpNaks = FALSE]
         ELSE /\ Send(<<Frame("Lcp", "ConfigureAck", f.id, f.opts)>>)
              /\ server' = [server EXCEPT !.lcpWanted = f.opts]
  /\ EngineUntouched

SrvOnLcpAnswer ==
  /\ \/ /\ Receive("Lcp", "ConfigureAck")
        /\ server' = [server EXCEPT !.lcpAcked = TRUE] /\ Send(<<>>)
     \/ /\ Receive("Lcp", "ConfigureReject")
        /\ server' = [server EXCEPT !.lcpId = NextId(@)]
        /\ Send(<<Frame("Lcp", "ConfigureRequest", server'.lcpId, LcpOffer(FALSE))>>)
  /\ EngineUntouched

LcpOpen == server.lcpAcked /\ server.lcpWanted # None

(* Another authentication waits for the CONNECTED of the one before: the    *)
(* client computes CONNECTED from the keys it has when IPCP opens, and a    *)
(* server that has moved on to other keys by then would refuse it.          *)
SrvChallenge ==
  /\ LcpOpen /\ server.challenge = None
  /\ \/ server.keys = None
     \/ server.bound = "yes" /\ server.reauths < Reauthentications
  /\ \E c \in Challenges :
       /\ server' = [server EXCEPT !.challenge = c,
                                   !.reauths = IF server.keys = None THEN 0 ELSE @ + 1]
       /\ Send(<<[proto |-> "Chap", code |-> "Challenge", id |-> 0, value |-> c]>>)
  /\ UNCHANGED toServer /\ EngineUntouched

SrvOnResponse ==
  /\ Receive("Chap", "Response")
  /\ LET nt == Head(toServer).value
     IN  IF nt.authChallenge = server.challenge
         THEN /\ server' = [server EXCEPT !.challenge = None, !.keys = MppeKeys(nt),
                                           !.bound = "no"]
              /\ vouched' = vouched \cup {nt}
              /\ Send(<<[proto |-> "Chap", code |-> "Success", id |-> 0, value |-> Vouching(nt)]>>)
         ELSE /\ Send(<<[proto |-> "Chap", code |-> "Failure", id |-> 0, value |-> Malformed]>>)
              /\ UNCHANGED <<server, vouched>>
  /\ UNCHANGED <<lcp, ipcp, toSend, phase, bindVars, chapVars, outcome, responses>>

SrvIpcpRequest ==
  /\ server.keys # None /\ ~server.ipcpRequested
  /\ server' = [server EXCEPT !.ipcpRequested = TRUE]
  /\ Send(<<Frame("Ipcp", "ConfigureRequest", 0, [k \in {"IpAddress"} |-> DnsAddress])>>)
  /\ UNCHANGED toServer /\ EngineUntouched

Assigned(kind) == IF kind = "IpAddress" THEN ClientAddress ELSE DnsAddress

SrvOnIpcpRequest ==
  /\ Receive("Ipcp", "ConfigureRequest")
  /\ LET f      == Head(toServer)
         reject == Restrict(f.opts, DOMAIN f.opts \cap server.ipcpRejects)
         nak    == [k \in {k \in DOMAIN f.opts : f.opts[k] # Assigned(k)} |-> Assigned(k)]
     IN  /\ Send(<<Answer("Ipcp", f, reject, nak)>>)
         /\ server' = IF DOMAIN reject \cup DOMAIN nak = {}
                      THEN [server EXCEPT !.ipcpWanted = f.opts] ELSE server
  /\ EngineUntouched

SrvOnIpcpAnswer ==
  /\ Receive("Ipcp", "ConfigureAck")
  /\ server' = [server EXCEPT !.ipcpAcked = TRUE] /\ Send(<<>>)
  /\ EngineUntouched

(* The server admits the tunnel only if CONNECTED is computed from its own  *)
(* nonce, the hash it offered and the keys of the response it accepted.     *)
SrvOnConnected ==
  /\ Receive("Ctrl", "Connected")
  /\ LET b == Head(toServer).bind
     IN  server' = [server EXCEPT !.bound =
                      IF b = [algo |-> server.bind.algo, nonce |-> server.bind.nonce,
                              keys |-> server.keys]
                      THEN "yes" ELSE "refused"]
  /\ Send(<<>>)
  /\ EngineUntouched

(* Anything else the client may say needs no answer. *)
SrvOnOther ==
  /\ \/ Receive("Lcp", "ProtocolReject")
     \/ Receive("Lcp", "EchoReply")
     \/ Receive("Ctrl", "EchoReply")
  /\ UNCHANGED server /\ Send(<<>>) /\ EngineUntouched

(* Unsolicited: a protocol we do not speak, keepalives of both layers, a    *)
(* second CONNECT_ACK with another binding, data ahead of time.             *)
SrvNoise ==
  /\ server.accepted /\ server.noise < NoiseBudget
  /\ server' = [server EXCEPT !.noise = @ + 1]
  /\ \E p \in {[proto |-> "Unknown"], [proto |-> "Ip"],
               [proto |-> "Ctrl", code |-> "EchoRequest", bind |-> None],
               Frame("Lcp", "EchoRequest", 0, NoOptions)}
            \cup {[proto |-> "Ctrl", code |-> "ConnectAck", bind |-> b] : b \in Bindings} :
       Send(<<p>>)
  /\ UNCHANGED toServer /\ EngineUntouched

SrvReceive == \/ SrvAccept \/ SrvOnLcpRequest \/ SrvOnLcpAnswer \/ SrvOnResponse
              \/ SrvOnIpcpRequest \/ SrvOnIpcpAnswer \/ SrvOnConnected \/ SrvOnOther

HandshakeNext == \/ ClientStep
                 \/ SrvReceive
                 \/ SrvLcpRequest \/ SrvChallenge \/ SrvIpcpRequest
                 \/ SrvNoise

(* The client reads while there is something to read; a server that follows *)
(* the protocol answers and makes its own requests.  Noise owes nothing.    *)
HandshakeFairness == /\ WF_allVars(ClientStep)
                     /\ WF_allVars(SrvReceive)
                     /\ WF_allVars(SrvLcpRequest)
                     /\ WF_allVars(SrvChallenge)
                     /\ WF_allVars(SrvIpcpRequest)

HandshakeSpec == HandshakeInit /\ [][HandshakeNext]_allVars /\ HandshakeFairness

-------------------------------------------------------------------------------
(* Both ends compute the same crypto binding (engine.rs:324-334): a server  *)
(* never has to refuse CONNECTED, whatever it interleaved.                  *)
BindingAccepted == server.bound # "refused"

(* A tunnel the server has admitted is one the client holds established, on *)
(* the keys the server holds and the offer it began with; another           *)
(* authentication takes neither end out of it before both have new keys to  *)
(* agree on (engine.rs:284-299, 324-336).                                   *)
KeyAgreement ==
  server.bound = "yes" =>
    /\ phase = "Established" /\ mppeKeys = server.keys
    /\ hashAlgo = server.bind.algo /\ serverNonce = server.bind.nonce

(* The link options we believe acknowledged are the ones the server has     *)
(* acknowledged, whenever we believe it (lcp.rs:124-128).                   *)
LinkAgreement == lcp.localUp => server.lcpWanted = lcp.desired

(* The addresses the interface gets are those the server assigned, and a    *)
(* name server it refused is not configured (ipcp.rs:31-41).                *)
AddressAgreement ==
  phase = "Established" =>
    /\ ipcp.localIp = ClientAddress
    /\ ipcp.peerIp = DnsAddress
    /\ ipcp.dns1 = IF "PrimaryDns" \in server.ipcpRejects THEN None ELSE DnsAddress
    /\ ipcp.dns2 = IF "SecondaryDns" \in server.ipcpRejects THEN None ELSE DnsAddress

(* A server that follows the protocol is never met with a fatal error or a  *)
(* panic (engine.rs:51-53).                                                 *)
NoFailure == Alive

(* Against a server that follows the protocol the handshake completes, with *)
(* no timer to help it (lcp.rs:3-8).                                        *)
HandshakeCompletes == <>(phase = "Established" /\ server.bound = "yes")
===============================================================================
